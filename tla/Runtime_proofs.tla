--------------------------- MODULE Runtime_proofs ---------------------------
(*****************************************************************************)
(* Proofs about the parts every process runs beside its work: the security   *)
(* middleware, the database pool, the push to browsers, the cached           *)
(* credentials and the template resolution of a channel worker. They hold    *)
(* for any number of processes, callers and sockets.                         *)
(*****************************************************************************)
EXTENDS Gateway, DbPool, LivePush, Credentials, TemplateResolution, FiniteSetTheorems, SequenceTheorems, TLAPS

-----------------------------------------------------------------------------
(* Gateway: the points still owed to the score, as a set that can be counted *)

ThreatType ==
  {t \in [pc : {"none", "incr", "expire", "add", "judge"}, kind : Kinds, judge : BOOLEAN, lent : BOOLEAN] :
     t.lent => t.pc \in {"expire", "add"} /\ Points[t.kind] = 0}

Owes(t) ==
  IF t.pc = "incr" THEN Points[t.kind]
  ELSE IF t.pc \in {"expire", "add"} /\ Points[t.kind] > 0 THEN Points[t.kind] - 1
  ELSE 0

Owed(f) == {y \in Records \X Nat : y[2] \in 1 .. Owes(f[y[1]])}
OwedByOthers(f, x) == {y \in Owed(f) : y[1] # x}

\* The records of 0 points whose INCR has yet to be taken back.
Lends(t) == IF t.lent THEN 1 ELSE 0
Lending(f) == {x \in Records : f[x].lent}

LEMMA OwesPoints ==
  ASSUME NEW t \in ThreatType
  PROVE  Owes(t) \in Nat
<1>1. Points[t.kind] \in Nat
  BY GatewayAssumption DEF ThreatType
<1>2. QED
  BY <1>1 DEF Owes

LEMMA OwedByOne ==
  ASSUME NEW x, NEW k \in Nat
  PROVE  IsFiniteSet({x} \X (1 .. k)) /\ Cardinality({x} \X (1 .. k)) = k
<1>1. IsFiniteSet(1 .. k) /\ Cardinality(1 .. k) = k
  BY FS_Interval
<1>2. IsFiniteSet({x}) /\ Cardinality({x}) = 1
  BY FS_Singleton
<1>3. IsFiniteSet({x} \X (1 .. k))
  BY <1>1, <1>2, FS_Product
<1>4. Cardinality({x} \X (1 .. k)) = 1 * k
  BY <1>1, <1>2, FS_Product
<1>5. 1 * k = k
  OBVIOUS
<1>6. QED
  BY <1>3, <1>4, <1>5

LEMMA DisjointUnion ==
  ASSUME NEW A, IsFiniteSet(A), NEW B, IsFiniteSet(B), A \cap B = {}
  PROVE  IsFiniteSet(A \cup B) /\ Cardinality(A \cup B) = Cardinality(A) + Cardinality(B)
<1>1. PICK a \in Nat, b \in Nat : a = Cardinality(A) /\ b = Cardinality(B)
  BY FS_CardinalityType
<1>2. PICK both \in Nat : both = Cardinality(A \cup B)
  BY FS_Union, FS_CardinalityType
<1>3. Cardinality(A \cap B) = 0
  BY FS_EmptySet
<1>4. both = a + b - 0
  BY <1>1, <1>2, <1>3, FS_Union
<1>5. both = a + b
  BY <1>4
<1>6. IsFiniteSet(A \cup B)
  BY FS_Union
<1>7. QED
  BY <1>1, <1>2, <1>5, <1>6

LEMMA OwedSplits ==
  ASSUME NEW f, NEW x \in Records, Owes(f[x]) \in Nat
  PROVE  /\ Owed(f) = OwedByOthers(f, x) \cup ({x} \X (1 .. Owes(f[x])))
         /\ OwedByOthers(f, x) \cap ({x} \X (1 .. Owes(f[x]))) = {}
<1>1. PICK k \in Nat : k = Owes(f[x])
  OBVIOUS
<1>2. ASSUME NEW y \in {x} \X (1 .. k) PROVE y \in Owed(f)
  BY <1>1 DEF Owed
<1>3. ASSUME NEW y \in Owed(f), y[1] = x PROVE y \in {x} \X (1 .. k)
  BY <1>1, <1>3 DEF Owed
<1>4. QED
  BY <1>1, <1>2, <1>3 DEF OwedByOthers

\* The points change by what the one record owes more or less.
LEMMA OwedByChanged ==
  ASSUME NEW f \in [Records -> ThreatType], IsFiniteSet(Owed(f)),
         NEW x \in Records, NEW t \in ThreatType
  PROVE  LET g == [f EXCEPT ![x] = t]
         IN  /\ IsFiniteSet(Owed(g))
             /\ Cardinality(Owed(f)) \in Nat
             /\ Cardinality(Owed(g)) = Cardinality(Owed(f)) + Owes(t) - Owes(f[x])
<1>1. PICK g : g = [f EXCEPT ![x] = t]
  OBVIOUS
<1>2. Owes(f[x]) \in Nat /\ Owes(t) \in Nat /\ g[x] = t
  BY <1>1, OwesPoints
<1>3. OwedByOthers(g, x) = OwedByOthers(f, x)
  BY <1>1 DEF OwedByOthers, Owed
<1>4. PICK others : others = OwedByOthers(f, x)
  OBVIOUS
<1>5. IsFiniteSet(others)
  <2>1. others \in SUBSET Owed(f)
    BY <1>4 DEF OwedByOthers
  <2>2. QED
    BY <2>1, FS_Subset
<1>6. PICK mine, now : mine = {x} \X (1 .. Owes(f[x])) /\ now = {x} \X (1 .. Owes(t))
  OBVIOUS
<1>7. /\ IsFiniteSet(mine) /\ Cardinality(mine) = Owes(f[x])
      /\ IsFiniteSet(now) /\ Cardinality(now) = Owes(t)
  BY <1>2, <1>6, OwedByOne
<1>8. Owed(f) = others \cup mine /\ others \cap mine = {}
  BY <1>2, <1>4, <1>6, OwedSplits
<1>9. Owed(g) = others \cup now /\ others \cap now = {}
  BY <1>2, <1>3, <1>4, <1>6, OwedSplits
<1>10. Cardinality(Owed(f)) = Cardinality(others) + Owes(f[x])
  BY <1>5, <1>7, <1>8, DisjointUnion
<1>11. IsFiniteSet(Owed(g)) /\ Cardinality(Owed(g)) = Cardinality(others) + Owes(t)
  BY <1>5, <1>7, <1>9, DisjointUnion
<1>12. Cardinality(others) \in Nat
  BY <1>5, FS_CardinalityType
<1>13. QED
  BY <1>1, <1>2, <1>10, <1>11, <1>12

LEMMA RecordsAreFinite ==
  ASSUME NEW S, S \in SUBSET Records
  PROVE  IsFiniteSet(S) /\ Cardinality(S) \in Nat
<1>1. IsFiniteSet({"beside"}) /\ {"beside", "within"} = {"beside"} \cup {"within"}
  BY FS_Singleton
<1>2. IsFiniteSet({"beside", "within"})
  BY <1>1, FS_AddElement
<1>3. IsFiniteSet(Records)
  BY <1>2, GatewayAssumption, FS_Product DEF Records
<1>4. IsFiniteSet(S)
  BY <1>3, FS_Subset
<1>5. QED
  BY <1>4, FS_CardinalityType

\* The records that lend change by the one.
LEMMA LendingChanged ==
  ASSUME NEW f \in [Records -> ThreatType], NEW x \in Records, NEW t \in ThreatType
  PROVE  LET g == [f EXCEPT ![x] = t]
         IN  /\ Cardinality(Lending(f)) \in Nat
             /\ Cardinality(Lending(g)) = Cardinality(Lending(f)) + Lends(t) - Lends(f[x])
<1>1. PICK g : g = [f EXCEPT ![x] = t]
  OBVIOUS
<1>2. PICK old, new : old = Lending(f) /\ new = Lending(g)
  OBVIOUS
<1>3. /\ IsFiniteSet(old) /\ Cardinality(old) \in Nat
      /\ IsFiniteSet(new) /\ Cardinality(new) \in Nat
  <2>1. old \in SUBSET Records /\ new \in SUBSET Records
    BY <1>2 DEF Lending
  <2>2. QED
    BY <2>1, RecordsAreFinite
<1>4. /\ x \in old <=> f[x].lent
      /\ x \in new <=> t.lent
      /\ \A y : y # x => (y \in new <=> y \in old)
  BY <1>1, <1>2 DEF Lending
<1>5. CASE x \in old /\ x \in new
  <2>1. new = old
    BY <1>4, <1>5
  <2>2. QED
    BY <1>1, <1>2, <1>3, <1>4, <1>5, <2>1 DEF Lends
<1>6. CASE x \notin old /\ x \notin new
  <2>1. new = old
    BY <1>4, <1>6
  <2>2. QED
    BY <1>1, <1>2, <1>3, <1>4, <1>6, <2>1 DEF Lends
<1>7. CASE x \notin old /\ x \in new
  <2>1. new = old \cup {x}
    BY <1>4, <1>7
  <2>2. Cardinality(new) = Cardinality(old) + 1
    BY <1>3, <1>7, <2>1, FS_AddElement
  <2>3. QED
    BY <1>1, <1>2, <1>3, <1>4, <1>7, <2>2 DEF Lends
<1>8. CASE x \in old /\ x \notin new
  <2>1. new = old \ {x}
    BY <1>4, <1>8
  <2>2. Cardinality(new) = Cardinality(old) - 1
    BY <1>3, <1>8, <2>1, FS_RemoveElement
  <2>3. QED
    BY <1>1, <1>2, <1>3, <1>4, <1>8, <2>2 DEF Lends
<1>9. QED
  BY <1>5, <1>6, <1>7, <1>8

-----------------------------------------------------------------------------
(* The score *)

\* The score and what is still owed to it never exceed the points of the records
\* and the points lent.  A score that expires may have been negative, so what is
\* owed alone is bounded too, and no more records lend than points are lent.
ScoreOK ==
  /\ threat \in [Records -> ThreatType]
  /\ score \in Counter
  /\ recorded \in Nat /\ lent \in Int
  /\ IsFiniteSet(Owed(threat))
  /\ score.n + Cardinality(Owed(threat)) <= recorded + lent
  /\ Cardinality(Owed(threat)) <= recorded
  /\ Cardinality(Lending(threat)) <= lent

LEMMA ScoreStep ==
  ASSUME ScoreOK, NEW x \in Records, NEW t \in ThreatType, NEW s \in Counter,
         NEW more \in Nat, NEW loan \in Int,
         s.n + Owes(t) <= score.n + Owes(threat[x]) + more + loan,
         Owes(t) <= Owes(threat[x]) + more,
         Lends(t) <= Lends(threat[x]) + loan,
         NEW sum, sum = recorded + more, NEW loans, loans = lent + loan,
         threat' = [threat EXCEPT ![x] = t], score' = s, recorded' = sum, lent' = loans
  PROVE  ScoreOK'
<1>1. PICK f \in [Records -> ThreatType] : f = threat
  BY DEF ScoreOK
<1>2. PICK g : g = [f EXCEPT ![x] = t]
  OBVIOUS
<1>3. g \in [Records -> ThreatType] /\ threat' = g
  BY <1>1, <1>2
<1>4. /\ IsFiniteSet(Owed(g)) /\ Cardinality(Owed(f)) \in Nat
      /\ Cardinality(Owed(g)) = Cardinality(Owed(f)) + Owes(t) - Owes(f[x])
  BY <1>1, <1>2, OwedByChanged DEF ScoreOK
<1>5. /\ Cardinality(Lending(f)) \in Nat
      /\ Cardinality(Lending(g)) = Cardinality(Lending(f)) + Lends(t) - Lends(f[x])
  BY <1>1, <1>2, LendingChanged
<1>6. Owes(t) \in Nat /\ Owes(f[x]) \in Nat /\ Lends(t) \in Nat /\ Lends(f[x]) \in Nat
  BY OwesPoints DEF Lends
<1>7. PICK before \in Int, after \in Int : before = score.n /\ after = s.n
  BY DEF ScoreOK, Counter
<1>8. PICK points \in Nat, owing \in Int : points = recorded /\ owing = lent
  BY DEF ScoreOK
<1>9. /\ before + Cardinality(Owed(f)) <= points + owing
      /\ Cardinality(Owed(f)) <= points /\ Cardinality(Lending(f)) <= owing
  BY <1>1, <1>7, <1>8 DEF ScoreOK
<1>10. after + Owes(t) <= before + Owes(f[x]) + more + loan
  BY <1>1, <1>7
<1>11. Owes(t) <= Owes(f[x]) + more /\ Lends(t) <= Lends(f[x]) + loan
  BY <1>1
<1>12. sum \in Nat /\ loans \in Int /\ after + Cardinality(Owed(g)) <= sum + loans
  BY <1>4, <1>6, <1>8, <1>9, <1>10
<1>13. Cardinality(Owed(g)) <= sum
  BY <1>4, <1>6, <1>8, <1>9, <1>11
<1>14. Cardinality(Lending(g)) <= loans
  BY <1>5, <1>6, <1>8, <1>9, <1>11
<1>15. QED
  BY <1>3, <1>4, <1>7, <1>12, <1>13, <1>14 DEF ScoreOK

LEMMA RecordKeeps ==
  ASSUME ScoreOK, NEW x \in Records, NEW kind \in Kinds, NEW judge \in BOOLEAN,
         Record(x, kind, judge), score' = score, lent' = lent
  PROVE  ScoreOK'
<1>1. PICK t \in ThreatType : t = [pc |-> "incr", kind |-> kind, judge |-> judge, lent |-> FALSE]
  BY DEF ThreatType
<1>2. PICK points \in Nat : points = Points[kind]
  BY GatewayAssumption
<1>3. Owes(t) = points /\ Lends(t) = 0
  BY <1>1, <1>2 DEF Owes, Lends
<1>4. PICK before \in Int, owing \in Int, loan \in Int : before = score.n /\ owing = lent /\ loan = 0
  BY DEF ScoreOK, Counter
<1>5. PICK owed \in Nat, lends \in Nat : owed = Owes(threat[x]) /\ lends = Lends(threat[x])
  BY OwesPoints DEF ScoreOK, Lends
<1>6. /\ score.n + Owes(t) <= score.n + Owes(threat[x]) + points + loan
      /\ Owes(t) <= Owes(threat[x]) + points
      /\ Lends(t) <= Lends(threat[x]) + loan
  BY <1>3, <1>4, <1>5
<1>7. score \in Counter
  BY DEF ScoreOK
<1>8. PICK sum : sum = recorded + points
  OBVIOUS
<1>9. threat' = [threat EXCEPT ![x] = t] /\ recorded' = sum
  BY <1>1, <1>2, <1>8 DEF Record
<1>10. owing = lent + loan /\ lent' = owing
  BY <1>4
<1>11. QED
  BY <1>6, <1>7, <1>8, <1>9, <1>10, ScoreStep

\* A record takes a step that writes the score, or gives up.
LEMMA OneRecordKeeps ==
  ASSUME ScoreOK, NEW x \in Records, NEW t \in ThreatType, NEW s \in Counter, NEW loan \in Int,
         s.n + Owes(t) <= score.n + Owes(threat[x]) + loan,
         Owes(t) <= Owes(threat[x]),
         Lends(t) <= Lends(threat[x]) + loan,
         NEW loans, loans = lent + loan,
         threat' = [threat EXCEPT ![x] = t], score' = s, recorded' = recorded, lent' = loans
  PROVE  ScoreOK'
<1>1. PICK points \in Nat : points = recorded
  BY DEF ScoreOK
<1>2. points = recorded + 0
  BY <1>1
<1>3. PICK before \in Int, after \in Int, owed \in Nat, owes \in Nat :
        before = score.n /\ after = s.n /\ owed = Owes(threat[x]) /\ owes = Owes(t)
  BY OwesPoints DEF ScoreOK, Counter
<1>4. s.n + Owes(t) <= score.n + Owes(threat[x]) + 0 + loan /\ Owes(t) <= Owes(threat[x]) + 0
  BY <1>3
<1>5. QED
  BY <1>1, <1>2, <1>4, ScoreStep

LEMMA IncrScoreKeeps ==
  ASSUME ScoreOK, NEW x \in Records, IncrScore(x) PROVE ScoreOK'
<1>1. PICK t \in ThreatType : t = threat[x] /\ t.pc = "incr"
  BY DEF ScoreOK, IncrScore
<1>2. PICK before \in Int : before = score.n
  BY DEF ScoreOK, Counter
<1>3. PICK s : s = Add(score, 1)
  OBVIOUS
<1>4. s \in Counter /\ s.n = before + 1
  BY <1>2, <1>3 DEF ScoreOK, Counter, Add
<1>5. PICK pc \in {"expire", "add"} : pc = IF score.key = "timed" THEN "add" ELSE "expire"
  OBVIOUS
<1>6. PICK points \in Nat : points = Points[t.kind]
  BY GatewayAssumption DEF ThreatType
<1>7. PICK lends \in BOOLEAN : lends = (points = 0)
  OBVIOUS
<1>8. PICK u : u = [t EXCEPT !.pc = pc, !.lent = lends]
  OBVIOUS
<1>9. u \in ThreatType /\ u.pc = pc /\ u.kind = t.kind /\ u.lent = lends
  BY <1>6, <1>7, <1>8 DEF ThreatType
<1>10. PICK loan \in Int : loan = IF points = 0 THEN 1 ELSE 0
  OBVIOUS
<1>11. Owes(t) = points /\ Lends(t) = 0
  BY <1>1, <1>6 DEF Owes, Lends, ThreatType
<1>12. Owes(u) = (IF points > 0 THEN points - 1 ELSE 0)
  BY <1>5, <1>6, <1>9 DEF Owes
<1>13. Lends(u) = loan
  <2>1. u.lent <=> points = 0
    BY <1>7, <1>9, Zenon
  <2>2. QED
    BY <1>10, <2>1 DEF Lends
<1>14. /\ s.n + Owes(u) <= score.n + Owes(threat[x]) + loan
       /\ Owes(u) <= Owes(threat[x]) /\ Lends(u) <= Lends(threat[x]) + loan
  <2>1. PICK v \in Nat : v = IF points > 0 THEN points - 1 ELSE 0
    OBVIOUS
  <2>2. (before + 1) + v <= before + points + loan /\ v <= points
    BY <1>10, <2>1
  <2>3. QED
    BY <1>1, <1>2, <1>4, <1>11, <1>12, <1>13, <2>1, <2>2
<1>15. PICK owing \in Int : owing = lent
  BY DEF ScoreOK
<1>16. PICK loans : loans = lent + loan /\ lent' = loans
  <2>1. lent' = IF points = 0 THEN lent + 1 ELSE lent
    BY <1>1, <1>6 DEF IncrScore
  <2>2. lent' = lent + loan
    BY <1>10, <1>15, <2>1
  <2>3. QED
    BY <2>2
<1>17. threat' = [threat EXCEPT ![x] = u] /\ score' = s /\ recorded' = recorded
  BY <1>1, <1>3, <1>5, <1>6, <1>7, <1>8 DEF ScoreOK, IncrScore
<1>18. QED
  BY <1>4, <1>9, <1>14, <1>16, <1>17, OneRecordKeeps

LEMMA TimedIsCounter ==
  ASSUME NEW c \in Counter
  PROVE  Timed(c) \in Counter /\ Timed(c).n = c.n
<1>1. QED
  BY DEF Counter, Timed

LEMMA GoesOnToAdd ==
  ASSUME NEW t \in ThreatType, t.pc \in {"incr", "expire"}
  PROVE  \A u : u = [t EXCEPT !.pc = "add"] => u \in ThreatType /\ Owes(u) <= Owes(t) /\ Lends(u) = Lends(t)
<1> SUFFICES ASSUME NEW u, u = [t EXCEPT !.pc = "add"]
             PROVE  u \in ThreatType /\ Owes(u) <= Owes(t) /\ Lends(u) = Lends(t)
  OBVIOUS
<1>1. u \in ThreatType /\ u.pc = "add" /\ u.kind = t.kind /\ u.lent = t.lent
  BY DEF ThreatType
<1>2. PICK points \in Nat : points = Points[t.kind]
  BY GatewayAssumption DEF ThreatType
<1>3. PICK rest \in Nat : rest = IF points > 0 THEN points - 1 ELSE 0
  BY <1>2
<1>4. Owes(u) = rest /\ Owes(t) \in {points, rest}
  BY <1>1, <1>2, <1>3 DEF Owes
<1>5. QED
  BY <1>1, <1>2, <1>3, <1>4 DEF Lends

LEMMA TimeScoreKeeps ==
  ASSUME ScoreOK, NEW x \in Records, TimeScore(x) \/ IncrFails(x) PROVE ScoreOK'
<1>1. PICK t \in ThreatType : t = threat[x] /\ t.pc \in {"incr", "expire"}
  BY DEF ScoreOK, TimeScore, IncrFails
<1>2. PICK u : u = [t EXCEPT !.pc = "add"]
  OBVIOUS
<1>3. u \in ThreatType /\ Owes(u) <= Owes(t) /\ Lends(u) = Lends(t)
  BY <1>1, <1>2, GoesOnToAdd
<1>4. PICK s : s = IF TimeScore(x) THEN Timed(score) ELSE score
  OBVIOUS
<1>5. s \in Counter /\ s.n = score.n /\ score.n \in Int
  BY <1>4, TimedIsCounter DEF ScoreOK, Counter
<1>6. Owes(u) \in Nat /\ Owes(t) \in Nat /\ Lends(u) \in Nat
  BY <1>3, OwesPoints DEF Lends
<1>7. PICK owing \in Int, loan \in Int : owing = lent /\ loan = 0
  BY DEF ScoreOK
<1>8. /\ s.n + Owes(u) <= score.n + Owes(threat[x]) + loan
      /\ Owes(u) <= Owes(threat[x]) /\ Lends(u) <= Lends(threat[x]) + loan
  BY <1>1, <1>3, <1>5, <1>6, <1>7
<1>9. threat' = [threat EXCEPT ![x] = u] /\ score' = s /\ recorded' = recorded /\ lent' = lent
  BY <1>1, <1>2, <1>4 DEF ScoreOK, TimeScore, IncrFails, store, ghosts
<1>10. owing = lent + loan /\ lent' = owing
  BY <1>7, <1>9
<1>11. QED
  BY <1>3, <1>5, <1>8, <1>9, <1>10, OneRecordKeeps

LEMMA AddScoreKeeps ==
  ASSUME ScoreOK, NEW x \in Records, AddScore(x) PROVE ScoreOK'
<1>1. PICK t \in ThreatType : t = threat[x] /\ t.pc = "add"
  BY DEF ScoreOK, AddScore
<1>2. PICK points \in Nat : points = Points[t.kind] /\ (t.lent => points = 0)
  BY GatewayAssumption DEF ThreatType
<1>3. PICK before \in Int : before = score.n
  BY DEF ScoreOK, Counter
<1>4. PICK s : s = Add(score, Added(t.kind))
  OBVIOUS
<1>5. s \in Counter /\ s.n = before + (points - 1)
  BY <1>2, <1>3, <1>4 DEF ScoreOK, Counter, Add, Added
<1>6. PICK u : u = IF t.judge THEN [t EXCEPT !.pc = "judge", !.lent = FALSE] ELSE Quiet
  OBVIOUS
<1>7. u \in ThreatType /\ u.pc \in {"judge", "none"} /\ ~u.lent
  BY <1>6 DEF ThreatType, Quiet, Kinds
<1>8. PICK loan \in Int : loan = IF t.lent THEN -1 ELSE 0
  OBVIOUS
<1>9. Owes(t) = (IF points > 0 THEN points - 1 ELSE 0) /\ Owes(u) = 0
  BY <1>1, <1>2, <1>7 DEF Owes
<1>10. Lends(u) = 0 /\ Lends(t) + loan = 0
  BY <1>7, <1>8 DEF Lends
<1>11. /\ s.n + Owes(u) <= score.n + Owes(threat[x]) + loan
       /\ Owes(u) <= Owes(threat[x]) /\ Lends(u) <= Lends(threat[x]) + loan
  BY <1>1, <1>2, <1>3, <1>5, <1>8, <1>9, <1>10
<1>12. PICK owing \in Int : owing = lent
  BY DEF ScoreOK
<1>13. PICK loans : loans = lent + loan
  OBVIOUS
<1>14. lent' = loans
  BY <1>1, <1>8, <1>12, <1>13 DEF AddScore
<1>15. threat' = [threat EXCEPT ![x] = u] /\ score' = s /\ recorded' = recorded
  BY <1>1, <1>4, <1>6 DEF ScoreOK, AddScore
<1>16. QED
  BY <1>5, <1>7, <1>11, <1>13, <1>14, <1>15, OneRecordKeeps

LEMMA GivesUpKeeps ==
  ASSUME ScoreOK, NEW x \in Records, threat' = [threat EXCEPT ![x] = Quiet],
         score' = score, recorded' = recorded, lent' = lent
  PROVE  ScoreOK'
<1>1. Quiet \in ThreatType /\ Owes(Quiet) = 0 /\ Lends(Quiet) = 0
  BY DEF Quiet, ThreatType, Kinds, Owes, Lends
<1>2. PICK before \in Int, owing \in Int, owed \in Nat, lends \in Nat :
        before = score.n /\ owing = lent /\ owed = Owes(threat[x]) /\ lends = Lends(threat[x])
  BY OwesPoints DEF ScoreOK, Counter, Lends
<1>3. PICK loan \in Int : loan = 0
  OBVIOUS
<1>4. /\ score.n + Owes(Quiet) <= score.n + Owes(threat[x]) + loan
      /\ Owes(Quiet) <= Owes(threat[x]) /\ Lends(Quiet) <= Lends(threat[x]) + loan
  BY <1>1, <1>2, <1>3
<1>5. score \in Counter /\ owing = lent + loan /\ lent' = owing
  BY <1>2, <1>3 DEF ScoreOK
<1>6. QED
  BY <1>1, <1>4, <1>5, OneRecordKeeps

\* What the filter saw is one of the kinds of threat, or nothing.
ReqFlags == \A r \in Requests : req[r].flag \in Flags

LEMMA ScoreKept == ScoreOK /\ ReqFlags /\ [GatewayNext]_gatewayVars => ScoreOK'
<1> SUFFICES ASSUME ScoreOK, ReqFlags, [GatewayNext]_gatewayVars PROVE ScoreOK'
  OBVIOUS
<1>1. ASSUME UNCHANGED <<threat, score, recorded, lent>> PROVE ScoreOK'
  BY <1>1 DEF ScoreOK
<1>2. ASSUME NEW r \in Requests, NEW c \in Clients, Arrive(r, c) PROVE ScoreOK'
  BY <1>1, <1>2 DEF Arrive, store, ghosts
<1>3. ASSUME NEW r \in Requests,
             \/ CheckAccess(r) \/ Limit(r) \/ CheckCooldown(r) \/ CheckKey(r) \/ KeyLookupFails(r)
             \/ Clear(r) \/ Handle(r) \/ CommandFails(r)
      PROVE  ScoreOK'
  BY <1>1, <1>3 DEF CheckAccess, Limit, CountHit, TimeHit, Judge, LimiterFails, CheckCooldown,
     CheckKey, KeyLookupFails, Clear, Handle, CommandFails, store, ghosts
<1>4. ASSUME NEW r \in Requests, Filter(r) PROVE ScoreOK'
  <2>1. <<r, "beside">> \in Records
    BY DEF Records
  <2>2. CASE req[r].flag = "clean"
    BY <1>1, <1>4, <2>2 DEF Filter, Unrecorded, store
  <2>3. CASE req[r].flag # "clean"
    <3>1. PICK kind \in Kinds : kind = req[r].flag
      BY <2>3 DEF ReqFlags, Flags, Kinds
    <3>2. Record(<<r, "beside">>, kind, TRUE) /\ score' = score /\ lent' = lent
      BY <1>4, <2>3, <3>1 DEF Filter, store
    <3>3. QED
      BY <2>1, <3>2, RecordKeeps
  <2>4. QED
    BY <2>2, <2>3
<1>5. ASSUME NEW r \in Requests, Fail(r) PROVE ScoreOK'
  <2>1. <<r, "within">> \in Records
    BY DEF Records
  <2>2. CASE CountFailure(r) \/ TimeFailure(r) \/ CountFails(r) \/ ApplyCooldown(r) \/ BanForFailures(r)
    BY <1>1, <2>2 DEF CountFailure, TimeFailure, CountFails, ApplyCooldown, BanForFailures, store, ghosts
  <2>3. CASE TryKey(r)
    <3>1. Record(<<r, "within">>, "failed_auth", FALSE) /\ score' = score /\ lent' = lent
          /\ "failed_auth" \in Kinds
      BY <2>3 DEF TryKey, Kinds
    <3>2. QED
      BY <2>1, <3>1, RecordKeeps
  <2>4. CASE DetectPattern(r)
    <3>1. Record(<<r, "within">>, "suspicious", FALSE) \/ UNCHANGED <<threat, recorded>>
      BY <2>4 DEF DetectPattern, Unrecorded
    <3>2. score' = score /\ lent' = lent /\ "suspicious" \in Kinds
      BY <2>4 DEF DetectPattern, store, Kinds
    <3>3. QED
      BY <1>1, <2>1, <3>1, <3>2, RecordKeeps
  <2>5. QED
    BY <1>5, <2>2, <2>3, <2>4 DEF Fail
<1>6. ASSUME NEW r \in Requests, NotFound(r) PROVE ScoreOK'
  <2>1. <<r, "within">> \in Records
    BY DEF Records
  <2>2. Record(<<r, "within">>, "probe", TRUE) /\ score' = score /\ lent' = lent /\ "probe" \in Kinds
    BY <1>6 DEF NotFound, store, Kinds
  <2>3. QED
    BY <2>1, <2>2, RecordKeeps
<1>7. ASSUME NEW x \in Records, Score(x) PROVE ScoreOK'
  <2>1. CASE IncrScore(x) \/ TimeScore(x) \/ IncrFails(x) \/ AddScore(x)
    BY <2>1, IncrScoreKeeps, TimeScoreKeeps, AddScoreKeeps
  <2>2. CASE AddFails(x) \/ BanForThreat(x) \/ JudgeFails(x)
    <3>1. threat' = [threat EXCEPT ![x] = Quiet] /\ score' = score /\ recorded' = recorded /\ lent' = lent
      BY <2>2 DEF AddFails, BanForThreat, JudgeFails, store, ghosts
    <3>2. QED
      BY <3>1, GivesUpKeeps
  <2>3. QED
    BY <1>7, <2>1, <2>2 DEF Score
<1>8. ASSUME Expire PROVE ScoreOK'
  <2>1. threat' = threat /\ recorded' = recorded /\ lent' = lent /\ score' \in {score, None}
    BY <1>8 DEF Expire, ghosts
  <2>2. None \in Counter /\ None.n = 0
    BY DEF None, Counter
  <2>3. PICK owed \in Nat, lends \in Nat, points \in Nat, owing \in Int :
          /\ owed = Cardinality(Owed(threat)) /\ lends = Cardinality(Lending(threat))
          /\ points = recorded /\ owing = lent
    <3>1. Lending(threat) \in SUBSET Records
      BY DEF Lending
    <3>2. QED
      BY <3>1, RecordsAreFinite, FS_CardinalityType DEF ScoreOK
  <2>4. owed <= points /\ lends <= owing
    BY <2>3 DEF ScoreOK
  <2>5. None.n + owed <= points + owing
    BY <2>2, <2>4
  <2>6. CASE score' = None
    BY <2>1, <2>2, <2>3, <2>5, <2>6 DEF ScoreOK
  <2>7. QED
    BY <1>1, <2>1, <2>6
<1>9. ASSUME NEW l \in Limiters, PassWindow(l) PROVE ScoreOK'
  BY <1>1, <1>9 DEF PassWindow, store, ghosts
<1>10. ASSUME UNCHANGED gatewayVars PROVE ScoreOK'
  BY <1>1, <1>10 DEF gatewayVars, store, ghosts
<1>11. QED
  BY <1>2, <1>3, <1>4, <1>5, <1>6, <1>7, <1>8, <1>9, <1>10 DEF GatewayNext

-----------------------------------------------------------------------------
(* The requests *)

Middleware == {"access", "filter", "global", "auth", "notify", "cooldown", "key"}
Last == {"handler", "notfound"}
Counting == {"time global", "time auth", "time notify", "judge global", "judge auth", "judge notify"}
Aside == {"clear failures", "clear tried", "clear cooldown",
          "fail", "fail!", "try", "cool down", "pattern", "ban"}

RequestType == [pc : {"idle"} \cup Middleware \cup Last \cup Counting \cup Aside,
                key : BadKeys \cup {"good", NoKey}, flag : Flags,
                rest : Seq(Middleware \cup Last), n : Nat, w : 0 .. MaxWindow]

\* The counters of requests and failures are never negative, unlike the score.
Counts == [n : Nat, key : {"missing", "lasting", "timed"}]

\* Where a limiter has a request.
HeldBy(l) == {l, Timing(l), Judging(l)}

\* The way of a request ends with a last handler, and it carries a count that no
\* failure exceeded, unless it is a limiter's, and no window to come.
Ends(rest) == rest # << >> => rest[Len(rest)] \in Last

RequestOK(q, most, now) ==
  /\ q \in RequestType
  /\ Ends(q.rest)
  /\ q.pc \in Middleware \cup Counting \cup Aside => q.rest # << >>
  /\ \A l \in Limiters : q.pc \in HeldBy(l) => q.w <= now[l]
  /\ q.pc \notin Counting => q.n <= most

RequestsOK ==
  /\ window \in [Limiters -> 0 .. MaxWindow] /\ worst \in Nat /\ failures \in Counts
  /\ hits \in [Limiters -> [0 .. MaxWindow -> Counts]]
  /\ req \in [Requests -> RequestType]
  /\ \A r \in Requests : RequestOK(req[r], worst, window)

LEMMA LimiterNames ==
  ASSUME NEW l \in Limiters, NEW k \in Limiters
  PROVE  /\ Timing(l) \in Counting /\ Judging(l) \in Counting /\ l \notin Counting
         /\ l \in Middleware
         /\ Timing(l) # Judging(k)
         /\ Timing(l) = Timing(k) => l = k
         /\ Judging(l) = Judging(k) => l = k
<1>1. QED
  BY DEF Limiters, Timing, Judging, Counting, Middleware

LEMMA PlacesDiffer ==
  /\ "idle" \notin Middleware \cup Counting \cup Aside \cup Last
  /\ Counting \cap (Middleware \cup Last \cup Aside) = {}
  /\ Aside \cap (Middleware \cup Last) = {} /\ Middleware \cap Last = {}
<1>1. QED
  BY DEF Middleware, Counting, Aside, Last

\* A limiter has a request that is with it, or that it counted.
LEMMA HeldByNames ==
  ASSUME NEW l \in Limiters, NEW pc \in HeldBy(l)
  PROVE  /\ pc = l \/ pc \in Counting
         /\ pc \notin Aside \cup Last /\ pc # "idle" /\ pc # "access"
         /\ \A k \in Limiters : pc \in HeldBy(k) => k = l
<1>1. pc = l \/ pc \in Counting
  BY LimiterNames DEF HeldBy
<1>2. pc \notin Aside \cup Last /\ pc # "idle" /\ pc # "access"
  BY <1>1 DEF Limiters, Counting, Aside, Last
<1>3. ASSUME NEW k \in Limiters, pc \in HeldBy(k) PROVE k = l
  BY <1>3, LimiterNames DEF HeldBy
<1>4. QED
  BY <1>1, <1>2, <1>3

LEMMA IdleIsOK == \A most \in Nat : \A now : RequestOK(Idle, most, now)
<1>1. Idle \in RequestType
  BY GatewayAssumption DEF Idle, RequestType, Flags
<1>2. "idle" \notin Middleware \cup Counting \cup Aside /\ \A l \in Limiters : "idle" \notin HeldBy(l)
  BY PlacesDiffer, HeldByNames
<1>3. Idle.pc = "idle" /\ Idle.rest = << >> /\ Idle.n = 0
  BY DEF Idle
<1>4. QED
  BY <1>1, <1>2, <1>3 DEF RequestOK, Ends

LEMMA GoesTo ==
  ASSUME NEW most \in Nat, NEW now, NEW q, RequestOK(q, most, now), q.rest # << >>,
         NEW pc \in Middleware \cup Last \cup Counting \cup Aside,
         pc \in Counting \/ q.n <= most,
         \A l \in Limiters : pc \in HeldBy(l) => q.pc \in HeldBy(l)
  PROVE  \A v : v = [q EXCEPT !.pc = pc] => RequestOK(v, most, now)
<1> SUFFICES ASSUME NEW v, v = [q EXCEPT !.pc = pc] PROVE RequestOK(v, most, now)
  OBVIOUS
<1>1. /\ v \in RequestType /\ v.pc = pc /\ v.rest = q.rest /\ v.n = q.n /\ v.w = q.w
  BY DEF RequestOK, RequestType
<1>2. QED
  BY <1>1 DEF RequestOK

LEMMA GoesOn ==
  ASSUME NEW most \in Nat, NEW now \in [Limiters -> 0 .. MaxWindow], NEW q,
         RequestOK(q, most, now), q.rest # << >>
  PROVE  \A v : v = [q EXCEPT !.pc = Head(q.rest), !.rest = Tail(@), !.n = 0,
                              !.w = IF Head(q.rest) \in Limiters THEN now[Head(q.rest)] ELSE 0] =>
            RequestOK(v, most, now) /\ v.pc \in Middleware \cup Last
<1>1. PICK rest \in Seq(Middleware \cup Last) : rest = q.rest /\ rest # << >> /\ Ends(rest)
  BY DEF RequestOK, RequestType
<1>2. PICK h \in Middleware \cup Last : h = Head(rest)
  BY <1>1
<1>3. PICK t \in Seq(Middleware \cup Last) : t = Tail(rest)
  BY <1>1, HeadTailProperties
<1>4. PICK w \in 0 .. MaxWindow : w = IF h \in Limiters THEN now[h] ELSE 0
  BY GatewayAssumption
<1>5. Ends(t) /\ (h \in Middleware => t # << >>)
  <2>1. Len(rest) \in Nat \ {0} /\ Len(t) = Len(rest) - 1 /\ h = rest[1]
    BY <1>1, <1>2, <1>3
  <2>2. rest[Len(rest)] \in Last
    BY <1>1 DEF Ends
  <2>3. ASSUME t = << >> PROVE h \in Last
    <3>1. Len(t) = 0
      BY <2>3
    <3>2. Len(rest) = 1
      BY <2>1, <3>1
    <3>3. rest[1] \in Last
      BY <2>2, <3>2
    <3>4. QED
      BY <2>1, <3>3
  <2>4. ASSUME t # << >> PROVE t[Len(t)] = rest[Len(rest)]
    <3>1. Len(t) \in 1 .. Len(t)
      BY <2>1, <2>4
    <3>2. QED
      BY <1>1, <1>3, <2>1, <3>1
  <2>5. Middleware \cap Last = {}
    BY DEF Middleware, Last
  <2>6. QED
    BY <2>2, <2>3, <2>4, <2>5 DEF Ends
<1>6. ASSUME NEW v, v = [q EXCEPT !.pc = h, !.rest = t, !.n = 0, !.w = w]
      PROVE  RequestOK(v, most, now) /\ v.pc \in Middleware \cup Last
  <2>1. v \in RequestType /\ v.pc = h /\ v.rest = t /\ v.n = 0 /\ v.w = w
    BY <1>6 DEF RequestOK, RequestType
  <2>2. h \notin Counting \cup Aside
    BY PlacesDiffer
  <2>3. ASSUME NEW l \in Limiters, h \in HeldBy(l) PROVE w <= now[l]
    <3>1. h = l
      BY <2>2, <2>3, HeldByNames
    <3>2. now[l] \in Nat /\ w = now[l]
      BY <1>4, <3>1
    <3>3. QED
      BY <3>2
  <2>4. QED
    BY <1>5, <2>1, <2>2, <2>3 DEF RequestOK
<1>7. QED
  BY <1>1, <1>2, <1>3, <1>4, <1>6

\* A request takes a step beside the counters it does not write.
LEMMA OneRequestKeeps ==
  ASSUME RequestsOK, NEW r \in Requests, NEW most \in Nat, most >= worst, NEW q,
         RequestOK(q, most, window),
         req' = [req EXCEPT ![r] = q], worst' = most, window' = window,
         failures' \in Counts, hits' \in [Limiters -> [0 .. MaxWindow -> Counts]]
  PROVE  RequestsOK'
<1>1. q \in RequestType
  BY DEF RequestOK
<1>2. ASSUME NEW x \in Requests, RequestOK(req[x], worst, window)
      PROVE  RequestOK(req[x], most, window)
  <2>1. PICK n \in Nat : n = req[x].n
    BY DEF RequestsOK, RequestType
  <2>2. worst \in Nat
    BY DEF RequestsOK
  <2>3. n <= worst => n <= most
    BY <2>2
  <2>4. QED
    BY <1>2, <2>1, <2>3 DEF RequestOK
<1>3. ASSUME NEW x \in Requests PROVE RequestOK(req'[x], most, window)
  BY <1>2 DEF RequestsOK
<1>4. QED
  BY <1>1, <1>3 DEF RequestsOK

LEMMA OnwardKeeps ==
  ASSUME RequestsOK, NEW r \in Requests, req[r].rest # << >>, Onward(r),
         worst' = worst, window' = window,
         failures' \in Counts, hits' \in [Limiters -> [0 .. MaxWindow -> Counts]]
  PROVE  RequestsOK'
<1>1. PICK most \in Nat, now \in [Limiters -> 0 .. MaxWindow], q \in RequestType :
        most = worst /\ now = window /\ q = req[r] /\ RequestOK(q, most, now)
  BY DEF RequestsOK
<1>2. PICK v : v = [q EXCEPT !.pc = Head(q.rest), !.rest = Tail(@), !.n = 0,
                             !.w = IF Head(q.rest) \in Limiters THEN now[Head(q.rest)] ELSE 0]
  OBVIOUS
<1>3. RequestOK(v, worst, window)
  BY <1>1, <1>2, GoesOn
<1>4. req' = [req EXCEPT ![r] = v]
  BY <1>1, <1>2 DEF Onward, WindowOf, RequestsOK
<1>5. most >= worst /\ worst' = most
  BY <1>1
<1>6. QED
  BY <1>1, <1>3, <1>4, <1>5, OneRequestKeeps

LEMMA AnswerKeeps ==
  ASSUME RequestsOK, NEW r \in Requests, Answer(r), worst' = worst, window' = window,
         failures' \in Counts, hits' \in [Limiters -> [0 .. MaxWindow -> Counts]]
  PROVE  RequestsOK'
<1>1. PICK most \in Nat, now \in [Limiters -> 0 .. MaxWindow] : most = worst /\ now = window
  BY DEF RequestsOK
<1>2. most >= worst /\ worst' = most /\ RequestOK(Idle, most, window)
  BY <1>1, IdleIsOK
<1>3. req' = [req EXCEPT ![r] = Idle]
  BY DEF Answer
<1>4. QED
  BY <1>2, <1>3, OneRequestKeeps

LEMMA GotoKeeps ==
  ASSUME RequestsOK, NEW r \in Requests, req[r].rest # << >>,
         NEW pc \in Middleware \cup Last \cup Counting \cup Aside,
         pc \in Counting \/ req[r].pc \notin Counting,
         \A l \in Limiters : pc \in HeldBy(l) => req[r].pc \in HeldBy(l),
         Goto(r, pc), worst' = worst, window' = window,
         failures' \in Counts, hits' \in [Limiters -> [0 .. MaxWindow -> Counts]]
  PROVE  RequestsOK'
<1>1. PICK most \in Nat, now \in [Limiters -> 0 .. MaxWindow], q \in RequestType :
        most = worst /\ now = window /\ q = req[r] /\ RequestOK(q, most, now)
  BY DEF RequestsOK
<1>2. PICK v : v = [q EXCEPT !.pc = pc]
  OBVIOUS
<1>3. pc \in Counting \/ q.n <= most
  BY <1>1 DEF RequestOK
<1>4. RequestOK(v, worst, window)
  BY <1>1, <1>2, <1>3, GoesTo
<1>5. req' = [req EXCEPT ![r] = v]
  BY <1>1, <1>2 DEF Goto, RequestsOK
<1>6. most >= worst /\ worst' = most
  BY <1>1
<1>7. QED
  BY <1>1, <1>4, <1>5, <1>6, OneRequestKeeps

LEMMA WayEnds ==
  ASSUME NEW last \in Last
  PROVE  \A way : \/ \E a, b \in Middleware : way = <<a, b, last>>
                 \/ way = <<last>>
            => /\ way \in Seq(Middleware \cup Last) /\ Len(way) \in Nat \ {0}
               /\ way[Len(way)] \in Last
<1>1. ASSUME NEW a \in Middleware, NEW b \in Middleware, NEW way, way = <<a, b, last>>
      PROVE  /\ way \in Seq(Middleware \cup Last) /\ Len(way) \in Nat \ {0}
             /\ way[Len(way)] \in Last
  <2>1. Len(way) = 3 /\ way[3] = last
    BY <1>1
  <2>2. way \in Seq(Middleware \cup Last)
    BY <1>1
  <2>3. QED
    BY <2>1, <2>2
<1>2. ASSUME NEW way, way = <<last>>
      PROVE  /\ way \in Seq(Middleware \cup Last) /\ Len(way) \in Nat \ {0}
             /\ way[Len(way)] \in Last
  <2>1. Len(way) = 1 /\ way[1] = last
    BY <1>2
  <2>2. way \in Seq(Middleware \cup Last)
    BY <1>2
  <2>3. QED
    BY <2>1, <2>2
<1>3. QED
  BY <1>1, <1>2

LEMMA StagesEnd ==
  ASSUME NEW route \in Routes
  PROVE  /\ Stages(route) \in Seq(Middleware \cup Last)
         /\ Head(Stages(route)) = "access"
         /\ Tail(Stages(route)) # << >>
         /\ Tail(Stages(route)) \in Seq(Middleware \cup Last)
         /\ Ends(Tail(Stages(route)))
<1>1. PICK first : first = <<"access", "filter", "global">>
  OBVIOUS
<1>2. first \in Seq(Middleware \cup Last) /\ Len(first) = 3 /\ first[1] = "access"
  BY <1>1 DEF Middleware, Last
<1>3. PICK then : /\ then \in Seq(Middleware \cup Last) /\ Len(then) \in Nat \ {0}
                  /\ then[Len(then)] \in Last
                  /\ Stages(route) = first \o then
  <2>1. CASE route = "auth"
    <3>1. Stages(route) = first \o <<"cooldown", "auth", "handler">>
      BY <1>1, <2>1 DEF Stages
    <3>2. "cooldown" \in Middleware /\ "auth" \in Middleware /\ "handler" \in Last
      BY DEF Middleware, Last
    <3>3. QED
      BY <3>1, <3>2, WayEnds
  <2>2. CASE route = "notify"
    <3>1. Stages(route) = first \o <<"key", "notify", "handler">>
      BY <1>1, <2>2 DEF Stages
    <3>2. "key" \in Middleware /\ "notify" \in Middleware /\ "handler" \in Last
      BY DEF Middleware, Last
    <3>3. QED
      BY <3>1, <3>2, WayEnds
  <2>3. CASE route = "protected"
    <3>1. Stages(route) = first \o <<"cooldown", "key", "handler">>
      BY <1>1, <2>3 DEF Stages
    <3>2. "cooldown" \in Middleware /\ "key" \in Middleware /\ "handler" \in Last
      BY DEF Middleware, Last
    <3>3. QED
      BY <3>1, <3>2, WayEnds
  <2>4. CASE route = "authprobe"
    <3>1. Stages(route) = first \o <<"cooldown", "auth", "notfound">>
      BY <1>1, <2>4 DEF Stages
    <3>2. "cooldown" \in Middleware /\ "auth" \in Middleware /\ "notfound" \in Last
      BY DEF Middleware, Last
    <3>3. QED
      BY <3>1, <3>2, WayEnds
  <2>5. CASE route = "probe"
    <3>1. Stages(route) = first \o <<"notfound">>
      BY <1>1, <2>5 DEF Stages
    <3>2. "notfound" \in Last
      BY DEF Middleware, Last
    <3>3. QED
      BY <3>1, <3>2, WayEnds
  <2>6. QED
    BY <2>1, <2>2, <2>3, <2>4, <2>5 DEF Routes
<1>4. PICK all : all = Stages(route)
  OBVIOUS
<1>5. PICK names : names = Middleware \cup Last
  OBVIOUS
<1>6. /\ all \in Seq(names) /\ Len(all) = 3 + Len(then)
      /\ all[1] = "access" /\ all[Len(all)] = then[Len(then)] /\ all # << >>
  <2>1. all = first \o then /\ first \in Seq(names) /\ then \in Seq(names)
    BY <1>2, <1>3, <1>4, <1>5
  <2>2. all \in Seq(names) /\ Len(all) = Len(first) + Len(then)
        /\ \A i \in 1 .. Len(all) : all[i] = IF i <= Len(first) THEN first[i] ELSE then[i - Len(first)]
    BY <2>1, ConcatProperties
  <2>3. Len(all) = 3 + Len(then) /\ Len(all) \in 1 .. Len(all) /\ 1 \in 1 .. Len(all)
    BY <1>2, <1>3, <2>2
  <2>4. all[1] = first[1] /\ all[Len(all)] = then[Len(all) - 3]
    BY <1>2, <1>3, <2>2, <2>3
  <2>5. Len(all) - 3 = Len(then)
    BY <1>3, <2>3
  <2>6. all # << >>
    BY <2>3
  <2>7. QED
    BY <1>2, <2>2, <2>3, <2>4, <2>5, <2>6
<1>7. PICK t : t = Tail(all)
  OBVIOUS
<1>8. /\ t \in Seq(names) /\ Len(t) = 2 + Len(then) /\ t # << >>
      /\ t[Len(t)] = all[Len(all)]
  <2>1. /\ t \in Seq(names) /\ Len(t) = Len(all) - 1
        /\ \A i \in 1 .. Len(t) : t[i] = all[i + 1]
    BY <1>6, <1>7, HeadTailProperties
  <2>2. Len(t) = 2 + Len(then) /\ Len(t) \in 1 .. Len(t) /\ Len(t) + 1 = Len(all)
    BY <1>3, <1>6, <2>1
  <2>3. t[Len(t)] = all[Len(all)]
    BY <2>1, <2>2
  <2>4. t # << >>
    BY <1>3, <2>2
  <2>5. QED
    BY <2>1, <2>2, <2>3, <2>4
<1>9. Head(all) = "access"
  BY <1>6
<1>10. Ends(t)
  BY <1>3, <1>6, <1>8 DEF Ends
<1>11. QED
  BY <1>4, <1>5, <1>6, <1>7, <1>8, <1>9, <1>10

LEMMA TimedIsCount ==
  ASSUME NEW c \in Counts
  PROVE  Timed(c) \in Counts /\ Timed(c).n = c.n
<1>1. QED
  BY DEF Counts, Timed

\* What a request still has before it where next() is called.
LEMMA UnderWay ==
  ASSUME RequestsOK, NEW r \in Requests, req[r].pc \in Middleware \cup Counting \cup Aside
  PROVE  req[r].rest # << >>
<1>1. QED
  BY DEF RequestsOK, RequestOK

LEMMA CountersKept ==
  ASSUME RequestsOK, failures' = failures, hits' = hits
  PROVE  failures' \in Counts /\ hits' \in [Limiters -> [0 .. MaxWindow -> Counts]]
<1>1. QED
  BY DEF RequestsOK

LEMMA ArriveKeeps ==
  ASSUME RequestsOK, NEW r \in Requests, NEW c \in Clients, Arrive(r, c)
  PROVE  RequestsOK'
<1>1. /\ c.route \in Routes /\ c.key \in BadKeys \cup {"good", NoKey} /\ c.flag \in Flags
  BY GatewayAssumption
<1>2. PICK head, rest : head = Head(Stages(c.route)) /\ rest = Tail(Stages(c.route))
  OBVIOUS
<1>3. head = "access" /\ rest \in Seq(Middleware \cup Last) /\ rest # << >> /\ Ends(rest)
  BY <1>1, <1>2, StagesEnd
<1>4. PICK most \in Nat, now \in [Limiters -> 0 .. MaxWindow] : most = worst /\ now = window
  BY DEF RequestsOK
<1>5. PICK q : q = [pc |-> head, key |-> c.key, flag |-> c.flag, rest |-> rest, n |-> 0, w |-> 0]
  OBVIOUS
<1>6. q \in RequestType
  BY <1>1, <1>3, <1>5, GatewayAssumption DEF RequestType, Middleware
<1>7. RequestOK(q, most, window)
  <2>1. q.pc = "access" /\ q.rest # << >> /\ Ends(q.rest) /\ q.n = 0
    BY <1>3, <1>5
  <2>2. \A l \in Limiters : q.pc \notin HeldBy(l)
    BY <2>1, HeldByNames
  <2>3. QED
    BY <1>4, <1>6, <2>1, <2>2 DEF RequestOK
<1>8. req' = [req EXCEPT ![r] = q] /\ worst' = most /\ window' = window /\ most >= worst
      /\ failures' = failures /\ hits' = hits
  BY <1>2, <1>4, <1>5 DEF Arrive, store, ghosts
<1>9. QED
  BY <1>7, <1>8, CountersKept, OneRequestKeeps

\* The steps that only pass a request on, answer it or send it aside.
LEMMA PassKeeps ==
  ASSUME RequestsOK, NEW r \in Requests, worst' = worst, window' = window,
         failures' \in Counts, hits' = hits,
         \/ Answer(r)
         \/ Onward(r) /\ req[r].pc \in Middleware \cup Counting \cup Aside
         \/ \E pc \in Aside : Goto(r, pc) /\ req[r].pc \in Middleware \cup Aside
  PROVE  RequestsOK'
<1>1. hits' \in [Limiters -> [0 .. MaxWindow -> Counts]]
  BY DEF RequestsOK
<1>2. ASSUME NEW pc \in Aside, Goto(r, pc), req[r].pc \in Middleware \cup Aside
      PROVE  RequestsOK'
  <2>1. req[r].rest # << >> /\ req[r].pc \notin Counting
    BY <1>2, UnderWay, PlacesDiffer
  <2>2. \A l \in Limiters : pc \notin HeldBy(l)
    BY HeldByNames
  <2>3. QED
    BY <1>1, <1>2, <2>1, <2>2, GotoKeeps
<1>3. QED
  BY <1>1, <1>2, AnswerKeeps, OnwardKeeps, UnderWay

LEMMA CountHitKeeps ==
  ASSUME RequestsOK, NEW r \in Requests, NEW l \in Limiters, CountHit(r, l)
  PROVE  RequestsOK'
<1>1. PICK most \in Nat, now \in [Limiters -> 0 .. MaxWindow], q \in RequestType :
        most = worst /\ now = window /\ q = req[r] /\ RequestOK(q, most, now)
  BY DEF RequestsOK
<1>2. q.pc = l /\ q.rest # << >> /\ q.w \in 0 .. MaxWindow
  <2>1. q.pc = l /\ l \in Middleware
    BY <1>1, LimiterNames DEF CountHit
  <2>2. QED
    BY <1>1, <2>1 DEF RequestOK, RequestType
<1>3. PICK before \in Counts : before = hits[l][q.w]
  BY <1>2 DEF RequestsOK
<1>4. PICK c : c = Add(before, 1)
  OBVIOUS
<1>5. c \in Counts
  BY <1>4 DEF Add, Counts
<1>6. PICK pc \in Counting : pc = (IF c.key = "timed" THEN Judging(l) ELSE Timing(l)) /\ pc \in HeldBy(l)
  BY LimiterNames DEF HeldBy
<1>7. PICK n \in Nat : n = c.n
  BY <1>5 DEF Counts
<1>8. PICK v : v = [q EXCEPT !.n = n, !.pc = pc]
  OBVIOUS
<1>9. v \in RequestType /\ v.pc = pc /\ v.rest = q.rest /\ v.w = q.w
  BY <1>8 DEF RequestType
<1>10. RequestOK(v, most, window)
  <2>1. \A k \in Limiters : pc \in HeldBy(k) => q.pc \in HeldBy(k)
    BY <1>2, <1>6, HeldByNames DEF HeldBy
  <2>2. QED
    BY <1>1, <1>2, <1>6, <1>9, <2>1 DEF RequestOK
<1>11. req' = [req EXCEPT ![r] = v]
  BY <1>1, <1>3, <1>4, <1>6, <1>7, <1>8 DEF CountHit, RequestsOK
<1>12. hits' \in [Limiters -> [0 .. MaxWindow -> Counts]]
  <2>1. hits \in [Limiters -> [0 .. MaxWindow -> Counts]]
    BY DEF RequestsOK
  <2>2. PICK line : line = [hits[l] EXCEPT ![q.w] = c]
    OBVIOUS
  <2>3. line \in [0 .. MaxWindow -> Counts]
    BY <1>5, <2>1, <2>2
  <2>4. hits' = [hits EXCEPT ![l] = line]
    BY <1>1, <1>3, <1>4, <2>1, <2>2 DEF CountHit
  <2>5. QED
    BY <2>1, <2>3, <2>4
<1>13. failures' \in Counts /\ worst' = most /\ window' = window /\ most >= worst
  BY <1>1 DEF CountHit, RequestsOK, ghosts
<1>14. QED
  BY <1>10, <1>11, <1>12, <1>13, OneRequestKeeps

LEMMA TimeHitKeeps ==
  ASSUME RequestsOK, NEW r \in Requests, NEW l \in Limiters, TimeHit(r, l)
  PROVE  RequestsOK'
<1>1. /\ req[r].pc \in Counting /\ Judging(l) \in Counting
      /\ \A k \in Limiters : Judging(l) \in HeldBy(k) => req[r].pc \in HeldBy(k)
  <2>1. req[r].pc = Timing(l) /\ Judging(l) \in HeldBy(l)
    BY DEF TimeHit, HeldBy
  <2>2. QED
    BY <2>1, LimiterNames, HeldByNames DEF HeldBy
<1>2. PICK w \in 0 .. MaxWindow : w = req[r].w
  BY DEF RequestsOK, RequestType
<1>3. hits' \in [Limiters -> [0 .. MaxWindow -> Counts]]
  <2>1. hits \in [Limiters -> [0 .. MaxWindow -> Counts]]
    BY DEF RequestsOK
  <2>2. PICK c \in Counts : c = Timed(hits[l][w])
    BY <2>1, TimedIsCount
  <2>3. PICK line : line = [hits[l] EXCEPT ![w] = c]
    OBVIOUS
  <2>4. line \in [0 .. MaxWindow -> Counts]
    BY <2>1, <2>3
  <2>5. hits' = [hits EXCEPT ![l] = line]
    BY <1>2, <2>1, <2>2, <2>3 DEF TimeHit
  <2>6. QED
    BY <2>1, <2>4, <2>5
<1>4. failures' \in Counts /\ worst' = worst /\ window' = window /\ Goto(r, Judging(l))
  BY DEF TimeHit, RequestsOK, ghosts
<1>5. QED
  BY <1>1, <1>3, <1>4, UnderWay, GotoKeeps

LEMMA CountFailureKeeps ==
  ASSUME RequestsOK, NEW r \in Requests, CountFailure(r)
  PROVE  RequestsOK'
<1>1. PICK most \in Nat, now \in [Limiters -> 0 .. MaxWindow], q \in RequestType :
        most = worst /\ now = window /\ q = req[r] /\ RequestOK(q, most, now)
  BY DEF RequestsOK
<1>2. PICK c : c = Add(failures, 1)
  OBVIOUS
<1>3. c \in Counts /\ c.n \in Nat
  BY <1>2 DEF RequestsOK, Add, Counts
<1>4. PICK n \in Nat : n = c.n
  BY <1>3
<1>5. PICK pc \in {"try", "fail!"} : pc = IF c.key = "timed" THEN "try" ELSE "fail!"
  OBVIOUS
<1>6. PICK more \in Nat : more = IF n > most THEN n ELSE most
  OBVIOUS
<1>7. PICK v : v = [q EXCEPT !.n = n, !.pc = pc]
  OBVIOUS
<1>8. v \in RequestType /\ v.pc = pc /\ v.rest = q.rest /\ v.w = q.w /\ v.n = n
  BY <1>7 DEF RequestType, Aside
<1>9. q.rest # << >> /\ pc \in Aside
  BY <1>1 DEF CountFailure, RequestOK, Aside
<1>10. more >= most /\ n <= more
  BY <1>6
<1>11. RequestOK(v, more, window)
  <2>1. \A l \in Limiters : v.pc \notin HeldBy(l)
    BY <1>8, <1>9, HeldByNames
  <2>2. QED
    BY <1>1, <1>8, <1>9, <1>10, <2>1 DEF RequestOK
<1>12. req' = [req EXCEPT ![r] = v]
  BY <1>1, <1>2, <1>4, <1>5, <1>7 DEF CountFailure, RequestsOK
<1>13. worst' = more /\ window' = window /\ failures' \in Counts /\ hits' = hits
  BY <1>1, <1>2, <1>3, <1>4, <1>6 DEF CountFailure
<1>14. hits' \in [Limiters -> [0 .. MaxWindow -> Counts]]
  BY <1>13 DEF RequestsOK
<1>15. QED
  BY <1>1, <1>10, <1>11, <1>12, <1>13, <1>14, OneRequestKeeps

LEMMA CountFailsKeeps ==
  ASSUME RequestsOK, NEW r \in Requests, CountFails(r)
  PROVE  RequestsOK'
<1>1. PICK most \in Nat, now \in [Limiters -> 0 .. MaxWindow], q \in RequestType :
        most = worst /\ now = window /\ q = req[r] /\ RequestOK(q, most, now)
  BY DEF RequestsOK
<1>2. PICK v : v = [q EXCEPT !.n = 0, !.pc = "try"]
  OBVIOUS
<1>3. v \in RequestType /\ v.pc = "try" /\ v.rest = q.rest /\ v.w = q.w /\ v.n = 0
  BY <1>2 DEF RequestType, Aside
<1>4. q.rest # << >> /\ v.pc \in Aside
  BY <1>1, <1>3 DEF CountFails, RequestOK, Aside
<1>5. RequestOK(v, most, window)
  <2>1. \A l \in Limiters : v.pc \notin HeldBy(l)
    BY <1>4, HeldByNames
  <2>2. QED
    BY <1>1, <1>3, <1>4, <2>1 DEF RequestOK
<1>6. req' = [req EXCEPT ![r] = v]
  BY <1>1, <1>2 DEF CountFails, RequestsOK
<1>7. worst' = most /\ window' = window /\ most >= worst /\ failures' = failures /\ hits' = hits
  BY <1>1 DEF CountFails, store, ghosts
<1>8. QED
  BY <1>5, <1>6, <1>7, CountersKept, OneRequestKeeps

LEMMA CommandFailsKeeps ==
  ASSUME RequestsOK, NEW r \in Requests, CommandFails(r)
  PROVE  RequestsOK'
<1>1. worst' = worst /\ window' = window /\ failures' = failures /\ hits' = hits
  BY DEF CommandFails, store, ghosts
<1>2. After(r) /\ req[r].pc \in {"access", "cooldown", "clear failures", "clear tried",
                                      "clear cooldown", "cool down", "pattern", "ban"}
  BY DEF CommandFails
<1>3. RequestsOK'
  <2>1. /\ {"access", "cooldown"} \subseteq Middleware
        /\ {"clear failures", "clear tried", "clear cooldown", "cool down", "pattern", "ban"} \subseteq Aside
    BY DEF Middleware, Aside
  <2>2. CASE req[r].pc = "clear failures"
    BY <1>1, <1>2, <2>1, <2>2, CountersKept, PassKeeps DEF After
  <2>3. CASE req[r].pc = "clear tried"
    BY <1>1, <1>2, <2>1, <2>3, CountersKept, PassKeeps DEF After
  <2>4. CASE req[r].pc = "cool down"
    BY <1>1, <1>2, <2>1, <2>4, CountersKept, PassKeeps DEF After
  <2>5. CASE req[r].pc = "pattern"
    BY <1>1, <1>2, <2>1, <2>5, CountersKept, PassKeeps DEF After
  <2>6. CASE req[r].pc = "ban"
    BY <1>1, <1>2, <2>1, <2>6, CountersKept, PassKeeps DEF After
  <2>7. CASE req[r].pc \in {"access", "cooldown", "clear cooldown"}
    BY <1>1, <1>2, <2>1, <2>7, CountersKept, PassKeeps DEF After
  <2>8. QED
    BY <1>2, <2>2, <2>3, <2>4, <2>5, <2>6, <2>7
<1>4. QED
  BY <1>3

LEMMA RequestsKept == RequestsOK /\ [GatewayNext]_gatewayVars => RequestsOK'
<1> SUFFICES ASSUME RequestsOK, [GatewayNext]_gatewayVars PROVE RequestsOK'
  OBVIOUS
<1> DEFINE Beside == /\ worst' = worst /\ window' = window
                     /\ failures' \in Counts /\ hits' = hits
<1>1. ASSUME UNCHANGED <<req, worst, window>>, failures' \in Counts,
             hits' \in [Limiters -> [0 .. MaxWindow -> Counts]]
      PROVE  RequestsOK'
  BY <1>1 DEF RequestsOK
<1>2. ASSUME NEW r \in Requests,
             \/ CheckAccess(r) \/ CheckCooldown(r) \/ Filter(r) \/ KeyLookupFails(r)
             \/ Handle(r) \/ NotFound(r)
      PROVE  RequestsOK'
  <2>1. Beside
    BY <1>2 DEF CheckAccess, CheckCooldown, Filter, KeyLookupFails, Handle, NotFound, store, ghosts, RequestsOK
  <2>2. Answer(r) \/ (Onward(r) /\ req[r].pc \in Middleware)
    BY <1>2 DEF CheckAccess, CheckCooldown, Filter, KeyLookupFails, Handle, NotFound, Middleware
  <2>3. QED
    BY <2>1, <2>2, PassKeeps
<1>3. ASSUME NEW r \in Requests, CheckKey(r) PROVE RequestsOK'
  <2>1. Beside
    BY <1>3 DEF CheckKey, store, ghosts, RequestsOK
  <2>2. req[r].pc \in Middleware /\ (Goto(r, "clear failures") \/ Goto(r, "fail"))
        /\ {"clear failures", "fail"} \subseteq Aside
    BY <1>3 DEF CheckKey, Middleware, Aside
  <2>3. QED
    BY <2>1, <2>2, PassKeeps
<1>4. ASSUME NEW r \in Requests, Clear(r) PROVE RequestsOK'
  <2>1. None \in Counts
    BY DEF None, Counts
  <2>2. Beside
    BY <1>4, <2>1 DEF Clear, ghosts, RequestsOK
  <2>3. req[r].pc \in Aside /\ (Goto(r, "clear tried") \/ Goto(r, "clear cooldown") \/ Onward(r))
        /\ {"clear tried", "clear cooldown"} \subseteq Aside
    BY <1>4 DEF Clear, Aside
  <2>4. QED
    BY <2>2, <2>3, PassKeeps
<1>5. ASSUME NEW r \in Requests, Limit(r) PROVE RequestsOK'
  <2>1. PICK l \in Limiters : CountHit(r, l) \/ TimeHit(r, l) \/ Judge(r, l) \/ LimiterFails(r, l)
    BY <1>5 DEF Limit
  <2>2. CASE Judge(r, l)
    <3>1. Beside
      BY <2>2 DEF Judge, store, RequestsOK
    <3>2. req[r].pc \in Counting /\ (Answer(r) \/ Onward(r))
      BY <2>2, LimiterNames DEF Judge
    <3>3. QED
      BY <3>1, <3>2, PassKeeps
  <2>3. CASE LimiterFails(r, l)
    <3>1. Beside
      BY <2>3 DEF LimiterFails, store, ghosts, RequestsOK
    <3>2. req[r].pc \in Middleware \cup Counting /\ Onward(r)
      BY <2>3, LimiterNames DEF LimiterFails
    <3>3. QED
      BY <3>1, <3>2, PassKeeps
  <2>4. QED
    BY <2>1, <2>2, <2>3, CountHitKeeps, TimeHitKeeps
<1>6. ASSUME NEW r \in Requests, Fail(r) PROVE RequestsOK'
  <2>1. CASE TimeFailure(r) \/ TryKey(r) \/ ApplyCooldown(r) \/ DetectPattern(r) \/ BanForFailures(r)
    <3>1. failures \in Counts
      BY DEF RequestsOK
    <3>2. Beside
      BY <2>1, <3>1, TimedIsCount DEF TimeFailure, TryKey, ApplyCooldown, DetectPattern,
         BanForFailures, store, ghosts
    <3>3. /\ req[r].pc \in Aside
          /\ Goto(r, "try") \/ Goto(r, "cool down") \/ Goto(r, "pattern") \/ Goto(r, "ban") \/ Answer(r)
          /\ {"try", "cool down", "pattern", "ban"} \subseteq Aside
      BY <2>1 DEF TimeFailure, TryKey, ApplyCooldown, DetectPattern, BanForFailures, Aside
    <3>4. QED
      BY <3>2, <3>3, PassKeeps
  <2>2. QED
    BY <1>6, <2>1, CountFailureKeeps, CountFailsKeeps DEF Fail
<1>7. ASSUME NEW x \in Records, Score(x) PROVE RequestsOK'
  <2>1. CASE IncrScore(x) \/ TimeScore(x) \/ IncrFails(x) \/ AddScore(x) \/ BanForThreat(x) \/ JudgeFails(x)
    <3>1. UNCHANGED <<req, worst, window>> /\ failures' = failures /\ hits' = hits
      BY <2>1 DEF IncrScore, TimeScore, IncrFails, AddScore, BanForThreat, JudgeFails, store, ghosts
    <3>2. QED
      BY <1>1, <3>1, CountersKept
  <2>2. CASE AddFails(x)
    <3>1. PICK r \in Requests : r = x[1]
      BY DEF Records
    <3>2. Beside
      BY <2>2 DEF AddFails, store, ghosts, RequestsOK
    <3>3. Answer(r) \/ req' = req
      BY <2>2, <3>1 DEF AddFails
    <3>4. QED
      BY <1>1, <3>2, <3>3, PassKeeps DEF RequestsOK
  <2>3. QED
    BY <1>7, <2>1, <2>2 DEF Score
<1>8. ASSUME Expire PROVE RequestsOK'
  <2>1. None \in Counts /\ UNCHANGED <<req, worst, window>>
    BY <1>8 DEF Expire, ghosts, None, Counts
  <2>2. failures' \in {failures, None}
    BY <1>8 DEF Expire
  <2>3. hits' \in [Limiters -> [0 .. MaxWindow -> Counts]]
    <3>1. hits \in [Limiters -> [0 .. MaxWindow -> Counts]]
      BY DEF RequestsOK
    <3>2. hits' = hits \/ \E l \in Limiters : \E w : hits' = [hits EXCEPT ![l][w] = None]
      BY <1>8 DEF Expire
    <3>3. ASSUME NEW l \in Limiters, NEW w, hits' = [hits EXCEPT ![l][w] = None]
          PROVE  hits' \in [Limiters -> [0 .. MaxWindow -> Counts]]
      <4>1. PICK line : line = [hits[l] EXCEPT ![w] = None]
        OBVIOUS
      <4>2. line \in [0 .. MaxWindow -> Counts]
        BY <2>1, <3>1, <4>1
      <4>3. hits' = [hits EXCEPT ![l] = line]
        BY <3>1, <3>3, <4>1
      <4>4. QED
        BY <3>1, <4>2, <4>3
    <3>4. QED
      BY <3>1, <3>2, <3>3
  <2>4. QED
    BY <1>1, <2>1, <2>2, <2>3 DEF RequestsOK
<1>9. ASSUME NEW k \in Limiters, PassWindow(k) PROVE RequestsOK'
  <2>1. UNCHANGED <<req, worst, failures, hits>>
    BY <1>9 DEF PassWindow, store, ghosts
  <2>2. PICK now \in [Limiters -> 0 .. MaxWindow] : now = window /\ now[k] < MaxWindow
    BY <1>9 DEF PassWindow, RequestsOK
  <2>3. PICK next \in 0 .. MaxWindow : next = now[k] + 1
    BY <2>2, GatewayAssumption
  <2>4. PICK later \in [Limiters -> 0 .. MaxWindow] : later = [now EXCEPT ![k] = next]
    OBVIOUS
  <2>5. window' = later
    BY <1>9, <2>2, <2>3, <2>4 DEF PassWindow
  <2>6. ASSUME NEW l \in Limiters PROVE now[l] <= later[l]
    BY <2>3, <2>4
  <2>7. ASSUME NEW r \in Requests PROVE RequestOK(req[r], worst, later)
    <3>1. RequestOK(req[r], worst, now) /\ req[r].w \in 0 .. MaxWindow
      BY <2>2 DEF RequestsOK, RequestType
    <3>2. ASSUME NEW l \in Limiters, req[r].pc \in HeldBy(l) PROVE req[r].w <= later[l]
      <4>1. req[r].w <= now[l]
        BY <3>1, <3>2 DEF RequestOK
      <4>2. QED
        BY <2>6, <3>1, <4>1
    <3>3. QED
      BY <3>1, <3>2 DEF RequestOK
  <2>8. QED
    BY <2>1, <2>5, <2>7 DEF RequestsOK
<1>10. ASSUME UNCHANGED gatewayVars PROVE RequestsOK'
  BY <1>10 DEF gatewayVars, store, ghosts, RequestsOK
<1>11. QED
  BY <1>2, <1>3, <1>4, <1>5, <1>6, <1>7, <1>8, <1>9, <1>10, ArriveKeeps,
     CommandFailsKeeps DEF GatewayNext

-----------------------------------------------------------------------------
(* Bans *)

GatewayInv == ScoreOK /\ RequestsOK

\* Who bans: one whose failure was the last allowed, or one who read a score at the threshold.
LEMMA WhoBans ==
  ASSUME [GatewayNext]_gatewayVars, ~banned, banned'
  PROVE  \/ \E r \in Requests : req[r].pc = "ban" /\ req[r].n >= MaxAttempts
         \/ score.n >= ThreatThreshold
<1>1. ASSUME NEW r \in Requests,
             \/ \E c \in Clients : Arrive(r, c)
             \/ CheckAccess(r) \/ Filter(r) \/ Limit(r) \/ CheckCooldown(r) \/ CheckKey(r)
             \/ KeyLookupFails(r) \/ Clear(r) \/ CommandFails(r) \/ Handle(r) \/ NotFound(r)
      PROVE  FALSE
  BY <1>1 DEF Arrive, CheckAccess, Filter, Limit, CountHit, TimeHit, Judge, LimiterFails,
     CheckCooldown, CheckKey, KeyLookupFails, Clear, CommandFails, Handle, NotFound, store
<1>2. ASSUME NEW r \in Requests, Fail(r) PROVE req[r].pc = "ban" /\ req[r].n >= MaxAttempts
  BY <1>2 DEF Fail, CountFailure, TimeFailure, CountFails, TryKey, ApplyCooldown, DetectPattern,
     BanForFailures, store
<1>3. ASSUME NEW x \in Records, Score(x) PROVE score.n >= ThreatThreshold
  BY <1>3 DEF Score, IncrScore, TimeScore, IncrFails, AddScore, AddFails, BanForThreat,
     JudgeFails, store
<1>4. ASSUME Expire \/ (\E l \in Limiters : PassWindow(l)) \/ UNCHANGED gatewayVars PROVE FALSE
  BY <1>4 DEF Expire, PassWindow, gatewayVars, store
<1>5. QED
  BY <1>1, <1>2, <1>3, <1>4 DEF GatewayNext

LEMMA BansAreEarnedStep ==
  ASSUME GatewayInv, [GatewayNext]_gatewayVars, ~banned, banned'
  PROVE  worst >= MaxAttempts \/ recorded + lent >= ThreatThreshold
<1>1. PICK most \in Nat, points \in Nat, owing \in Int : most = worst /\ points = recorded /\ owing = lent
  BY DEF GatewayInv, RequestsOK, ScoreOK
<1>2. MaxAttempts \in Nat /\ ThreatThreshold \in Nat
  BY GatewayAssumption
<1>3. CASE \E r \in Requests : req[r].pc = "ban" /\ req[r].n >= MaxAttempts
  <2>1. PICK r \in Requests : req[r].pc = "ban" /\ req[r].n >= MaxAttempts
    BY <1>3
  <2>2. req[r].n \in Nat /\ req[r].n <= most
    BY <1>1, <2>1 DEF GatewayInv, RequestsOK, RequestOK, RequestType, Counting
  <2>3. QED
    BY <1>1, <1>2, <2>1, <2>2
<1>4. CASE score.n >= ThreatThreshold
  <2>1. PICK n \in Int, owed \in Nat : n = score.n /\ owed = Cardinality(Owed(threat))
    BY FS_CardinalityType DEF GatewayInv, ScoreOK, Counter
  <2>2. n + owed <= points + owing
    BY <1>1, <2>1 DEF GatewayInv, ScoreOK
  <2>3. points + owing >= ThreatThreshold
    BY <1>2, <1>4, <2>1, <2>2
  <2>4. QED
    BY <1>1, <2>3
<1>5. QED
  BY <1>3, <1>4, WhoBans

LEMMA GatewayInitInv == GatewayInit => GatewayInv
<1> SUFFICES ASSUME GatewayInit PROVE GatewayInv
  OBVIOUS
<1>1. None \in Counter /\ None \in Counts /\ Quiet \in ThreatType /\ None.n = 0
  BY DEF None, Counter, Counts, Quiet, ThreatType, Kinds
<1>2. ScoreOK
  <2>1. ASSUME NEW x \in Records PROVE Owes(threat[x]) = 0 /\ ~threat[x].lent
    BY DEF GatewayInit, Quiet, Owes
  <2>2. Owed(threat) = {}
    <3>1. ASSUME NEW y \in Records \X Nat PROVE y \notin Owed(threat)
      <4>1. Owes(threat[y[1]]) = 0
        BY <2>1
      <4>2. QED
        BY <4>1 DEF Owed
    <3>2. QED
      BY <3>1 DEF Owed
  <2>3. Lending(threat) = {}
    BY <2>1 DEF Lending
  <2>4. /\ IsFiniteSet(Owed(threat)) /\ Cardinality(Owed(threat)) = 0
        /\ Cardinality(Lending(threat)) = 0
    BY <2>2, <2>3, FS_EmptySet
  <2>5. /\ threat \in [Records -> ThreatType] /\ score \in Counter
        /\ score.n = 0 /\ recorded = 0 /\ lent = 0
    BY <1>1 DEF GatewayInit
  <2>6. QED
    BY <2>4, <2>5 DEF ScoreOK
<1>3. RequestsOK
  <2>1. MaxWindow \in Nat /\ RequestOK(Idle, 0, window)
    BY IdleIsOK, GatewayAssumption
  <2>2. QED
    BY <1>1, <2>1 DEF GatewayInit, RequestsOK, RequestOK
<1>4. QED
  BY <1>2, <1>3 DEF GatewayInv

LEMMA GatewayNextInv == GatewayInv /\ [GatewayNext]_gatewayVars => GatewayInv'
<1>1. RequestsOK => ReqFlags
  BY DEF RequestsOK, RequestType, ReqFlags
<1>2. QED
  BY <1>1, ScoreKept, RequestsKept DEF GatewayInv

\* A client is banned only for MaxAttempts failures or for records worth the
\* threshold, a record of 0 points lending its one, for any number of requests at
\* once, keys, thresholds and points
\* (src/src/api/middlewares/threat-scoring.js, brute-force-protection.js).
THEOREM BansAreEarnedAlways == GatewaySpec => BansAreEarned
<1>1. GatewayInv /\ [GatewayNext]_gatewayVars
        => (~banned /\ banned' => worst >= MaxAttempts \/ recorded + lent >= ThreatThreshold)
  BY BansAreEarnedStep
<1>2. GatewayInv /\ [GatewayNext]_gatewayVars
        => [~banned /\ banned' => worst >= MaxAttempts \/ recorded + lent >= ThreatThreshold]_gatewayVars
  BY <1>1
<1>3. QED
  BY <1>2, GatewayInitInv, GatewayNextInv, PTL DEF GatewaySpec, BansAreEarned

-----------------------------------------------------------------------------
(* Limits *)

\* The requests a limiter counted in the current window, not too many, and has not
\* judged yet: each has a place of its own among the first Max[l] of the window.
CountedNow(l) ==
  {r \in Requests : /\ req[r].pc \in {Timing(l), Judging(l)}
                    /\ req[r].w = window[l] /\ req[r].n <= Max[l]}

AdmittedOK ==
  /\ admitted \in [Limiters -> [0 .. MaxWindow -> Nat]]
  /\ \A l \in Limiters, w \in 0 .. MaxWindow : w > window[l] => admitted[l][w] = 0
  /\ \A l \in Limiters :
       /\ admitted[l][window[l]] + Cardinality(CountedNow(l)) <= hits[l][window[l]].n
       /\ admitted[l][window[l]] + Cardinality(CountedNow(l)) <= Max[l]

LEMMA CountedIsFinite ==
  ASSUME NEW S, S \in SUBSET Requests
  PROVE  IsFiniteSet(S) /\ Cardinality(S) \in Nat
<1>1. IsFiniteSet(S)
  BY GatewayAssumption, FS_Subset
<1>2. QED
  BY <1>1, FS_CardinalityType

LEMMA CountsTyped ==
  ASSUME RequestsOK, AdmittedOK, NEW l \in Limiters
  PROVE  /\ admitted[l][window[l]] \in Nat /\ hits[l][window[l]].n \in Nat /\ Max[l] \in Nat \ {0}
         /\ Cardinality(CountedNow(l)) \in Nat
<1>1. hits[l][window[l]] \in Counts /\ admitted[l][window[l]] \in Nat
  BY DEF RequestsOK, AdmittedOK
<1>2. CountedNow(l) \in SUBSET Requests
  BY DEF CountedNow
<1>3. QED
  BY <1>1, <1>2, CountedIsFinite, GatewayAssumption DEF Counts

\* Nothing is counted or admitted: at most a counted request is gone.
LEMMA NothingAdmitted ==
  ASSUME RequestsOK, AdmittedOK, admitted' = admitted, window' = window,
         \A l \in Limiters : hits'[l][window[l]].n = hits[l][window[l]].n,
         \A l \in Limiters : CountedNow(l)' \subseteq CountedNow(l)
  PROVE  AdmittedOK'
<1>1. ASSUME NEW l \in Limiters
      PROVE  /\ admitted'[l][window[l]'] + Cardinality(CountedNow(l)') <= hits'[l][window[l]'].n
             /\ admitted'[l][window[l]'] + Cardinality(CountedNow(l)') <= Max[l]
  <2>1. PICK old, new : old = CountedNow(l) /\ new = CountedNow(l)'
    OBVIOUS
  <2>2. new \subseteq old /\ old \in SUBSET Requests /\ new \in SUBSET Requests
    BY <2>1 DEF CountedNow
  <2>3. IsFiniteSet(old) /\ Cardinality(old) \in Nat /\ Cardinality(new) \in Nat
    BY <2>2, CountedIsFinite
  <2>4. Cardinality(new) <= Cardinality(old)
    BY <2>2, <2>3, FS_Subset
  <2>5. PICK a \in Nat, h \in Nat, m \in Nat :
          a = admitted[l][window[l]] /\ h = hits[l][window[l]].n /\ m = Max[l]
    BY CountsTyped
  <2>6. a + Cardinality(old) <= h /\ a + Cardinality(old) <= m
    BY <2>1, <2>5 DEF AdmittedOK
  <2>7. a + Cardinality(new) <= h /\ a + Cardinality(new) <= m
    BY <2>3, <2>4, <2>6
  <2>8. admitted'[l][window[l]'] = a /\ hits'[l][window[l]'].n = h
    BY <2>5
  <2>9. QED
    BY <2>1, <2>5, <2>7, <2>8
<1>2. \A l \in Limiters, w \in 0 .. MaxWindow : w > window[l]' => admitted'[l][w] = 0
  BY DEF AdmittedOK
<1>3. admitted' \in [Limiters -> [0 .. MaxWindow -> Nat]]
  BY DEF AdmittedOK
<1>4. QED
  BY <1>1, <1>2, <1>3 DEF AdmittedOK

\* One request takes a step after which no limiter has counted it.
Uncounted(r) == /\ \A x \in Requests : x # r => req'[x] = req[x]
                /\ req'[r].pc \notin Counting

LEMMA UncountedLeaves ==
  ASSUME NEW r \in Requests, Uncounted(r), window' = window, NEW l \in Limiters
  PROVE  CountedNow(l)' \subseteq CountedNow(l)
<1>1. {Timing(l), Judging(l)} \subseteq Counting
  BY DEF Timing, Judging, Counting
<1>2. QED
  BY <1>1 DEF CountedNow, Uncounted

LEMMA UncountedKeeps ==
  ASSUME RequestsOK, AdmittedOK, NEW r \in Requests, Uncounted(r) \/ req' = req,
         hits' = hits, admitted' = admitted, window' = window
  PROVE  AdmittedOK'
<1>1. \A l \in Limiters : CountedNow(l)' \subseteq CountedNow(l)
  BY UncountedLeaves DEF CountedNow
<1>2. \A l \in Limiters : hits'[l][window[l]].n = hits[l][window[l]].n
  OBVIOUS
<1>3. QED
  BY <1>1, <1>2, NothingAdmitted

LEMMA PassIsUncounted ==
  ASSUME RequestsOK, NEW r \in Requests,
         \/ Answer(r)
         \/ Onward(r) /\ req[r].pc \in Middleware \cup Counting \cup Aside
         \/ \E pc \in Aside : Goto(r, pc)
  PROVE  Uncounted(r)
<1>1. req \in [Requests -> RequestType]
  BY DEF RequestsOK
<1>2. CASE Answer(r)
  BY <1>1, <1>2 DEF Answer, Uncounted, Idle, Counting
<1>3. CASE \E pc \in Aside : Goto(r, pc)
  <2>1. PICK pc \in Aside : Goto(r, pc)
    BY <1>3
  <2>2. PICK q \in RequestType : q = req[r]
    BY <1>1
  <2>3. PICK v : v = [q EXCEPT !.pc = pc]
    OBVIOUS
  <2>4. v.pc = pc
    BY <2>3 DEF RequestType
  <2>5. req' = [req EXCEPT ![r] = v]
    BY <1>1, <2>1, <2>2, <2>3 DEF Goto
  <2>6. pc \notin Counting
    BY DEF Aside, Counting
  <2>7. QED
    BY <1>1, <2>4, <2>5, <2>6 DEF Uncounted
<1>4. CASE Onward(r) /\ req[r].pc \in Middleware \cup Counting \cup Aside
  <2>1. PICK most \in Nat, now \in [Limiters -> 0 .. MaxWindow], q \in RequestType :
          most = worst /\ now = window /\ q = req[r] /\ RequestOK(q, most, now)
    BY DEF RequestsOK
  <2>2. PICK v : v = [q EXCEPT !.pc = Head(q.rest), !.rest = Tail(@), !.n = 0,
                               !.w = IF Head(q.rest) \in Limiters THEN now[Head(q.rest)] ELSE 0]
    OBVIOUS
  <2>3. v.pc \in Middleware \cup Last
    BY <1>4, <2>1, <2>2, GoesOn, UnderWay
  <2>4. req' = [req EXCEPT ![r] = v]
    BY <1>1, <1>4, <2>1, <2>2 DEF Onward, WindowOf
  <2>5. v.pc \notin Counting
    BY <2>3 DEF Middleware, Last, Counting
  <2>6. QED
    BY <1>1, <2>4, <2>5 DEF Uncounted
<1>5. QED
  BY <1>2, <1>3, <1>4

LEMMA CountHitAdmits ==
  ASSUME RequestsOK, AdmittedOK, NEW r \in Requests, NEW k \in Limiters, CountHit(r, k)
  PROVE  AdmittedOK'
<1>1. PICK now \in 0 .. MaxWindow, q \in RequestType :
        now = window[k] /\ q = req[r] /\ RequestOK(q, worst, window)
  BY DEF RequestsOK
<1>2. q.pc = k /\ q.w \in 0 .. MaxWindow
  BY <1>1 DEF CountHit, RequestType
<1>3. PICK before \in Counts : before = hits[k][q.w]
  BY <1>2 DEF RequestsOK
<1>4. PICK c : c = Add(before, 1)
  OBVIOUS
<1>5. c \in Counts /\ c.n = before.n + 1 /\ before.n \in Nat
  BY <1>4 DEF Add, Counts
<1>6. PICK pc \in {Judging(k), Timing(k)} : pc = IF c.key = "timed" THEN Judging(k) ELSE Timing(k)
  OBVIOUS
<1>7. PICK v : v = [q EXCEPT !.n = c.n, !.pc = pc]
  OBVIOUS
<1>8. v.pc = pc /\ v.w = q.w /\ v.n = c.n
  BY <1>7 DEF RequestType
<1>9. req' = [req EXCEPT ![r] = v] /\ req \in [Requests -> RequestType]
  BY <1>1, <1>3, <1>4, <1>6, <1>7 DEF CountHit, RequestsOK
<1>10. admitted' = admitted /\ window' = window
  BY DEF CountHit, ghosts
<1>11. ASSUME NEW l \in Limiters, NEW w \in 0 .. MaxWindow
       PROVE  hits'[l][w] = IF l = k /\ w = q.w THEN c ELSE hits[l][w]
  <2>1. hits \in [Limiters -> [0 .. MaxWindow -> Counts]]
    BY DEF RequestsOK
  <2>2. PICK line : line = [hits[k] EXCEPT ![q.w] = c]
    OBVIOUS
  <2>3. hits' = [hits EXCEPT ![k] = line]
    BY <1>1, <1>3, <1>4, <2>1, <2>2 DEF CountHit
  <2>4. QED
    BY <2>1, <2>2, <2>3
<1>12. ASSUME NEW l \in Limiters
       PROVE  CountedNow(l)' = IF l = k /\ q.w = now /\ c.n <= Max[k]
                               THEN CountedNow(l) \cup {r} ELSE CountedNow(l)
  <2>1. r \notin CountedNow(l)
    BY <1>1, <1>2, LimiterNames DEF CountedNow
  <2>2. r \in CountedNow(l)' <=> l = k /\ q.w = now /\ c.n <= Max[k]
    BY <1>1, <1>6, <1>8, <1>9, <1>10, LimiterNames DEF CountedNow
  <2>3. \A x \in Requests : x # r => (x \in CountedNow(l)' <=> x \in CountedNow(l))
    BY <1>9, <1>10 DEF CountedNow
  <2>4. CountedNow(l) \subseteq Requests /\ CountedNow(l)' \subseteq Requests
    BY DEF CountedNow
  <2>5. QED
    BY <2>1, <2>2, <2>3, <2>4
<1>13. ASSUME NEW l \in Limiters
       PROVE  /\ admitted'[l][window[l]'] + Cardinality(CountedNow(l)') <= hits'[l][window[l]'].n
              /\ admitted'[l][window[l]'] + Cardinality(CountedNow(l)') <= Max[l]
  <2>1. PICK old, new : old = CountedNow(l) /\ new = CountedNow(l)'
    OBVIOUS
  <2>2. old \in SUBSET Requests /\ IsFiniteSet(old) /\ Cardinality(old) \in Nat
    BY <2>1, CountedIsFinite DEF CountedNow
  <2>3. PICK a \in Nat, h \in Nat, m \in Nat :
          a = admitted[l][window[l]] /\ h = hits[l][window[l]].n /\ m = Max[l]
    BY CountsTyped
  <2>4. a + Cardinality(old) <= h /\ a + Cardinality(old) <= m
    BY <2>1, <2>3 DEF AdmittedOK
  <2>5. admitted'[l][window[l]'] = a /\ hits'[l][window[l]'] = IF l = k /\ now = q.w THEN c ELSE hits[l][window[l]]
    <3>1. PICK at \in 0 .. MaxWindow : at = window[l] /\ window[l]' = at
      BY <1>10 DEF RequestsOK
    <3>2. l = k => at = now
      BY <1>1, <3>1
    <3>3. hits'[l][at] = IF l = k /\ at = q.w THEN c ELSE hits[l][at]
      BY <1>11, <3>1
    <3>4. QED
      BY <1>10, <2>3, <3>1, <3>2, <3>3
  <2>6. CASE l = k /\ q.w = now
    <3>1. h = before.n /\ hits'[l][window[l]'].n = h + 1
      BY <1>1, <1>3, <1>5, <2>3, <2>5, <2>6
    <3>2. CASE c.n <= m
      <4>1. new = old \cup {r} /\ r \notin old
        BY <1>1, <1>2, <1>12, <2>1, <2>3, <2>6, <3>2, LimiterNames DEF CountedNow
      <4>2. Cardinality(new) = Cardinality(old) + 1
        BY <2>2, <4>1, FS_AddElement
      <4>3. a + Cardinality(new) <= h + 1 /\ a + Cardinality(new) <= m
        BY <1>5, <2>2, <2>4, <3>1, <3>2, <4>2
      <4>4. QED
        BY <2>1, <2>3, <2>5, <3>1, <4>3
    <3>3. CASE ~(c.n <= m)
      <4>1. new = old
        BY <1>12, <2>1, <2>3, <2>6, <3>3
      <4>2. a + Cardinality(new) <= h + 1 /\ a + Cardinality(new) <= m
        BY <2>2, <2>4, <4>1
      <4>3. QED
        BY <2>1, <2>3, <2>5, <3>1, <4>2
    <3>4. QED
      BY <3>2, <3>3
  <2>7. CASE ~(l = k /\ q.w = now)
    <3>1. new = old /\ hits'[l][window[l]'].n = h
      BY <1>12, <2>1, <2>3, <2>5, <2>7
    <3>2. QED
      BY <2>1, <2>3, <2>4, <2>5, <3>1
  <2>8. QED
    BY <2>6, <2>7
<1>14. \A l \in Limiters, w \in 0 .. MaxWindow : w > window[l]' => admitted'[l][w] = 0
  BY <1>10 DEF AdmittedOK
<1>15. admitted' \in [Limiters -> [0 .. MaxWindow -> Nat]]
  BY <1>10 DEF AdmittedOK
<1>16. QED
  BY <1>13, <1>14, <1>15 DEF AdmittedOK

LEMMA TimeHitAdmits ==
  ASSUME RequestsOK, AdmittedOK, NEW r \in Requests, NEW k \in Limiters, TimeHit(r, k)
  PROVE  AdmittedOK'
<1>1. PICK now \in 0 .. MaxWindow, q \in RequestType :
        now = window[k] /\ q = req[r] /\ RequestOK(q, worst, window)
  BY DEF RequestsOK
<1>2. q.pc = Timing(k) /\ q.w \in 0 .. MaxWindow
  BY <1>1 DEF TimeHit, RequestType
<1>3. PICK c \in Counts : c = Timed(hits[k][q.w]) /\ c.n = hits[k][q.w].n
  BY <1>2, TimedIsCount DEF RequestsOK
<1>4. PICK v : v = [q EXCEPT !.pc = Judging(k)]
  OBVIOUS
<1>5. v.pc = Judging(k) /\ v.w = q.w /\ v.n = q.n
  BY <1>4 DEF RequestType
<1>6. req' = [req EXCEPT ![r] = v] /\ req \in [Requests -> RequestType]
  BY <1>1, <1>4 DEF TimeHit, Goto, RequestsOK
<1>7. admitted' = admitted /\ window' = window
  BY DEF TimeHit, ghosts
<1>8. ASSUME NEW l \in Limiters
      PROVE  hits'[l][window[l]].n = hits[l][window[l]].n
  <2>1. hits \in [Limiters -> [0 .. MaxWindow -> Counts]]
    BY DEF RequestsOK
  <2>2. PICK line : line = [hits[k] EXCEPT ![q.w] = c]
    OBVIOUS
  <2>3. hits' = [hits EXCEPT ![k] = line]
    BY <1>1, <1>3, <2>1, <2>2 DEF TimeHit
  <2>4. \A w \in 0 .. MaxWindow : hits'[l][w].n = hits[l][w].n
    BY <1>3, <2>1, <2>2, <2>3
  <2>5. QED
    BY <2>4 DEF RequestsOK
<1>9. ASSUME NEW l \in Limiters PROVE CountedNow(l)' \subseteq CountedNow(l)
  <2>1. r \in CountedNow(l)' => r \in CountedNow(l)
    BY <1>1, <1>2, <1>5, <1>6, <1>7, LimiterNames DEF CountedNow
  <2>2. \A x \in Requests : x # r => (x \in CountedNow(l)' => x \in CountedNow(l))
    BY <1>6, <1>7 DEF CountedNow
  <2>3. CountedNow(l)' \subseteq Requests
    BY DEF CountedNow
  <2>4. QED
    BY <2>1, <2>2, <2>3
<1>10. QED
  BY <1>7, <1>8, <1>9, NothingAdmitted

LEMMA JudgeAdmits ==
  ASSUME RequestsOK, AdmittedOK, NEW r \in Requests, NEW k \in Limiters, Judge(r, k)
  PROVE  AdmittedOK'
<1>1. PICK now \in 0 .. MaxWindow, q \in RequestType :
        now = window[k] /\ q = req[r] /\ RequestOK(q, worst, window)
  BY DEF RequestsOK
<1>2. q.pc = Judging(k) /\ q.w \in 0 .. MaxWindow /\ q.pc \in Counting
  BY <1>1, LimiterNames DEF Judge, RequestType
<1>3. hits' = hits /\ window' = window /\ (Answer(r) \/ Onward(r))
  BY DEF Judge, store
<1>4. Uncounted(r)
  BY <1>1, <1>2, <1>3, PassIsUncounted
<1>5. CASE admitted' = admitted
  BY <1>3, <1>4, <1>5, UncountedKeeps
<1>6. CASE ~TooMany(q.n, k) /\ admitted' = [admitted EXCEPT ![k][q.w] = @ + 1]
  <2>1. admitted \in [Limiters -> [0 .. MaxWindow -> Nat]]
    BY DEF AdmittedOK
  <2>2. PICK line : line = [admitted[k] EXCEPT ![q.w] = @ + 1]
    OBVIOUS
  <2>3. line \in [0 .. MaxWindow -> Nat]
        /\ \A w \in 0 .. MaxWindow : line[w] = IF w = q.w THEN admitted[k][w] + 1 ELSE admitted[k][w]
    <3>1. PICK before \in [0 .. MaxWindow -> Nat] : before = admitted[k]
      BY <2>1
    <3>2. PICK more \in Nat : more = before[q.w] + 1
      BY <1>2
    <3>3. line = [before EXCEPT ![q.w] = more]
      BY <2>2, <3>1, <3>2
    <3>4. line \in [0 .. MaxWindow -> Nat]
      BY <3>3
    <3>5. \A w \in 0 .. MaxWindow : line[w] = IF w = q.w THEN more ELSE before[w]
      BY <3>3
    <3>6. QED
      BY <3>1, <3>2, <3>4, <3>5
  <2>4. admitted' = [admitted EXCEPT ![k] = line]
    BY <1>6, <2>1, <2>2
  <2>5. admitted' \in [Limiters -> [0 .. MaxWindow -> Nat]]
    BY <2>1, <2>3, <2>4
  <2>6. ASSUME NEW l \in Limiters, NEW w \in 0 .. MaxWindow
        PROVE  admitted'[l][w] = IF l = k /\ w = q.w THEN admitted[l][w] + 1 ELSE admitted[l][w]
    BY <2>1, <2>3, <2>4
  <2>7. ASSUME NEW l \in Limiters, NEW w \in 0 .. MaxWindow, w > window[l]'
        PROVE  admitted'[l][w] = 0
    <3>1. w > window[l] /\ admitted[l][w] = 0
      BY <1>3, <2>7 DEF AdmittedOK
    <3>2. CASE l = k
      <4>1. q.w <= now
        BY <1>1, <1>2 DEF RequestOK, HeldBy
      <4>2. w # q.w
        BY <1>1, <1>2, <3>1, <3>2, <4>1, GatewayAssumption
      <4>3. QED
        BY <2>6, <3>1, <4>2
    <3>3. QED
      BY <2>6, <3>1, <3>2
  <2>8. ASSUME NEW l \in Limiters
        PROVE  /\ admitted'[l][window[l]'] + Cardinality(CountedNow(l)') <= hits'[l][window[l]'].n
               /\ admitted'[l][window[l]'] + Cardinality(CountedNow(l)') <= Max[l]
    <3>1. PICK old, new : old = CountedNow(l) /\ new = CountedNow(l)'
      OBVIOUS
    <3>2. /\ old \in SUBSET Requests /\ IsFiniteSet(old) /\ Cardinality(old) \in Nat
          /\ new \in SUBSET Requests /\ Cardinality(new) \in Nat
      BY <3>1, CountedIsFinite DEF CountedNow
    <3>3. new \subseteq old
      BY <1>3, <1>4, <3>1, UncountedLeaves
    <3>4. PICK a \in Nat, h \in Nat, m \in Nat :
            a = admitted[l][window[l]] /\ h = hits[l][window[l]].n /\ m = Max[l]
      BY CountsTyped
    <3>5. a + Cardinality(old) <= h /\ a + Cardinality(old) <= m
      BY <3>1, <3>4 DEF AdmittedOK
    <3>6. hits'[l][window[l]'].n = h
      BY <1>3, <3>4
    <3>7. CASE l = k /\ q.w = now
      <4>1. r \in old
        BY <1>1, <1>2, <1>6, <3>1, <3>4, <3>7, GatewayAssumption DEF CountedNow, TooMany, RequestType
      <4>2. r \notin new
        <5>1. Judging(l) \in Counting /\ Timing(l) \in Counting
          BY LimiterNames
        <5>2. QED
          BY <1>4, <3>1, <5>1 DEF Uncounted, CountedNow
      <4>3. Cardinality(old \ {r}) = Cardinality(old) - 1 /\ IsFiniteSet(old \ {r})
        BY <3>2, <4>1, FS_RemoveElement
      <4>4. new \in SUBSET (old \ {r})
        BY <3>3, <4>2
      <4>5. Cardinality(new) <= Cardinality(old) - 1
        BY <4>3, <4>4, FS_Subset
      <4>6. admitted'[l][window[l]'] = a + 1
        BY <1>1, <1>3, <2>6, <3>4, <3>7
      <4>7. (a + 1) + Cardinality(new) <= h /\ (a + 1) + Cardinality(new) <= m
        BY <3>2, <3>5, <4>5
      <4>8. QED
        BY <3>1, <3>4, <3>6, <4>6, <4>7
    <3>8. CASE ~(l = k /\ q.w = now)
      <4>1. admitted'[l][window[l]'] = a
        <5>1. PICK at \in 0 .. MaxWindow : at = window[l] /\ window[l]' = at
          BY <1>3 DEF RequestsOK
        <5>2. ~(l = k /\ at = q.w)
          BY <1>1, <3>8, <5>1
        <5>3. admitted'[l][at] = admitted[l][at]
          BY <2>6, <5>1, <5>2
        <5>4. QED
          BY <3>4, <5>1, <5>3
      <4>2. Cardinality(new) <= Cardinality(old)
        BY <3>2, <3>3, FS_Subset
      <4>3. a + Cardinality(new) <= h /\ a + Cardinality(new) <= m
        BY <3>2, <3>5, <4>2
      <4>4. QED
        BY <3>1, <3>4, <3>6, <4>1, <4>3
    <3>9. QED
      BY <3>7, <3>8
  <2>9. QED
    BY <2>5, <2>7, <2>8 DEF AdmittedOK
<1>7. QED
  BY <1>1, <1>5, <1>6 DEF Judge

LEMMA ExpireAdmits ==
  ASSUME RequestsOK, AdmittedOK, Expire
  PROVE  AdmittedOK'
<1>1. req' = req /\ admitted' = admitted /\ window' = window
  BY DEF Expire, ghosts
<1>2. hits' = hits \/ \E l \in Limiters : \E w \in 0 .. window[l] - 1 : hits' = [hits EXCEPT ![l][w] = None]
  BY DEF Expire
<1>3. ASSUME NEW k \in Limiters, NEW w \in 0 .. window[k] - 1, hits' = [hits EXCEPT ![k][w] = None],
             NEW l \in Limiters
      PROVE  hits'[l][window[l]].n = hits[l][window[l]].n
  <2>1. hits \in [Limiters -> [0 .. MaxWindow -> Counts]]
    BY DEF RequestsOK
  <2>2. PICK now \in [Limiters -> 0 .. MaxWindow] : now = window
    BY DEF RequestsOK
  <2>3. PICK line : line = [hits[k] EXCEPT ![w] = None]
    OBVIOUS
  <2>4. hits' = [hits EXCEPT ![k] = line] /\ w # now[k]
    BY <1>3, <2>1, <2>2, <2>3
  <2>5. hits'[l][now[l]] = hits[l][now[l]]
    BY <2>1, <2>2, <2>3, <2>4
  <2>6. QED
    BY <2>2, <2>5
<1>4. \A l \in Limiters : hits'[l][window[l]].n = hits[l][window[l]].n
  BY <1>2, <1>3
<1>5. \A l \in Limiters : CountedNow(l)' \subseteq CountedNow(l)
  BY <1>1 DEF CountedNow
<1>6. QED
  BY <1>1, <1>4, <1>5, NothingAdmitted

\* In a new window nobody is counted yet.
LEMMA PassWindowAdmits ==
  ASSUME RequestsOK, AdmittedOK, NEW k \in Limiters, PassWindow(k)
  PROVE  AdmittedOK'
<1>1. req' = req /\ admitted' = admitted /\ hits' = hits
  BY DEF PassWindow, store, ghosts
<1>2. PICK now \in [Limiters -> 0 .. MaxWindow] : now = window /\ now[k] < MaxWindow
  BY DEF PassWindow, RequestsOK
<1>3. PICK next \in 0 .. MaxWindow : next = now[k] + 1
  BY <1>2, GatewayAssumption
<1>4. PICK later \in [Limiters -> 0 .. MaxWindow] : later = [now EXCEPT ![k] = next] /\ window' = later
  BY <1>2, <1>3 DEF PassWindow
<1>5. ASSUME NEW l \in Limiters
      PROVE  /\ admitted'[l][window[l]'] + Cardinality(CountedNow(l)') <= hits'[l][window[l]'].n
             /\ admitted'[l][window[l]'] + Cardinality(CountedNow(l)') <= Max[l]
  <2>1. CASE l # k
    <3>1. window[l]' = window[l] /\ CountedNow(l)' = CountedNow(l)
      BY <1>1, <1>2, <1>4, <2>1 DEF CountedNow
    <3>2. QED
      BY <1>1, <3>1 DEF AdmittedOK
  <2>2. CASE l = k
    <3>1. window[l]' = next /\ next > window[l]
      BY <1>2, <1>3, <1>4, <2>2
    <3>2. CountedNow(l)' = {}
      <4>1. ASSUME NEW x \in Requests, req[x].pc \in {Timing(l), Judging(l)} PROVE req[x].w # next
        <5>1. req[x].w \in 0 .. MaxWindow /\ req[x].w <= window[l]
          BY <4>1 DEF RequestsOK, RequestOK, RequestType, HeldBy
        <5>2. QED
          BY <1>2, <1>3, <2>2, <5>1
      <4>2. QED
        BY <1>1, <3>1, <4>1 DEF CountedNow
    <3>3. Cardinality(CountedNow(l)') = 0
      BY <3>2, FS_EmptySet
    <3>4. admitted'[l][window[l]'] = 0
      BY <1>1, <3>1 DEF AdmittedOK
    <3>5. hits'[l][window[l]'].n \in Nat /\ Max[l] \in Nat
      <4>1. hits[l][next] \in Counts
        BY DEF RequestsOK
      <4>2. QED
        BY <1>1, <3>1, <4>1, GatewayAssumption DEF Counts
    <3>6. QED
      BY <3>3, <3>4, <3>5
  <2>3. QED
    BY <2>1, <2>2
<1>6. ASSUME NEW l \in Limiters, NEW w \in 0 .. MaxWindow, w > window[l]' PROVE admitted'[l][w] = 0
  <2>1. w > window[l]
    <3>1. PICK before \in 0 .. MaxWindow, after \in 0 .. MaxWindow :
            before = now[l] /\ after = later[l] /\ before <= after
      BY <1>3, <1>4
    <3>2. QED
      BY <1>2, <1>4, <1>6, <3>1
  <2>2. QED
    BY <1>1, <2>1 DEF AdmittedOK
<1>7. admitted' \in [Limiters -> [0 .. MaxWindow -> Nat]]
  BY <1>1 DEF AdmittedOK
<1>8. QED
  BY <1>5, <1>6, <1>7 DEF AdmittedOK

LEMMA ArriveAdmits ==
  ASSUME RequestsOK, AdmittedOK, NEW r \in Requests, NEW c \in Clients, Arrive(r, c)
  PROVE  AdmittedOK'
<1>1. c.route \in Routes
  BY GatewayAssumption
<1>2. Head(Stages(c.route)) = "access"
  BY <1>1, StagesEnd
<1>3. PICK q : q = [pc |-> Head(Stages(c.route)), key |-> c.key, flag |-> c.flag,
                    rest |-> Tail(Stages(c.route)), n |-> 0, w |-> 0]
  OBVIOUS
<1>4. req' = [req EXCEPT ![r] = q] /\ req \in [Requests -> RequestType]
  BY <1>3 DEF Arrive, RequestsOK
<1>5. q.pc = "access"
  BY <1>2, <1>3
<1>6. Uncounted(r)
  BY <1>4, <1>5 DEF Uncounted, Counting
<1>7. hits' = hits /\ admitted' = admitted /\ window' = window
  BY DEF Arrive, store, ghosts
<1>8. QED
  BY <1>6, <1>7, UncountedKeeps

LEMMA AdmittedKept ==
  ASSUME RequestsOK, AdmittedOK, [GatewayNext]_gatewayVars
  PROVE  AdmittedOK'
<1> DEFINE Beside == hits' = hits /\ admitted' = admitted /\ window' = window
<1>1. ASSUME NEW r \in Requests,
             \/ CheckAccess(r) \/ CheckCooldown(r) \/ Filter(r) \/ KeyLookupFails(r)
             \/ Handle(r) \/ NotFound(r)
      PROVE  AdmittedOK'
  <2>1. Beside
    BY <1>1 DEF CheckAccess, CheckCooldown, Filter, KeyLookupFails, Handle, NotFound, store, ghosts
  <2>2. Answer(r) \/ (Onward(r) /\ req[r].pc \in Middleware)
    BY <1>1 DEF CheckAccess, CheckCooldown, Filter, KeyLookupFails, Handle, NotFound, Middleware
  <2>3. QED
    BY <2>1, <2>2, PassIsUncounted, UncountedKeeps
<1>2. ASSUME NEW r \in Requests, CheckKey(r) \/ Clear(r) PROVE AdmittedOK'
  <2>1. Beside
    BY <1>2 DEF CheckKey, Clear, store, ghosts
  <2>2. (\E pc \in Aside : Goto(r, pc)) \/ (Onward(r) /\ req[r].pc \in Aside)
    BY <1>2 DEF CheckKey, Clear, Aside
  <2>3. QED
    BY <2>1, <2>2, PassIsUncounted, UncountedKeeps
<1>3. ASSUME NEW r \in Requests, Limit(r) PROVE AdmittedOK'
  <2>1. PICK l \in Limiters : CountHit(r, l) \/ TimeHit(r, l) \/ Judge(r, l) \/ LimiterFails(r, l)
    BY <1>3 DEF Limit
  <2>2. CASE LimiterFails(r, l)
    <3>1. Beside
      BY <2>2 DEF LimiterFails, store, ghosts
    <3>2. req[r].pc \in Middleware \cup Counting /\ Onward(r)
      BY <2>2, LimiterNames DEF LimiterFails
    <3>3. QED
      BY <3>1, <3>2, PassIsUncounted, UncountedKeeps
  <2>3. QED
    BY <2>1, <2>2, CountHitAdmits, TimeHitAdmits, JudgeAdmits
<1>4. ASSUME NEW r \in Requests, Fail(r) PROVE AdmittedOK'
  <2>1. Beside
    BY <1>4 DEF Fail, CountFailure, TimeFailure, CountFails, TryKey, ApplyCooldown, DetectPattern,
       BanForFailures, store, ghosts
  <2>2. CASE \/ TimeFailure(r) \/ TryKey(r) \/ ApplyCooldown(r) \/ DetectPattern(r) \/ BanForFailures(r)
    <3>1. (\E pc \in Aside : Goto(r, pc)) \/ Answer(r)
      BY <2>2 DEF TimeFailure, TryKey, ApplyCooldown, DetectPattern, BanForFailures, Aside
    <3>2. QED
      BY <2>1, <3>1, PassIsUncounted, UncountedKeeps
  <2>3. CASE CountFailure(r) \/ CountFails(r)
    <3>1. PICK n \in Nat, pc \in Aside : req' = [req EXCEPT ![r].n = n, ![r].pc = pc]
      <4>1. CASE CountFailure(r)
        <5>1. PICK c : c = Add(failures, 1)
          OBVIOUS
        <5>2. PICK pc \in Aside : pc = IF c.key = "timed" THEN "try" ELSE "fail!"
          BY DEF Aside
        <5>3. req' = [req EXCEPT ![r].n = c.n, ![r].pc = pc]
          BY <4>1, <5>1, <5>2 DEF CountFailure
        <5>4. c.n \in Nat
          BY <5>1 DEF RequestsOK, Counts, Add
        <5>5. QED
          BY <5>3, <5>4
      <4>2. CASE CountFails(r)
        BY <4>2 DEF CountFails, Aside
      <4>3. QED
        BY <2>3, <4>1, <4>2
    <3>2. PICK q \in RequestType : q = req[r]
      BY DEF RequestsOK
    <3>3. PICK v : v = [q EXCEPT !.n = n, !.pc = pc]
      OBVIOUS
    <3>4. v.pc = pc
      BY <3>3 DEF RequestType
    <3>5. req' = [req EXCEPT ![r] = v] /\ req \in [Requests -> RequestType]
      BY <3>1, <3>2, <3>3 DEF RequestsOK
    <3>6. Uncounted(r)
      BY <3>4, <3>5 DEF Uncounted, Aside, Counting
    <3>7. QED
      BY <2>1, <3>6, UncountedKeeps
  <2>4. QED
    BY <1>4, <2>2, <2>3 DEF Fail
<1>5. ASSUME NEW x \in Records, Score(x) PROVE AdmittedOK'
  <2>1. PICK r \in Requests : r = x[1]
    BY DEF Records
  <2>2. Beside
    BY <1>5 DEF Score, IncrScore, TimeScore, IncrFails, AddScore, AddFails, BanForThreat,
       JudgeFails, store, ghosts
  <2>3. req' = req \/ Answer(r)
    BY <1>5, <2>1 DEF Score, IncrScore, TimeScore, IncrFails, AddScore, BanForThreat, AddFails, JudgeFails
  <2>4. QED
    BY <2>2, <2>3, PassIsUncounted, UncountedKeeps
<1>6. ASSUME NEW r \in Requests, CommandFails(r) PROVE AdmittedOK'
  <2>1. Beside
    BY <1>6 DEF CommandFails, store, ghosts
  <2>2. /\ Answer(r) \/ Onward(r) \/ \E pc \in Aside : Goto(r, pc)
        /\ req[r].pc \in Middleware \cup Aside
    BY <1>6 DEF CommandFails, After, Middleware, Aside
  <2>3. QED
    BY <2>1, <2>2, PassIsUncounted, UncountedKeeps
<1>7. ASSUME UNCHANGED gatewayVars PROVE AdmittedOK'
  BY <1>7 DEF gatewayVars, store, ghosts, AdmittedOK, CountedNow
<1>8. QED
  BY <1>1, <1>2, <1>3, <1>4, <1>5, <1>6, <1>7, ArriveAdmits, ExpireAdmits, PassWindowAdmits DEF GatewayNext

LEMMA AdmittedInit == GatewayInit => AdmittedOK
<1> SUFFICES ASSUME GatewayInit PROVE AdmittedOK
  OBVIOUS
<1>1. MaxWindow \in Nat /\ (\A l \in Limiters : window[l] = 0) /\ 0 \in 0 .. MaxWindow
  BY GatewayAssumption DEF GatewayInit
<1>2. /\ admitted \in [Limiters -> [0 .. MaxWindow -> Nat]]
      /\ \A l \in Limiters, w \in 0 .. MaxWindow : admitted[l][w] = 0
  BY DEF GatewayInit
<1>3. ASSUME NEW l \in Limiters
      PROVE  /\ admitted[l][window[l]] + Cardinality(CountedNow(l)) <= hits[l][window[l]].n
             /\ admitted[l][window[l]] + Cardinality(CountedNow(l)) <= Max[l]
  <2>1. CountedNow(l) = {}
    <3>1. Timing(l) # "idle" /\ Judging(l) # "idle"
      BY DEF Timing, Judging
    <3>2. QED
      BY <3>1 DEF GatewayInit, CountedNow, Idle
  <2>2. Cardinality(CountedNow(l)) = 0
    BY <2>1, FS_EmptySet
  <2>3. admitted[l][window[l]] = 0 /\ hits[l][window[l]].n = 0 /\ Max[l] \in Nat
    BY <1>1, GatewayAssumption DEF GatewayInit, None
  <2>4. QED
    BY <2>2, <2>3
<1>4. QED
  BY <1>2, <1>3 DEF AdmittedOK

\* Of the requests it counted no limiter lets more than its maximum through in the
\* current window, for any number of requests that count at once and whatever keys
\* expire; a request whose command fails goes on uncounted and is no part of it
\* (src/src/api/middlewares/rate-limiting.js, incrementWithTTL of redis-security.js).
THEOREM AdmittedWithinMaxAlways == GatewaySpec => []AdmittedWithinMax
<1>1. GatewayInit => RequestsOK /\ AdmittedOK
  BY GatewayInitInv, AdmittedInit DEF GatewayInv
<1>2. RequestsOK /\ AdmittedOK /\ [GatewayNext]_gatewayVars => (RequestsOK /\ AdmittedOK)'
  BY RequestsKept, AdmittedKept
<1>3. RequestsOK /\ AdmittedOK => AdmittedWithinMax
  <2>1. SUFFICES ASSUME RequestsOK, AdmittedOK, NEW l \in Limiters
                 PROVE  admitted[l][window[l]] <= Max[l]
    BY DEF AdmittedWithinMax
  <2>2. PICK a \in Nat, m \in Nat, n \in Nat :
          a = admitted[l][window[l]] /\ m = Max[l] /\ n = Cardinality(CountedNow(l))
    BY <2>1, CountsTyped
  <2>3. a + n <= m
    BY <2>1, <2>2 DEF AdmittedOK
  <2>4. QED
    BY <2>2, <2>3
<1>4. QED
  BY <1>1, <1>2, <1>3, PTL DEF GatewaySpec

-----------------------------------------------------------------------------
(***************************************************************************)
(* Proofs about DbPool, for any number of callers, tries, pools and errors. *)
(* One inductive invariant: the pools in use are open ones that were       *)
(* created, none is current after the shutdown, and what a statement has   *)
(* executed is what its lost answers and its place account for.            *)
(***************************************************************************)

\* What is known of one statement.
CallOK(call) ==
    /\ call.executed <= call.attempt
    /\ call.at = "idle" => call.attempt = 0 /\ call.lost = 0
    /\ call.at = "sent" => call.executed = call.lost /\ call.executed < call.attempt
    /\ call.at = "executed" => call.executed = call.lost + 1
    /\ call.at = "sleeping" => call.executed = call.lost /\ call.attempt < MaxTries
    /\ call.at \in {"failed", "refused"} => call.executed = call.lost
    /\ call.at = "done" => call.executed = call.lost + 1

PoolsOK ==
    /\ pool <= created
    /\ openPools \subseteq 1..created
    /\ pool # NoPool => pool \in openPools
    /\ poolClosed => pool = NoPool

PoolInv ==
    /\ DbPoolTypeOK /\ PoolsOK /\ AttemptsRunOnOpenPools
    /\ \A c \in Callers : CallOK(calls[c])

CallType == [at : {"idle", "sent", "executed", "sleeping", "done", "failed", "refused"},
             attempt : 0..MaxTries, on : 0..MaxPools, error : ErrorTypes \cup {"none"},
             executed : 0..MaxTries, lost : 0..MaxTries]

LEMMA PoolInvInit == PoolInit => PoolInv
<1>. SUFFICES ASSUME PoolInit PROVE PoolInv
  OBVIOUS
<1>1. NoCall \in CallType
  BY DbPoolAssumption DEF NoCall, CallType, NoPool
<1>2. calls \in [Callers -> CallType]
  BY <1>1 DEF PoolInit
<1>3. DbPoolTypeOK
  <2>1. poolClosed \in BOOLEAN /\ recreationTimer \in BOOLEAN
    BY DEF PoolInit
  <2>2. pool = 0 /\ created = 0 /\ poolErrors = 0 /\ openPools = {}
    BY DEF PoolInit, NoPool
  <2>3. 0 \in 0..MaxPools /\ 0 \in 0..MaxPoolErrors
    BY DbPoolAssumption
  <2>. QED
    BY <1>2, <2>1, <2>2, <2>3 DEF DbPoolTypeOK, CallType
<1>4. PoolsOK
  BY DEF PoolInit, PoolsOK, NoPool
<1>5. ASSUME NEW c \in Callers PROVE CallOK(calls[c]) /\ calls[c].at = "idle"
  <2>1. calls[c] = NoCall
    BY DEF PoolInit
  <2>. QED
    BY <2>1 DEF CallOK, NoCall
<1>. QED
  BY <1>3, <1>4, <1>5 DEF PoolInv, AttemptsRunOnOpenPools

-----------------------------------------------------------------------------

\* Asking for the client leaves a pool that is current and open, and loses none.
LEMMA EnsurePoolOpens ==
    ASSUME PoolInv, ~poolClosed, EnsurePool
    PROVE  /\ pool' \in 1..MaxPools /\ created' \in 0..MaxPools /\ pool' <= created'
           /\ openPools' \subseteq 1..created' /\ created' <= MaxPools
           /\ pool' \in openPools' /\ openPools \subseteq openPools'
<1>1. CASE pool = NoPool
  <2>1. CreatePool
    BY <1>1 DEF EnsurePool
  <2>2. created \in Nat /\ created < MaxPools /\ MaxPools \in Nat /\ openPools \subseteq 1..created
    BY <2>1, DbPoolAssumption DEF CreatePool, PoolInv, DbPoolTypeOK, PoolsOK
  <2>. QED
    BY <2>1, <2>2 DEF CreatePool
<1>2. CASE pool # NoPool
  <2>1. pool' = pool /\ created' = created /\ openPools' = openPools
    BY <1>2 DEF EnsurePool
  <2>2. /\ pool \in openPools /\ openPools \subseteq 1..created /\ pool <= created
        /\ openPools \subseteq 1..MaxPools /\ created \in 0..MaxPools
    BY <1>2 DEF PoolInv, PoolsOK, DbPoolTypeOK
  <2>3. created <= MaxPools
    BY <2>2, DbPoolAssumption
  <2>. QED
    BY <2>1, <2>2, <2>3
<1>. QED
  BY <1>1, <1>2

\* A step in which the pools stay what they are, or are those EnsurePool leaves.
PoolsStay ==
    /\ UNCHANGED <<poolClosed, poolErrors>> /\ recreationTimer' \in BOOLEAN
    /\ UNCHANGED <<pool, created, openPools>> \/ (~poolClosed /\ EnsurePool)

LEMMA PoolsKept ==
    ASSUME PoolInv, PoolsStay
    PROVE  /\ PoolsOK' /\ openPools \subseteq openPools'
           /\ pool' \in 0..MaxPools /\ created' \in 0..MaxPools /\ openPools' \subseteq 1..MaxPools
           /\ poolClosed' \in BOOLEAN /\ poolErrors' \in 0..MaxPoolErrors /\ recreationTimer' \in BOOLEAN
<1>1. poolClosed' \in BOOLEAN /\ poolErrors' \in 0..MaxPoolErrors /\ recreationTimer' \in BOOLEAN
  BY DEF PoolsStay, PoolInv, DbPoolTypeOK
<1>2. CASE UNCHANGED <<pool, created, openPools>>
  BY <1>1, <1>2 DEF PoolsStay, PoolInv, PoolsOK, DbPoolTypeOK
<1>3. CASE ~poolClosed /\ EnsurePool
  <2>1. /\ pool' \in 1..MaxPools /\ created' \in 0..MaxPools /\ pool' <= created'
        /\ openPools' \subseteq 1..created' /\ created' <= MaxPools
        /\ pool' \in openPools' /\ openPools \subseteq openPools'
    BY <1>3, EnsurePoolOpens
  <2>2. openPools' \subseteq 1..MaxPools /\ pool' \in 0..MaxPools
    BY <2>1, DbPoolAssumption
  <2>. QED
    BY <1>1, <1>3, <2>1, <2>2 DEF PoolsOK, PoolsStay
<1>. QED
  BY <1>2, <1>3 DEF PoolsStay

\* Together with one statement that moves.
LEMMA CallStep ==
    ASSUME PoolInv, PoolsStay, NEW c \in Callers,
           calls' \in [Callers -> CallType],
           \A d \in Callers : d # c => calls'[d] = calls[d],
           CallOK(calls'[c]),
           calls'[c].at \in {"sent", "executed"} => calls'[c].on \in openPools'
    PROVE  PoolInv'
<1>1. /\ PoolsOK' /\ openPools \subseteq openPools'
      /\ pool' \in 0..MaxPools /\ created' \in 0..MaxPools /\ openPools' \subseteq 1..MaxPools
      /\ poolClosed' \in BOOLEAN /\ poolErrors' \in 0..MaxPoolErrors /\ recreationTimer' \in BOOLEAN
  BY PoolsKept
<1>2. DbPoolTypeOK'
  BY <1>1 DEF DbPoolTypeOK, CallType
<1>3. ASSUME NEW d \in Callers
      PROVE  CallOK(calls'[d]) /\ (calls'[d].at \in {"sent", "executed"} => calls'[d].on \in openPools')
  BY <1>1 DEF PoolInv, AttemptsRunOnOpenPools
<1>. QED
  BY <1>1, <1>2, <1>3 DEF PoolInv, AttemptsRunOnOpenPools

\* What is known before a statement moves.
LEMMA CallBefore ==
    ASSUME PoolInv, NEW c \in Callers
    PROVE  /\ calls \in [Callers -> CallType] /\ calls[c] \in CallType /\ CallOK(calls[c])
           /\ calls[c].at \in {"sent", "executed"} => calls[c].on \in openPools
           /\ MaxTries \in Nat \ {0} /\ MaxPools \in Nat /\ recreationTimer \in BOOLEAN
BY DbPoolAssumption DEF PoolInv, DbPoolTypeOK, CallType, AttemptsRunOnOpenPools

-----------------------------------------------------------------------------
(* The steps of a statement *)

LEMMA CallDbKeeps == ASSUME PoolInv, NEW c \in Callers, CallDb(c) PROVE PoolInv'
<1>. DEFINE new == [calls[c] EXCEPT !.at = "sent", !.attempt = 1, !.on = pool']
<1>1. PoolsStay /\ calls[c].at = "idle"
  BY CallBefore DEF CallDb, PoolsStay
<1>2. pool' \in 1..MaxPools /\ pool' \in openPools'
  BY EnsurePoolOpens DEF CallDb
<1>3. calls' = [calls EXCEPT ![c] = new]
  BY CallBefore DEF CallDb
<1>4. new \in CallType
  <2>1. 1 \in 0..MaxTries /\ pool' \in 0..MaxPools
    BY <1>2, DbPoolAssumption
  <2>2. calls[c] \in CallType
    BY CallBefore
  <2>. QED
    BY <2>1, <2>2 DEF CallType
<1>5. CallOK(new) /\ new.on = pool'
  BY <1>1, <1>2, CallBefore DEF CallOK, CallType
<1>. HIDE DEF new
<1>6. /\ calls' \in [Callers -> CallType] /\ calls'[c] = new
      /\ \A d \in Callers : d # c => calls'[d] = calls[d]
  BY <1>3, <1>4, CallBefore
<1>. QED
  BY <1>1, <1>2, <1>5, <1>6, CallStep

LEMMA RefusedKeeps == ASSUME PoolInv, NEW c \in Callers, CallRefused(c) PROVE PoolInv'
<1>. DEFINE new == [calls[c] EXCEPT !.at = "refused"]
<1>1. PoolsStay /\ calls[c].at = "idle"
  BY CallBefore DEF CallRefused, PoolsStay
<1>3. calls' = [calls EXCEPT ![c] = new]
  BY CallBefore DEF CallRefused, At
<1>4. new \in CallType
  BY <1>1, CallBefore DEF CallType
<1>5. CallOK(new) /\ new.at = "refused"
  BY <1>1, CallBefore DEF CallOK, CallType
<1>. HIDE DEF new
<1>6. /\ calls' \in [Callers -> CallType] /\ calls'[c] = new
      /\ \A d \in Callers : d # c => calls'[d] = calls[d]
  BY <1>3, <1>4, CallBefore
<1>. QED
  BY <1>1, <1>5, <1>6, CallStep

LEMMA ExecuteKeeps == ASSUME PoolInv, NEW c \in Callers, Execute(c) PROVE PoolInv'
<1>. DEFINE new == [calls[c] EXCEPT !.at = "executed", !.executed = calls[c].executed + 1]
<1>1. PoolsStay /\ calls[c].at = "sent"
  BY CallBefore DEF Execute, PoolsStay
<1>2. openPools' = openPools
  BY DEF Execute
<1>3. calls' = [calls EXCEPT ![c] = new]
  BY CallBefore DEF Execute
<1>4. new \in CallType
  <2>1. calls[c] \in CallType /\ calls[c].executed < calls[c].attempt /\ MaxTries \in Nat
    BY <1>1, CallBefore DEF CallOK
  <2>2. calls[c].executed + 1 \in 0..MaxTries
    BY <2>1 DEF CallType
  <2>. QED
    BY <2>1, <2>2 DEF CallType
<1>5. CallOK(new) /\ new.on \in openPools'
  BY <1>1, <1>2, CallBefore DEF CallOK, CallType
<1>. HIDE DEF new
<1>6. /\ calls' \in [Callers -> CallType] /\ calls'[c] = new
      /\ \A d \in Callers : d # c => calls'[d] = calls[d]
  BY <1>3, <1>4, CallBefore
<1>. QED
  BY <1>1, <1>2, <1>5, <1>6, CallStep

LEMMA ArrivalKeeps == ASSUME PoolInv, NEW c \in Callers, AnswerArrives(c) PROVE PoolInv'
<1>. DEFINE new == [calls[c] EXCEPT !.at = "done"]
<1>1. PoolsStay /\ calls[c].at = "executed"
  BY CallBefore DEF AnswerArrives, PoolsStay
<1>3. calls' = [calls EXCEPT ![c] = new]
  BY CallBefore DEF AnswerArrives, At
<1>4. new \in CallType
  BY <1>1, CallBefore DEF CallType
<1>5. CallOK(new) /\ new.at = "done"
  BY <1>1, CallBefore DEF CallOK, CallType
<1>. HIDE DEF new
<1>6. /\ calls' \in [Callers -> CallType] /\ calls'[c] = new
      /\ \A d \in Callers : d # c => calls'[d] = calls[d]
  BY <1>3, <1>4, CallBefore
<1>. QED
  BY <1>1, <1>5, <1>6, CallStep

LEMMA BreakKeeps == ASSUME PoolInv, NEW c \in Callers, NEW type \in ErrorTypes, Break(c, type) PROVE PoolInv'
<1>. DEFINE new == [calls[c] EXCEPT !.at = IF Retryable(type) /\ calls[c].attempt < MaxTries THEN "sleeping" ELSE "failed",
                               !.error = type,
                               !.lost = IF calls[c].at = "executed" THEN calls[c].lost + 1 ELSE calls[c].lost]
<1>. DEFINE again == Retryable(type) /\ calls[c].attempt < MaxTries
<1>1. PoolsStay /\ calls[c].at \in {"sent", "executed"}
  BY CallBefore DEF Break, PoolsStay
<1>3. calls' = [calls EXCEPT ![c] = new]
  BY CallBefore DEF Break
<1>4. new \in CallType
  BY <1>1, CallBefore DEF CallType, CallOK
<1>5. CallOK(new) /\ new.at \in {"sleeping", "failed"}
  BY <1>1, CallBefore DEF CallOK, CallType
<1>. HIDE DEF new
<1>6. /\ calls' \in [Callers -> CallType] /\ calls'[c] = new
      /\ \A d \in Callers : d # c => calls'[d] = calls[d]
  BY <1>3, <1>4, CallBefore
<1>. QED
  BY <1>1, <1>5, <1>6, CallStep

LEMMA WakeKeeps == ASSUME PoolInv, NEW c \in Callers, Wake(c) PROVE PoolInv'
<1>1. PoolsStay /\ calls[c].at = "sleeping"
  BY CallBefore DEF Wake, PoolsStay
<1>2. CASE poolClosed /\ At(c, "refused")
  <2>. DEFINE new == [calls[c] EXCEPT !.at = "refused"]
  <2>1. calls' = [calls EXCEPT ![c] = new]
    BY <1>2, CallBefore DEF At
  <2>2. new \in CallType /\ CallOK(new) /\ new.at = "refused"
    BY <1>1, CallBefore DEF CallType, CallOK
  <2>. HIDE DEF new
  <2>3. /\ calls' \in [Callers -> CallType] /\ calls'[c] = new
        /\ \A d \in Callers : d # c => calls'[d] = calls[d]
    BY <2>1, <2>2, CallBefore
  <2>. QED
    BY <1>1, <2>2, <2>3, CallStep
<1>3. CASE /\ ~poolClosed /\ EnsurePool
           /\ calls' = [calls EXCEPT ![c].at = "sent", ![c].attempt = @ + 1, ![c].on = pool']
  <2>. DEFINE new == [calls[c] EXCEPT !.at = "sent", !.attempt = calls[c].attempt + 1, !.on = pool']
  <2>1. calls' = [calls EXCEPT ![c] = new]
    BY <1>3, CallBefore
  <2>2. pool' \in 1..MaxPools /\ pool' \in openPools'
    BY <1>3, EnsurePoolOpens
  <2>3. new \in CallType
    <3>1. calls[c] \in CallType /\ calls[c].attempt < MaxTries /\ MaxTries \in Nat
      BY <1>1, CallBefore DEF CallOK
    <3>2. calls[c].attempt + 1 \in 0..MaxTries /\ pool' \in 0..MaxPools
      BY <2>2, <3>1, DbPoolAssumption DEF CallType
    <3>. QED
      BY <3>1, <3>2 DEF CallType
  <2>4. CallOK(new) /\ new.on = pool'
    BY <1>1, CallBefore DEF CallType, CallOK
  <2>. HIDE DEF new
  <2>5. /\ calls' \in [Callers -> CallType] /\ calls'[c] = new
        /\ \A d \in Callers : d # c => calls'[d] = calls[d]
    BY <2>1, <2>3, CallBefore
  <2>. QED
    BY <1>1, <2>2, <2>4, <2>5, CallStep
<1>. QED
  BY <1>2, <1>3 DEF Wake

-----------------------------------------------------------------------------
(* The steps of the pools *)

\* The pools change and no statement moves.
LEMMA PoolStep ==
    ASSUME PoolInv, calls' = calls, PoolsOK', DbPoolTypeOK',
           \A c \in Callers : calls[c].at \in {"sent", "executed"} => calls[c].on \in openPools'
    PROVE  PoolInv'
BY DEF PoolInv, AttemptsRunOnOpenPools

LEMMA PoolErrorKeeps == ASSUME PoolInv, PoolError PROVE PoolInv'
<1>1. UNCHANGED <<poolClosed, pool, created, openPools, calls>> /\ recreationTimer' \in BOOLEAN
  BY DEF PoolError, SchedulePoolRecreation, PoolInv, DbPoolTypeOK
<1>2. poolErrors' \in 0..MaxPoolErrors
  BY DbPoolAssumption DEF PoolError, PoolInv, DbPoolTypeOK
<1>3. PoolsOK' /\ DbPoolTypeOK'
  BY <1>1, <1>2 DEF PoolInv, PoolsOK, DbPoolTypeOK
<1>. QED
  BY <1>1, <1>3, PoolStep DEF PoolInv, AttemptsRunOnOpenPools

LEMMA RecreateKeeps == ASSUME PoolInv, RecreatePool PROVE PoolInv'
<1>1. UNCHANGED <<poolClosed, calls, poolErrors>> /\ recreationTimer' = FALSE
  BY DEF RecreatePool
<1>2. CASE poolClosed /\ UNCHANGED <<pool, created, openPools>>
  <2>1. PoolsOK' /\ DbPoolTypeOK'
    BY <1>1, <1>2 DEF PoolInv, PoolsOK, DbPoolTypeOK
  <2>. QED
    BY <1>1, <1>2, <2>1, PoolStep DEF PoolInv, AttemptsRunOnOpenPools
<1>3. CASE ~poolClosed /\ CreatePool
  <2>1. created \in Nat /\ created < MaxPools /\ MaxPools \in Nat /\ openPools \subseteq 1..created
    BY <1>3, DbPoolAssumption DEF CreatePool, PoolInv, PoolsOK, DbPoolTypeOK
  <2>2. created' = created + 1 /\ pool' = created' /\ openPools' = openPools \cup {created'}
    BY <1>3 DEF CreatePool
  <2>3. /\ created' \in 1..MaxPools /\ openPools' \subseteq 1..created' /\ openPools' \subseteq 1..MaxPools
        /\ created' \in 0..MaxPools /\ pool' <= created' /\ openPools \subseteq openPools'
    BY <2>1, <2>2
  <2>4. PoolsOK' /\ DbPoolTypeOK'
    BY <1>1, <1>3, <2>2, <2>3 DEF PoolInv, PoolsOK, DbPoolTypeOK
  <2>. QED
    BY <1>1, <2>3, <2>4, PoolStep DEF PoolInv, AttemptsRunOnOpenPools
<1>. QED
  BY <1>2, <1>3 DEF RecreatePool

LEMMA DrainKeeps == ASSUME PoolInv, NEW p \in 1..MaxPools, Drain(p) PROVE PoolInv'
<1>1. UNCHANGED <<poolClosed, pool, created, recreationTimer, calls, poolErrors>>
  BY DEF Drain
<1>2. openPools' = openPools \ {p} /\ p # pool
  BY DEF Drain
<1>3. \A c \in Callers : calls[c].at \in {"sent", "executed"} => calls[c].on \in openPools'
  BY <1>2 DEF Drain, PoolInv, AttemptsRunOnOpenPools
<1>4. PoolsOK' /\ DbPoolTypeOK'
  BY <1>1, <1>2 DEF PoolInv, PoolsOK, DbPoolTypeOK
<1>. QED
  BY <1>1, <1>3, <1>4, PoolStep

LEMMA CloseKeeps == ASSUME PoolInv, ClosePool PROVE PoolInv'
<1>1. UNCHANGED <<created, openPools, calls, poolErrors>> /\ poolClosed' /\ ~recreationTimer' /\ pool' = 0
  BY DEF ClosePool, NoPool
<1>2. recreationTimer' \in BOOLEAN /\ poolClosed' \in BOOLEAN
  BY DEF ClosePool
<1>3. created \in 0..MaxPools /\ created >= 0 /\ 0 \in 0..MaxPools
  BY DbPoolAssumption DEF PoolInv, DbPoolTypeOK
<1>4. PoolsOK' /\ DbPoolTypeOK'
  BY <1>1, <1>2, <1>3 DEF PoolInv, PoolsOK, DbPoolTypeOK, NoPool
<1>. QED
  BY <1>1, <1>4, PoolStep DEF PoolInv, AttemptsRunOnOpenPools

LEMMA PoolInvStep == PoolInv /\ [PoolNext]_poolVars => PoolInv'
<1>. SUFFICES ASSUME PoolInv, [PoolNext]_poolVars PROVE PoolInv'
  OBVIOUS
<1>1. CASE UNCHANGED poolVars
  BY <1>1 DEF poolVars, PoolInv, DbPoolTypeOK, PoolsOK, AttemptsRunOnOpenPools
<1>2. ASSUME NEW c \in Callers,
             \/ CallDb(c) \/ CallRefused(c) \/ Execute(c) \/ AnswerArrives(c)
             \/ (\E type \in ErrorTypes : Break(c, type)) \/ Wake(c)
      PROVE  PoolInv'
  BY <1>2, CallDbKeeps, RefusedKeeps, ExecuteKeeps, ArrivalKeeps, BreakKeeps, WakeKeeps
<1>3. CASE PoolError \/ RecreatePool \/ ClosePool \/ \E p \in 1..MaxPools : Drain(p)
  BY <1>3, PoolErrorKeeps, RecreateKeeps, CloseKeeps, DrainKeeps
<1>. QED
  BY <1>1, <1>2, <1>3 DEF PoolNext

LEMMA PoolInvariant == PoolSpec => []PoolInv
<1>. QED
  BY PoolInvInit, PoolInvStep, PTL DEF PoolSpec

-----------------------------------------------------------------------------
(* The theorems *)

\* Types: attempts stay within maxRetries, and no pool is created beyond the bound.
THEOREM PoolTypeCorrect == PoolSpec => []DbPoolTypeOK
BY PoolInvariant, PTL DEF PoolInv

\* closePool leaves no pool behind and none comes after it: neither the timer of a
\* replacement nor a statement that wakes creates one.
THEOREM PoolShutdownIsFinal == PoolSpec => ShutdownIsFinal
<1>1. PoolInv /\ [PoolNext]_poolVars
        => [poolClosed => pool' = NoPool /\ created' = created /\ poolClosed']_poolVars
  <2>. SUFFICES ASSUME PoolInv, PoolNext, poolClosed
                PROVE  pool' = NoPool /\ created' = created /\ poolClosed'
    OBVIOUS
  <2>1. pool = NoPool
    BY DEF PoolInv, PoolsOK
  <2>2. UNCHANGED <<pool, created, poolClosed>>
    BY DEF PoolNext, CallDb, CallRefused, Execute, AnswerArrives, Break, Wake, PoolError,
           RecreatePool, Drain, ClosePool
  <2>. QED
    BY <2>1, <2>2
<1>. QED
  BY <1>1, PoolInvariant, PTL DEF PoolSpec, ShutdownIsFinal

\* A statement is executed again only after an execution whose answer was lost.
THEOREM PoolRerunsAreExplained == PoolSpec => []RerunsFollowLostAnswers
<1>1. PoolInv => RerunsFollowLostAnswers
  <2>. SUFFICES ASSUME PoolInv, NEW c \in Callers
                PROVE  /\ calls[c].executed <= calls[c].lost + 1
                       /\ calls[c].at \in {"failed", "refused", "sleeping"} => calls[c].executed = calls[c].lost
                       /\ calls[c].at = "done" => calls[c].executed = calls[c].lost + 1
    BY DEF RerunsFollowLostAnswers
  <2>. QED
    BY CallBefore DEF CallOK, CallType
<1>. QED
  BY <1>1, PoolInvariant, PTL

\* Replacing the pool never takes it away from an attempt under way.
THEOREM PoolAttemptsRunOnOpenPools == PoolSpec => []AttemptsRunOnOpenPools
BY PoolInvariant, PTL DEF PoolInv

-----------------------------------------------------------------------------
(***************************************************************************)
(* Proofs about LivePush, for any servers, senders, sockets and rooms.     *)
(* A socket is in a room only if it asked for it; and what makes "at most   *)
(* once" inductive is that a client which has an event already is either    *)
(* connected to the event's sender or its server has taken the message off  *)
(* the channel.                                                             *)
(***************************************************************************)

Phases == {"none", "lookup", "leftEarly", "open", "stale", "closed"}
SocketType == [stage : Phases, server : Servers \cup {"none"},
               key : Users \cup Strangers \cup {"none"}, alive : {"unset", "yes", "no"},
               ponging : BOOLEAN]

\* The values the variables take; counts of events are only known to be natural.
PushTypeOK ==
    /\ sock \in [Sockets -> SocketType]
    /\ rooms \in [Servers -> [Users -> SUBSET Sockets]]
    /\ events \in Seq([origin : Broadcasters, key : Users]) /\ Len(events) <= MaxEvents
    /\ channel \subseteq [event : 1..Len(events), to : Servers]
    /\ received \in [Sockets -> [EventIds -> Nat]]

\* Who is in a room asked for it, and is registered; who has a server is connected.
RoomsAreAskedFor ==
    \A s \in Sockets, v \in Servers, k \in Users : s \in rooms[v][k] =>
        /\ sock[s].server = v /\ sock[s].key = k
        /\ sock[s].stage \in {"open", "stale"}

ConnectedHaveServers ==
    \A s \in Sockets : sock[s].stage \in {"lookup", "leftEarly", "open", "stale"} =>
        sock[s].server \in Servers

\* An event is not under way to a client that has it.
NotAgain ==
    \A s \in Sockets, e \in EventIds : received[s][e] > 0 =>
        /\ sock[s].stage # "none"
        /\ e <= Len(events)
        /\ \/ events[e].origin = sock[s].server
           \/ [event |-> e, to |-> sock[s].server] \notin channel

PushInv == /\ PushTypeOK /\ RoomsAreAskedFor /\ ConnectedHaveServers
           /\ PushedOnceToItsOwner /\ NotAgain

-----------------------------------------------------------------------------
(* The sockets move, nothing is delivered *)

\* A step of connections: sockets that are connected keep their server and key.
SocketsOnly == UNCHANGED <<events, channel, received>>

LEMMA PushInvInit == PushInit => PushInv
<1>. SUFFICES ASSUME PushInit PROVE PushInv
  OBVIOUS
<1>1. sock \in [Sockets -> SocketType] /\ \A s \in Sockets : sock[s].stage = "none"
  BY DEF PushInit, NoSocket, SocketType, Phases
<1>2. /\ rooms \in [Servers -> [Users -> SUBSET Sockets]]
      /\ \A v \in Servers, k \in Users : rooms[v][k] = {}
  BY DEF PushInit
<1>3. /\ received \in [Sockets -> [EventIds -> Nat]]
      /\ \A s \in Sockets, e \in EventIds : received[s][e] = 0
  BY DEF PushInit
<1>4. PushTypeOK
  <2>1. events = << >> /\ channel = {}
    BY DEF PushInit
  <2>2. events \in Seq([origin : Broadcasters, key : Users]) /\ Len(events) <= MaxEvents
    BY <2>1, LivePushAssumption
  <2>. QED
    BY <1>1, <1>2, <1>3, <2>1, <2>2 DEF PushTypeOK
<1>. QED
  BY <1>1, <1>2, <1>3, <1>4
     DEF PushInv, RoomsAreAskedFor, ConnectedHaveServers, PushedOnceToItsOwner, NotAgain

\* The part of the invariant about what clients received, when sockets alone move.
LEMMA NothingDelivered ==
    ASSUME PushInv, SocketsOnly,
           \A s \in Sockets : sock[s].stage # "none" =>
               sock'[s].stage # "none" /\ sock'[s].server = sock[s].server /\ sock'[s].key = sock[s].key
    PROVE  PushedOnceToItsOwner' /\ NotAgain'
<1>1. ASSUME NEW s \in Sockets, NEW e \in EventIds
      PROVE  /\ received'[s][e] <= 1
             /\ received'[s][e] > 0 =>
                    /\ events'[e].key = sock'[s].key
                    /\ sock'[s].stage # "none" /\ e <= Len(events')
                    /\ \/ events'[e].origin = sock'[s].server
                       \/ [event |-> e, to |-> sock'[s].server] \notin channel'
  <2>1. /\ received[s][e] <= 1
        /\ received[s][e] > 0 =>
                    /\ events[e].key = sock[s].key
                    /\ sock[s].stage # "none" /\ e <= Len(events)
                    /\ \/ events[e].origin = sock[s].server
                       \/ [event |-> e, to |-> sock[s].server] \notin channel
    BY DEF PushInv, PushedOnceToItsOwner, NotAgain
  <2>2. events' = events /\ channel' = channel /\ received' = received
    BY DEF SocketsOnly
  <2>3. sock[s].stage # "none" =>
             sock'[s].stage # "none" /\ sock'[s].server = sock[s].server /\ sock'[s].key = sock[s].key
    OBVIOUS
  <2>. QED
    BY <2>1, <2>2, <2>3
<1>. QED
  BY <1>1 DEF PushedOnceToItsOwner, NotAgain

LEMMA SocketsMove ==
    ASSUME PushInv, SocketsOnly, sock' \in [Sockets -> SocketType],
           rooms' \in [Servers -> [Users -> SUBSET Sockets]],
           RoomsAreAskedFor', ConnectedHaveServers',
           \A s \in Sockets : sock[s].stage # "none" =>
               sock'[s].stage # "none" /\ sock'[s].server = sock[s].server /\ sock'[s].key = sock[s].key
    PROVE  PushInv'
<1>1. PushTypeOK'
  BY DEF PushInv, PushTypeOK, SocketsOnly
<1>. QED
  BY <1>1, NothingDelivered DEF PushInv

\* One socket moves.
LEMMA SocketBefore ==
    ASSUME PushInv, NEW s \in Sockets
    PROVE  /\ sock \in [Sockets -> SocketType] /\ sock[s] \in SocketType
           /\ rooms \in [Servers -> [Users -> SUBSET Sockets]]
           /\ sock[s].stage \in {"lookup", "leftEarly", "open", "stale"} => sock[s].server \in Servers
           /\ \A v \in Servers, k \in Users : s \in rooms[v][k] =>
                  /\ sock[s].server = v /\ sock[s].key = k /\ sock[s].stage \in {"open", "stale"}
BY DEF PushInv, PushTypeOK, RoomsAreAskedFor, ConnectedHaveServers

\* .. without leaving or entering a room.
LEMMA OneSocketMoves ==
    ASSUME PushInv, SocketsOnly, UNCHANGED rooms, NEW s \in Sockets, NEW new \in SocketType,
           sock' = [sock EXCEPT ![s] = new],
           sock[s].stage # "none" =>
               new.stage # "none" /\ new.server = sock[s].server /\ new.key = sock[s].key,
           sock[s].stage \in {"open", "stale"} => new.stage \in {"open", "stale"},
           new.stage \in {"lookup", "leftEarly", "open", "stale"} => new.server \in Servers
    PROVE  PushInv'
<1>1. sock' \in [Sockets -> SocketType] /\ sock'[s] = new
      /\ \A q \in Sockets \ {s} : sock'[q] = sock[q]
  BY SocketBefore
<1>2. rooms' \in [Servers -> [Users -> SUBSET Sockets]]
  BY SocketBefore
<1>3. RoomsAreAskedFor'
  <2>. SUFFICES ASSUME NEW q \in Sockets, NEW v \in Servers, NEW k \in Users, q \in rooms[v][k]
                PROVE  /\ sock'[q].server = v /\ sock'[q].key = k
                       /\ sock'[q].stage \in {"open", "stale"}
    BY DEF RoomsAreAskedFor
  <2>1. sock[q].server = v /\ sock[q].key = k /\ sock[q].stage \in {"open", "stale"}
    BY SocketBefore
  <2>. QED
    BY <1>1, <2>1
<1>4. ConnectedHaveServers'
  BY <1>1 DEF PushInv, ConnectedHaveServers
<1>5. \A q \in Sockets : sock[q].stage # "none" =>
         sock'[q].stage # "none" /\ sock'[q].server = sock[q].server /\ sock'[q].key = sock[q].key
  BY <1>1
<1>. QED
  BY <1>1, <1>2, <1>3, <1>4, <1>5, SocketsMove

LEMMA ConnectKeeps ==
    ASSUME PushInv, NEW s \in Sockets, NEW v \in Servers, NEW k \in Users \cup Strangers,
           Connect(s, v, k)
    PROVE  PushInv'
<1>. DEFINE new == [NoSocket EXCEPT !.stage = "lookup", !.server = v, !.key = k]
<1>1. /\ sock[s].stage = "none" /\ sock' = [sock EXCEPT ![s] = new] /\ SocketsOnly /\ UNCHANGED rooms
  BY DEF Connect, SocketsOnly
<1>2. new \in SocketType /\ new.stage = "lookup" /\ new.server \in Servers
  BY DEF NoSocket, SocketType, Phases
<1>. HIDE DEF new
<1>. QED
  BY <1>1, <1>2, OneSocketMoves

LEMMA PongKeeps == ASSUME PushInv, NEW s \in Sockets, Pong(s) PROVE PushInv'
<1>. DEFINE new == [sock[s] EXCEPT !.ponging = FALSE,
                                  !.alive = IF sock[s].stage = "open" THEN "yes" ELSE sock[s].alive]
<1>1. /\ sock' = [sock EXCEPT ![s] = new] /\ SocketsOnly /\ UNCHANGED rooms
  BY SocketBefore DEF Pong, SocketsOnly
<1>2. /\ new \in SocketType /\ new.stage = sock[s].stage /\ new.server = sock[s].server
      /\ new.key = sock[s].key
  BY SocketBefore DEF SocketType
<1>. HIDE DEF new
<1>. QED
  BY <1>1, <1>2, OneSocketMoves, SocketBefore

LEMMA RegisterKeeps == ASSUME PushInv, NEW s \in Sockets, Register(s) PROVE PushInv'
<1>. DEFINE k == sock[s].key
<1>1. /\ sock[s].stage \in {"lookup", "leftEarly"} /\ sock[s].server \in Servers
      /\ SocketsOnly
  BY SocketBefore DEF Register, SocketsOnly
<1>2. CASE k \notin Users
  <2>. DEFINE new == [sock[s] EXCEPT !.stage = "closed"]
  <2>1. sock' = [sock EXCEPT ![s] = new] /\ UNCHANGED rooms
    BY <1>2, SocketBefore DEF Register
  <2>2. /\ new \in SocketType /\ new.stage = "closed" /\ new.server = sock[s].server
        /\ new.key = sock[s].key
    BY SocketBefore DEF SocketType, Phases
  <2>. HIDE DEF new
  <2>. QED
    BY <1>1, <2>1, <2>2, OneSocketMoves
<1>3. CASE k \in Users
  <2>. DEFINE new == Joined(sock[s])
  <2>1. /\ sock' = [sock EXCEPT ![s] = new]
        /\ rooms' = [rooms EXCEPT ![sock[s].server][k] = @ \cup {s}]
    BY <1>3, SocketBefore DEF Register
  <2>2. /\ new \in SocketType /\ new.stage \in {"open", "stale"} /\ new.server = sock[s].server
        /\ new.key = sock[s].key
    BY SocketBefore DEF SocketType, Joined, Phases
  <2>. HIDE DEF new
  <2>3. sock' \in [Sockets -> SocketType] /\ sock'[s] = new
        /\ \A q \in Sockets \ {s} : sock'[q] = sock[q]
    BY <2>1, <2>2, SocketBefore
  <2>4. /\ rooms' \in [Servers -> [Users -> SUBSET Sockets]]
        /\ \A v \in Servers, l \in Users : \A q \in rooms'[v][l] :
               q \in rooms[v][l] \/ (q = s /\ v = sock[s].server /\ l = k)
    BY <1>1, <1>3, <2>1, SocketBefore
  <2>5. RoomsAreAskedFor'
    <3>. SUFFICES ASSUME NEW q \in Sockets, NEW v \in Servers, NEW l \in Users, q \in rooms'[v][l]
                  PROVE  /\ sock'[q].server = v /\ sock'[q].key = l
                         /\ sock'[q].stage \in {"open", "stale"}
      BY DEF RoomsAreAskedFor
    <3>1. CASE q = s /\ v = sock[s].server /\ l = k
      BY <3>1, <2>2, <2>3
    <3>2. CASE q \in rooms[v][l]
      <4>1. sock[q].server = v /\ sock[q].key = l /\ sock[q].stage \in {"open", "stale"}
        BY <3>2, SocketBefore
      <4>. QED
        BY <4>1, <1>1, <2>3
    <3>. QED
      BY <3>1, <3>2, <2>4
  <2>6. ConnectedHaveServers'
    BY <1>1, <2>2, <2>3 DEF PushInv, ConnectedHaveServers
  <2>7. \A q \in Sockets : sock[q].stage # "none" =>
           sock'[q].stage # "none" /\ sock'[q].server = sock[q].server /\ sock'[q].key = sock[q].key
    BY <2>2, <2>3
  <2>. QED
    BY <1>1, <2>3, <2>4, <2>5, <2>6, <2>7, SocketsMove
<1>. QED
  BY <1>2, <1>3

LEMMA LeaveKeeps == ASSUME PushInv, NEW s \in Sockets, Leave(s) PROVE PushInv'
<1>1. SocketsOnly /\ sock[s].stage \in {"lookup", "open"} /\ Closing(s)
  BY DEF Leave, SocketsOnly
<1>2. CASE sock[s].stage = "lookup"
  <2>. DEFINE new == [sock[s] EXCEPT !.stage = "leftEarly", !.ponging = FALSE]
  <2>1. sock' = [sock EXCEPT ![s] = new] /\ UNCHANGED rooms
    BY <1>1, <1>2, SocketBefore DEF Closing
  <2>2. /\ new \in SocketType /\ new.stage = "leftEarly" /\ new.server = sock[s].server
        /\ new.key = sock[s].key
    BY SocketBefore DEF SocketType, Phases
  <2>. HIDE DEF new
  <2>. QED
    BY <1>1, <1>2, <2>1, <2>2, OneSocketMoves, SocketBefore
<1>3. CASE sock[s].stage = "open"
  <2>. DEFINE new == [sock[s] EXCEPT !.stage = "closed", !.ponging = FALSE]
  <2>1. /\ sock' = [sock EXCEPT ![s] = new]
        /\ rooms' = [rooms EXCEPT ![sock[s].server][sock[s].key] = @ \ {s}]
    BY <1>1, <1>3, SocketBefore DEF Closing
  <2>2. /\ new \in SocketType /\ new.stage = "closed" /\ new.server = sock[s].server
        /\ new.key = sock[s].key
    BY SocketBefore DEF SocketType, Phases
  <2>. HIDE DEF new
  <2>3. sock' \in [Sockets -> SocketType] /\ sock'[s] = new
        /\ \A q \in Sockets \ {s} : sock'[q] = sock[q]
    BY <2>1, <2>2, SocketBefore
  <2>4. /\ rooms' \in [Servers -> [Users -> SUBSET Sockets]]
        /\ \A v \in Servers, l \in Users : rooms'[v][l] \subseteq rooms[v][l]
        /\ \A v \in Servers, l \in Users : s \notin rooms'[v][l]
    <3>1. rooms \in [Servers -> [Users -> SUBSET Sockets]]
      BY SocketBefore
    <3>2. ASSUME NEW v \in Servers, NEW l \in Users
          PROVE  rooms'[v][l] = rooms[v][l] \ {s}
      <4>1. CASE v = sock[s].server /\ l = sock[s].key
        BY <2>1, <3>1, <4>1
      <4>2. CASE ~(v = sock[s].server /\ l = sock[s].key)
        <5>1. s \notin rooms[v][l]
          BY <4>2, SocketBefore
        <5>2. rooms'[v][l] = rooms[v][l]
          BY <2>1, <3>1, <4>2
        <5>. QED
          BY <5>1, <5>2
      <4>. QED
        BY <4>1, <4>2
    <3>3. rooms' \in [Servers -> [Users -> SUBSET Sockets]]
      BY <2>1, <3>1
    <3>. QED
      BY <3>2, <3>3
  <2>5. RoomsAreAskedFor'
    <3>. SUFFICES ASSUME NEW q \in Sockets, NEW v \in Servers, NEW l \in Users, q \in rooms'[v][l]
                  PROVE  /\ sock'[q].server = v /\ sock'[q].key = l
                         /\ sock'[q].stage \in {"open", "stale"}
      BY DEF RoomsAreAskedFor
    <3>1. q # s /\ q \in rooms[v][l]
      BY <2>4
    <3>2. sock[q].server = v /\ sock[q].key = l /\ sock[q].stage \in {"open", "stale"}
      BY <3>1, SocketBefore
    <3>. QED
      BY <2>3, <3>1, <3>2
  <2>6. ConnectedHaveServers'
    BY <2>2, <2>3 DEF PushInv, ConnectedHaveServers
  <2>7. \A q \in Sockets : sock[q].stage # "none" =>
           sock'[q].stage # "none" /\ sock'[q].server = sock[q].server /\ sock'[q].key = sock[q].key
    BY <2>2, <2>3
  <2>. QED
    BY <1>1, <2>3, <2>4, <2>5, <2>6, <2>7, SocketsMove
<1>. QED
  BY <1>1, <1>2, <1>3

\* What one round of the heartbeat makes of one socket.
LEMMA HeartbeatOnOne ==
    ASSUME PushInv, NEW v \in Servers, Heartbeat(v), NEW s \in Sockets
    PROVE  /\ sock'[s] \in SocketType
           /\ sock'[s].server = sock[s].server /\ sock'[s].key = sock[s].key
           /\ s \notin Silent(v) => sock'[s].stage = sock[s].stage
           /\ s \in Silent(v) => /\ sock[s].stage \in {"lookup", "open"}
                                 /\ sock'[s].stage \in {"closed", "leftEarly"} /\ sock[s].server = v
                                 /\ (sock[s].stage = "open" => sock'[s].stage = "closed")
<1>1. sock[s] \in SocketType
  BY SocketBefore
<1>2. sock'[s] = IF s \in Silent(v)
                 THEN [sock[s] EXCEPT !.stage = IF sock[s].stage = "open" THEN "closed" ELSE "leftEarly",
                                      !.ponging = FALSE]
                 ELSE IF s \in Pinged(v) THEN [sock[s] EXCEPT !.alive = "no", !.ponging = TRUE]
                 ELSE sock[s]
  BY <1>1 DEF Heartbeat, SocketType
<1>3. CASE s \in Silent(v)
  <2>1. sock[s].stage \in {"lookup", "open"} /\ sock[s].server = v
    BY <1>3 DEF Silent
  <2>2. sock'[s] = [sock[s] EXCEPT !.stage = IF sock[s].stage = "open" THEN "closed" ELSE "leftEarly",
                                   !.ponging = FALSE]
    BY <1>2, <1>3
  <2>. QED
    BY <1>1, <1>3, <2>1, <2>2 DEF SocketType, Phases
<1>4. CASE s \notin Silent(v) /\ s \in Pinged(v)
  <2>1. sock'[s] = [sock[s] EXCEPT !.alive = "no", !.ponging = TRUE]
    BY <1>2, <1>4
  <2>. QED
    BY <1>1, <1>4, <2>1 DEF SocketType
<1>5. CASE s \notin Silent(v) /\ s \notin Pinged(v)
  BY <1>1, <1>2, <1>5
<1>. QED
  BY <1>3, <1>4, <1>5

LEMMA HeartbeatKeeps == ASSUME PushInv, NEW v \in Servers, Heartbeat(v) PROVE PushInv'
<1>1. SocketsOnly
  BY DEF Heartbeat, SocketsOnly
<1>2. sock' \in [Sockets -> SocketType]
  <2>1. DOMAIN sock' = Sockets /\ sock' = [s \in Sockets |-> sock'[s]]
    BY DEF Heartbeat
  <2>2. \A s \in Sockets : sock'[s] \in SocketType
    BY HeartbeatOnOne
  <2>. QED
    BY <2>1, <2>2
<1>3. /\ rooms' \in [Servers -> [Users -> SUBSET Sockets]]
      /\ \A w \in Servers, k \in Users :
            rooms'[w][k] = IF w = v THEN rooms[w][k] \ Silent(v) ELSE rooms[w][k]
  <2>1. rooms \in [Servers -> [Users -> SUBSET Sockets]]
    BY DEF PushInv, PushTypeOK
  <2>2. rooms' = [rooms EXCEPT ![v] = [k \in Users |-> rooms[v][k] \ Silent(v)]]
    BY <2>1 DEF Heartbeat
  <2>3. [k \in Users |-> rooms[v][k] \ Silent(v)] \in [Users -> SUBSET Sockets]
    BY <2>1
  <2>. QED
    BY <2>1, <2>2, <2>3
<1>4. RoomsAreAskedFor'
  <2>. SUFFICES ASSUME NEW q \in Sockets, NEW w \in Servers, NEW k \in Users, q \in rooms'[w][k]
                PROVE  /\ sock'[q].server = w /\ sock'[q].key = k
                       /\ sock'[q].stage \in {"open", "stale"}
    BY DEF RoomsAreAskedFor
  <2>1. q \in rooms[w][k] /\ (w = v => q \notin Silent(v))
    BY <1>3
  <2>2. sock[q].server = w /\ sock[q].key = k /\ sock[q].stage \in {"open", "stale"}
    BY <2>1, SocketBefore
  <2>. QED
    BY <2>1, <2>2, HeartbeatOnOne
<1>5. ConnectedHaveServers'
  <2>. SUFFICES ASSUME NEW q \in Sockets, sock'[q].stage \in {"lookup", "leftEarly", "open", "stale"}
                PROVE  sock'[q].server \in Servers
    BY DEF ConnectedHaveServers
  <2>. QED
    BY HeartbeatOnOne, SocketBefore
<1>6. \A q \in Sockets : sock[q].stage # "none" =>
         sock'[q].stage # "none" /\ sock'[q].server = sock[q].server /\ sock'[q].key = sock[q].key
  BY HeartbeatOnOne
<1>. QED
  BY <1>1, <1>2, <1>3, <1>4, <1>5, <1>6, SocketsMove

-----------------------------------------------------------------------------
(* Events are sent and delivered, the sockets stay *)

EventsOnly == UNCHANGED <<sock, rooms>>

\* After a delivery every client has what it had, and those of the room one more.
LEMMA Delivered ==
    ASSUME PushInv, NEW v \in Servers, NEW k \in Users, NEW e \in EventIds, Deliver(v, e, k)
    PROVE  /\ received' \in [Sockets -> [EventIds -> Nat]]
           /\ \A s \in Sockets, d \in EventIds :
                 \/ received'[s][d] = received[s][d]
                 \/ /\ d = e /\ received'[s][d] = received[s][d] + 1
                    /\ sock[s].server = v /\ sock[s].key = k /\ sock[s].stage = "open"
<1>1. received \in [Sockets -> [EventIds -> Nat]]
  BY DEF PushInv, PushTypeOK
<1>2. ASSUME NEW s \in Sockets
      PROVE  /\ received'[s] \in [EventIds -> Nat]
             /\ \/ received'[s] = received[s]
                \/ /\ \A d \in EventIds : received'[s][d] = IF d = e THEN received[s][d] + 1 ELSE received[s][d]
                   /\ s \in Receivers(v, k)
  <2>1. received[s] \in [EventIds -> Nat]
    BY <1>1
  <2>2. received'[s] = IF s \in Receivers(v, k) THEN [received[s] EXCEPT ![e] = received[s][e] + 1]
                       ELSE received[s]
    BY DEF Deliver
  <2>. QED
    BY <2>1, <2>2
<1>3. \A s \in Receivers(v, k) : sock[s].server = v /\ sock[s].key = k /\ sock[s].stage = "open"
  BY DEF Receivers, PushInv, PushTypeOK, RoomsAreAskedFor
<1>4. received' = [s \in Sockets |-> received'[s]]
  BY DEF Deliver
<1>. QED
  BY <1>2, <1>3, <1>4

\* The invariant, when what clients received is right.
LEMMA EventsMove ==
    ASSUME PushInv, EventsOnly,
           events' \in Seq([origin : Broadcasters, key : Users]), Len(events') <= MaxEvents,
           channel' \subseteq [event : 1..Len(events'), to : Servers],
           received' \in [Sockets -> [EventIds -> Nat]],
           \A s \in Sockets, e \in EventIds :
               /\ received'[s][e] <= 1
               /\ received'[s][e] > 0 =>
                    /\ events'[e].key = sock[s].key
                    /\ sock[s].stage # "none" /\ e <= Len(events')
                    /\ \/ events'[e].origin = sock[s].server
                       \/ [event |-> e, to |-> sock[s].server] \notin channel'
    PROVE  PushInv'
<1>1. sock' = sock /\ rooms' = rooms
  BY DEF EventsOnly
<1>2. PushTypeOK'
  BY <1>1 DEF PushInv, PushTypeOK
<1>3. RoomsAreAskedFor' /\ ConnectedHaveServers'
  BY <1>1 DEF PushInv, RoomsAreAskedFor, ConnectedHaveServers
<1>4. PushedOnceToItsOwner'
  BY <1>1 DEF PushedOnceToItsOwner
<1>5. NotAgain'
  BY <1>1 DEF NotAgain
<1>. QED
  BY <1>2, <1>3, <1>4, <1>5 DEF PushInv

\* What clients have so far.
LEMMA ReceivedBefore ==
    ASSUME PushInv, NEW s \in Sockets, NEW e \in EventIds
    PROVE  /\ received[s][e] \in Nat /\ received[s][e] <= 1
           /\ received[s][e] > 0 =>
                /\ events[e].key = sock[s].key
                /\ sock[s].stage # "none" /\ e <= Len(events)
                /\ \/ events[e].origin = sock[s].server
                   \/ [event |-> e, to |-> sock[s].server] \notin channel
BY DEF PushInv, PushTypeOK, PushedOnceToItsOwner, NotAgain

LEMMA BroadcastKeeps ==
    ASSUME PushInv, NEW p \in Broadcasters, NEW k \in Users, Broadcast(p, k)
    PROVE  PushInv'
<1>. DEFINE n == Len(events) + 1
<1>. DEFINE event == [origin |-> p, key |-> k]
<1>1. /\ n \in EventIds /\ events' = Append(events, event) /\ EventsOnly
      /\ channel' = channel \cup {[event |-> n, to |-> v] : v \in Servers}
  BY DEF Broadcast, EventsOnly
<1>2. /\ events \in Seq([origin : Broadcasters, key : Users]) /\ Len(events) \in Nat
      /\ event \in [origin : Broadcasters, key : Users]
  BY DEF PushInv, PushTypeOK
<1>. HIDE DEF event
<1>3. /\ events' \in Seq([origin : Broadcasters, key : Users]) /\ Len(events') = n
      /\ events'[n] = event /\ \A e \in 1..Len(events) : events'[e] = events[e]
  BY <1>1, <1>2
<1>4. channel' \subseteq [event : 1..Len(events'), to : Servers] /\ Len(events') <= MaxEvents
  BY <1>1, <1>2, <1>3 DEF PushInv, PushTypeOK, EventIds
<1>5. /\ received' \in [Sockets -> [EventIds -> Nat]]
      /\ \A s \in Sockets, d \in EventIds :
            \/ received'[s][d] = received[s][d]
            \/ /\ d = n /\ received'[s][d] = received[s][d] + 1
               /\ sock[s].server = p /\ sock[s].key = k /\ sock[s].stage = "open"
  <2>1. CASE p \in Servers
    BY <1>1, <2>1, Delivered DEF Broadcast
  <2>2. CASE p \notin Servers
    BY <2>2 DEF Broadcast, PushInv, PushTypeOK
  <2>. QED
    BY <2>1, <2>2
<1>6. ASSUME NEW s \in Sockets, NEW e \in EventIds
      PROVE  /\ received'[s][e] <= 1
             /\ received'[s][e] > 0 =>
                  /\ events'[e].key = sock[s].key
                  /\ sock[s].stage # "none" /\ e <= Len(events')
                  /\ \/ events'[e].origin = sock[s].server
                     \/ [event |-> e, to |-> sock[s].server] \notin channel'
  <2>1. CASE received'[s][e] = received[s][e]
    <3>1. CASE received[s][e] > 0
      <4>1. e \in 1..Len(events) /\ e # n /\ e <= n
        <5>1. e <= Len(events)
          BY <3>1, ReceivedBefore
        <5>2. e \in Int /\ 1 <= e
          BY DEF EventIds
        <5>. QED
          BY <1>2, <5>1, <5>2
      <4>2. \A v \in Servers : [event |-> e, to |-> sock[s].server] # [event |-> n, to |-> v]
        BY <4>1
      <4>3. events'[e] = events[e]
        BY <1>3, <4>1
      <4>4. [event |-> e, to |-> sock[s].server] \notin channel =>
               [event |-> e, to |-> sock[s].server] \notin channel'
        BY <1>1, <4>2
      <4>. QED
        BY <1>3, <2>1, <3>1, <4>1, <4>3, <4>4, ReceivedBefore
    <3>2. CASE received[s][e] = 0
      BY <2>1, <3>2
    <3>. QED
      BY <3>1, <3>2, ReceivedBefore
  <2>2. CASE /\ e = n /\ received'[s][e] = received[s][e] + 1
             /\ sock[s].server = p /\ sock[s].key = k /\ sock[s].stage = "open"
    <3>1. received[s][e] = 0
      <4>1. ~(e <= Len(events))
        BY <1>2, <2>2
      <4>2. received[s][e] \in Nat /\ ~(received[s][e] > 0)
        BY <4>1, ReceivedBefore
      <4>. QED
        BY <4>2
    <3>. QED
      BY <1>3, <2>2, <3>1 DEF event
  <2>. QED
    BY <1>5, <2>1, <2>2
<1>. QED
  BY <1>1, <1>3, <1>4, <1>5, <1>6, EventsMove

LEMMA HearKeeps ==
    ASSUME PushInv, NEW m \in channel, Hear(m) \/ Lose(m) PROVE PushInv'
<1>1. /\ events' = events /\ channel' = channel \ {m} /\ EventsOnly
  BY DEF Hear, Lose, EventsOnly
<1>2. /\ m \in [event : 1..Len(events), to : Servers] /\ m = [event |-> m.event, to |-> m.to]
      /\ events \in Seq([origin : Broadcasters, key : Users])
  BY DEF PushInv, PushTypeOK
<1>3. events[m.event] \in [origin : Broadcasters, key : Users]
  <2>1. m.event \in 1..Len(events)
    BY <1>2
  <2>. QED
    BY <1>2, <2>1, ElementOfSeq
<1>4. channel' \subseteq [event : 1..Len(events'), to : Servers] /\ Len(events') <= MaxEvents
  BY <1>1 DEF PushInv, PushTypeOK
<1>5. CASE UNCHANGED received
  <2>1. ASSUME NEW s \in Sockets, NEW e \in EventIds
        PROVE  /\ received'[s][e] <= 1
               /\ received'[s][e] > 0 =>
                    /\ events'[e].key = sock[s].key
                    /\ sock[s].stage # "none" /\ e <= Len(events')
                    /\ \/ events'[e].origin = sock[s].server
                       \/ [event |-> e, to |-> sock[s].server] \notin channel'
    BY <1>1, <1>5, ReceivedBefore
  <2>2. received' \in [Sockets -> [EventIds -> Nat]]
    BY <1>5 DEF PushInv, PushTypeOK
  <2>. QED
    BY <1>1, <1>2, <1>4, <2>1, <2>2, EventsMove
<1>6. CASE /\ events[m.event].origin # m.to
           /\ m.event \in EventIds
           /\ Deliver(m.to, m.event, events[m.event].key)
  <2>1. /\ received' \in [Sockets -> [EventIds -> Nat]]
        /\ \A s \in Sockets, d \in EventIds :
              \/ received'[s][d] = received[s][d]
              \/ /\ d = m.event /\ received'[s][d] = received[s][d] + 1
                 /\ sock[s].server = m.to /\ sock[s].key = events[m.event].key
                 /\ sock[s].stage = "open"
    BY <1>2, <1>3, <1>6, Delivered
  <2>2. ASSUME NEW s \in Sockets, NEW e \in EventIds
        PROVE  /\ received'[s][e] <= 1
               /\ received'[s][e] > 0 =>
                    /\ events'[e].key = sock[s].key
                    /\ sock[s].stage # "none" /\ e <= Len(events')
                    /\ \/ events'[e].origin = sock[s].server
                       \/ [event |-> e, to |-> sock[s].server] \notin channel'
    <3>1. CASE received'[s][e] = received[s][e]
      BY <1>1, <3>1, ReceivedBefore
    <3>2. CASE /\ e = m.event /\ received'[s][e] = received[s][e] + 1
               /\ sock[s].server = m.to /\ sock[s].key = events[m.event].key
               /\ sock[s].stage = "open"
      <4>1. [event |-> e, to |-> sock[s].server] = m
        BY <1>2, <3>2
      <4>2. received[s][e] = 0
        BY <1>6, <3>2, <4>1, ReceivedBefore
      <4>3. e <= Len(events') /\ [event |-> e, to |-> sock[s].server] \notin channel'
        BY <1>1, <1>2, <3>2, <4>1
      <4>. QED
        BY <1>1, <3>2, <4>2, <4>3
    <3>. QED
      BY <2>1, <3>1, <3>2
  <2>. QED
    BY <1>1, <1>2, <1>4, <2>1, <2>2, EventsMove
<1>7. m.event \in EventIds
  BY <1>2, LivePushAssumption DEF EventIds, PushInv, PushTypeOK
<1>. QED
  BY <1>5, <1>6, <1>7 DEF Hear, Lose, Ignored

-----------------------------------------------------------------------------

LEMMA PushInvStep == PushInv /\ [PushNext]_pushVars => PushInv'
<1>. SUFFICES ASSUME PushInv, [PushNext]_pushVars PROVE PushInv'
  OBVIOUS
<1>1. CASE UNCHANGED pushVars
  BY <1>1 DEF pushVars, PushInv, PushTypeOK, RoomsAreAskedFor, ConnectedHaveServers,
              PushedOnceToItsOwner, NotAgain
<1>2. ASSUME NEW s \in Sockets,
             \/ (\E v \in Servers, k \in Users \cup Strangers : Connect(s, v, k))
             \/ Register(s) \/ Leave(s) \/ Pong(s)
      PROVE  PushInv'
  BY <1>2, ConnectKeeps, RegisterKeeps, LeaveKeeps, PongKeeps
<1>3. ASSUME NEW v \in Servers, Heartbeat(v) PROVE PushInv'
  BY <1>3, HeartbeatKeeps
<1>4. ASSUME NEW p \in Broadcasters, NEW k \in Users, Broadcast(p, k) PROVE PushInv'
  BY <1>4, BroadcastKeeps
<1>5. ASSUME NEW m \in channel, Hear(m) \/ Lose(m) PROVE PushInv'
  BY <1>5, HearKeeps
<1>. QED
  BY <1>1, <1>2, <1>3, <1>4, <1>5 DEF PushNext

LEMMA PushInvariant == PushSpec => []PushInv
<1>. QED
  BY PushInvInit, PushInvStep, PTL DEF PushSpec

-----------------------------------------------------------------------------
(* The theorems *)

\* Types: nothing that is closed, stale or still looked up is forgotten by them.
THEOREM PushTypeCorrect == PushSpec => []PushTypeOK
BY PushInvariant, PTL DEF PushInv

\* Whatever the channel loses and reorders, and however sockets come and go, a
\* client gets an event at most once, and only one of its own room.
THEOREM PushReachesOnce == PushSpec => []PushedOnceToItsOwner
BY PushInvariant, PTL DEF PushInv

-----------------------------------------------------------------------------
(* Credentials: what a process has cached and built *)

CredentialsTypes ==
  /\ row.version \in Nat
  /\ cached = [p \in Processes |-> cached[p]]
  /\ firebase \in [Processes -> Nat]
  /\ floor \in [Processes -> Nat]
  /\ job = [x \in Processes \X Workers |-> job[x]]

Reading(p, w) == job[<<p, w>>].pc = "read"

\* What a process has, cached or on its way, is no older than it must know.
CurrentAt(p) ==
  /\ floor[p] <= row.version
  /\ "miss" \notin DOMAIN cached[p] => cached[p].version \in Nat /\ floor[p] <= cached[p].version
  /\ firebase[p] # 0 => floor[p] <= firebase[p]
  /\ \A w \in Workers :
        Reading(p, w) => job[<<p, w>>].row.version \in Nat /\ floor[p] <= job[<<p, w>>].row.version

CurrentInv ==
  /\ CredentialsTypes
  /\ \A p \in Processes : CurrentAt(p)
  /\ OwnProcessIsCurrent

LEMMA NothingIsMiss == "miss" \in DOMAIN Nothing
BY DEF Nothing

\* A provider built from a version that the process may know.
LEMMA BuildIsCurrent ==
  ASSUME CurrentInv, NEW p \in Processes, NEW r, NEW c, Build(p, r, c),
         r.version \in Nat, floor[p] <= r.version
  PROVE  /\ OwnProcessIsCurrent'
         /\ firebase' \in [Processes -> Nat]
         /\ firebase'[p] # 0 => floor[p] <= firebase'[p]
         /\ \A q \in Processes : q # p => firebase'[q] = firebase[q]
<1>1. PICK provider \in {Choose(r, c), Default} :
        /\ used' = {[at |-> p, provider |-> provider, version |-> VersionUsed(p, r, provider),
                     floor |-> floor[p]]}
        /\ firebase' = IF provider = "firebase"
                         THEN [firebase EXCEPT ![p] = VersionUsed(p, r, provider)] ELSE firebase
  BY DEF Build
<1>2. firebase \in [Processes -> Nat] /\ CurrentAt(p)
  BY DEF CurrentInv, CredentialsTypes
<1>3. VersionUsed(p, r, provider) \in Nat /\ floor[p] <= VersionUsed(p, r, provider)
  BY <1>2 DEF VersionUsed, CurrentAt
<1>4. OwnProcessIsCurrent'
  BY <1>1, <1>3, <1>2 DEF OwnProcessIsCurrent, CurrentInv, CredentialsTypes
<1>5. QED
  BY <1>1, <1>2, <1>3, <1>4 DEF CurrentAt

\* What a process has may go, and what comes is no older than before.
LEMMA CurrentStays ==
  ASSUME CurrentInv, NEW p \in Processes,
         floor'[p] = floor[p], row'.version \in Nat, row.version <= row'.version,
         \/ cached'[p] = cached[p] \/ "miss" \in DOMAIN cached'[p]
         \/ cached'[p].version \in Nat /\ floor[p] <= cached'[p].version,
         firebase'[p] # 0 => floor[p] <= firebase'[p],
         \A w \in Workers : job'[<<p, w>>].pc = "read" =>
            \/ job'[<<p, w>>] = job[<<p, w>>]
            \/ job'[<<p, w>>].row.version \in Nat /\ floor[p] <= job'[<<p, w>>].row.version
  PROVE  CurrentAt(p)'
<1>1. floor[p] \in Nat /\ row.version \in Nat /\ CurrentAt(p)
  BY DEF CurrentInv, CredentialsTypes
<1>2. QED
  BY <1>1 DEF CurrentAt, Reading

LEMMA UpsertKeeps ==
  ASSUME CurrentInv, NEW p \in Processes, Upsert(p)
  PROVE  CurrentInv'
<1>1. row'.version = row.version + 1 /\ UNCHANGED <<cached, firebase, job, used, floor>>
  BY DEF Upsert
<1>2. row.version \in Nat /\ \A q \in Processes : CurrentAt(q)
  BY DEF CurrentInv, CredentialsTypes
<1>3. ASSUME NEW q \in Processes PROVE CurrentAt(q)'
  <2>1. firebase'[q] # 0 => floor[q] <= firebase'[q]
    BY <1>1, <1>2 DEF CurrentAt
  <2>2. row'.version \in Nat /\ row.version <= row'.version
    BY <1>1, <1>2
  <2>3. QED
    BY <1>1, <2>1, <2>2, CurrentStays
<1>4. QED
  BY <1>1, <1>2, <1>3 DEF CurrentInv, CredentialsTypes, OwnProcessIsCurrent

LEMMA ClearCacheKeeps ==
  ASSUME CurrentInv, NEW p \in Processes, ClearCache(p)
  PROVE  CurrentInv'
<1>1. /\ cached' = [cached EXCEPT ![p] = Nothing] /\ firebase' = [firebase EXCEPT ![p] = 0]
      /\ floor' = IF LookingUp(p) THEN floor ELSE [floor EXCEPT ![p] = row.version]
      /\ UNCHANGED <<row, job, used>>
  BY DEF ClearCache, Forget
<1>2. CredentialsTypes /\ \A q \in Processes : CurrentAt(q)
  BY DEF CurrentInv
<1>3. /\ cached' = [q \in Processes |-> cached'[q]] /\ firebase' \in [Processes -> Nat]
      /\ cached'[p] = Nothing /\ firebase'[p] = 0
      /\ \A q \in Processes : q # p => cached'[q] = cached[q] /\ firebase'[q] = firebase[q]
  BY <1>1, <1>2 DEF CredentialsTypes
<1>4. /\ floor' \in [Processes -> Nat]
      /\ \A q \in Processes : q # p => floor'[q] = floor[q]
      /\ LookingUp(p) => floor'[p] = floor[p]
      /\ ~LookingUp(p) => floor'[p] = row.version
  BY <1>1, <1>2 DEF CredentialsTypes
<1>5. ASSUME NEW q \in Processes PROVE CurrentAt(q)'
  <2>1. CASE q # p \/ LookingUp(p)
    <3>1. firebase'[q] # 0 => floor[q] <= firebase'[q]
      BY <1>2, <1>3 DEF CurrentAt
    <3>2. row'.version \in Nat /\ row.version <= row'.version
      BY <1>1, <1>2 DEF CredentialsTypes
    <3>3. cached'[q] = cached[q] \/ "miss" \in DOMAIN cached'[q]
      BY <1>3, NothingIsMiss
    <3>4. QED
      BY <1>1, <1>4, <2>1, <3>1, <3>2, <3>3, CurrentStays
  <2>2. CASE q = p /\ ~LookingUp(p)
    <3>1. floor'[p] = row.version /\ row.version \in Nat /\ UNCHANGED <<row, job>>
      BY <1>1, <1>2, <1>4, <2>2 DEF CredentialsTypes
    <3>2. "miss" \in DOMAIN cached'[p] /\ firebase'[p] = 0
      BY <1>3, NothingIsMiss
    <3>3. \A w \in Workers : job[<<p, w>>].pc # "read"
      BY <2>2 DEF LookingUp
    <3>4. floor'[p] <= row'.version
      BY <3>1
    <3>5. \A w \in Workers : ~Reading(p, w)'
      BY <3>1, <3>3 DEF Reading
    <3>6. CurrentAt(p)'
      BY <3>2, <3>4, <3>5 DEF CurrentAt
    <3>7. QED
      BY <2>2, <3>6
  <2>3. QED
    BY <2>1, <2>2
<1>6. QED
  BY <1>1, <1>2, <1>3, <1>4, <1>5 DEF CurrentInv, CredentialsTypes, OwnProcessIsCurrent

LEMMA BuildFromCacheKeeps ==
  ASSUME CurrentInv, NEW p \in Processes, NEW c \in Channels, BuildFromCache(p, c)
  PROVE  CurrentInv'
<1>1. /\ "miss" \notin DOMAIN cached[p] /\ Build(p, cached[p], c)
      /\ UNCHANGED <<row, cached, job, floor>>
  BY DEF BuildFromCache
<1>2. CredentialsTypes /\ \A q \in Processes : CurrentAt(q)
  BY DEF CurrentInv
<1>3. cached[p].version \in Nat /\ floor[p] <= cached[p].version
  BY <1>1, <1>2 DEF CurrentAt
<1>4. /\ OwnProcessIsCurrent' /\ firebase' \in [Processes -> Nat]
      /\ firebase'[p] # 0 => floor[p] <= firebase'[p]
      /\ \A q \in Processes : q # p => firebase'[q] = firebase[q]
  BY <1>1, <1>3, BuildIsCurrent
<1>5. ASSUME NEW q \in Processes PROVE CurrentAt(q)'
  <2>1. firebase'[q] # 0 => floor[q] <= firebase'[q]
    BY <1>2, <1>4 DEF CurrentAt
  <2>2. QED
    BY <1>1, <1>2, <2>1 DEF CurrentAt, Reading
<1>6. QED
  BY <1>1, <1>2, <1>4, <1>5 DEF CurrentInv, CredentialsTypes

LEMMA LookUpKeeps ==
  ASSUME CurrentInv, NEW p \in Processes, NEW w \in Workers, NEW c \in Channels, LookUp(p, w, c)
  PROVE  CurrentInv'
<1> DEFINE j == [pc |-> "read", channel |-> c, row |-> row]
<1>1. job' = [job EXCEPT ![<<p, w>>] = j] /\ UNCHANGED <<row, cached, firebase, used, floor>>
  BY DEF LookUp
<1>2. CredentialsTypes /\ \A q \in Processes : CurrentAt(q)
  BY DEF CurrentInv
<1>3. j.row.version = row.version
  OBVIOUS
<1> HIDE DEF j
<1>4. /\ job' = [x \in Processes \X Workers |-> job'[x]] /\ job'[<<p, w>>] = j
      /\ \A x \in Processes \X Workers : x # <<p, w>> => job'[x] = job[x]
  BY <1>1, <1>2 DEF CredentialsTypes
<1>5. ASSUME NEW q \in Processes PROVE CurrentAt(q)'
  <2>1. ASSUME NEW v \in Workers
        PROVE  job'[<<q, v>>] = job[<<q, v>>] \/ job'[<<q, v>>] = j
    <3>1. CASE <<q, v>> = <<p, w>>
      BY <1>4, <3>1
    <3>2. CASE <<q, v>> # <<p, w>>
      BY <1>4, <3>2
    <3>3. QED
      BY <3>1, <3>2
  <2>2. floor[q] <= row.version /\ row.version \in Nat
    BY <1>2 DEF CredentialsTypes, CurrentAt
  <2>3. QED
    BY <1>1, <1>2, <1>3, <2>1, <2>2 DEF CurrentAt, Reading
<1>6. QED
  BY <1>1, <1>2, <1>4, <1>5 DEF CurrentInv, CredentialsTypes, OwnProcessIsCurrent

\* The jobs that a lookup that ends leaves.
LEMMA JobEnds ==
  ASSUME CredentialsTypes, NEW p \in Processes, NEW w \in Workers,
         job' = [job EXCEPT ![<<p, w>>] = NoJob]
  PROVE  /\ job' = [x \in Processes \X Workers |-> job'[x]]
         /\ \A q \in Processes, v \in Workers :
               job'[<<q, v>>].pc = "read" => job'[<<q, v>>] = job[<<q, v>>]
<1>1. /\ job' = [x \in Processes \X Workers |-> job'[x]] /\ job'[<<p, w>>] = NoJob
      /\ \A x \in Processes \X Workers : x # <<p, w>> => job'[x] = job[x]
  BY DEF CredentialsTypes
<1>2. NoJob.pc # "read"
  BY DEF NoJob
<1>3. QED
  BY <1>1, <1>2

LEMMA ReceiveKeeps ==
  ASSUME CurrentInv, NEW p \in Processes, NEW w \in Workers, Receive(p, w)
  PROVE  CurrentInv'
<1>1. /\ job[<<p, w>>].pc = "read" /\ cached' = [cached EXCEPT ![p] = job[<<p, w>>].row]
      /\ Build(p, job[<<p, w>>].row, job[<<p, w>>].channel) /\ job' = [job EXCEPT ![<<p, w>>] = NoJob]
      /\ UNCHANGED <<row, floor>>
  BY DEF Receive
<1>2. CredentialsTypes /\ \A q \in Processes : CurrentAt(q)
  BY DEF CurrentInv
<1>3. job[<<p, w>>].row.version \in Nat /\ floor[p] <= job[<<p, w>>].row.version
  BY <1>1, <1>2 DEF CurrentAt, Reading
<1>4. /\ OwnProcessIsCurrent' /\ firebase' \in [Processes -> Nat]
      /\ firebase'[p] # 0 => floor[p] <= firebase'[p]
      /\ \A q \in Processes : q # p => firebase'[q] = firebase[q]
  BY <1>1, <1>3, BuildIsCurrent
<1>5. /\ cached' = [q \in Processes |-> cached'[q]] /\ cached'[p] = job[<<p, w>>].row
      /\ \A q \in Processes : q # p => cached'[q] = cached[q]
  BY <1>1, <1>2 DEF CredentialsTypes
<1>6. /\ job' = [x \in Processes \X Workers |-> job'[x]]
      /\ \A q \in Processes, v \in Workers : job'[<<q, v>>].pc = "read" => job'[<<q, v>>] = job[<<q, v>>]
  BY <1>1, <1>2, JobEnds
<1>7. ASSUME NEW q \in Processes PROVE CurrentAt(q)'
  <2>1. firebase'[q] # 0 => floor[q] <= firebase'[q]
    BY <1>2, <1>4 DEF CurrentAt
  <2>2. \/ cached'[q] = cached[q]
        \/ cached'[q].version \in Nat /\ floor[q] <= cached'[q].version
    BY <1>3, <1>5
  <2>3. QED
    BY <1>1, <1>2, <1>6, <2>1, <2>2 DEF CurrentAt, Reading
<1>8. QED
  BY <1>1, <1>2, <1>4, <1>5, <1>6, <1>7 DEF CurrentInv, CredentialsTypes

LEMMA LookUpFailsKeeps ==
  ASSUME CurrentInv, NEW p \in Processes, NEW w \in Workers, LookUpFails(p, w)
  PROVE  CurrentInv'
<1>1. /\ used' = {[at |-> p, provider |-> Default, version |-> 0, floor |-> floor[p]]}
      /\ job' = [job EXCEPT ![<<p, w>>] = NoJob]
      /\ UNCHANGED <<row, cached, firebase, floor>>
  BY DEF LookUpFails
<1>2. CredentialsTypes /\ \A q \in Processes : CurrentAt(q)
  BY DEF CurrentInv
<1>3. /\ job' = [x \in Processes \X Workers |-> job'[x]]
      /\ \A q \in Processes, v \in Workers : job'[<<q, v>>].pc = "read" => job'[<<q, v>>] = job[<<q, v>>]
  BY <1>1, <1>2, JobEnds
<1>4. OwnProcessIsCurrent'
  BY <1>1 DEF OwnProcessIsCurrent
<1>5. ASSUME NEW q \in Processes PROVE CurrentAt(q)'
  BY <1>1, <1>2, <1>3 DEF CurrentAt, Reading
<1>6. QED
  BY <1>1, <1>2, <1>3, <1>4, <1>5 DEF CurrentInv, CredentialsTypes

LEMMA RunOutKeeps ==
  ASSUME CurrentInv, NEW p \in Processes, RunOut(p)
  PROVE  CurrentInv'
<1>1. cached' = [cached EXCEPT ![p] = Nothing] /\ UNCHANGED <<row, firebase, job, used, floor>>
  BY DEF RunOut
<1>2. CredentialsTypes /\ \A q \in Processes : CurrentAt(q)
  BY DEF CurrentInv
<1>3. /\ cached' = [q \in Processes |-> cached'[q]] /\ cached'[p] = Nothing
      /\ \A q \in Processes : q # p => cached'[q] = cached[q]
  BY <1>1, <1>2 DEF CredentialsTypes
<1>4. ASSUME NEW q \in Processes PROVE CurrentAt(q)'
  BY <1>1, <1>2, <1>3, NothingIsMiss DEF CurrentAt, Reading
<1>5. QED
  BY <1>1, <1>2, <1>3, <1>4 DEF CurrentInv, CredentialsTypes, OwnProcessIsCurrent

LEMMA RestartKeeps ==
  ASSUME CurrentInv, NEW p \in Processes, Restart(p)
  PROVE  CurrentInv'
<1>1. /\ cached' = [cached EXCEPT ![p] = Nothing] /\ firebase' = [firebase EXCEPT ![p] = 0]
      /\ job' = [x \in DOMAIN job |-> IF x[1] = p THEN NoJob ELSE job[x]]
      /\ UNCHANGED <<row, used, floor>>
  BY DEF Restart
<1>2. CredentialsTypes /\ \A q \in Processes : CurrentAt(q)
  BY DEF CurrentInv
<1>3. /\ cached' = [q \in Processes |-> cached'[q]] /\ firebase' \in [Processes -> Nat]
      /\ cached'[p] = Nothing /\ firebase'[p] = 0
      /\ \A q \in Processes : q # p => cached'[q] = cached[q] /\ firebase'[q] = firebase[q]
  BY <1>1, <1>2 DEF CredentialsTypes
<1>4. /\ job' = [x \in Processes \X Workers |-> job'[x]]
      /\ \A q \in Processes, v \in Workers : job'[<<q, v>>] \in {NoJob, job[<<q, v>>]}
  <2>1. DOMAIN job = Processes \X Workers
    BY <1>2 DEF CredentialsTypes
  <2>2. QED
    BY <1>1, <2>1
<1>5. NoJob.pc # "read"
  BY DEF NoJob
<1>6. ASSUME NEW q \in Processes PROVE CurrentAt(q)'
  BY <1>1, <1>2, <1>3, <1>4, <1>5, NothingIsMiss DEF CurrentAt, Reading
<1>7. QED
  BY <1>1, <1>2, <1>3, <1>4, <1>6 DEF CurrentInv, CredentialsTypes, OwnProcessIsCurrent

LEMMA CredentialsNextKeeps == CurrentInv /\ [CredentialsNext]_credentialsVars => CurrentInv'
<1> SUFFICES ASSUME CurrentInv, [CredentialsNext]_credentialsVars PROVE CurrentInv'
  OBVIOUS
<1>1. CASE UNCHANGED <<row, cached, firebase, job, used, floor>>
  BY <1>1 DEF CurrentInv, CredentialsTypes, CurrentAt, Reading, OwnProcessIsCurrent
<1>2. ASSUME NEW p \in Processes, NEW c \in Changes, ReadExisting(p, c)
      PROVE  CurrentInv'
  BY <1>1, <1>2 DEF ReadExisting
<1>3. ASSUME NEW p \in Processes, PutFails(p)
      PROVE  CurrentInv'
  BY <1>1, <1>3 DEF PutFails
<1>4. CASE UNCHANGED credentialsVars
  BY <1>1, <1>4 DEF credentialsVars
<1>5. QED
  BY <1>2, <1>3, <1>4, UpsertKeeps, ClearCacheKeeps, BuildFromCacheKeeps, LookUpKeeps,
     ReceiveKeeps, LookUpFailsKeeps, RunOutKeeps, RestartKeeps DEF CredentialsNext

LEMMA CredentialsInitInv == CredentialsInit => CurrentInv
<1> SUFFICES ASSUME CredentialsInit PROVE CurrentInv
  OBVIOUS
<1>1. CredentialsTypes
  BY DEF CredentialsInit, CredentialsTypes, NoRow
<1>2. \A p \in Processes : CurrentAt(p)
  BY DEF CredentialsInit, CurrentAt, Reading, NoRow, Nothing, NoJob
<1>3. OwnProcessIsCurrent
  BY DEF CredentialsInit, OwnProcessIsCurrent
<1>4. QED
  BY <1>1, <1>2, <1>3 DEF CurrentInv

\* Once a PUT has cleared the caches of its process, for any number of processes,
\* workers and PUTs elsewhere, that process builds no provider from an older row.
THEOREM OwnProcessIsCurrentAlways == CredentialsSpec => []OwnProcessIsCurrent
<1>1. CurrentInv => OwnProcessIsCurrent
  BY DEF CurrentInv
<1>2. QED
  BY <1>1, CredentialsInitInv, CredentialsNextKeeps, PTL DEF CredentialsSpec

-----------------------------------------------------------------------------
(* TemplateResolution: one look at the tables *)

OneOf(S) == CHOOSE i \in S : TRUE

\* The names one look finds for a question, and the row of a name.
BestNames(q, f) ==
    LET at == CandidatesWith(q, f)
        name == Aliased(at, q.type)
        conditional == IF q.cond = "none" THEN {} ELSE MappedNames(at, name, q.cond)
    IN  IF conditional # {} THEN conditional
        ELSE IF MappedNames(at, name, "none") # {} THEN MappedNames(at, name, "none") ELSE {name}

BestRow(at, n) ==
    IF RowAt(at, n, {"APPROVED"})[1] # Nowhere THEN RowAt(at, n, {"APPROVED"})
    ELSE RowAt(at, n, Status \ {"none"})

LEMMA BestOnes ==
    ASSUME NEW q, NEW f
    PROVE  BestTemplates(q, f) = {BestRow(CandidatesWith(q, f), n) : n \in BestNames(q, f)}
<1>1. QED
  BY DEF BestTemplates, BestNames, BestRow

LEMMA NowhereToLook ==
    /\ \A type : Aliased(<<>>, type) = type
    /\ \A name, cond : MappedNames(<<>>, name, cond) = {}
    /\ \A name, statuses : RowAt(<<>>, name, statuses) = <<Nowhere, Nameless>>
<1>1. \A having : Nearest(<<>>, having) = Nowhere
  BY DEF Nearest
<1>2. QED
  BY <1>1 DEF Aliased, MappedNames, RowAt

LEMMA BestNowhere ==
    ASSUME NEW q, NEW f, CandidatesWith(q, f) = <<>>
    PROVE  /\ BestNames(q, f) = {q.type}
           /\ \A n : BestRow(<<>>, n) = <<Nowhere, Nameless>>
<1>1. QED
  BY NowhereToLook DEF BestNames, BestRow

\* What is found depends on the tables only.
LEMMA SameTablesSameFinds ==
    ASSUME aliases' = aliases, metaRows' = metaRows
    PROVE  /\ \A scopes, type : Aliased(scopes, type)' = Aliased(scopes, type)
           /\ \A scopes, name, cond : MappedNames(scopes, name, cond)' = MappedNames(scopes, name, cond)
           /\ \A scopes, name, statuses : RowAt(scopes, name, statuses)' = RowAt(scopes, name, statuses)
<1>1. ASSUME NEW scopes, NEW type PROVE Aliased(scopes, type)' = Aliased(scopes, type)
  <2>1. \A s, t : AliasAt(s, t)' = AliasAt(s, t)
    BY DEF AliasAt
  <2>2. \A s, t : AliasTarget(s, t) = aliases[OneOf(AliasAt(s, t))].to
    BY DEF AliasTarget, OneOf
  <2>3. \A s, t : AliasTarget(s, t)' = aliases'[OneOf(AliasAt(s, t)')].to
    BY DEF AliasTarget, OneOf
  <2>4. \A s, t : AliasTarget(s, t)' = AliasTarget(s, t)
    BY <2>1, <2>2, <2>3
  <2>5. {x \in Scopes : AliasAt(x, type) # {}}' = {x \in Scopes : AliasAt(x, type) # {}}
    BY <2>1
  <2>6. QED
    BY <2>4, <2>5 DEF Aliased
<1>2. ASSUME NEW scopes, NEW name, NEW cond
      PROVE  MappedNames(scopes, name, cond)' = MappedNames(scopes, name, cond)
  <2>1. \A s : MappedAt(s, name, cond)' = MappedAt(s, name, cond)
    BY DEF MappedAt
  <2>2. {x \in Scopes : MappedAt(x, name, cond) # {}}' = {x \in Scopes : MappedAt(x, name, cond) # {}}
    BY <2>1
  <2>3. QED
    BY <2>1, <2>2 DEF MappedNames
<1>3. ASSUME NEW scopes, NEW name, NEW statuses
      PROVE  RowAt(scopes, name, statuses)' = RowAt(scopes, name, statuses)
  BY DEF RowAt
<1>4. QED
  BY <1>1, <1>2, <1>3

LEMMA SameTablesSameBest ==
    ASSUME aliases' = aliases, metaRows' = metaRows
    PROVE  /\ \A q, f : BestNames(q, f)' = BestNames(q, f)
           /\ \A at, n : BestRow(at, n)' = BestRow(at, n)
<1>1. QED
  BY SameTablesSameFinds DEF BestNames, BestRow

-----------------------------------------------------------------------------
(* A preparation, statement by statement *)

Shaped(l) == l = [pc |-> l.pc, q |-> l.q, name |-> l.name, at |-> l.at, chosen |-> l.chosen]

\* What a preparation in batches knows after each statement, when the fallback is f.
PreparedSoFar(l, f) ==
    /\ l.pc \notin {"done", "failed"} => l.chosen = <<Nowhere, Nameless>>
    /\ l.pc \in {"scopes", "alias"} => l.name = l.q.type
    /\ l.pc \in {"alias", "conditional", "plain", "find", "any"} => l.at = CandidatesWith(l.q, f)
    /\ l.pc \in {"candidates", "conditional", "plain"} =>
          l.name = Aliased(CandidatesWith(l.q, f), l.q.type)
    /\ l.pc = "conditional" => l.q.cond # "none"
    /\ l.pc = "plain" => \/ l.q.cond = "none"
                         \/ MappedNames(CandidatesWith(l.q, f), l.name, l.q.cond) = {}
    /\ l.pc \in {"again", "find", "any"} => l.name \in BestNames(l.q, f)
    /\ l.pc = "any" => RowAt(CandidatesWith(l.q, f), l.name, {"APPROVED"})[1] = Nowhere
    /\ l.pc = "done" => \E n \in BestNames(l.q, f) : l.chosen = BestRow(CandidatesWith(l.q, f), n)

ResolutionInv ==
    /\ lookup = [k \in Lookups |-> lookup[k]]
    /\ \A k \in Lookups : Shaped(lookup[k])
    /\ batch => \A k \in Lookups \ disturbed : PreparedSoFar(lookup[k], fallbackAt)

LEMMA SameTablesSamePrepared ==
    ASSUME aliases' = aliases, metaRows' = metaRows
    PROVE  \A l, f : PreparedSoFar(l, f)' <=> PreparedSoFar(l, f)
<1>1. QED
  BY SameTablesSameFinds, SameTablesSameBest DEF PreparedSoFar

LEMMA NoLookupIsPrepared == Shaped(NoLookup) /\ \A f : PreparedSoFar(NoLookup, f)
<1>1. QED
  BY DEF Shaped, NoLookup, PreparedSoFar

\* A preparation takes a step while the tables stay.
LEMMA OneLookupKeeps ==
    ASSUME ResolutionInv, NEW k \in Lookups, NEW w, Shaped(w),
           batch /\ k \notin disturbed' => PreparedSoFar(w, fallbackAt),
           lookup' = [lookup EXCEPT ![k] = w],
           UnchangedTables, disturbed \subseteq disturbed'
    PROVE  ResolutionInv'
<1>1. aliases' = aliases /\ metaRows' = metaRows /\ fallbackAt' = fallbackAt /\ batch' = batch
  BY DEF UnchangedTables, resolutionTables
<1>2. \A x \in Lookups : lookup'[x] = IF x = k THEN w ELSE lookup[x]
  BY DEF ResolutionInv
<1>3. lookup' = [x \in Lookups |-> lookup'[x]] /\ \A x \in Lookups : Shaped(lookup'[x])
  BY <1>2 DEF ResolutionInv
<1>4. ASSUME batch, NEW x \in Lookups \ disturbed' PROVE PreparedSoFar(lookup'[x], fallbackAt)
  BY <1>2, <1>4 DEF ResolutionInv
<1>5. ASSUME batch', NEW x \in Lookups \ disturbed' PROVE PreparedSoFar(lookup[x], fallbackAt)'
  BY <1>1, <1>4, <1>5, SameTablesSamePrepared
<1>6. \A x \in Lookups : Shaped(lookup[x])'
  BY <1>3 DEF Shaped
<1>7. QED
  BY <1>3, <1>5, <1>6 DEF ResolutionInv

\* A change disturbs every preparation that began.
LEMMA DisturbanceKeeps ==
    ASSUME ResolutionInv, Disturbance, lookup' = [k \in Lookups |-> lookup'[k]],
           \A k \in Lookups : Shaped(lookup'[k]),
           \A k \in Lookups : lookup'[k] = lookup[k] \/ lookup[k] # NoLookup
    PROVE  ResolutionInv'
<1>1. ASSUME NEW k \in Lookups \ disturbed' PROVE lookup'[k] = NoLookup
  BY DEF Disturbance
<1>2. \A k \in Lookups \ disturbed' : PreparedSoFar(lookup[k], fallbackAt)'
  BY <1>1 DEF PreparedSoFar, NoLookup
<1>3. \A k \in Lookups : Shaped(lookup[k])'
  BY DEF Shaped
<1>4. QED
  BY <1>2, <1>3 DEF ResolutionInv

\* A preparation with other fields than it had.
Went(l, pc, name, at, chosen) == [pc |-> pc, q |-> l.q, name |-> name, at |-> at, chosen |-> chosen]

LEMMA WentKeeps ==
    ASSUME ResolutionInv, NEW k \in Lookups, NEW pc, NEW name, NEW at, NEW chosen,
           batch /\ k \notin disturbed' => PreparedSoFar(Went(lookup[k], pc, name, at, chosen), fallbackAt),
           lookup' = [lookup EXCEPT ![k] = Went(lookup[k], pc, name, at, chosen)],
           UnchangedTables, disturbed \subseteq disturbed'
    PROVE  ResolutionInv'
<1>1. Shaped(Went(lookup[k], pc, name, at, chosen))
  BY DEF Shaped, Went
<1>2. QED
  BY <1>1, OneLookupKeeps

\* An assignment to some fields of the preparation is one to all of them.
LEMMA PcWent ==
    ASSUME ResolutionInv, NEW k \in Lookups, NEW pc
    PROVE  [lookup EXCEPT ![k].pc = pc] =
             [lookup EXCEPT ![k] = Went(lookup[k], pc, lookup[k].name, lookup[k].at, lookup[k].chosen)]
<1>1. PICK l : l = lookup[k]
  OBVIOUS
<1>2. l = [pc |-> l.pc, q |-> l.q, name |-> l.name, at |-> l.at, chosen |-> l.chosen]
  BY <1>1 DEF ResolutionInv, Shaped
<1>3. lookup = [x \in Lookups |-> lookup[x]]
  BY DEF ResolutionInv
<1>4. PICK m : m = [l EXCEPT !.pc = pc]
  OBVIOUS
<1>5. m = Went(l, pc, l.name, l.at, l.chosen)
  BY <1>2, <1>4 DEF Went
<1>6. [lookup EXCEPT ![k].pc = pc] = [lookup EXCEPT ![k] = m]
  BY <1>1, <1>3, <1>4
<1>7. QED
  BY <1>1, <1>5, <1>6

LEMMA AtWent ==
    ASSUME ResolutionInv, NEW k \in Lookups, NEW at
    PROVE  [lookup EXCEPT ![k].at = at] =
             [lookup EXCEPT ![k] = Went(lookup[k], lookup[k].pc, lookup[k].name, at, lookup[k].chosen)]
<1>1. PICK l : l = lookup[k]
  OBVIOUS
<1>2. l = [pc |-> l.pc, q |-> l.q, name |-> l.name, at |-> l.at, chosen |-> l.chosen]
  BY <1>1 DEF ResolutionInv, Shaped
<1>3. lookup = [x \in Lookups |-> lookup[x]]
  BY DEF ResolutionInv
<1>4. PICK m : m = [l EXCEPT !.at = at]
  OBVIOUS
<1>5. m = Went(l, l.pc, l.name, at, l.chosen)
  BY <1>2, <1>4 DEF Went
<1>6. [lookup EXCEPT ![k].at = at] = [lookup EXCEPT ![k] = m]
  BY <1>1, <1>3, <1>4
<1>7. QED
  BY <1>1, <1>5, <1>6

LEMMA PcAtWent ==
    ASSUME ResolutionInv, NEW k \in Lookups, NEW pc, NEW at
    PROVE  [lookup EXCEPT ![k].pc = pc, ![k].at = at] =
             [lookup EXCEPT ![k] = Went(lookup[k], pc, lookup[k].name, at, lookup[k].chosen)]
<1>1. PICK l : l = lookup[k]
  OBVIOUS
<1>2. l = [pc |-> l.pc, q |-> l.q, name |-> l.name, at |-> l.at, chosen |-> l.chosen]
  BY <1>1 DEF ResolutionInv, Shaped
<1>3. lookup = [x \in Lookups |-> lookup[x]]
  BY DEF ResolutionInv
<1>4. PICK m : m = [l EXCEPT !.pc = pc]
  OBVIOUS
<1>5. m = Went(l, pc, l.name, l.at, l.chosen)
  BY <1>2, <1>4 DEF Went
<1>6. PICK n : n = [m EXCEPT !.at = at]
  OBVIOUS
<1>7. n = Went(l, pc, l.name, at, l.chosen)
  BY <1>5, <1>6 DEF Went
<1>8. [lookup EXCEPT ![k].pc = pc, ![k].at = at] = [lookup EXCEPT ![k] = n]
  BY <1>1, <1>3, <1>4, <1>6
<1>9. QED
  BY <1>1, <1>7, <1>8

LEMMA PcNameWent ==
    ASSUME ResolutionInv, NEW k \in Lookups, NEW pc, NEW name
    PROVE  [lookup EXCEPT ![k].pc = pc, ![k].name = name] =
             [lookup EXCEPT ![k] = Went(lookup[k], pc, name, lookup[k].at, lookup[k].chosen)]
<1>1. PICK l : l = lookup[k]
  OBVIOUS
<1>2. l = [pc |-> l.pc, q |-> l.q, name |-> l.name, at |-> l.at, chosen |-> l.chosen]
  BY <1>1 DEF ResolutionInv, Shaped
<1>3. lookup = [x \in Lookups |-> lookup[x]]
  BY DEF ResolutionInv
<1>4. PICK m : m = [l EXCEPT !.pc = pc]
  OBVIOUS
<1>5. m = Went(l, pc, l.name, l.at, l.chosen)
  BY <1>2, <1>4 DEF Went
<1>6. PICK n : n = [m EXCEPT !.name = name]
  OBVIOUS
<1>7. n = Went(l, pc, name, l.at, l.chosen)
  BY <1>5, <1>6 DEF Went
<1>8. [lookup EXCEPT ![k].pc = pc, ![k].name = name] = [lookup EXCEPT ![k] = n]
  BY <1>1, <1>3, <1>4, <1>6
<1>9. QED
  BY <1>1, <1>7, <1>8

LEMMA SendWithWent ==
    ASSUME ResolutionInv, NEW k \in Lookups, NEW hit, SendWith(k, hit)
    PROVE  lookup' = [lookup EXCEPT ![k] = Went(lookup[k], "done", lookup[k].name, lookup[k].at, hit)]
<1>1. PICK l : l = lookup[k]
  OBVIOUS
<1>2. l = [pc |-> l.pc, q |-> l.q, name |-> l.name, at |-> l.at, chosen |-> l.chosen]
  BY <1>1 DEF ResolutionInv, Shaped
<1>3. lookup = [x \in Lookups |-> lookup[x]]
  BY DEF ResolutionInv
<1>4. PICK m : m = [l EXCEPT !.pc = "done"]
  OBVIOUS
<1>5. m = Went(l, "done", l.name, l.at, l.chosen)
  BY <1>2, <1>4 DEF Went
<1>6. PICK n : n = [m EXCEPT !.chosen = hit]
  OBVIOUS
<1>7. n = Went(l, "done", l.name, l.at, hit)
  BY <1>5, <1>6 DEF Went
<1>8. lookup' = [lookup EXCEPT ![k] = n]
  BY <1>1, <1>3, <1>4, <1>6 DEF SendWith
<1>9. QED
  BY <1>1, <1>7, <1>8

LEMMA StartLookupKeeps ==
    ASSUME ResolutionInv, NEW k \in Lookups, NEW q, StartLookup(k, q)
    PROVE  ResolutionInv'
<1>1. PICK u : u = [NoLookup EXCEPT !.pc = "scopes"]
  OBVIOUS
<1>2. PICK v : v = [u EXCEPT !.q = q]
  OBVIOUS
<1>3. PICK w : w = [v EXCEPT !.name = q.type]
  OBVIOUS
<1>4. u = [pc |-> "scopes", q |-> <<>>, name |-> Nameless, at |-> <<>>, chosen |-> <<Nowhere, Nameless>>]
  BY <1>1 DEF NoLookup
<1>5. v = [pc |-> "scopes", q |-> q, name |-> Nameless, at |-> <<>>, chosen |-> <<Nowhere, Nameless>>]
  BY <1>2, <1>4
<1>6. w = [pc |-> "scopes", q |-> q, name |-> q.type, at |-> <<>>, chosen |-> <<Nowhere, Nameless>>]
  BY <1>3, <1>5
<1>7. Shaped(w) /\ PreparedSoFar(w, fallbackAt)
  BY <1>6 DEF Shaped, PreparedSoFar
<1>8. lookup' = [lookup EXCEPT ![k] = w] /\ UnchangedTables /\ disturbed' = disturbed
  BY <1>1, <1>2, <1>3 DEF StartLookup
<1>9. QED
  BY <1>7, <1>8, OneLookupKeeps

LEMMA AliasScopesKeeps ==
    ASSUME ResolutionInv, NEW k \in Lookups, AliasScopes(k)
    PROVE  ResolutionInv'
<1>1. PICK at : at = CandidatesWith(lookup[k].q, fallbackAt)
  OBVIOUS
<1>2. lookup' = [lookup EXCEPT ![k] = Went(lookup[k], "alias", lookup[k].name, at, lookup[k].chosen)]
  <2>1. lookup' = [lookup EXCEPT ![k].pc = "alias", ![k].at = at]
    BY <1>1 DEF AliasScopes
  <2>2. QED
    BY <2>1, PcAtWent
<1>3. ASSUME batch, k \notin disturbed'
      PROVE  PreparedSoFar(Went(lookup[k], "alias", lookup[k].name, at, lookup[k].chosen), fallbackAt)
  BY <1>1, <1>3 DEF AliasScopes, ResolutionInv, PreparedSoFar, Went
<1>4. UnchangedTables /\ disturbed \subseteq disturbed'
  BY DEF AliasScopes
<1>5. QED
  BY <1>2, <1>3, <1>4, WentKeeps

LEMMA AskAliasKeeps ==
    ASSUME ResolutionInv, NEW k \in Lookups, AskAlias(k)
    PROVE  ResolutionInv'
<1>1. PICK name : name = Aliased(Asked(k), lookup[k].q.type)
  OBVIOUS
<1>2. UnchangedTables /\ disturbed \subseteq disturbed'
  BY DEF AskAlias
<1>3. CASE name # lookup[k].q.type \/ Rest(k) = <<>>
  <2>1. lookup' = [lookup EXCEPT ![k] = Went(lookup[k], "candidates", name, lookup[k].at, lookup[k].chosen)]
    <3>1. lookup' = [lookup EXCEPT ![k].pc = "candidates", ![k].name = name]
      BY <1>1, <1>3 DEF AskAlias
    <3>2. QED
      BY <3>1, PcNameWent
  <2>2. ASSUME batch, k \notin disturbed'
        PROVE  PreparedSoFar(Went(lookup[k], "candidates", name, lookup[k].at, lookup[k].chosen), fallbackAt)
    <3>1. name = Aliased(lookup[k].at, lookup[k].q.type)
      BY <1>1, <2>2 DEF Asked
    <3>2. QED
      BY <3>1, <2>2 DEF AskAlias, ResolutionInv, PreparedSoFar, Went
  <2>3. QED
    BY <1>2, <2>1, <2>2, WentKeeps
<1>4. CASE name = lookup[k].q.type /\ Rest(k) # <<>>
  <2>1. PICK at : at = Rest(k)
    OBVIOUS
  <2>2. lookup' = [lookup EXCEPT ![k] = Went(lookup[k], lookup[k].pc, lookup[k].name, at, lookup[k].chosen)]
    <3>1. lookup' = [lookup EXCEPT ![k].at = at]
      BY <1>1, <1>4, <2>1 DEF AskAlias
    <3>2. QED
      BY <3>1, AtWent
  <2>3. ~batch
    BY <1>4 DEF Rest
  <2>4. QED
    BY <1>2, <2>2, <2>3, WentKeeps
<1>5. QED
  BY <1>3, <1>4

LEMMA ReadCandidatesKeeps ==
    ASSUME ResolutionInv, NEW k \in Lookups, ReadCandidates(k)
    PROVE  ResolutionInv'
<1>1. PICK f : /\ lookup[k].pc \in {"candidates", "again"}
               /\ With(k, CandidatesWith(lookup[k].q, f))
               /\ disturbed' = IF f = fallbackAt THEN disturbed ELSE disturbed \cup {k}
               /\ UnchangedTables
  BY DEF ReadCandidates
<1>2. PICK at : at = CandidatesWith(lookup[k].q, f)
  OBVIOUS
<1>3. PICK pc : pc = CASE lookup[k].pc = "candidates" /\ at = <<>> -> "again"
                       [] lookup[k].pc = "candidates" /\ at # <<>> -> IF lookup[k].q.cond # "none" THEN "conditional" ELSE "plain"
                       [] OTHER -> IF at = <<>> THEN "done" ELSE "find"
  OBVIOUS
<1>4. lookup' = [lookup EXCEPT ![k] = Went(lookup[k], pc, lookup[k].name, at, lookup[k].chosen)]
  <2>1. lookup' = [lookup EXCEPT ![k].pc = pc, ![k].at = at]
    BY <1>1, <1>2, <1>3 DEF With
  <2>2. QED
    BY <2>1, PcAtWent
<1>5. ASSUME batch, k \notin disturbed'
      PROVE  PreparedSoFar(Went(lookup[k], pc, lookup[k].name, at, lookup[k].chosen), fallbackAt)
  <2>1. f = fallbackAt /\ k \notin disturbed /\ at = CandidatesWith(lookup[k].q, fallbackAt)
    BY <1>1, <1>2, <1>5
  <2>2. PreparedSoFar(lookup[k], fallbackAt)
    BY <1>5, <2>1 DEF ResolutionInv
  <2>3. lookup[k].chosen = <<Nowhere, Nameless>>
    BY <1>1, <2>2 DEF PreparedSoFar
  <2>4. CASE lookup[k].pc = "candidates" /\ at = <<>>
    <3>1. pc = "again"
      BY <1>3, <2>4
    <3>2. lookup[k].name = lookup[k].q.type
      BY <2>1, <2>2, <2>4, NowhereToLook DEF PreparedSoFar
    <3>3. lookup[k].name \in BestNames(lookup[k].q, fallbackAt)
      BY <2>1, <2>4, <3>2, BestNowhere
    <3>4. QED
      BY <2>3, <3>1, <3>3 DEF PreparedSoFar, Went
  <2>5. CASE lookup[k].pc = "candidates" /\ at # <<>>
    <3>1. pc = IF lookup[k].q.cond # "none" THEN "conditional" ELSE "plain"
      BY <1>3, <2>5
    <3>2. lookup[k].name = Aliased(CandidatesWith(lookup[k].q, fallbackAt), lookup[k].q.type)
      BY <2>2, <2>5 DEF PreparedSoFar
    <3>3. QED
      BY <2>1, <2>3, <3>1, <3>2 DEF PreparedSoFar, Went
  <2>6. CASE lookup[k].pc = "again"
    <3>1. pc = IF at = <<>> THEN "done" ELSE "find"
      BY <1>3, <2>6
    <3>2. lookup[k].name \in BestNames(lookup[k].q, fallbackAt)
      BY <2>2, <2>6 DEF PreparedSoFar
    <3>3. CASE at # <<>>
      BY <2>1, <2>3, <3>1, <3>2, <3>3 DEF PreparedSoFar, Went
    <3>4. CASE at = <<>>
      <4>1. lookup[k].chosen = BestRow(CandidatesWith(lookup[k].q, fallbackAt), lookup[k].name)
        BY <2>1, <2>3, <3>4, BestNowhere
      <4>2. QED
        BY <2>1, <3>1, <3>2, <3>4, <4>1 DEF PreparedSoFar, Went
    <3>5. QED
      BY <3>3, <3>4
  <2>7. QED
    BY <1>1, <2>4, <2>5, <2>6
<1>6. disturbed \subseteq disturbed'
  BY <1>1
<1>7. QED
  BY <1>1, <1>4, <1>5, <1>6, WentKeeps

LEMMA AskMappingKeeps ==
    ASSUME ResolutionInv, NEW k \in Lookups, AskMapping(k)
    PROVE  ResolutionInv'
<1>1. PICK cond : cond = IF lookup[k].pc = "plain" THEN "none" ELSE lookup[k].q.cond
  OBVIOUS
<1>2. PICK names : names = MappedNames(lookup[k].at, lookup[k].name, cond)
  OBVIOUS
<1>3. /\ lookup[k].pc \in {"conditional", "plain"} /\ UnchangedTables /\ disturbed' = disturbed
      /\ IF names # {} THEN \E n \in names : lookup' = [lookup EXCEPT ![k].pc = "again", ![k].name = n]
         ELSE To(k, IF lookup[k].pc = "plain" THEN "again" ELSE "plain")
  BY <1>1, <1>2 DEF AskMapping
<1>4. ASSUME batch, k \notin disturbed'
      PROVE  /\ lookup[k].chosen = <<Nowhere, Nameless>>
             /\ lookup[k].at = CandidatesWith(lookup[k].q, fallbackAt)
             /\ lookup[k].name = Aliased(CandidatesWith(lookup[k].q, fallbackAt), lookup[k].q.type)
             /\ lookup[k].pc = "conditional" => lookup[k].q.cond # "none"
             /\ lookup[k].pc = "plain" =>
                  \/ lookup[k].q.cond = "none"
                  \/ MappedNames(CandidatesWith(lookup[k].q, fallbackAt), lookup[k].name, lookup[k].q.cond) = {}
  BY <1>3, <1>4 DEF ResolutionInv, PreparedSoFar
<1>5. CASE names # {}
  <2>1. PICK n \in names : lookup' = [lookup EXCEPT ![k].pc = "again", ![k].name = n]
    BY <1>3, <1>5
  <2>2. lookup' = [lookup EXCEPT ![k] = Went(lookup[k], "again", n, lookup[k].at, lookup[k].chosen)]
    BY <2>1, PcNameWent
  <2>3. ASSUME batch, k \notin disturbed'
        PROVE  PreparedSoFar(Went(lookup[k], "again", n, lookup[k].at, lookup[k].chosen), fallbackAt)
    <3>1. CASE lookup[k].pc = "conditional"
      <4>1. n \in BestNames(lookup[k].q, fallbackAt)
        BY <1>1, <1>2, <1>4, <1>5, <2>1, <2>3, <3>1 DEF BestNames
      <4>2. QED
        BY <1>4, <2>3, <4>1 DEF PreparedSoFar, Went
    <3>2. CASE lookup[k].pc = "plain"
      <4>1. n \in BestNames(lookup[k].q, fallbackAt)
        BY <1>1, <1>2, <1>4, <1>5, <2>1, <2>3, <3>2 DEF BestNames
      <4>2. QED
        BY <1>4, <2>3, <4>1 DEF PreparedSoFar, Went
    <3>3. QED
      BY <1>3, <3>1, <3>2
  <2>4. QED
    BY <1>3, <2>2, <2>3, WentKeeps
<1>6. CASE names = {} /\ lookup[k].pc = "plain"
  <2>1. lookup' = [lookup EXCEPT ![k] = Went(lookup[k], "again", lookup[k].name, lookup[k].at, lookup[k].chosen)]
    <3>1. lookup' = [lookup EXCEPT ![k].pc = "again"]
      BY <1>3, <1>6 DEF To
    <3>2. QED
      BY <3>1, PcWent
  <2>2. ASSUME batch, k \notin disturbed'
        PROVE  PreparedSoFar(Went(lookup[k], "again", lookup[k].name, lookup[k].at, lookup[k].chosen), fallbackAt)
    <3>1. lookup[k].name \in BestNames(lookup[k].q, fallbackAt)
      BY <1>1, <1>2, <1>4, <1>6, <2>2 DEF BestNames
    <3>2. QED
      BY <1>4, <2>2, <3>1 DEF PreparedSoFar, Went
  <2>3. QED
    BY <1>3, <2>1, <2>2, WentKeeps
<1>7. CASE names = {} /\ lookup[k].pc = "conditional"
  <2>1. lookup' = [lookup EXCEPT ![k] = Went(lookup[k], "plain", lookup[k].name, lookup[k].at, lookup[k].chosen)]
    <3>1. lookup' = [lookup EXCEPT ![k].pc = "plain"]
      BY <1>3, <1>7 DEF To
    <3>2. QED
      BY <3>1, PcWent
  <2>2. ASSUME batch, k \notin disturbed'
        PROVE  PreparedSoFar(Went(lookup[k], "plain", lookup[k].name, lookup[k].at, lookup[k].chosen), fallbackAt)
    BY <1>1, <1>2, <1>4, <1>7, <2>2 DEF PreparedSoFar, Went
  <2>3. QED
    BY <1>3, <2>1, <2>2, WentKeeps
<1>8. QED
  BY <1>3, <1>5, <1>6, <1>7

\* The row that is sent with.
LEMMA SendWithKeeps ==
    ASSUME ResolutionInv, NEW k \in Lookups, NEW hit, SendWith(k, hit), UnchangedTables,
           disturbed' = disturbed,
           batch /\ k \notin disturbed =>
             \E n \in BestNames(lookup[k].q, fallbackAt) :
                hit = BestRow(CandidatesWith(lookup[k].q, fallbackAt), n)
    PROVE  ResolutionInv'
<1>1. lookup' = [lookup EXCEPT ![k] = Went(lookup[k], "done", lookup[k].name, lookup[k].at, hit)]
  BY SendWithWent
<1>2. ASSUME batch, k \notin disturbed'
      PROVE  PreparedSoFar(Went(lookup[k], "done", lookup[k].name, lookup[k].at, hit), fallbackAt)
  BY <1>2 DEF PreparedSoFar, Went
<1>3. QED
  BY <1>1, <1>2, WentKeeps

LEMMA AskApprovedKeeps ==
    ASSUME ResolutionInv, NEW k \in Lookups, AskApproved(k)
    PROVE  ResolutionInv'
<1>1. PICK hit : hit = RowAt(lookup[k].at, lookup[k].name, {"APPROVED"})
  OBVIOUS
<1>2. /\ lookup[k].pc = "find" /\ UnchangedTables /\ disturbed' = disturbed
      /\ IF hit[1] # Nowhere THEN SendWith(k, hit) ELSE To(k, "any")
  BY <1>1 DEF AskApproved
<1>3. ASSUME batch, k \notin disturbed
      PROVE  /\ lookup[k].chosen = <<Nowhere, Nameless>>
             /\ lookup[k].at = CandidatesWith(lookup[k].q, fallbackAt)
             /\ lookup[k].name \in BestNames(lookup[k].q, fallbackAt)
  BY <1>2, <1>3 DEF ResolutionInv, PreparedSoFar
<1>4. CASE hit[1] # Nowhere
  <2>1. ASSUME batch, k \notin disturbed
        PROVE  hit = BestRow(CandidatesWith(lookup[k].q, fallbackAt), lookup[k].name)
    BY <1>1, <1>3, <1>4, <2>1 DEF BestRow
  <2>2. QED
    BY <1>2, <1>3, <1>4, <2>1, SendWithKeeps
<1>5. CASE hit[1] = Nowhere
  <2>1. lookup' = [lookup EXCEPT ![k] = Went(lookup[k], "any", lookup[k].name, lookup[k].at, lookup[k].chosen)]
    <3>1. lookup' = [lookup EXCEPT ![k].pc = "any"]
      BY <1>2, <1>5 DEF To
    <3>2. QED
      BY <3>1, PcWent
  <2>2. ASSUME batch, k \notin disturbed'
        PROVE  PreparedSoFar(Went(lookup[k], "any", lookup[k].name, lookup[k].at, lookup[k].chosen), fallbackAt)
    BY <1>1, <1>2, <1>3, <1>5, <2>2 DEF PreparedSoFar, Went
  <2>3. QED
    BY <1>2, <2>1, <2>2, WentKeeps
<1>6. QED
  BY <1>4, <1>5

LEMMA AskAnyKeeps ==
    ASSUME ResolutionInv, NEW k \in Lookups, AskAny(k)
    PROVE  ResolutionInv'
<1>1. PICK hit : hit = RowAt(lookup[k].at, lookup[k].name, Status \ {"none"})
  OBVIOUS
<1>2. lookup[k].pc = "any" /\ SendWith(k, hit) /\ UnchangedTables /\ disturbed' = disturbed
  BY <1>1 DEF AskAny
<1>3. ASSUME batch, k \notin disturbed
      PROVE  /\ lookup[k].name \in BestNames(lookup[k].q, fallbackAt)
             /\ hit = BestRow(CandidatesWith(lookup[k].q, fallbackAt), lookup[k].name)
  BY <1>1, <1>2, <1>3 DEF ResolutionInv, PreparedSoFar, BestRow
<1>4. QED
  BY <1>2, <1>3, SendWithKeeps

LEMMA AskScopeKeeps ==
    ASSUME ResolutionInv, NEW k \in Lookups, AskScope(k)
    PROVE  ResolutionInv'
<1>1. PICK hit : hit = RowAt(Asked(k), lookup[k].name, Status \ {"none"})
  OBVIOUS
<1>2. PICK at : at = Rest(k)
  OBVIOUS
<1>3. /\ ~batch /\ UnchangedTables /\ disturbed' = disturbed
      /\ IF hit[1] # Nowhere \/ at = <<>> THEN SendWith(k, hit) ELSE lookup' = [lookup EXCEPT ![k].at = at]
  BY <1>1, <1>2 DEF AskScope
<1>4. CASE hit[1] # Nowhere \/ at = <<>>
  BY <1>3, <1>4, SendWithKeeps
<1>5. CASE ~(hit[1] # Nowhere \/ at = <<>>)
  <2>1. lookup' = [lookup EXCEPT ![k] = Went(lookup[k], lookup[k].pc, lookup[k].name, at, lookup[k].chosen)]
    BY <1>3, <1>5, AtWent
  <2>2. QED
    BY <1>3, <2>1, WentKeeps
<1>6. QED
  BY <1>4, <1>5

-----------------------------------------------------------------------------
(* What changes meanwhile *)

LEMMA StatementFailsKeeps ==
    ASSUME ResolutionInv, NEW k \in Lookups, StatementFails(k)
    PROVE  ResolutionInv'
<1>1. lookup[k] # NoLookup
  BY DEF StatementFails, Underway, NoLookup
<1>2. PICK at : at = OwnScopes(lookup[k].q)
  OBVIOUS
<1>3. \E pc, next : lookup' = [lookup EXCEPT ![k] = Went(lookup[k], pc, lookup[k].name, next, lookup[k].chosen)]
  <2>1. CASE lookup[k].pc \in {"candidates", "again"}
    <3>1. With(k, at)
      BY <1>2, <2>1 DEF StatementFails
    <3>2. PICK pc : lookup' = [lookup EXCEPT ![k].pc = pc, ![k].at = at]
      BY <3>1 DEF With
    <3>3. lookup' = [lookup EXCEPT ![k] = Went(lookup[k], pc, lookup[k].name, at, lookup[k].chosen)]
      BY <3>2, PcAtWent
    <3>4. QED
      BY <3>3
  <2>2. CASE lookup[k].pc \notin {"candidates", "again"}
    <3>1. PICK pc : To(k, pc)
      BY <2>2 DEF StatementFails
    <3>2. lookup' = [lookup EXCEPT ![k].pc = pc]
      BY <3>1 DEF To
    <3>3. lookup' = [lookup EXCEPT ![k] = Went(lookup[k], pc, lookup[k].name, lookup[k].at, lookup[k].chosen)]
      BY <3>2, PcWent
    <3>4. QED
      BY <3>3
  <2>3. QED
    BY <2>1, <2>2
<1>4. PICK pc, next : lookup' = [lookup EXCEPT ![k] = Went(lookup[k], pc, lookup[k].name, next, lookup[k].chosen)]
  BY <1>3
<1>5. PICK w : w = Went(lookup[k], pc, lookup[k].name, next, lookup[k].chosen)
  OBVIOUS
<1>6. Shaped(w)
  BY <1>5 DEF Shaped, Went
<1>7. \A x \in Lookups : lookup'[x] = IF x = k THEN w ELSE lookup[x]
  BY <1>4, <1>5 DEF ResolutionInv
<1>8. lookup' = [x \in Lookups |-> lookup'[x]]
  BY <1>4, <1>5 DEF ResolutionInv
<1>9. \A x \in Lookups : Shaped(lookup'[x])
  BY <1>6, <1>7 DEF ResolutionInv
<1>10. QED
  BY <1>1, <1>7, <1>8, <1>9, DisturbanceKeeps DEF StatementFails

LEMMA TablesChangeKeeps ==
    ASSUME ResolutionInv, Disturbance, lookup' = lookup
    PROVE  ResolutionInv'
<1>1. lookup' = [k \in Lookups |-> lookup'[k]] /\ \A k \in Lookups : Shaped(lookup'[k])
  BY DEF ResolutionInv
<1>2. QED
  BY <1>1, DisturbanceKeeps

LEMMA NothingLookedForKeeps ==
    ASSUME ResolutionInv, UNCHANGED <<batch, resolutionTables, lookup, disturbed>>
    PROVE  ResolutionInv'
<1>1. aliases' = aliases /\ metaRows' = metaRows /\ fallbackAt' = fallbackAt /\ batch' = batch
      /\ lookup' = lookup /\ disturbed' = disturbed
  BY DEF resolutionTables
<1>2. \A k \in Lookups : PreparedSoFar(lookup[k], fallbackAt)' <=> PreparedSoFar(lookup[k], fallbackAt)
  BY <1>1, SameTablesSamePrepared
<1>3. \A k \in Lookups : Shaped(lookup[k])'
  BY <1>1 DEF Shaped, ResolutionInv
<1>4. QED
  BY <1>1, <1>2, <1>3 DEF ResolutionInv

LEMMA ResolutionNextKeeps == ResolutionInv /\ [ResolutionNext]_resolutionVars => ResolutionInv'
<1>1. SUFFICES ASSUME ResolutionInv, [ResolutionNext]_resolutionVars PROVE ResolutionInv'
  OBVIOUS
<1>2. ASSUME NEW k \in Lookups,
             \/ \E q \in Questions : StartLookup(k, q)
             \/ AliasScopes(k) \/ AskAlias(k) \/ ReadCandidates(k) \/ AskMapping(k)
             \/ AskApproved(k) \/ AskAny(k) \/ AskScope(k) \/ StatementFails(k)
      PROVE  ResolutionInv'
  BY <1>1, <1>2, StartLookupKeeps, AliasScopesKeeps, AskAliasKeeps, ReadCandidatesKeeps, AskMappingKeeps,
     AskApprovedKeeps, AskAnyKeeps, AskScopeKeeps, StatementFailsKeeps
<1>3. ASSUME NEW w \in AliasWriters, NEW ask \in AliasWrites, CheckTarget(w, ask.id, ask.row)
      PROVE  ResolutionInv'
  BY <1>1, <1>3, NothingLookedForKeeps DEF CheckTarget
<1>4. ASSUME NEW w \in AliasWriters, SaveAlias(w) PROVE ResolutionInv'
  BY <1>1, <1>4, TablesChangeKeeps DEF SaveAlias
<1>5. ASSUME NEW s \in Scopes, NEW n \in TemplateNames, NEW status \in Status, TemplateChanges(s, n, status)
      PROVE  ResolutionInv'
  BY <1>1, <1>5, TablesChangeKeeps DEF TemplateChanges
<1>6. ASSUME NEW f \in Scopes \cup {Nowhere}, FallbackMoves(f) PROVE ResolutionInv'
  BY <1>1, <1>6, TablesChangeKeeps DEF FallbackMoves
<1>7. CASE UNCHANGED resolutionVars
  BY <1>1, <1>7, NothingLookedForKeeps DEF resolutionVars, resolutionTables
<1>8. QED
  BY <1>1, <1>2, <1>3, <1>4, <1>5, <1>6, <1>7 DEF ResolutionNext

LEMMA ResolutionInitInv == ResolutionInit => ResolutionInv
<1>1. SUFFICES ASSUME ResolutionInit PROVE ResolutionInv
  OBVIOUS
<1>2. \A k \in Lookups : lookup[k] = NoLookup
  BY <1>1 DEF ResolutionInit
<1>3. QED
  BY <1>1, <1>2, NoLookupIsPrepared DEF ResolutionInit, ResolutionInv

\* In batches, the eight statements of utils/template-alias.js and
\* utils/whatsapp-template.js find what one look at all tables would: whatever the
\* entities, the templates, the aliases, the questions and how many preparations
\* and writers there are at once.
THEOREM PreparedAsOneLookAlways == ResolutionSpec => []PreparedAsOneLook
<1>1. ResolutionInv => PreparedAsOneLook
  <2>1. SUFFICES ASSUME ResolutionInv, NEW k \in Lookups,
                        lookup[k].pc = "done", batch, k \notin disturbed
                 PROVE  lookup[k].chosen \in BestTemplates(lookup[k].q, fallbackAt)
    BY DEF PreparedAsOneLook
  <2>2. \E n \in BestNames(lookup[k].q, fallbackAt) :
           lookup[k].chosen = BestRow(CandidatesWith(lookup[k].q, fallbackAt), n)
    BY <2>1 DEF ResolutionInv, PreparedSoFar
  <2>3. QED
    BY <2>2, BestOnes
<1>2. QED
  BY <1>1, ResolutionInitInv, ResolutionNextKeeps, PTL DEF ResolutionSpec

=============================================================================
