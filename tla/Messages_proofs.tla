-------------------------- MODULE Messages_proofs --------------------------
(*****************************************************************************)
(* Proofs about who is told what: the pages of a broadcast and of an         *)
(* inbox, the session and the template a WhatsApp message goes out by, and   *)
(* what a repeated attempt sends again. They hold for any members,           *)
(* entities, sessions and addresses, of which only finiteness is assumed.    *)
(*****************************************************************************)
EXTENDS WhatsAppTemplates, Dispatch, Audiences, Inbox, TemplateVariables, FiniteSetTheorems,
        SequenceTheorems, TLAPS

-----------------------------------------------------------------------------
(* Least and greatest members of sets of naturals *)

Descends == {ss \in Nat \X Nat : ss[1] < ss[2]}

LEMMA DescendsIsWellFounded == IsWellFoundedOn(Descends, Nat)
<1>1. OpToRel(<, Nat) = Descends
  BY DEF OpToRel, Descends
<1>2. QED
  BY <1>1, NatLessThanWellFounded

LEMMA LeastNatural ==
    ASSUME NEW S \in SUBSET Nat, S # {}
    PROVE  \E n \in S : \A m \in S : n <= m
<1>1. PICK n \in S : \A m \in S : ~(<<m, n>> \in Descends)
  BY DescendsIsWellFounded, WFMin
<1>2. ASSUME NEW m \in S, m < n PROVE FALSE
  <2>1. <<m, n>> \in Descends
    BY <1>2 DEF Descends
  <2>2. QED
    BY <1>1, <2>1
<1>3. QED
  BY <1>2

\* The one with the fewest above it.
LEMMA GreatestOfFinite ==
    ASSUME NEW T \in SUBSET Nat, IsFiniteSet(T), T # {}
    PROVE  \E x \in T : \A y \in T : y <= x
<1> DEFINE Above(x) == {k \in T : k > x}
           Sizes == {Cardinality(Above(x)) : x \in T}
<1>1. \A x \in T : IsFiniteSet(Above(x)) /\ Cardinality(Above(x)) \in Nat
  BY FS_Subset, FS_CardinalityType
<1>2. Sizes \in SUBSET Nat /\ Sizes # {}
  BY <1>1
<1>3. PICK n \in Sizes : \A m \in Sizes : n <= m
  BY <1>2, LeastNatural
<1>4. PICK x \in T : n = Cardinality(Above(x))
  OBVIOUS
<1>5. ASSUME NEW y \in T, y > x PROVE FALSE
  <2>1. Above(y) \in SUBSET Above(x) /\ y \in Above(x) /\ y \notin Above(y)
    <3>1. ASSUME NEW z \in Above(y) PROVE z \in Above(x)
      <4>1. z \in Nat /\ y \in Nat /\ x \in Nat /\ z > y
        BY <3>1
      <4>2. z > x
        BY <4>1, <1>5
      <4>3. QED
        BY <4>2, <3>1
    <3>2. Above(y) \in SUBSET Above(x)
      BY <3>1
    <3>3. y \in Nat /\ ~(y > y)
      OBVIOUS
    <3>4. QED
      BY <3>2, <3>3, <1>5
  <2>2. Cardinality(Above(x)) <= Cardinality(Above(y))
    BY <1>3, <1>4
  <2>3. Cardinality(Above(x)) = Cardinality(Above(y)) => Above(x) = Above(y)
    BY <1>1, <2>1, FS_Subset
  <2>4. Cardinality(Above(y)) <= Cardinality(Above(x))
    BY <1>1, <2>1, FS_Subset
  <2> HIDE DEF Above
  <2>5. Cardinality(Above(x)) = Cardinality(Above(y))
    <3>1. PICK a, b \in Nat : a = Cardinality(Above(x)) /\ b = Cardinality(Above(y))
      BY <1>1
    <3>2. a <= b /\ b <= a
      BY <2>2, <2>4, <3>1
    <3>3. a = b
      BY <3>2
    <3>4. QED
      BY <3>1, <3>3
  <2>6. QED
    BY <2>1, <2>3, <2>5
<1>6. QED
  BY <1>5

-----------------------------------------------------------------------------
(* The first members of a list *)

LEMMA SmallestIsAPrefix ==
    ASSUME NEW s \in SUBSET Nat, IsFiniteSet(s), NEW n \in Nat
    PROVE  /\ Smallest(s, n) \subseteq s
           /\ \A m \in Smallest(s, n), k \in s : k < m => k \in Smallest(s, n)
<1> DEFINE Under(x) == {k \in s : k < x}
<1>1. \A x \in s : IsFiniteSet(Under(x)) /\ Cardinality(Under(x)) \in Nat
  BY FS_Subset, FS_CardinalityType
<1>2. ASSUME NEW m \in Smallest(s, n), NEW k \in s, k < m PROVE k \in Smallest(s, n)
  <2>1. m \in s /\ Cardinality(Under(m)) < n
    BY DEF Smallest
  <2>2. Under(k) \in SUBSET Under(m)
    <3>1. ASSUME NEW z \in Under(k) PROVE z \in Under(m)
      <4>1. z \in Nat /\ k \in Nat /\ m \in Nat /\ z < k
        BY <3>1, <2>1
      <4>2. z < m
        BY <4>1, <1>2
      <4>3. QED
        BY <4>2, <3>1
    <3>2. QED
      BY <3>1
  <2>3. Cardinality(Under(k)) <= Cardinality(Under(m))
    BY <1>1, <2>1, <2>2, FS_Subset
  <2> HIDE DEF Under
  <2>4. Cardinality(Under(k)) < n
    BY <1>1, <2>1, <2>3
  <2>5. QED
    BY <2>4 DEF Smallest, Under
<1>3. QED
  BY <1>2 DEF Smallest

LEMMA SmallestIsThere ==
    ASSUME NEW s \in SUBSET Nat, IsFiniteSet(s), s # {}, NEW n \in Nat \ {0}
    PROVE  Smallest(s, n) # {}
<1>1. PICK m \in s : \A k \in s : m <= k
  BY LeastNatural
<1>2. {k \in s : k < m} = {}
  <2>1. ASSUME NEW k \in s, k < m PROVE FALSE
    <3>1. k \in Nat /\ m \in Nat /\ m <= k
      BY <1>1, <2>1
    <3>2. QED
      BY <3>1, <2>1
  <2>2. QED
    BY <2>1
<1>3. Cardinality({k \in s : k < m}) < n
  BY <1>2, FS_EmptySet
<1>4. QED
  BY <1>3 DEF Smallest

\* Fewer than asked for are all there are.
LEMMA SmallestAreAll ==
    ASSUME NEW s \in SUBSET Nat, IsFiniteSet(s), NEW n \in Nat,
           Cardinality(Smallest(s, n)) # n
    PROVE  Smallest(s, n) = s
<1> DEFINE Under(x) == {k \in s : k < x}
           few == Smallest(s, n)
<1>1. SUFFICES ASSUME few # s PROVE FALSE
  OBVIOUS
<1>2. few \subseteq s /\ \A m \in few, k \in s : k < m => k \in few
  BY SmallestIsAPrefix
<1>3. \A x \in s : IsFiniteSet(Under(x)) /\ Cardinality(Under(x)) \in Nat
  BY FS_Subset, FS_CardinalityType
<1>4. \A x \in s : x \in few <=> Cardinality(Under(x)) < n
  BY DEF Smallest
<1> HIDE DEF few
<1>5. PICK m \in s \ few : \A k \in s \ few : m <= k
  <2>1. s \ few \in SUBSET Nat /\ s \ few # {}
    BY <1>1, <1>2
  <2>2. QED
    BY <2>1, LeastNatural
<1>6. few = Under(m)
  <2>1. ASSUME NEW z \in few PROVE z \in Under(m)
    <3>1. z \in s /\ z \in Nat /\ m \in Nat /\ z # m /\ ~(m < z)
      BY <1>2, <1>5, <2>1
    <3>2. z < m
      BY <3>1
    <3>3. QED
      BY <3>1, <3>2
  <2>2. ASSUME NEW z \in Under(m) PROVE z \in few
    <3>1. z \in s /\ z \in Nat /\ m \in Nat /\ z < m
      BY <1>5, <2>2
    <3>2. QED
      BY <1>5, <3>1
  <2>3. QED
    BY <2>1, <2>2
<1>7. Cardinality(few) \in Nat /\ Cardinality(few) >= n
  BY <1>3, <1>4, <1>5, <1>6
<1>8. Cardinality(few) # n
  BY DEF few
<1>9. few # {} /\ IsFiniteSet(few)
  BY <1>3, <1>5, <1>6, <1>7, <1>8, FS_EmptySet
<1>10. PICK x \in few : \A y \in few : y <= x
  BY <1>2, <1>9, GreatestOfFinite
<1>11. Under(x) = few \ {x}
  <2>1. ASSUME NEW z \in few \ {x} PROVE z \in Under(x)
    <3>1. z \in s /\ z \in Nat /\ x \in Nat /\ z # x /\ z <= x
      BY <1>2, <1>10, <2>1
    <3>2. QED
      BY <3>1
  <2>2. ASSUME NEW z \in Under(x) PROVE z \in few \ {x}
    <3>1. z \in s /\ z \in Nat /\ x \in Nat /\ z < x
      BY <1>2, <1>10, <2>2
    <3>2. QED
      BY <1>2, <1>10, <3>1
  <2>3. QED
    BY <2>1, <2>2
<1>12. Cardinality(Under(x)) = Cardinality(few) - 1
  BY <1>9, <1>11, FS_RemoveElement
<1>13. Cardinality(Under(x)) < n
  BY <1>2, <1>4, <1>10
<1> HIDE DEF Under
<1>14. QED
  BY <1>7, <1>8, <1>12, <1>13

-----------------------------------------------------------------------------
(* Audiences: what a broadcast has done and has left *)

BroadcastType == [at : {"none", "reading", "telling", "done"}, cursor : Nat,
                  page : SUBSET MemberIds, full : BOOLEAN, told : SUBSET MemberIds,
                  queued : Nat, skipped : Nat, throughout : SUBSET MemberIds,
                  twice : BOOLEAN]

\* Between two pages: told are the ids up to the cursor, and no other.
BetweenPages(r) ==
    r.at = "reading" =>
        /\ \A t \in r.told : t <= r.cursor
        /\ \A m \in r.throughout : m <= r.cursor => m \in r.told

\* Within a page: the rest of it is beyond what was told, and whoever is neither
\* told nor on the page comes after it, on a page that is still to be read.
WithinPage(r) ==
    r.at = "telling" =>
        /\ r.page # {}
        /\ \A t \in r.told : \A m \in r.page : t < m
        /\ \A m \in r.throughout : m \notin r.told /\ m \notin r.page =>
              r.full /\ \A k \in r.page : k < m

BroadcastOK(r) ==
    /\ r.queued + r.skipped = Cardinality(r.told)
    /\ r.twice = FALSE
    /\ BetweenPages(r)
    /\ WithinPage(r)
    /\ r.at = "done" => r.throughout \subseteq r.told

BroadcastsInv ==
    /\ members \in SUBSET MemberIds
    /\ broadcasts \in [Broadcasts -> BroadcastType]
    /\ \A b \in Broadcasts : /\ BroadcastOK(broadcasts[b])
                             /\ broadcasts[b].throughout \subseteq members

LEMMA NoBroadcastIsOK == NoBroadcast \in BroadcastType /\ BroadcastOK(NoBroadcast)
<1>1. Cardinality({}) = 0
  BY FS_EmptySet
<1>2. QED
  BY <1>1 DEF NoBroadcast, BroadcastType, BroadcastOK, BetweenPages, WithinPage

LEMMA AudienceInitInv == AudienceInit => BroadcastsInv
<1>1. QED
  BY NoBroadcastIsOK DEF AudienceInit, BroadcastsInv, NoBroadcast

\* A step of one broadcast.
LEMMA OneBroadcastKeeps ==
    ASSUME BroadcastsInv, NEW b \in Broadcasts, NEW w \in BroadcastType,
           BroadcastOK(w), w.throughout \subseteq members,
           broadcasts' = [broadcasts EXCEPT ![b] = w], members' = members
    PROVE  BroadcastsInv'
<1>1. broadcasts' \in [Broadcasts -> BroadcastType]
  BY DEF BroadcastsInv
<1>2. ASSUME NEW c \in Broadcasts
      PROVE  BroadcastOK(broadcasts'[c]) /\ broadcasts'[c].throughout \subseteq members'
  <2>1. CASE c = b
    <3>1. broadcasts'[c] = w
      BY <2>1 DEF BroadcastsInv
    <3>2. QED
      BY <3>1
  <2>2. CASE c # b
    <3>1. broadcasts'[c] = broadcasts[c]
      BY <2>2 DEF BroadcastsInv
    <3>2. QED
      BY <3>1 DEF BroadcastsInv
  <2>3. QED
    BY <2>1, <2>2
<1>3. QED
  BY <1>1, <1>2 DEF BroadcastsInv

\* Members come and go.
LEMMA MembersKeep ==
    ASSUME BroadcastsInv, NEW gone, members' \in SUBSET MemberIds,
           members \ gone \subseteq members', broadcasts' = Without(gone)
    PROVE  BroadcastsInv'
<1>1. ASSUME NEW b \in Broadcasts
      PROVE  /\ broadcasts'[b] \in BroadcastType
             /\ BroadcastOK(broadcasts'[b])
             /\ broadcasts'[b].throughout \subseteq members'
  <2>1. PICK r \in BroadcastType : r = broadcasts[b]
    BY DEF BroadcastsInv
  <2>2. BroadcastOK(r) /\ r.throughout \subseteq members
    BY <2>1 DEF BroadcastsInv
  <2>3. PICK w : w = [r EXCEPT !.throughout = @ \ gone]
    OBVIOUS
  <2>4. broadcasts'[b] = w
    BY <2>1, <2>3 DEF Without
  <2>5. /\ w \in BroadcastType
        /\ w.at = r.at /\ w.cursor = r.cursor /\ w.page = r.page /\ w.full = r.full
        /\ w.told = r.told /\ w.queued = r.queued /\ w.skipped = r.skipped
        /\ w.throughout = r.throughout \ gone /\ w.twice = r.twice
    BY <2>1, <2>3 DEF BroadcastType
  <2>6. BroadcastOK(w)
    BY <2>2, <2>5 DEF BroadcastOK, BetweenPages, WithinPage
  <2>7. QED
    BY <2>2, <2>4, <2>5, <2>6
<1>2. broadcasts' = [b \in Broadcasts |-> broadcasts'[b]]
  BY DEF Without
<1>3. QED
  BY <1>1, <1>2 DEF BroadcastsInv

LEMMA StartBroadcastKeeps ==
    ASSUME BroadcastsInv, NEW b \in Broadcasts, StartBroadcast(b)
    PROVE  BroadcastsInv'
<1>1. PICK w : w = [NoBroadcast EXCEPT !.at = "reading", !.throughout = members]
  OBVIOUS
<1>2. /\ w.at = "reading" /\ w.cursor = 0 /\ w.told = {} /\ w.queued = 0
      /\ w.skipped = 0 /\ w.throughout = members /\ w.twice = FALSE
  BY <1>1 DEF NoBroadcast
<1>3. w \in BroadcastType
  BY <1>1 DEF NoBroadcast, BroadcastType, BroadcastsInv
<1>4. \A m \in members : m \in Nat /\ m # 0
  BY AudiencesAssumption DEF BroadcastsInv
<1>5. \A m \in members : ~(m <= 0)
  BY <1>4
<1>6. Cardinality({}) = 0
  BY FS_EmptySet
<1>7. BroadcastOK(w)
  BY <1>2, <1>5, <1>6 DEF BroadcastOK, BetweenPages, WithinPage
<1>8. broadcasts' = [broadcasts EXCEPT ![b] = w] /\ members' = members
  BY <1>1 DEF StartBroadcast
<1>9. QED
  BY <1>2, <1>3, <1>7, <1>8, OneBroadcastKeeps

LEMMA CrashKeeps ==
    ASSUME BroadcastsInv, NEW b \in Broadcasts, Crash(b)
    PROVE  BroadcastsInv'
<1>1. broadcasts' = [broadcasts EXCEPT ![b] = NoBroadcast] /\ members' = members
  BY DEF Crash
<1>2. NoBroadcast.throughout \subseteq members
  BY DEF NoBroadcast
<1>3. QED
  BY <1>1, <1>2, NoBroadcastIsOK, OneBroadcastKeeps

LEMMA IdsAreFinite ==
    \A s \in SUBSET MemberIds : IsFiniteSet(s) /\ s \in SUBSET Nat /\ Cardinality(s) \in Nat
<1>1. ASSUME NEW s \in SUBSET MemberIds
      PROVE  IsFiniteSet(s) /\ s \in SUBSET Nat /\ Cardinality(s) \in Nat
  <2>1. IsFiniteSet(MemberIds) /\ MemberIds \subseteq Nat
    BY AudiencesAssumption
  <2>2. IsFiniteSet(s)
    BY <2>1, FS_Subset
  <2>3. QED
    BY <2>1, <2>2, FS_CardinalityType
<1>2. QED
  BY <1>1

\* The page is what follows the cursor, up to some id; a short page is all of it.
LEMMA PageFollows ==
    ASSUME NEW s \in SUBSET MemberIds, NEW c \in Nat, NEW n \in Nat \ {0},
           NEW rest \in SUBSET s, \A m \in s : m \in rest <=> m > c,
           NEW page, page = Smallest(rest, n)
    PROVE  /\ page \in SUBSET s
           /\ \A m \in page : c < m
           /\ \A m \in s : c < m /\ m \notin page => \A k \in page : k < m
           /\ Cardinality(page) # n => \A m \in s : c < m => m \in page
           /\ page = {} => Cardinality(page) # n
<1>1. rest \in SUBSET MemberIds
  OBVIOUS
<1>2. IsFiniteSet(rest) /\ rest \in SUBSET Nat
  BY IdsAreFinite
<1>3. /\ page \subseteq rest
      /\ \A m \in page, k \in rest : k < m => k \in page
  BY <1>1, <1>2, SmallestIsAPrefix
<1>4. \A m \in s : m \in Nat /\ (m \in rest <=> c < m)
  BY <1>1, IdsAreFinite
<1>5. page \in SUBSET s /\ \A m \in page : c < m
  BY <1>1, <1>3, <1>4
<1>6. ASSUME NEW m \in s, c < m, m \notin page, NEW k \in page PROVE k < m
  <2>1. m \in rest /\ m \in Nat /\ k \in Nat /\ k # m
    BY <1>2, <1>3, <1>4, <1>6
  <2>2. ~(m < k)
    BY <1>3, <1>6, <2>1
  <2>3. QED
    BY <2>1, <2>2
<1>7. ASSUME Cardinality(page) # n PROVE \A m \in s : c < m => m \in page
  <2>1. page = rest
    BY <1>1, <1>2, <1>7, SmallestAreAll
  <2>2. QED
    BY <1>4, <2>1
<1>8. ASSUME page = {} PROVE Cardinality(page) # n
  BY <1>8, FS_EmptySet
<1>9. QED
  BY <1>5, <1>6, <1>7, <1>8

LEMMA ReadPageKeeps ==
    ASSUME BroadcastsInv, NEW b \in Broadcasts, ReadPage(b)
    PROVE  BroadcastsInv'
<1>1. PICK r \in BroadcastType : r = broadcasts[b]
  BY DEF BroadcastsInv
<1>2. BroadcastOK(r) /\ r.throughout \subseteq members /\ r.at = "reading"
  BY <1>1 DEF BroadcastsInv, ReadPage
<1>3. PICK page : page = Smallest({m \in members : m > r.cursor}, BroadcastPageSize)
  OBVIOUS
<1>4. PICK full \in BOOLEAN : full = (Cardinality(page) = BroadcastPageSize)
  OBVIOUS
<1>5. PICK at : at = IF page = {} THEN "done" ELSE "telling"
  OBVIOUS
<1>6. PICK w : w = [r EXCEPT !.at = at, !.page = page, !.full = full]
  OBVIOUS
<1>7. broadcasts' = [broadcasts EXCEPT ![b] = w] /\ members' = members
  <2>1. MemberPage(r.cursor) = page
    BY <1>3 DEF MemberPage
  <2>2. broadcasts' = [broadcasts EXCEPT ![b].at = at, ![b].page = page, ![b].full = full]
    BY <1>1, <1>4, <1>5, <2>1 DEF ReadPage
  <2>3. QED
    BY <1>1, <1>6, <2>2 DEF BroadcastsInv, ReadPage
<1>8. /\ members \in SUBSET MemberIds /\ r.cursor \in Nat
      /\ BroadcastPageSize \in Nat \ {0}
  BY <1>1, AudiencesAssumption DEF BroadcastsInv, BroadcastType
<1>9. /\ page \in SUBSET members
      /\ \A m \in page : r.cursor < m
      /\ \A m \in members : r.cursor < m /\ m \notin page => \A k \in page : k < m
      /\ Cardinality(page) # BroadcastPageSize =>
            \A m \in members : r.cursor < m => m \in page
      /\ page = {} => Cardinality(page) # BroadcastPageSize
  <2>1. PICK s \in SUBSET MemberIds : s = members
    BY <1>8
  <2>2. PICK c \in Nat : c = r.cursor
    BY <1>8
  <2>3. PICK n \in Nat \ {0} : n = BroadcastPageSize
    BY <1>8
  <2>4. PICK rest \in SUBSET s : rest = {m \in s : m > c}
    OBVIOUS
  <2>6. (\A m \in s : m \in rest <=> m > c) /\ page = Smallest(rest, n)
    BY <1>3, <2>1, <2>2, <2>3, <2>4
  <2>5. /\ page \in SUBSET s
        /\ \A m \in page : c < m
        /\ \A m \in s : c < m /\ m \notin page => \A k \in page : k < m
        /\ Cardinality(page) # n => \A m \in s : c < m => m \in page
        /\ page = {} => Cardinality(page) # n
    BY <2>6, PageFollows
  <2>7. QED
    BY <2>1, <2>2, <2>3, <2>5
<1>10. /\ w \in BroadcastType
       /\ w.at = at /\ w.page = page /\ w.full = full
       /\ w.cursor = r.cursor /\ w.told = r.told /\ w.queued = r.queued
       /\ w.skipped = r.skipped /\ w.throughout = r.throughout /\ w.twice = r.twice
  BY <1>5, <1>6, <1>8, <1>9 DEF BroadcastType
<1>11. /\ \A t \in r.told : t \in Nat /\ t <= r.cursor
       /\ \A m \in members : m \in Nat /\ (m <= r.cursor \/ r.cursor < m)
       /\ \A m \in r.throughout : m <= r.cursor => m \in r.told
  <2>1. r.told \in SUBSET Nat /\ members \in SUBSET Nat
    BY <1>8, IdsAreFinite DEF BroadcastType
  <2>2. QED
    BY <1>2, <1>8, <2>1 DEF BroadcastOK, BetweenPages
<1>12. WithinPage(w)
  <2>1. ASSUME w.at = "telling", NEW t \in r.told, NEW m \in page PROVE t < m
    <3>1. t \in Nat /\ m \in Nat /\ t <= r.cursor /\ r.cursor < m /\ r.cursor \in Nat
      BY <1>8, <1>9, <1>11
    <3>2. QED
      BY <3>1
  <2>2. ASSUME NEW m \in r.throughout, m \notin r.told, m \notin page
        PROVE  full /\ \A k \in page : k < m
    <3>1. m \in members /\ r.cursor < m
      BY <1>2, <1>11, <2>2
    <3>2. QED
      BY <1>4, <1>9, <2>2, <3>1
  <2>3. w.at = "telling" => page # {}
    BY <1>5, <1>10
  <2>4. QED
    BY <1>10, <2>1, <2>2, <2>3 DEF WithinPage
<1>13. w.at = "done" => w.throughout \subseteq w.told
  <2>1. ASSUME w.at = "done", NEW m \in r.throughout PROVE m \in r.told
    <3>1. page = {}
      BY <1>5, <1>10, <2>1
    <3>2. ~(r.cursor < m)
      BY <1>2, <1>9, <3>1
    <3>3. QED
      BY <1>2, <1>11, <3>2
  <2>2. QED
    BY <1>10, <2>1
<1>14. w.at # "reading"
  BY <1>5, <1>10
<1>15. BroadcastOK(w)
  BY <1>2, <1>10, <1>12, <1>13, <1>14 DEF BroadcastOK, BetweenPages
<1>16. QED
  BY <1>2, <1>7, <1>10, <1>15, OneBroadcastKeeps

\* What a batch does to a page: it takes a first part of it, and with the last
\* part the cursor is the greatest id of the page.
LEMMA BatchIsAPrefix ==
    ASSUME NEW page \in SUBSET MemberIds, page # {}, NEW n \in Nat \ {0}, NEW batch,
           batch = Smallest(page, n)
    PROVE  /\ batch \in SUBSET page /\ batch # {}
           /\ \A m \in batch, k \in page \ batch : m < k
<1>1. IsFiniteSet(page) /\ page \in SUBSET Nat
  BY IdsAreFinite
<1>2. /\ batch \subseteq page
      /\ \A m \in batch, k \in page : k < m => k \in batch
  BY <1>1, SmallestIsAPrefix
<1>3. batch # {}
  BY <1>1, SmallestIsThere
<1>4. ASSUME NEW m \in batch, NEW k \in page \ batch PROVE m < k
  <2>1. m \in Nat /\ k \in Nat /\ m # k /\ ~(k < m)
    BY <1>1, <1>2
  <2>2. QED
    BY <2>1
<1>5. QED
  BY <1>2, <1>3, <1>4

LEMMA LastIsGreatest ==
    ASSUME NEW page \in SUBSET MemberIds, page # {}
    PROVE  \E last \in page : /\ last = CHOOSE m \in page : \A k \in page : k <= m
                              /\ \A k \in page : k <= last
<1>1. IsFiniteSet(page) /\ page \in SUBSET Nat
  BY IdsAreFinite
<1>2. \E m \in page : \A k \in page : k <= m
  BY <1>1, GreatestOfFinite
<1>3. QED
  BY <1>2

LEMMA TellBatchKeeps ==
    ASSUME BroadcastsInv, NEW b \in Broadcasts, TellBatch(b)
    PROVE  BroadcastsInv'
<1>1. PICK r \in BroadcastType : r = broadcasts[b]
  BY DEF BroadcastsInv
<1>2. BroadcastOK(r) /\ r.throughout \subseteq members /\ r.at = "telling"
  BY <1>1 DEF BroadcastsInv, TellBatch
<1>3. PICK batch : batch = Smallest(r.page, BroadcastConcurrency)
  OBVIOUS
<1>4. PICK queued \in 0..Cardinality(batch) :
          broadcasts' = [broadcasts EXCEPT ![b] = Advanced(r, batch, queued)]
  BY <1>1, <1>3 DEF TellBatch
<1>5. members' = members
  BY DEF TellBatch
<1>6. /\ r.page \in SUBSET MemberIds /\ r.page # {} /\ r.told \in SUBSET MemberIds
      /\ r.throughout \in SUBSET MemberIds
      /\ r.queued \in Nat /\ r.skipped \in Nat /\ r.cursor \in Nat /\ r.full \in BOOLEAN
      /\ r.queued + r.skipped = Cardinality(r.told) /\ r.twice = FALSE
      /\ \A t \in r.told : \A m \in r.page : t < m
      /\ \A m \in r.throughout : m \notin r.told /\ m \notin r.page =>
            r.full /\ \A k \in r.page : k < m
  BY <1>1, <1>2 DEF BroadcastType, BroadcastOK, WithinPage
<1>7. /\ batch \in SUBSET r.page /\ batch # {}
      /\ \A m \in batch, k \in r.page \ batch : m < k
  <2>1. PICK page \in SUBSET MemberIds : page = r.page
    BY <1>6
  <2>2. PICK n \in Nat \ {0} : n = BroadcastConcurrency
    BY AudiencesAssumption
  <2>3. page # {} /\ batch = Smallest(page, n)
    BY <1>3, <1>6, <2>1, <2>2
  <2>4. /\ batch \in SUBSET page /\ batch # {}
        /\ \A m \in batch, k \in page \ batch : m < k
    BY <2>3, BatchIsAPrefix
  <2>5. QED
    BY <2>1, <2>4
<1>8. PICK last \in r.page : /\ last = CHOOSE m \in r.page : \A k \in r.page : k <= m
                             /\ \A k \in r.page : k <= last
  BY <1>6, LastIsGreatest
<1>9. r.told \in SUBSET Nat /\ r.page \in SUBSET Nat /\ r.throughout \in SUBSET Nat
  BY <1>6, IdsAreFinite
<1>10. r.told \cap batch = {}
  <2>1. ASSUME NEW m \in r.told, m \in batch PROVE FALSE
    <3>1. m \in Nat /\ m < m
      BY <1>6, <1>7, <1>9, <2>1
    <3>2. QED
      BY <3>1
  <2>2. QED
    BY <2>1
<1>11. /\ Cardinality(batch) \in Nat
       /\ Cardinality(r.told \cup batch) = Cardinality(r.told) + Cardinality(batch)
       /\ Cardinality(r.told) \in Nat
  <2>1. batch \in SUBSET MemberIds
    BY <1>6, <1>7
  <2>2. IsFiniteSet(batch) /\ IsFiniteSet(r.told) /\ Cardinality(batch) \in Nat
        /\ Cardinality(r.told) \in Nat
    BY <1>6, <2>1, IdsAreFinite
  <2>3. Cardinality(r.told \cap batch) = 0
    BY <1>10, FS_EmptySet
  <2>4. Cardinality(r.told \cup batch)
           = Cardinality(r.told) + Cardinality(batch) - Cardinality(r.told \cap batch)
    BY <2>2, FS_Union
  <2>5. QED
    BY <2>2, <2>3, <2>4
<1>12. PICK left : left = r.page \ batch
  OBVIOUS
<1>13. PICK w : w = Advanced(r, batch, queued)
  OBVIOUS
<1>14. PICK at : at = IF left # {} THEN "telling" ELSE IF r.full THEN "reading" ELSE "done"
  OBVIOUS
<1>15. PICK cursor : cursor = IF left = {} THEN last ELSE r.cursor
  OBVIOUS
<1>16. w = [r EXCEPT !.page = left, !.cursor = cursor, !.at = at, !.twice = FALSE,
                     !.told = r.told \cup batch, !.queued = r.queued + queued,
                     !.skipped = r.skipped + Cardinality(batch) - queued]
  <2>1. (r.twice \/ r.told \cap batch # {}) = FALSE
    BY <1>6, <1>10
  <2>2. QED
    BY <1>8, <1>12, <1>13, <1>14, <1>15, <2>1 DEF Advanced
<1>17. /\ w.page = left /\ w.cursor = cursor /\ w.at = at /\ w.twice = FALSE
       /\ w.told = r.told \cup batch /\ w.queued = r.queued + queued
       /\ w.skipped = r.skipped + Cardinality(batch) - queued
       /\ w.full = r.full /\ w.throughout = r.throughout
  BY <1>1, <1>16 DEF BroadcastType
<1>18. /\ r.queued + queued \in Nat
       /\ r.skipped + Cardinality(batch) - queued \in Nat
       /\ (r.queued + queued) + (r.skipped + Cardinality(batch) - queued)
             = Cardinality(r.told) + Cardinality(batch)
  BY <1>4, <1>6, <1>11
<1>19. w \in BroadcastType
  <2>1. cursor \in Nat
    BY <1>6, <1>8, <1>9, <1>15
  <2>2. left \in SUBSET MemberIds /\ r.told \cup batch \in SUBSET MemberIds
    BY <1>6, <1>7, <1>12
  <2>3. at \in {"none", "reading", "telling", "done"}
    BY <1>14
  <2>4. QED
    BY <1>1, <1>16, <1>18, <2>1, <2>2, <2>3 DEF BroadcastType
<1>20. BetweenPages(w)
  <2>1. SUFFICES ASSUME w.at = "reading"
        PROVE  /\ \A t \in r.told \cup batch : t <= last
               /\ \A m \in r.throughout : m <= last => m \in r.told \cup batch
    BY <1>14, <1>15, <1>17 DEF BetweenPages
  <2>2. batch = r.page
    BY <1>7, <1>12, <1>14, <1>17, <2>1
  <2>3. ASSUME NEW t \in r.told \cup batch PROVE t <= last
    <3>1. CASE t \in r.told
      <4>1. t \in Nat /\ last \in Nat /\ t < last
        BY <1>6, <1>8, <1>9, <3>1
      <4>2. QED
        BY <4>1
    <3>2. CASE t \in batch
      BY <1>8, <2>2, <3>2
    <3>3. QED
      BY <2>3, <3>1, <3>2
  <2>4. ASSUME NEW m \in r.throughout, m <= last PROVE m \in r.told \cup batch
    <3>1. SUFFICES ASSUME m \notin r.told, m \notin r.page PROVE FALSE
      BY <2>2
    <3>2. m \in Nat /\ last \in Nat /\ last < m
      BY <1>6, <1>8, <1>9, <3>1
    <3>3. QED
      BY <2>4, <3>2
  <2>5. QED
    BY <2>3, <2>4
<1>21. WithinPage(w)
  <2>1. SUFFICES ASSUME w.at = "telling"
        PROVE  /\ left # {}
               /\ \A t \in r.told \cup batch : \A m \in left : t < m
               /\ \A m \in r.throughout : m \notin r.told \cup batch /\ m \notin left =>
                     r.full /\ \A k \in left : k < m
    BY <1>17 DEF WithinPage
  <2>2. left # {}
    BY <1>14, <1>17, <2>1
  <2>3. \A t \in r.told \cup batch : \A m \in left : t < m
    BY <1>6, <1>7, <1>12
  <2>4. \A m \in r.throughout : m \notin r.told \cup batch /\ m \notin left =>
           r.full /\ \A k \in left : k < m
    BY <1>6, <1>7, <1>12
  <2>5. QED
    BY <2>2, <2>3, <2>4
<1>22. w.at = "done" => w.throughout \subseteq w.told
  <2>1. SUFFICES ASSUME w.at = "done", NEW m \in r.throughout PROVE m \in r.told \cup batch
    BY <1>17
  <2>2. left = {} /\ ~r.full
    BY <1>14, <1>17, <2>1
  <2>3. QED
    BY <1>6, <1>7, <1>12, <2>2
<1>23. w.queued + w.skipped = Cardinality(w.told)
  BY <1>11, <1>17, <1>18
<1>24. BroadcastOK(w)
  BY <1>17, <1>20, <1>21, <1>22, <1>23 DEF BroadcastOK
<1>25. broadcasts' = [broadcasts EXCEPT ![b] = w]
  BY <1>4, <1>13
<1>26. QED
  BY <1>2, <1>5, <1>17, <1>19, <1>24, <1>25, OneBroadcastKeeps

LEMMA AudienceNextKeeps == BroadcastsInv /\ [AudienceNext]_audienceVars => BroadcastsInv'
<1> SUFFICES ASSUME BroadcastsInv, [AudienceNext]_audienceVars PROVE BroadcastsInv'
  OBVIOUS
<1>0. members \in SUBSET MemberIds
  BY DEF BroadcastsInv
<1>1. ASSUME NEW new \in SUBSET MemberIds, AddMembers(new) PROVE BroadcastsInv'
  <2>1. /\ members' \in SUBSET MemberIds /\ members \subseteq members'
        /\ broadcasts' = broadcasts
    BY <1>0, <1>1 DEF AddMembers
  <2>2. QED
    BY <2>1 DEF BroadcastsInv
<1>2. ASSUME NEW new \in SUBSET MemberIds, ReplaceMembers(new) PROVE BroadcastsInv'
  <2>1. /\ members' \in SUBSET MemberIds /\ members \ members \subseteq members'
        /\ broadcasts' = Without(members)
    BY <1>2 DEF ReplaceMembers
  <2>2. QED
    BY <2>1, MembersKeep
<1>3. ASSUME NEW m \in MemberIds, RemoveMember(m) PROVE BroadcastsInv'
  <2>1. /\ members' \in SUBSET MemberIds /\ members \ {m} \subseteq members'
        /\ broadcasts' = Without({m})
    BY <1>0, <1>3 DEF RemoveMember
  <2>2. QED
    BY <2>1, MembersKeep
<1>4. ASSUME DeleteAudience PROVE BroadcastsInv'
  <2>1. /\ members' \in SUBSET MemberIds /\ members \ members \subseteq members'
        /\ broadcasts' = Without(members)
    BY <1>4 DEF DeleteAudience
  <2>2. QED
    BY <2>1, MembersKeep
<1>5. ASSUME UNCHANGED audienceVars PROVE BroadcastsInv'
  BY <1>5 DEF BroadcastsInv, audienceVars
<1>6. QED
  BY <1>1, <1>2, <1>3, <1>4, <1>5, StartBroadcastKeeps, ReadPageKeeps, TellBatchKeeps,
     CrashKeeps DEF AudienceNext

\* A broadcast tells no member twice, accounts for every one it told, and when it
\* ends has told each member that was there all the time, for any page size and
\* batch size and however many members come and go (src/api/routes/audiences.js).
THEOREM BroadcastReachesEachOnceAlways == AudienceSpec => []BroadcastReachesEachOnce
<1>1. BroadcastsInv => BroadcastReachesEachOnce
  BY DEF BroadcastsInv, BroadcastOK, BroadcastReachesEachOnce
<1>2. QED
  BY <1>1, AudienceInitInv, AudienceNextKeeps, PTL DEF AudienceSpec

-----------------------------------------------------------------------------
(* Inbox: the last members of a list *)

LEMMA LatestIsASuffix ==
    ASSUME NEW s \in SUBSET Nat, IsFiniteSet(s), NEW k \in Nat
    PROVE  /\ Latest(s, k) \subseteq s
           /\ \A m \in Latest(s, k), n \in s : n > m => n \in Latest(s, k)
<1> DEFINE Above(x) == {y \in s : y > x}
<1>1. \A x \in s : IsFiniteSet(Above(x)) /\ Cardinality(Above(x)) \in Nat
  BY FS_Subset, FS_CardinalityType
<1>2. ASSUME NEW m \in Latest(s, k), NEW n \in s, n > m PROVE n \in Latest(s, k)
  <2>1. m \in s /\ Cardinality(Above(m)) < k
    BY DEF Latest
  <2>2. Above(n) \in SUBSET Above(m)
    <3>1. ASSUME NEW z \in Above(n) PROVE z \in Above(m)
      <4>1. z \in Nat /\ n \in Nat /\ m \in Nat /\ z > n
        BY <3>1, <2>1
      <4>2. z > m
        BY <4>1, <1>2
      <4>3. QED
        BY <4>2, <3>1
    <3>2. QED
      BY <3>1
  <2>3. Cardinality(Above(n)) <= Cardinality(Above(m))
    BY <1>1, <2>1, <2>2, FS_Subset
  <2> HIDE DEF Above
  <2>4. Cardinality(Above(n)) < k
    BY <1>1, <2>1, <2>3
  <2>5. QED
    BY <2>4 DEF Latest, Above
<1>3. QED
  BY <1>2 DEF Latest

LEMMA LatestIsThere ==
    ASSUME NEW s \in SUBSET Nat, IsFiniteSet(s), s # {}, NEW k \in Nat \ {0}
    PROVE  Latest(s, k) # {}
<1>1. PICK x \in s : \A y \in s : y <= x
  BY GreatestOfFinite
<1>2. {y \in s : y > x} = {}
  <2>1. ASSUME NEW y \in s, y > x PROVE FALSE
    <3>1. y \in Nat /\ x \in Nat /\ y <= x
      BY <1>1, <2>1
    <3>2. QED
      BY <3>1, <2>1
  <2>2. QED
    BY <2>1
<1>3. Cardinality({y \in s : y > x}) < k
  BY <1>2, FS_EmptySet
<1>4. QED
  BY <1>3 DEF Latest

\* Where there are not more than asked for, they are all.
LEMMA LatestAreAll ==
    ASSUME NEW s \in SUBSET Nat, IsFiniteSet(s), NEW k \in Nat, Cardinality(s) <= k
    PROVE  Latest(s, k) = s
<1> DEFINE Above(x) == {y \in s : y > x}
<1>1. ASSUME NEW x \in s PROVE Cardinality(Above(x)) < k
  <2>1. /\ IsFiniteSet(Above(x)) /\ Cardinality(Above(x)) \in Nat
        /\ Cardinality(s) \in Nat /\ Cardinality(Above(x)) <= Cardinality(s)
        /\ Cardinality(s) = Cardinality(Above(x)) => s = Above(x)
    BY FS_Subset, FS_CardinalityType
  <2>2. x \notin Above(x)
    <3>1. x \in Nat
      OBVIOUS
    <3>2. QED
      BY <3>1
  <2> HIDE DEF Above
  <2>3. Cardinality(s) # Cardinality(Above(x))
    BY <2>1, <2>2
  <2>4. QED
    BY <2>1, <2>3
<1>2. QED
  BY <1>1 DEF Latest

-----------------------------------------------------------------------------
(* What a reader has been shown *)

RowType == [ms : Nat, read : BOOLEAN, removed : BOOLEAN]

\* Rows are in the order of their milliseconds.
RowsInOrder(rows, now) ==
    /\ rows \in Seq(RowType)
    /\ now \in Nat
    /\ \A n \in 1..Len(rows) : rows[n].ms <= now
    /\ \A m, n \in 1..Len(rows) : m <= n => rows[m].ms <= rows[n].ms

\* Created in the millisecond of the last row of a page, before it.
Tied(w, rows, n) == \E last \in w.lasts : rows[n].ms = rows[last].ms /\ n < last

WalkType == [at : {"none", "first", "next", "done"}, cursor : Nat, shown : SUBSET Nat, lasts : SUBSET Nat,
             before : SUBSET Nat, again : BOOLEAN]

WalkOK(w, rows) ==
    /\ ~w.again
    /\ w.before \cup w.shown \cup w.lasts \subseteq 1..Len(rows)
    /\ w.at = "first" => w.shown = {}
    /\ w.at = "next" =>
         /\ \A n \in w.shown : rows[n].ms >= w.cursor
         /\ \A n \in w.before \ w.shown : rows[n].ms >= w.cursor => Tied(w, rows, n)
    /\ w.at = "done" => \A n \in w.before \ w.shown : Tied(w, rows, n)

InboxInv ==
    /\ RowsInOrder(inboxRows, millis)
    /\ walk \in [Readers -> WalkType]
    /\ \A r \in Readers : WalkOK(walk[r], inboxRows)

LEMMA RowsAreTyped ==
    ASSUME NEW rows, NEW now, RowsInOrder(rows, now)
    PROVE  /\ Len(rows) \in Nat
           /\ \A n \in 1..Len(rows) : rows[n] \in RowType /\ rows[n].ms \in Nat
<1>1. rows \in Seq(RowType)
  BY DEF RowsInOrder
<1>2. \A n \in 1..Len(rows) : rows[n] \in RowType
  BY <1>1, ElementOfSeq
<1>3. QED
  BY <1>1, <1>2 DEF RowType

LEMMA NoWalkIsOK == NoWalk \in WalkType /\ \A rows : WalkOK(NoWalk, rows)
<1>1. QED
  BY DEF NoWalk, WalkType, WalkOK

\* Rows come and are marked, but keep their millisecond.
LEMMA RowsKeep ==
    ASSUME NEW rows, NEW later, NEW w, Len(rows) \in Nat, Len(later) \in Nat, Len(rows) <= Len(later),
           \A n \in 1..Len(rows) : later[n].ms = rows[n].ms, WalkOK(w, rows)
    PROVE  WalkOK(w, later)
<1>1. 1..Len(rows) \subseteq 1..Len(later)
  OBVIOUS
<1>2. \A n \in w.before \cup w.shown \cup w.lasts : later[n].ms = rows[n].ms
  BY DEF WalkOK
<1>3. \A n \in w.before : Tied(w, rows, n) => Tied(w, later, n)
  BY <1>2 DEF Tied
<1>4. QED
  BY <1>1, <1>2, <1>3 DEF WalkOK

LEMMA InboxRowsKeep ==
    ASSUME InboxInv, walk' = walk, RowsInOrder(inboxRows', millis'), Len(inboxRows) <= Len(inboxRows'),
           \A n \in 1..Len(inboxRows) : inboxRows'[n].ms = inboxRows[n].ms
    PROVE  InboxInv'
<1>1. Len(inboxRows) \in Nat /\ Len(inboxRows') \in Nat
  BY DEF InboxInv, RowsInOrder
<1>2. PICK rows, later : rows = inboxRows /\ later = inboxRows'
  OBVIOUS
<1>3. \A r \in Readers : WalkOK(walk[r], later)
  BY <1>1, <1>2, RowsKeep DEF InboxInv
<1>4. QED
  BY <1>2, <1>3 DEF InboxInv

LEMMA CreateKeeps == ASSUME InboxInv, Create PROVE InboxInv'
<1>1. PICK rows, now : rows = inboxRows /\ now = millis
  OBVIOUS
<1>2. PICK rec : rec = [ms |-> now, read |-> FALSE, removed |-> FALSE]
  OBVIOUS
<1>3. RowsInOrder(rows, now)
  BY <1>1 DEF InboxInv
<1>4. rec \in RowType /\ rec.ms = now
  BY <1>2, <1>3 DEF RowsInOrder, RowType
<1>5. PICK later : later = Append(rows, rec)
  OBVIOUS
<1>6. /\ later \in Seq(RowType)
      /\ Len(later) = Len(rows) + 1 /\ Len(rows) \in Nat
      /\ later[Len(rows) + 1] = rec
      /\ \A n \in 1..Len(rows) : later[n] = rows[n]
  BY <1>3, <1>4, <1>5 DEF RowsInOrder
<1>7. \A n \in 1..Len(later) : n \in 1..Len(rows) \/ n = Len(rows) + 1
  BY <1>6
<1>8. \A n \in 1..Len(rows) : rows[n].ms \in Nat
  BY <1>3, RowsAreTyped
<1>9. RowsInOrder(later, now)
  <2>1. \A n \in 1..Len(later) : later[n].ms <= now
    BY <1>3, <1>4, <1>6, <1>7 DEF RowsInOrder
  <2>2. ASSUME NEW m \in 1..Len(later), NEW n \in 1..Len(later), m <= n PROVE later[m].ms <= later[n].ms
    <3>1. CASE n \in 1..Len(rows)
      <4>1. m \in 1..Len(rows)
        BY <2>2, <3>1, <1>6
      <4>2. QED
        BY <1>3, <1>6, <2>2, <3>1, <4>1 DEF RowsInOrder
    <3>2. CASE n = Len(rows) + 1
      BY <1>4, <1>6, <2>1, <3>2
    <3>3. QED
      BY <1>7, <3>1, <3>2
  <2>3. QED
    BY <1>3, <1>6, <2>1, <2>2 DEF RowsInOrder
<1>10. inboxRows' = later /\ millis' = millis /\ walk' = walk
  BY <1>1, <1>2, <1>5 DEF Create
<1>11. QED
  BY <1>1, <1>6, <1>9, <1>10, InboxRowsKeep

LEMMA MillisecondKeeps == ASSUME InboxInv, Millisecond PROVE InboxInv'
<1>1. PICK rows, now : rows = inboxRows /\ now = millis
  OBVIOUS
<1>2. RowsInOrder(rows, now)
  BY <1>1 DEF InboxInv
<1>3. \A n \in 1..Len(rows) : rows[n].ms \in Nat
  BY <1>2, RowsAreTyped
<1>4. RowsInOrder(rows, now + 1)
  BY <1>2, <1>3 DEF RowsInOrder
<1>5. inboxRows' = rows /\ millis' = now + 1 /\ walk' = walk
  BY <1>1 DEF Millisecond
<1>6. Len(rows) \in Nat
  BY <1>2 DEF RowsInOrder
<1>7. QED
  BY <1>1, <1>4, <1>5, <1>6, InboxRowsKeep

\* Marks and removals leave the length and the milliseconds.
LEMMA MarksKeep ==
    ASSUME InboxInv, NEW later, inboxRows' = later, UNCHANGED <<millis, walk>>,
           later \in Seq(RowType),
           Len(later) = Len(inboxRows),
           \A n \in 1..Len(inboxRows) : later[n].ms = inboxRows[n].ms
    PROVE  InboxInv'
<1>1. RowsInOrder(inboxRows, millis) /\ Len(inboxRows) \in Nat
  BY DEF InboxInv, RowsInOrder
<1>2. RowsInOrder(later, millis)
  BY <1>1 DEF RowsInOrder
<1>3. QED
  BY <1>1, <1>2, InboxRowsKeep

LEMMA OneRowKeeps ==
    ASSUME InboxInv, NEW n \in RowIds, NEW rec, inboxRows' = [inboxRows EXCEPT ![n] = rec],
           rec \in RowType, rec.ms = inboxRows[n].ms,
           UNCHANGED <<millis, walk>>
    PROVE  InboxInv'
<1>1. PICK rows : rows = inboxRows
  OBVIOUS
<1>2. rows \in Seq(RowType) /\ n \in 1..Len(rows)
  BY <1>1 DEF InboxInv, RowsInOrder, RowIds
<1>3. PICK later : later = [rows EXCEPT ![n] = rec]
  OBVIOUS
<1>4. /\ later \in Seq(RowType) /\ Len(later) = Len(rows)
      /\ \A m \in 1..Len(rows) : later[m] = IF m = n THEN rec ELSE rows[m]
  BY <1>2, <1>3, ExceptSeq
<1>5. \A m \in 1..Len(rows) : later[m].ms = rows[m].ms
  BY <1>1, <1>4
<1>6. QED
  BY <1>1, <1>3, <1>4, <1>5, MarksKeep

LEMMA MarkReadKeeps == ASSUME InboxInv, NEW n, MarkRead(n) PROVE InboxInv'
<1>1. PICK old : old = inboxRows[n]
  OBVIOUS
<1>2. PICK rec : rec = [old EXCEPT !.read = TRUE]
  OBVIOUS
<1>3. n \in RowIds /\ old \in RowType
  <2>1. n \in RowIds
    BY DEF MarkRead
  <2>2. QED
    BY <1>1, <2>1, RowsAreTyped DEF InboxInv, RowIds
<1>4. rec \in RowType /\ rec.ms = old.ms
  BY <1>2, <1>3 DEF RowType
<1>5. inboxRows' = [inboxRows EXCEPT ![n] = rec]
  BY <1>1, <1>2, <1>3 DEF MarkRead
<1>6. QED
  BY <1>1, <1>3, <1>4, <1>5, OneRowKeeps DEF MarkRead

LEMMA RemoveRowKeeps == ASSUME InboxInv, NEW n, RemoveRow(n) PROVE InboxInv'
<1>1. PICK old : old = inboxRows[n]
  OBVIOUS
<1>2. PICK rec : rec = [old EXCEPT !.removed = TRUE]
  OBVIOUS
<1>3. n \in RowIds /\ old \in RowType
  <2>1. n \in RowIds
    BY DEF RemoveRow
  <2>2. QED
    BY <1>1, <2>1, RowsAreTyped DEF InboxInv, RowIds
<1>4. rec \in RowType /\ rec.ms = old.ms
  BY <1>2, <1>3 DEF RowType
<1>5. inboxRows' = [inboxRows EXCEPT ![n] = rec]
  BY <1>1, <1>2, <1>3 DEF RemoveRow
<1>6. QED
  BY <1>1, <1>3, <1>4, <1>5, OneRowKeeps DEF RemoveRow

LEMMA ReadAllKeeps == ASSUME InboxInv, ReadAll PROVE InboxInv'
<1>1. PICK rows : rows = inboxRows
  OBVIOUS
<1>2. rows \in Seq(RowType) /\ Len(rows) \in Nat
  BY <1>1 DEF InboxInv, RowsInOrder
<1>3. PICK later : later = inboxRows'
  OBVIOUS
<1>4. later = [n \in 1..Len(rows) |-> IF Unread(n) THEN [rows[n] EXCEPT !.read = TRUE] ELSE rows[n]]
  BY <1>1, <1>3 DEF ReadAll, RowIds
<1>5. ASSUME NEW n \in 1..Len(rows)
      PROVE  later[n] \in RowType /\ later[n].ms = rows[n].ms
  <2>1. PICK old : old = rows[n]
    OBVIOUS
  <2>2. old \in RowType
    BY <1>2, <2>1, ElementOfSeq
  <2>3. PICK rec : rec = [old EXCEPT !.read = TRUE]
    OBVIOUS
  <2>4. rec \in RowType /\ rec.ms = old.ms
    BY <2>2, <2>3 DEF RowType
  <2>5. later[n] = rec \/ later[n] = old
    BY <1>4, <2>1, <2>3
  <2>6. QED
    BY <2>1, <2>2, <2>4, <2>5
<1>6. later = [n \in 1..Len(rows) |-> later[n]]
  BY <1>4
<1>7. later \in Seq(RowType) /\ Len(later) = Len(rows)
  BY <1>2, <1>5, <1>6
<1>8. QED
  BY <1>1, <1>3, <1>5, <1>7, MarksKeep DEF ReadAll

-----------------------------------------------------------------------------
(* A page *)

LEMMA OneWalkKeeps ==
    ASSUME InboxInv, NEW r \in Readers, NEW w \in WalkType, walk' = [walk EXCEPT ![r] = w],
           WalkOK(w, inboxRows), UNCHANGED <<inboxRows, millis>>
    PROVE  InboxInv'
<1>1. walk' \in [Readers -> WalkType] /\ \A x \in Readers : walk'[x] = IF x = r THEN w ELSE walk[x]
  BY DEF InboxInv
<1>2. \A x \in Readers : WalkOK(walk'[x], inboxRows)
  BY <1>1 DEF InboxInv
<1>3. QED
  BY <1>1, <1>2 DEF InboxInv

LEMMA StartWalkKeeps == ASSUME InboxInv, NEW r \in Readers, StartWalk(r) PROVE InboxInv'
<1>1. PICK v : v = [NoWalk EXCEPT !.at = "first"]
  OBVIOUS
<1>2. PICK w : w = [v EXCEPT !.before = RowIds]
  OBVIOUS
<1>3. v = [at |-> "first", cursor |-> 0, shown |-> {}, lasts |-> {}, before |-> {}, again |-> FALSE]
  BY <1>1 DEF NoWalk
<1>4. w = [at |-> "first", cursor |-> 0, shown |-> {}, lasts |-> {}, before |-> RowIds, again |-> FALSE]
  BY <1>2, <1>3
<1>5. RowIds \subseteq 1..Len(inboxRows) /\ RowIds \in SUBSET Nat
  BY DEF RowIds, InboxInv, RowsInOrder
<1>6. w \in WalkType /\ WalkOK(w, inboxRows)
  BY <1>4, <1>5 DEF WalkType, WalkOK
<1>7. walk' = [walk EXCEPT ![r] = w]
  BY <1>1, <1>2 DEF StartWalk
<1>8. QED
  BY <1>6, <1>7, OneWalkKeeps DEF StartWalk

OlderRows(w, rows) == {n \in 1..Len(rows) : w.at = "first" \/ rows[n].ms < w.cursor}
LastOf(page) == CHOOSE n \in page : \A m \in page : n <= m

\* The reader after a page.
Turned(w, rows, older, page, last) ==
    [at |-> IF Cardinality(older) > InboxPageSize THEN "next" ELSE "done",
     cursor |-> IF Cardinality(older) > InboxPageSize THEN rows[last].ms ELSE w.cursor,
     shown |-> w.shown \cup page,
     lasts |-> IF Cardinality(older) > InboxPageSize THEN w.lasts \cup {last} ELSE w.lasts,
     before |-> w.before,
     again |-> w.again \/ w.shown \cap page # {}]

\* What a page shows, and what it leaves out.
LEMMA PageKeeps ==
    ASSUME NEW rows, NEW now, RowsInOrder(rows, now), NEW w \in WalkType, WalkOK(w, rows),
           w.at \in {"first", "next"},
           NEW older, older = OlderRows(w, rows), NEW page, page = Latest(older, InboxPageSize),
           NEW last, last = LastOf(page), NEW v, v = Turned(w, rows, older, page, last)
    PROVE  v \in WalkType /\ WalkOK(v, rows)
<1> DEFINE more == Cardinality(older) > InboxPageSize
<1> USE DEF OlderRows, LastOf, Turned
<1>1. InboxPageSize \in Nat \ {0}
  BY InboxAssumption
<1>2. Len(rows) \in Nat /\ \A n \in 1..Len(rows) : rows[n].ms \in Nat
  BY RowsAreTyped
<1>3. older \in SUBSET (1..Len(rows)) /\ older \in SUBSET Nat
  BY <1>2
<1>4. IsFiniteSet(older) /\ Cardinality(older) \in Nat
  <2>1. IsFiniteSet(1..Len(rows))
    BY <1>2, FS_Interval
  <2>2. QED
    BY <1>3, <2>1, FS_Subset, FS_CardinalityType
<1>5. page \subseteq older /\ \A m \in page, n \in older : n > m => n \in page
  BY <1>1, <1>3, <1>4, LatestIsASuffix
<1>6. w.shown \cap page = {}
  <2>1. CASE w.at = "first"
    BY <2>1 DEF WalkOK
  <2>2. CASE w.at = "next"
    <3>1. ASSUME NEW n \in w.shown, n \in page PROVE FALSE
      <4>1. rows[n].ms >= w.cursor
        BY <2>2 DEF WalkOK
      <4>2. n \in 1..Len(rows) /\ rows[n].ms < w.cursor
        BY <1>5, <2>2, <3>1
      <4>3. QED
        BY <1>2, <4>1, <4>2 DEF WalkType
    <3>2. QED
      BY <3>1
  <2>3. QED
    BY <2>1, <2>2
<1>7. ASSUME more
      PROVE  /\ last \in page /\ \A m \in page : last <= m
             /\ last \in 1..Len(rows)
             /\ \A n \in older \ page : n < last
  <2>1. older # {}
    <3>1. Cardinality({}) = 0
      BY FS_EmptySet
    <3>2. ASSUME older = {} PROVE FALSE
      <4>1. 0 > InboxPageSize
        BY <1>7, <3>1, <3>2
      <4>2. QED
        BY <1>1, <4>1
    <3>3. QED
      BY <3>2
  <2>2. page # {} /\ page \in SUBSET Nat
    BY <1>1, <1>3, <1>4, <1>5, <2>1, LatestIsThere
  <2>3. \E n \in page : \A m \in page : n <= m
    BY <2>2, LeastNatural
  <2>4. last \in page /\ \A m \in page : last <= m
    BY <2>3
  <2>5. ASSUME NEW n \in older \ page PROVE n < last
    <3>1. ~(n > last) /\ n # last
      BY <1>5, <2>4
    <3>2. n \in Nat /\ last \in Nat
      BY <1>3, <2>2, <2>4
    <3>3. QED
      BY ONLY <3>1, <3>2
  <2>6. last \in 1..Len(rows)
    BY <1>3, <1>5, <2>4
  <2>7. QED
    BY <2>4, <2>5, <2>6
<1>8. ASSUME ~more PROVE page = older
  <2>1. Cardinality(older) <= InboxPageSize
    BY <1>1, <1>4, <1>8
  <2>2. QED
    BY <1>1, <1>3, <1>4, <2>1, LatestAreAll
<1>9. w.before \cup w.shown \cup w.lasts \subseteq 1..Len(rows)
  BY DEF WalkOK
<1>10. w.at \in {"none", "first", "next", "done"} /\ w.cursor \in Nat /\ ~w.again
       /\ w.shown \in SUBSET Nat /\ w.lasts \in SUBSET Nat /\ w.before \in SUBSET Nat
  BY DEF WalkType, WalkOK
<1>11. v \in WalkType
  <2>1. v.cursor \in Nat
    BY <1>2, <1>7, <1>10
  <2>2. v.shown \in SUBSET Nat /\ v.lasts \in SUBSET Nat
    BY <1>3, <1>5, <1>7, <1>10
  <2>3. v.again \in BOOLEAN /\ v.before \in SUBSET Nat /\ v.at \in {"none", "first", "next", "done"}
    BY <1>10
  <2>4. v = [at |-> v.at, cursor |-> v.cursor, shown |-> v.shown, lasts |-> v.lasts, before |-> v.before,
             again |-> v.again]
    OBVIOUS
  <2>5. QED
    BY <2>1, <2>2, <2>3, <2>4 DEF WalkType
\* Left out of a page: as old as its last row, or older than the cursor to come.
<1>12. ASSUME NEW n \in w.before \ v.shown, ~more \/ rows[n].ms >= v.cursor PROVE Tied(v, rows, n)
  <2>1. n \in 1..Len(rows) /\ n \in w.before \ w.shown /\ n \notin page
    BY <1>9
  <2>2. CASE n \in older
    <3>1. more
      BY <1>8, <2>1, <2>2
    <3>2. n < last /\ last \in 1..Len(rows)
      BY <1>7, <2>1, <2>2, <3>1
    <3>3. rows[n].ms <= rows[last].ms
      BY <2>1, <3>2 DEF RowsInOrder
    <3>4. rows[n].ms >= rows[last].ms
      BY <1>12, <3>1
    <3>5. rows[n].ms = rows[last].ms
      BY <1>2, <2>1, <3>2, <3>3, <3>4
    <3>6. v.lasts = w.lasts \cup {last}
      BY <3>1
    <3>7. QED
      BY <3>2, <3>5, <3>6 DEF Tied
  <2>3. CASE n \notin older
    <3>1. w.at = "next" /\ ~(rows[n].ms < w.cursor)
      BY <2>1, <2>3
    <3>2. rows[n].ms >= w.cursor
      BY <1>2, <1>10, <2>1, <3>1
    <3>3. Tied(w, rows, n)
      BY <2>1, <3>1, <3>2 DEF WalkOK
    <3>4. w.lasts \subseteq v.lasts
      OBVIOUS
    <3>5. QED
      BY <3>3, <3>4 DEF Tied
  <2>4. QED
    BY <2>2, <2>3
\* Shown so far: none older than the cursor to come.
<1>13. ASSUME more, NEW n \in v.shown PROVE rows[n].ms >= v.cursor
  <2>1. v.cursor = rows[last].ms /\ last \in page /\ last \in 1..Len(rows)
    BY <1>7, <1>13
  <2>2. CASE n \in page
    <3>1. last <= n /\ n \in 1..Len(rows)
      BY <1>3, <1>5, <1>7, <1>13, <2>2
    <3>2. rows[last].ms <= rows[n].ms
      BY <2>1, <3>1 DEF RowsInOrder
    <3>3. QED
      BY <1>2, <2>1, <3>1, <3>2
  <2>3. CASE n \in w.shown
    <3>1. w.at = "next" /\ rows[n].ms >= w.cursor /\ n \in 1..Len(rows)
      BY <1>9, <2>3 DEF WalkOK
    <3>2. rows[last].ms < w.cursor
      BY <1>5, <2>1, <3>1
    <3>3. QED
      BY <1>2, <1>10, <2>1, <3>1, <3>2
  <2>4. QED
    BY <1>13, <2>2, <2>3
<1>14. v.before \cup v.shown \cup v.lasts \subseteq 1..Len(rows)
  BY <1>3, <1>5, <1>7, <1>9
<1>15. ~v.again /\ v.before = w.before
  BY <1>6, <1>10
<1>16. v.at = "next" => more
  OBVIOUS
<1>17. v.at = "done" => ~more
  OBVIOUS
<1>18. v.at # "first"
  OBVIOUS
<1>19. WalkOK(v, rows)
  BY <1>12, <1>13, <1>14, <1>15, <1>16, <1>17, <1>18 DEF WalkOK
<1>20. QED
  BY <1>11, <1>19

LEMMA NextPageKeeps == ASSUME InboxInv, NEW r \in Readers, NextPage(r) PROVE InboxInv'
<1>1. PICK rows, now : rows = inboxRows /\ now = millis
  OBVIOUS
<1>2. PICK w : w = walk[r]
  OBVIOUS
<1>3. RowsInOrder(rows, now) /\ w \in WalkType /\ WalkOK(w, rows)
  BY <1>1, <1>2 DEF InboxInv
<1>4. w.at \in {"first", "next"}
  BY <1>2 DEF NextPage
<1>5. PICK older : older = OlderRows(w, rows)
  OBVIOUS
<1>6. older = Older(r)
  BY <1>1, <1>2, <1>5 DEF Older, RowIds, OlderRows
<1>7. PICK page : page = Latest(older, InboxPageSize)
  OBVIOUS
<1>8. PICK last : last = LastOf(page)
  OBVIOUS
<1>9. PICK v : v = Turned(w, rows, older, page, last)
  OBVIOUS
<1>10. walk' = [walk EXCEPT ![r] = v]
  BY <1>1, <1>2, <1>6, <1>7, <1>8, <1>9 DEF NextPage, LastOf, Turned
<1>11. v \in WalkType /\ WalkOK(v, rows)
  BY <1>3, <1>4, <1>5, <1>7, <1>8, <1>9, PageKeeps
<1>12. UNCHANGED <<inboxRows, millis>>
  BY DEF NextPage
<1>13. QED
  BY <1>1, <1>10, <1>11, <1>12, OneWalkKeeps

LEMMA InboxNextKeeps == InboxInv /\ [InboxNext]_inboxVars => InboxInv'
<1>1. SUFFICES ASSUME InboxInv, [InboxNext]_inboxVars PROVE InboxInv'
  OBVIOUS
<1>2. CASE UNCHANGED inboxVars
  BY <1>1, <1>2 DEF inboxVars, InboxInv
<1>3. QED
  BY <1>1, <1>2, CreateKeeps, MillisecondKeeps, MarkReadKeeps, RemoveRowKeeps, ReadAllKeeps, StartWalkKeeps,
     NextPageKeeps DEF InboxNext

LEMMA InboxInitInv == InboxInit => InboxInv
<1>1. SUFFICES ASSUME InboxInit PROVE InboxInv
  OBVIOUS
<1>2. RowsInOrder(inboxRows, millis)
  BY <1>1 DEF InboxInit, RowsInOrder
<1>3. QED
  BY <1>1, <1>2, NoWalkIsOK DEF InboxInit, InboxInv

\* A reader who follows the cursors of GET /entities/:ownerId/notifications sees no
\* row twice and misses only ones of the millisecond of a page's last row, however
\* many rows, readers and rows to a page there are.
THEOREM PagesMissOnlyTiesAlways == InboxSpec => []PagesMissOnlyTies
<1>1. InboxInv => PagesMissOnlyTies
  BY DEF InboxInv, WalkOK, Tied, PagesMissOnlyTies
<1>2. QED
  BY <1>1, InboxInitInv, InboxNextKeeps, PTL DEF InboxSpec

-----------------------------------------------------------------------------
(* WhatsAppSessions and WhatsAppTemplates: the cached fallback *)

FillType == [value : Somebody, crossed : BOOLEAN]

SessionsInv ==
    /\ session \in [Entities -> SessionType]
    /\ fill \in [Lookups -> FillType]
    /\ tainted \in BOOLEAN
    /\ \A l \in Lookups :
          fill[l] # NoFill => fill[l].value = FallbackOf(session) \/ fill[l].crossed = TRUE
    /\ cached \in {Nobody, FallbackOf(session)} \/ tainted = TRUE \/ owing # {}

LEMMA FallbackIsSomebody == \A rows : FallbackOf(rows) \in Somebody
<1>1. QED
  BY DEF FallbackOf, Somebody

LEMMA SessionsInitInv == SessionsInit => SessionsInv
<1>1. NoSession \in SessionType /\ NoFill \in FillType
  BY DEF NoSession, SessionType, NoFill, FillType, Somebody
<1>2. QED
  BY <1>1 DEF SessionsInit, SessionsInv

\* A committed change of the table.
LEMMA WriteKeeps ==
    ASSUME SessionsInv, NEW rows \in [Entities -> SessionType], Write(rows),
           tainted' \in BOOLEAN,
           owing' # {} \/ (tainted' = (tainted \/ cached # Nobody) /\ owing' = owing)
    PROVE  SessionsInv'
<1>1. PICK old : old = session
  OBVIOUS
<1>2. session' = rows /\ cached' = cached
  BY DEF Write
<1>3. ASSUME NEW l \in Lookups
      PROVE  /\ fill'[l] \in FillType
             /\ fill'[l] # NoFill => fill'[l].value = FallbackOf(rows) \/ fill'[l].crossed = TRUE
  <2>1. PICK f \in FillType : f = fill[l]
    BY DEF SessionsInv
  <2>2. f # NoFill => f.value = FallbackOf(old) \/ f.crossed = TRUE
    BY <1>1, <2>1 DEF SessionsInv
  <2>3. fill'[l] = IF f # NoFill /\ FallbackOf(rows) # FallbackOf(old)
                   THEN [f EXCEPT !.crossed = TRUE] ELSE f
    BY <1>1, <2>1 DEF Write
  <2>4. CASE f # NoFill /\ FallbackOf(rows) # FallbackOf(old)
    BY <2>1, <2>3, <2>4 DEF FillType
  <2>5. CASE ~(f # NoFill /\ FallbackOf(rows) # FallbackOf(old))
    BY <2>1, <2>2, <2>3, <2>5
  <2>6. QED
    BY <2>4, <2>5
<1>4. fill' \in [Lookups -> FillType]
  BY <1>3 DEF Write
<1>5. cached' \in {Nobody, FallbackOf(session')} \/ tainted' = TRUE \/ owing' # {}
  BY <1>2
<1>6. QED
  BY <1>2, <1>3, <1>4, <1>5 DEF SessionsInv

LEMMA UnmarkedIsTable ==
    ASSUME NEW rows \in [Entities -> SessionType], NEW e
    PROVE  Unmarked(rows, e) \in [Entities -> SessionType]
<1>1. ASSUME NEW x \in Entities
      PROVE  [rows[x] EXCEPT !.fallback = FALSE] \in SessionType
  BY DEF SessionType
<1>2. QED
  BY <1>1 DEF Unmarked

LEMMA ConfigureSessionKeeps ==
    ASSUME SessionsInv, NEW a \in Admins, NEW e \in Entities, NEW parent \in Somebody,
           NEW fallback \in BOOLEAN, ConfigureSession(a, e, parent, fallback)
    PROVE  SessionsInv'
<1>1. PICK others \in [Entities -> SessionType] :
          others = IF fallback THEN Unmarked(session, e) ELSE session
  BY UnmarkedIsTable DEF SessionsInv
<1>2. PICK s \in SessionType : s = [status |-> "active", fallback |-> fallback, parent |-> parent]
  BY DEF SessionType
<1>3. PICK rows \in [Entities -> SessionType] : rows = [others EXCEPT ![e] = s]
  OBVIOUS
<1>4. Write(rows)
  BY <1>1, <1>2, <1>3 DEF ConfigureSession
<1>5. tainted \in BOOLEAN
  BY DEF SessionsInv
<1>6. /\ tainted' \in BOOLEAN
      /\ owing' # {} \/ (tainted' = (tainted \/ cached # Nobody) /\ owing' = owing)
  BY <1>5 DEF ConfigureSession, Announced, Unannounced
<1>7. QED
  BY <1>4, <1>6, WriteKeeps

LEMMA MarkFallbackKeeps ==
    ASSUME SessionsInv, NEW e \in Entities, NEW fallback \in BOOLEAN, MarkFallback(e, fallback)
    PROVE  SessionsInv'
<1>1. PICK others \in [Entities -> SessionType] :
          others = IF fallback THEN Unmarked(session, e) ELSE session
  BY UnmarkedIsTable DEF SessionsInv
<1>2. PICK s : s = [others[e] EXCEPT !.fallback = fallback]
  OBVIOUS
<1>3. s \in SessionType
  BY <1>2 DEF SessionType
<1>4. PICK rows \in [Entities -> SessionType] : rows = [others EXCEPT ![e] = s]
  BY <1>3
<1>5. rows = [others EXCEPT ![e].fallback = fallback]
  BY <1>2, <1>4
<1>6. Write(rows)
  BY <1>1, <1>5 DEF MarkFallback
<1>7. tainted \in BOOLEAN
  BY DEF SessionsInv
<1>8. /\ tainted' \in BOOLEAN
      /\ owing' # {} \/ (tainted' = (tainted \/ cached # Nobody) /\ owing' = owing)
  BY <1>7 DEF MarkFallback, Unannounced
<1>9. QED
  BY <1>6, <1>8, WriteKeeps

LEMMA DisconnectKeeps ==
    ASSUME SessionsInv, NEW e \in Entities, Disconnect(e)
    PROVE  SessionsInv'
<1>1. session \in [Entities -> SessionType] /\ tainted \in BOOLEAN
  BY DEF SessionsInv
<1>2. PICK s : s = [session[e] EXCEPT !.status = "disconnected"]
  OBVIOUS
<1>3. s \in SessionType
  BY <1>1, <1>2 DEF SessionType
<1>4. PICK rows \in [Entities -> SessionType] : rows = [session EXCEPT ![e] = s]
  BY <1>1, <1>3
<1>5. rows = [session EXCEPT ![e].status = "disconnected"]
  BY <1>2, <1>4
<1>6. Write(rows)
  BY <1>5 DEF Disconnect
<1>7. /\ tainted' \in BOOLEAN
      /\ owing' # {} \/ (tainted' = (tainted \/ cached # Nobody) /\ owing' = owing)
  BY <1>1 DEF Disconnect, Unannounced
<1>8. QED
  BY <1>6, <1>7, WriteKeeps

LEMMA InvalidationKeeps ==
    ASSUME SessionsInv, NEW a \in Admins, Invalidate(a) \/ InvalidateFails(a)
    PROVE  SessionsInv'
<1>1. session' = session /\ fill' = fill /\ tainted \in BOOLEAN
  BY DEF Invalidate, InvalidateFails, SessionsInv
<1>2. cached' = Nobody \/ (cached' = cached /\ tainted' = (tainted \/ cached # Nobody))
  BY DEF Invalidate, InvalidateFails
<1>3. tainted' \in BOOLEAN
  BY <1>1 DEF Invalidate, InvalidateFails
<1>4. QED
  BY <1>1, <1>2, <1>3 DEF SessionsInv

LEMMA LookupKeeps ==
    ASSUME SessionsInv, NEW l \in Lookups,
           ReadFallback(l) \/ CacheFallback(l) \/ CacheFails(l)
    PROVE  SessionsInv'
<1>1. session' = session /\ owing' = owing /\ NoFill \in FillType
  BY DEF ReadFallback, CacheFallback, CacheFails, NoFill, FillType, Somebody
<1>2. PICK f \in FillType :
          fill' = [fill EXCEPT ![l] = f] /\ (f = NoFill \/ f.value = FallbackOf(session))
  <2>1. CASE ReadFallback(l)
    <3>1. PICK f : f = Filling(FallbackOf(session))
      OBVIOUS
    <3>2. f \in FillType /\ f.value = FallbackOf(session)
      BY <3>1, FallbackIsSomebody DEF Filling, FillType
    <3>3. QED
      BY <2>1, <3>1, <3>2 DEF ReadFallback
  <2>2. CASE CacheFallback(l) \/ CacheFails(l)
    BY <1>1, <2>2 DEF CacheFallback, CacheFails
  <2>3. QED
    BY <2>1, <2>2
<1>3. fill' \in [Lookups -> FillType]
  BY <1>2 DEF SessionsInv
<1>4. \A k \in Lookups :
          fill'[k] # NoFill => fill'[k].value = FallbackOf(session) \/ fill'[k].crossed = TRUE
  BY <1>2 DEF SessionsInv
<1>5. cached' \in {Nobody, FallbackOf(session)} \/ tainted' = TRUE \/ owing' # {}
  BY <1>1 DEF SessionsInv, ReadFallback, CacheFallback, CacheFails
<1>6. tainted' \in BOOLEAN
  BY DEF SessionsInv, FillType, ReadFallback, CacheFallback, CacheFails
<1>7. QED
  BY <1>1, <1>3, <1>4, <1>5, <1>6 DEF SessionsInv

LEMMA SessionsNextKeeps == SessionsInv /\ [SessionsNext]_sessionVars => SessionsInv'
<1> SUFFICES ASSUME SessionsInv, [SessionsNext]_sessionVars PROVE SessionsInv'
  OBVIOUS
<1>1. ASSUME UNCHANGED sessionVars PROVE SessionsInv'
  BY <1>1 DEF SessionsInv, sessionVars
<1>2. ASSUME Expire PROVE SessionsInv'
  BY <1>2 DEF SessionsInv, Expire
<1>3. QED
  BY <1>1, <1>2, ConfigureSessionKeeps, MarkFallbackKeeps, DisconnectKeeps,
     InvalidationKeeps, LookupKeeps DEF SessionsNext

\* A cached fallback that is not the app's active one is always owed to a delete
\* still to come or to one that went missing, for any number of requests and
\* lookups (src/src/api/routes/whatsapp-sessions.js, src/src/utils/template-cache.js).
THEOREM CachedFallbackIsCurrentAlways == WhatsAppSpec => []CachedFallbackIsCurrent
<1>1. WhatsAppInit => SessionsInv
  BY SessionsInitInv DEF WhatsAppInit
<1>2. SessionsInv /\ [WhatsAppNext]_whatsappVars => SessionsInv'
  BY SessionsNextKeeps DEF WhatsAppNext, whatsappVars
<1>3. SessionsInv => CachedFallbackIsCurrent
  BY DEF SessionsInv, CachedFallbackIsCurrent
<1>4. QED
  BY <1>1, <1>2, <1>3, PTL DEF WhatsAppSpec

-----------------------------------------------------------------------------
(* The templates *)

LEMMA AbsentIsTable ==
    Absent \in [Templates -> MetaStatuses] /\ Absent \in [Templates -> RowStatuses]
<1>1. QED
  BY DEF Absent, MetaStatuses, RowStatuses

LEMMA IdleSyncIsSync == IdleSync \in SyncType
<1>1. QED
  BY AbsentIsTable DEF IdleSync, SyncType, Somebody

LEMMA NoTaskIsOK == NoTask.status \in RowStatuses
<1>1. QED
  BY DEF NoTask, RowStatuses, MetaStatuses

LEMMA FirstIsOne == \A left : left # {} => First(left) \in left
<1>1. QED
  BY DEF First

\* The session a template request goes through is one of the app's.
LEMMA CredentialsAreAnEntitys ==
    ASSUME NEW e \in Somebody
    PROVE  SessionForTemplates(e) \in Somebody
<1>1. PICK active : active = {x \in Entities : Active(session, x)}
  OBVIOUS
<1>2. CASE Cardinality(active) = 1
  <2>1. active # {}
    <3>1. Cardinality({}) = 0
      BY FS_EmptySet
    <3>2. QED
      BY <1>2, <3>1
  <2>2. (CHOOSE x \in Entities : Active(session, x)) \in Entities
    BY <1>1, <2>1
  <2>3. QED
    BY <2>2, FallbackIsSomebody DEF SessionForTemplates, Credentials, Somebody
<1>3. CASE Cardinality(active) # 1
  BY <1>1, <1>3, FallbackIsSomebody DEF SessionForTemplates, Credentials, Somebody
<1>4. QED
  BY <1>2, <1>3

\* What a sync has, has not and may delete: until the list ended, each template
\* that lived all the time is fetched or still to come; after that it is fetched,
\* or the list is known to be cut, or the sync broke.
GotIn(r) == {t \in Templates : r.got[t] # "none"}

SyncOK(r) ==
    /\ r.pc # "idle" => r.entity \in Entities
    /\ r.pc = "fetch" => /\ r.lived \subseteq r.todo \cup GotIn(r)
                         /\ r.truncated = FALSE /\ r.broken = FALSE
    /\ r.pc \in {"read", "upsert", "prune", "done"} =>
          r.lived \subseteq GotIn(r) \/ r.truncated = TRUE \/ r.broken = TRUE
    /\ r.pc = "prune" => /\ r.todo \cap GotIn(r) = {}
                         /\ r.truncated = TRUE => r.todo = {}

LivingAtMeta(r) == r.pc # "idle" => \A t \in r.lived : meta[r.entity][t] # "none"

\* What a create or a refused send is about to write is a status of a row.
TasksOK(tasks, actors) ==
    /\ tasks = [a \in actors |-> tasks[a]]
    /\ \A a \in actors : tasks[a].status \in RowStatuses

TemplatesInv ==
    /\ meta \in [Entities -> [Templates -> MetaStatuses]]
    /\ row \in [Entities -> [Templates -> RowStatuses]]
    /\ sync \in [Syncs -> SyncType]
    /\ TasksOK(create, Creates)
    /\ TasksOK(send, Sends)
    /\ \A s \in Syncs : SyncOK(sync[s]) /\ LivingAtMeta(sync[s])

LEMMA IdleSyncIsOK == SyncOK(IdleSync) /\ LivingAtMeta(IdleSync)
<1>1. QED
  BY DEF IdleSync, SyncOK, LivingAtMeta

LEMMA TemplatesInitInv == TemplatesInit => TemplatesInv
<1> SUFFICES ASSUME TemplatesInit PROVE TemplatesInv
  OBVIOUS
<1>1. TasksOK(create, Creates) /\ TasksOK(send, Sends)
  BY NoTaskIsOK DEF TemplatesInit, TasksOK
<1>2. QED
  BY <1>1, AbsentIsTable, IdleSyncIsSync, IdleSyncIsOK DEF TemplatesInit, TemplatesInv

\* A sync that is only told it was disturbed.
LEMMA DisturbedIsTheSame ==
    ASSUME NEW r \in SyncType
    PROVE  \A w : w = [r EXCEPT !.alone = FALSE] =>
              /\ w \in SyncType
              /\ w.pc = r.pc /\ w.entity = r.entity /\ w.todo = r.todo /\ w.got = r.got
              /\ w.old = r.old /\ w.truncated = r.truncated /\ w.broken = r.broken
              /\ w.lived = r.lived
              /\ SyncOK(r) => SyncOK(w)
              /\ LivingAtMeta(r) => LivingAtMeta(w)
<1>1. ASSUME NEW w, w = [r EXCEPT !.alone = FALSE]
      PROVE  /\ w \in SyncType
             /\ w.pc = r.pc /\ w.entity = r.entity /\ w.todo = r.todo /\ w.got = r.got
             /\ w.old = r.old /\ w.truncated = r.truncated /\ w.broken = r.broken
             /\ w.lived = r.lived
  BY <1>1 DEF SyncType
<1>2. ASSUME NEW w, w = [r EXCEPT !.alone = FALSE]
      PROVE  (SyncOK(r) => SyncOK(w)) /\ (LivingAtMeta(r) => LivingAtMeta(w))
  BY <1>1, <1>2 DEF SyncOK, GotIn, LivingAtMeta
<1>3. QED
  BY <1>1, <1>2

\* A step of one sync, which may disturb the others.
LEMMA OneSyncKeeps ==
    ASSUME TemplatesInv, NEW s \in Syncs, NEW w \in SyncType, SyncOK(w), LivingAtMeta(w),
           \/ sync' = [sync EXCEPT ![s] = w]
           \/ \E e : sync' = [Disturbed(e, s) EXCEPT ![s] = w],
           meta' = meta, create' = create, send' = send,
           row' \in [Entities -> [Templates -> RowStatuses]]
    PROVE  TemplatesInv'
<1>1. ASSUME NEW x \in Syncs
      PROVE  sync'[x] \in SyncType /\ SyncOK(sync'[x]) /\ LivingAtMeta(sync'[x])
  <2>1. PICK r \in SyncType : r = sync[x]
    BY DEF TemplatesInv
  <2>2. SyncOK(r) /\ LivingAtMeta(r)
    BY <2>1 DEF TemplatesInv
  <2>3. sync'[x] \in {w, r, [r EXCEPT !.alone = FALSE]}
    BY <2>1 DEF TemplatesInv, Disturbed
  <2>4. QED
    BY <2>2, <2>3, DisturbedIsTheSame
<1>2. sync' = [x \in Syncs |-> sync'[x]]
  BY DEF TemplatesInv, Disturbed
<1>3. \A x \in Syncs : LivingAtMeta(sync[x])'
  BY <1>1 DEF LivingAtMeta
<1>4. QED
  BY <1>1, <1>2, <1>3 DEF TemplatesInv

\* A step beside the syncs.
LEMMA BesideSyncsKeeps ==
    ASSUME TemplatesInv,
           sync' = sync \/ \E e : Disturb(e),
           meta' \in [Entities -> [Templates -> MetaStatuses]],
           \A e \in Entities, t \in Templates : meta[e][t] # "none" => meta'[e][t] # "none",
           row' \in [Entities -> [Templates -> RowStatuses]],
           TasksOK(create', Creates), TasksOK(send', Sends)
    PROVE  TemplatesInv'
<1>1. ASSUME NEW x \in Syncs
      PROVE  sync'[x] \in SyncType /\ SyncOK(sync'[x]) /\ LivingAtMeta(sync'[x])
  <2>1. PICK r \in SyncType : r = sync[x]
    BY DEF TemplatesInv
  <2>2. SyncOK(r) /\ LivingAtMeta(r)
    BY <2>1 DEF TemplatesInv
  <2>3. sync'[x] \in {r, [r EXCEPT !.alone = FALSE]}
    BY <2>1 DEF Disturb
  <2>4. QED
    BY <2>2, <2>3, DisturbedIsTheSame
<1>2. sync' = [x \in Syncs |-> sync'[x]]
  BY DEF TemplatesInv, Disturb
<1>3. ASSUME NEW x \in Syncs PROVE LivingAtMeta(sync[x])'
  <2>1. PICK r \in SyncType : r = sync'[x]
    BY <1>1
  <2>2. SyncOK(r) /\ LivingAtMeta(r)
    BY <1>1, <2>1
  <2>3. r.pc # "idle" => r.entity \in Entities /\ r.lived \subseteq Templates
    BY <2>2 DEF SyncOK, SyncType
  <2>4. QED
    BY <2>1, <2>2, <2>3 DEF LivingAtMeta
<1>4. QED
  BY <1>1, <1>2, <1>3 DEF TemplatesInv

\* The one sync request a step is about.
LEMMA SyncOf ==
    ASSUME TemplatesInv, NEW s \in Syncs
    PROVE  \E r \in SyncType : r = sync[s] /\ SyncOK(r) /\ LivingAtMeta(r)
<1>1. QED
  BY DEF TemplatesInv

LEMMA StartSyncKeeps ==
    ASSUME TemplatesInv, NEW s \in Syncs, NEW e \in Somebody, StartSync(s, e)
    PROVE  TemplatesInv'
<1>1. PICK entity \in Entities : entity = SessionForTemplates(e)
  BY CredentialsAreAnEntitys DEF StartSync, Somebody
<1>2. PICK alone \in BOOLEAN : alone = (\A x \in Syncs : sync[x].entity # entity)
  OBVIOUS
<1>3. PICK live \in SUBSET Templates : live = Live(entity)
  BY DEF Live
<1>4. PICK w : w = [IdleSync EXCEPT !.pc = "fetch", !.entity = entity, !.todo = live,
                                    !.lived = live, !.alone = alone]
  OBVIOUS
<1>5. w \in SyncType
  BY <1>4, IdleSyncIsSync DEF SyncType, Somebody
<1>6. SyncOK(w)
  BY <1>4 DEF IdleSync, SyncOK
<1>7. LivingAtMeta(w)
  BY <1>3, <1>4 DEF IdleSync, LivingAtMeta, Live
<1>8. sync' = [Disturbed(entity, s) EXCEPT ![s] = w]
  BY <1>1, <1>2, <1>3, <1>4 DEF StartSync
<1>9. meta' = meta /\ row' = row /\ create' = create /\ send' = send
  BY DEF StartSync
<1>10. row' \in [Entities -> [Templates -> RowStatuses]]
  BY <1>9 DEF TemplatesInv
<1>11. QED
  BY <1>5, <1>6, <1>7, <1>8, <1>9, <1>10, OneSyncKeeps

LEMMA FetchPageKeeps ==
    ASSUME TemplatesInv, NEW s \in Syncs, FetchPage(s)
    PROVE  TemplatesInv'
<1>1. PICK r \in SyncType : r = sync[s] /\ SyncOK(r) /\ LivingAtMeta(r)
  BY SyncOf
<1>2. r.pc = "fetch" /\ r.todo # {} /\ r.entity \in Entities
  BY <1>1 DEF FetchPage, SyncOK
<1>3. PICK t \in Templates : t = First(r.todo)
  BY <1>2, FirstIsOne DEF SyncType
<1>4. PICK status \in MetaStatuses : status = meta[r.entity][t]
  BY <1>2 DEF TemplatesInv
<1>5. PICK got \in [Templates -> MetaStatuses] : got = [r.got EXCEPT ![t] = status]
  BY DEF SyncType
<1>6. PICK w : w = [r EXCEPT !.todo = @ \ {t}, !.got = got]
  OBVIOUS
<1>7. w \in SyncType
  BY <1>6 DEF SyncType
<1>8. SyncOK(w)
  <2>1. w.pc = "fetch" /\ w.entity = r.entity /\ w.lived = r.lived
        /\ w.truncated = FALSE /\ w.broken = FALSE
    BY <1>1, <1>2, <1>6 DEF SyncOK, SyncType
  <2>2. ASSUME NEW u \in w.lived PROVE u \in w.todo \/ u \in GotIn(w)
    <3>1. u \in Templates /\ (u \in r.todo \/ r.got[u] # "none")
      BY <1>1, <1>2, <2>1, <2>2 DEF SyncOK, GotIn, SyncType
    <3>2. CASE u = t
      <4>1. status # "none"
        BY <1>1, <1>2, <1>4, <2>1, <2>2, <3>2 DEF LivingAtMeta
      <4>2. w.got[u] = status
        BY <1>5, <1>6, <3>2 DEF SyncType
      <4>3. QED
        BY <3>1, <4>1, <4>2 DEF GotIn
    <3>3. CASE u # t
      <4>1. w.got[u] = r.got[u] /\ (u \in r.todo => u \in w.todo)
        BY <1>5, <1>6, <3>1, <3>3 DEF SyncType
      <4>2. QED
        BY <3>1, <4>1 DEF GotIn
    <3>4. QED
      BY <3>2, <3>3
  <2>3. QED
    BY <1>2, <2>1, <2>2 DEF SyncOK
<1>9. LivingAtMeta(w)
  BY <1>1, <1>6 DEF LivingAtMeta, SyncType
<1>10. sync' = [sync EXCEPT ![s] = w]
  <2>1. sync' = [sync EXCEPT ![s].todo = @ \ {t}, ![s].got[t] = status]
    BY <1>1, <1>3, <1>4 DEF FetchPage
  <2>2. w = [[r EXCEPT !.todo = @ \ {t}] EXCEPT !.got[t] = status]
    BY <1>5, <1>6 DEF SyncType
  <2>3. QED
    BY <1>1, <2>1, <2>2 DEF TemplatesInv
<1>11. meta' = meta /\ row' = row /\ create' = create /\ send' = send
  BY DEF FetchPage
<1>12. row' \in [Entities -> [Templates -> RowStatuses]]
  BY <1>11 DEF TemplatesInv
<1>13. QED
  BY <1>7, <1>8, <1>9, <1>10, <1>11, <1>12, OneSyncKeeps

LEMMA FetchStopsKeeps ==
    ASSUME TemplatesInv, NEW s \in Syncs, NEW why \in {"complete", "limited", "failed"},
           FetchStops(s, why)
    PROVE  TemplatesInv'
<1>1. PICK r \in SyncType : r = sync[s] /\ SyncOK(r) /\ LivingAtMeta(r)
  BY SyncOf
<1>2. r.pc = "fetch" /\ r.entity \in Entities /\ (why = "complete" => r.todo = {})
  BY <1>1 DEF FetchStops, SyncOK
<1>3. meta' = meta /\ row' = row /\ create' = create /\ send' = send
  BY DEF FetchStops
<1>4. row' \in [Entities -> [Templates -> RowStatuses]]
  BY <1>3 DEF TemplatesInv
<1>5. CASE why # "complete" /\ r.got = Absent
  <2>1. sync' = [sync EXCEPT ![s] = IdleSync]
    BY <1>1, <1>5 DEF FetchStops
  <2>2. QED
    BY <1>3, <1>4, <2>1, IdleSyncIsSync, IdleSyncIsOK, OneSyncKeeps
<1>6. CASE ~(why # "complete" /\ r.got = Absent)
  <2>1. PICK limited \in BOOLEAN, failed \in BOOLEAN :
            limited = (why = "limited") /\ failed = (why = "failed")
    OBVIOUS
  <2>2. PICK w : w = [r EXCEPT !.pc = "read", !.truncated = limited, !.broken = failed]
    OBVIOUS
  <2>3. w \in SyncType
    BY <2>2 DEF SyncType
  <2>4. /\ w.pc = "read" /\ w.entity = r.entity /\ w.lived = r.lived /\ w.got = r.got
        /\ w.truncated = limited /\ w.broken = failed
    BY <2>2 DEF SyncType
  <2>5. SyncOK(w)
    <3>1. CASE why = "complete"
      BY <1>1, <1>2, <2>4, <3>1 DEF SyncOK, GotIn
    <3>2. CASE why # "complete"
      BY <1>2, <2>1, <2>4, <3>2 DEF SyncOK
    <3>3. QED
      BY <3>1, <3>2
  <2>6. LivingAtMeta(w)
    BY <1>1, <1>2, <2>4 DEF LivingAtMeta
  <2>7. sync' = [sync EXCEPT ![s] = w]
    BY <1>1, <1>6, <2>1, <2>2 DEF FetchStops
  <2>8. QED
    BY <1>3, <1>4, <2>3, <2>5, <2>6, <2>7, OneSyncKeeps
<1>7. QED
  BY <1>5, <1>6

LEMMA ReadRowsKeeps ==
    ASSUME TemplatesInv, NEW s \in Syncs, ReadRows(s)
    PROVE  TemplatesInv'
<1>1. PICK r \in SyncType : r = sync[s] /\ SyncOK(r) /\ LivingAtMeta(r)
  BY SyncOf
<1>2. r.pc = "read" /\ r.entity \in Entities
  BY <1>1 DEF ReadRows, SyncOK
<1>3. PICK old \in [Templates -> RowStatuses] : old = row[r.entity]
  BY <1>2 DEF TemplatesInv
<1>4. PICK left \in SUBSET Templates : left = Fetched(s)
  BY DEF Fetched
<1>5. PICK w : w = [r EXCEPT !.pc = "upsert", !.old = old, !.todo = left]
  OBVIOUS
<1>6. /\ w \in SyncType /\ w.pc = "upsert" /\ w.entity = r.entity /\ w.lived = r.lived
      /\ w.got = r.got /\ w.truncated = r.truncated /\ w.broken = r.broken
  BY <1>5 DEF SyncType
<1>7. SyncOK(w) /\ LivingAtMeta(w)
  BY <1>1, <1>2, <1>6 DEF SyncOK, GotIn, LivingAtMeta
<1>8. sync' = [sync EXCEPT ![s] = w]
  BY <1>1, <1>3, <1>4, <1>5 DEF ReadRows, TemplatesInv
<1>9. meta' = meta /\ row' = row /\ create' = create /\ send' = send
  BY DEF ReadRows
<1>10. row' \in [Entities -> [Templates -> RowStatuses]]
  BY <1>9 DEF TemplatesInv
<1>11. QED
  BY <1>6, <1>7, <1>8, <1>9, <1>10, OneSyncKeeps

LEMMA UpsertKeeps ==
    ASSUME TemplatesInv, NEW s \in Syncs, Upsert(s)
    PROVE  TemplatesInv'
<1>1. PICK r \in SyncType : r = sync[s] /\ SyncOK(r) /\ LivingAtMeta(r)
  BY SyncOf
<1>2. r.pc = "upsert" /\ r.todo # {} /\ r.entity \in Entities
  BY <1>1 DEF Upsert, SyncOK
<1>3. PICK t \in {First(r.todo)}, ok \in BOOLEAN :
          /\ row' = IF ok /\ ~Skips(s, t) THEN [row EXCEPT ![r.entity][t] = r.got[t]] ELSE row
          /\ sync' = [Disturbed(r.entity, s) EXCEPT ![s].todo = @ \ {t}, ![s].broken = @ \/ ~ok]
  BY <1>1 DEF Upsert
<1>4. t \in Templates
  BY <1>2, <1>3, FirstIsOne DEF SyncType
<1>5. PICK broken \in BOOLEAN : broken = (r.broken \/ ~ok)
  OBVIOUS
<1>6. PICK w : w = [r EXCEPT !.todo = @ \ {t}, !.broken = broken]
  OBVIOUS
<1>7. /\ w \in SyncType /\ w.pc = "upsert" /\ w.entity = r.entity /\ w.lived = r.lived
      /\ w.got = r.got /\ w.truncated = r.truncated /\ w.broken = broken
  BY <1>2, <1>6 DEF SyncType
<1>8. SyncOK(w) /\ LivingAtMeta(w)
  <2>1. r.broken = TRUE => broken = TRUE
    BY <1>5
  <2>2. QED
    BY <1>1, <1>2, <1>7, <2>1 DEF SyncOK, GotIn, LivingAtMeta
<1>9. sync' = [Disturbed(r.entity, s) EXCEPT ![s] = w]
  <2>1. Disturbed(r.entity, s)[s] = r
    BY <1>1 DEF Disturbed
  <2>2. QED
    BY <1>3, <1>5, <1>6, <2>1 DEF Disturbed
<1>10. row' \in [Entities -> [Templates -> RowStatuses]]
  <2>1. row \in [Entities -> [Templates -> RowStatuses]]
    BY DEF TemplatesInv
  <2>2. PICK status \in RowStatuses : status = r.got[t]
    BY <1>4 DEF SyncType, RowStatuses
  <2>3. PICK line \in [Templates -> RowStatuses] : line = [row[r.entity] EXCEPT ![t] = status]
    BY <1>2, <2>1
  <2>4. [row EXCEPT ![r.entity] = line] \in [Entities -> [Templates -> RowStatuses]]
    BY <2>1
  <2>5. QED
    BY <1>3, <2>1, <2>2, <2>3, <2>4
<1>11. meta' = meta /\ create' = create /\ send' = send
  BY DEF Upsert
<1>12. QED
  BY <1>7, <1>8, <1>9, <1>10, <1>11, OneSyncKeeps

LEMMA StartPruneKeeps ==
    ASSUME TemplatesInv, NEW s \in Syncs, StartPrune(s)
    PROVE  TemplatesInv'
<1>1. PICK r \in SyncType : r = sync[s] /\ SyncOK(r) /\ LivingAtMeta(r)
  BY SyncOf
<1>2. r.pc = "upsert" /\ r.entity \in Entities
  BY <1>1 DEF StartPrune, SyncOK
<1>3. PICK left \in SUBSET Templates : left = Pruned(s)
  BY DEF Pruned
<1>4. left \cap GotIn(r) = {} /\ (r.truncated = TRUE => left = {})
  BY <1>1, <1>3 DEF Pruned, Fetched, GotIn
<1>5. PICK w : w = [r EXCEPT !.pc = "prune", !.todo = left]
  OBVIOUS
<1>6. /\ w \in SyncType /\ w.pc = "prune" /\ w.entity = r.entity /\ w.lived = r.lived
      /\ w.got = r.got /\ w.truncated = r.truncated /\ w.broken = r.broken /\ w.todo = left
  BY <1>5 DEF SyncType
<1>7. SyncOK(w) /\ LivingAtMeta(w)
  BY <1>1, <1>2, <1>4, <1>6 DEF SyncOK, GotIn, LivingAtMeta
<1>8. sync' = [sync EXCEPT ![s] = w]
  BY <1>1, <1>3, <1>5 DEF StartPrune, TemplatesInv
<1>9. meta' = meta /\ row' = row /\ create' = create /\ send' = send
  BY DEF StartPrune
<1>10. row' \in [Entities -> [Templates -> RowStatuses]]
  BY <1>9 DEF TemplatesInv
<1>11. QED
  BY <1>6, <1>7, <1>8, <1>9, <1>10, OneSyncKeeps

LEMMA PruneKeeps ==
    ASSUME TemplatesInv, NEW s \in Syncs, Prune(s)
    PROVE  TemplatesInv'
<1>1. PICK r \in SyncType : r = sync[s] /\ SyncOK(r) /\ LivingAtMeta(r)
  BY SyncOf
<1>2. r.pc = "prune" /\ r.todo # {} /\ r.entity \in Entities
  BY <1>1 DEF Prune, SyncOK
<1>3. PICK t \in {First(r.todo)} :
          /\ row' = [row EXCEPT ![r.entity][t] = "DELETED"]
          /\ sync' = [Disturbed(r.entity, s) EXCEPT ![s].todo = @ \ {t}]
  BY <1>1 DEF Prune
<1>4. t \in Templates
  BY <1>2, <1>3, FirstIsOne DEF SyncType
<1>5. PICK w : w = [r EXCEPT !.todo = @ \ {t}]
  OBVIOUS
<1>6. /\ w \in SyncType /\ w.pc = "prune" /\ w.entity = r.entity /\ w.lived = r.lived
      /\ w.got = r.got /\ w.truncated = r.truncated /\ w.broken = r.broken
      /\ w.todo = r.todo \ {t}
  BY <1>2, <1>5 DEF SyncType
<1>7. SyncOK(w) /\ LivingAtMeta(w)
  BY <1>1, <1>2, <1>6 DEF SyncOK, GotIn, LivingAtMeta
<1>8. sync' = [Disturbed(r.entity, s) EXCEPT ![s] = w]
  <2>1. Disturbed(r.entity, s)[s] = r
    BY <1>1 DEF Disturbed
  <2>2. QED
    BY <1>3, <1>5, <2>1 DEF Disturbed
<1>9. row' \in [Entities -> [Templates -> RowStatuses]]
  <2>1. row \in [Entities -> [Templates -> RowStatuses]]
    BY DEF TemplatesInv
  <2>2. PICK line \in [Templates -> RowStatuses] : line = [row[r.entity] EXCEPT ![t] = "DELETED"]
    BY <1>2, <2>1 DEF RowStatuses
  <2>3. QED
    BY <1>3, <2>1, <2>2
<1>10. meta' = meta /\ create' = create /\ send' = send
  BY DEF Prune
<1>11. QED
  BY <1>6, <1>7, <1>8, <1>9, <1>10, OneSyncKeeps

LEMMA AnswerKeeps ==
    ASSUME TemplatesInv, NEW s \in Syncs, Answer(s)
    PROVE  TemplatesInv'
<1>1. PICK r \in SyncType : r = sync[s] /\ SyncOK(r) /\ LivingAtMeta(r)
  BY SyncOf
<1>2. r.pc = "prune" /\ r.entity \in Entities
  BY <1>1 DEF Answer, SyncOK
<1>3. PICK w : w = [r EXCEPT !.pc = "done"]
  OBVIOUS
<1>4. /\ w \in SyncType /\ w.pc = "done" /\ w.entity = r.entity /\ w.lived = r.lived
      /\ w.got = r.got /\ w.truncated = r.truncated /\ w.broken = r.broken
  BY <1>3 DEF SyncType
<1>5. SyncOK(w) /\ LivingAtMeta(w)
  BY <1>1, <1>2, <1>4 DEF SyncOK, GotIn, LivingAtMeta
<1>6. sync' = [sync EXCEPT ![s] = w]
  BY <1>1, <1>3 DEF Answer, TemplatesInv
<1>7. meta' = meta /\ row' = row /\ create' = create /\ send' = send
  BY DEF Answer
<1>8. row' \in [Entities -> [Templates -> RowStatuses]]
  BY <1>7 DEF TemplatesInv
<1>9. QED
  BY <1>4, <1>5, <1>6, <1>7, <1>8, OneSyncKeeps

LEMMA EndSyncKeeps ==
    ASSUME TemplatesInv, NEW s \in Syncs, EndSync(s)
    PROVE  TemplatesInv'
<1>1. meta' = meta /\ row' = row /\ create' = create /\ send' = send
      /\ sync' = [sync EXCEPT ![s] = IdleSync]
  BY DEF EndSync
<1>2. row' \in [Entities -> [Templates -> RowStatuses]]
  BY <1>1 DEF TemplatesInv
<1>3. QED
  BY <1>1, <1>2, IdleSyncIsSync, IdleSyncIsOK, OneSyncKeeps

\* A template changes at Meta: whoever listed it as living forgets it.
LEMMA MetaChangesKeeps ==
    ASSUME TemplatesInv, NEW e \in Entities, NEW t \in Templates, NEW status \in MetaStatuses,
           MetaChanges(e, t, status)
    PROVE  TemplatesInv'
<1>1. meta' = [meta EXCEPT ![e][t] = status]
      /\ row' = row /\ create' = create /\ send' = send
      /\ sync' = [x \in Syncs |->
                    IF sync[x].entity # e THEN sync[x]
                    ELSE [sync[x] EXCEPT !.alone = FALSE,
                                         !.lived = IF status = "none" THEN @ \ {t} ELSE @]]
  BY DEF MetaChanges
<1>2. PICK now : now = meta'
  OBVIOUS
<1>3. now \in [Entities -> [Templates -> MetaStatuses]]
      /\ \A x \in Entities, u \in Templates :
            now[x][u] = IF x = e /\ u = t THEN status ELSE meta[x][u]
  <2>1. PICK line \in [Templates -> MetaStatuses] : line = [meta[e] EXCEPT ![t] = status]
    BY DEF TemplatesInv
  <2>2. now = [meta EXCEPT ![e] = line] /\ meta \in [Entities -> [Templates -> MetaStatuses]]
    BY <1>1, <1>2, <2>1 DEF TemplatesInv
  <2>3. QED
    BY <2>1, <2>2
<1>4. ASSUME NEW x \in Syncs
      PROVE  /\ sync'[x] \in SyncType
             /\ SyncOK(sync'[x])
             /\ sync'[x].pc # "idle" => \A u \in sync'[x].lived : now[sync'[x].entity][u] # "none"
  <2>1. PICK r \in SyncType : r = sync[x] /\ SyncOK(r) /\ LivingAtMeta(r)
    BY SyncOf
  <2>2. r.lived \subseteq Templates /\ (r.pc # "idle" => r.entity \in Entities)
    BY <2>1 DEF SyncOK, SyncType
  <2>3. CASE r.entity # e
    <3>1. sync'[x] = r
      BY <1>1, <2>1, <2>3
    <3>2. QED
      BY <1>3, <2>1, <2>2, <2>3, <3>1 DEF LivingAtMeta
  <2>4. CASE r.entity = e
    <3>1. PICK lived \in SUBSET Templates :
              lived = IF status = "none" THEN r.lived \ {t} ELSE r.lived
      BY <2>2
    <3>2. PICK w : w = [r EXCEPT !.alone = FALSE, !.lived = lived]
      OBVIOUS
    <3>3. sync'[x] = w
      BY <1>1, <2>1, <2>4, <3>1, <3>2
    <3>4. /\ w \in SyncType /\ w.pc = r.pc /\ w.entity = r.entity /\ w.todo = r.todo
          /\ w.got = r.got /\ w.truncated = r.truncated /\ w.broken = r.broken
          /\ w.lived = lived
      BY <3>2 DEF SyncType
    <3>5. lived \subseteq r.lived
      BY <3>1
    <3>6. SyncOK(w)
      BY <2>1, <3>4, <3>5 DEF SyncOK, GotIn
    <3>7. ASSUME r.pc # "idle", NEW u \in lived PROVE now[e][u] # "none"
      BY <1>3, <2>1, <2>2, <2>4, <3>1, <3>5, <3>7 DEF LivingAtMeta
    <3>8. QED
      BY <2>4, <3>3, <3>4, <3>6, <3>7
  <2>5. QED
    BY <2>3, <2>4
<1>5. sync' \in [Syncs -> SyncType]
  BY <1>1, <1>4
<1>6. \A x \in Syncs : LivingAtMeta(sync[x])'
  BY <1>2, <1>4 DEF LivingAtMeta
<1>7. QED
  BY <1>1, <1>2, <1>3, <1>4, <1>5, <1>6 DEF TemplatesInv

\* A task that begins or ends.
LEMMA TaskSet ==
    ASSUME NEW actors, NEW tasks, TasksOK(tasks, actors), NEW a \in actors,
           NEW task, task.status \in RowStatuses
    PROVE  TasksOK([tasks EXCEPT ![a] = task], actors)
<1>1. QED
  BY DEF TasksOK

LEMMA CreateTemplateKeeps ==
    ASSUME TemplatesInv, NEW c \in Creates, NEW e \in Somebody, NEW t \in Templates,
           NEW status \in {"PENDING", "APPROVED"}, CreateTemplate(c, e, t, status)
    PROVE  TemplatesInv'
<1>1. PICK entity \in Entities : entity = SessionForTemplates(e)
  BY CredentialsAreAnEntitys DEF CreateTemplate, Somebody
<1>2. /\ meta' = [meta EXCEPT ![entity][t] = status]
      /\ create' = [create EXCEPT ![c] = [entity |-> entity, template |-> t, status |-> status]]
      /\ Disturb(entity) /\ row' = row /\ send' = send
  BY <1>1 DEF CreateTemplate
<1>3. meta \in [Entities -> [Templates -> MetaStatuses]] /\ TasksOK(create, Creates)
  BY DEF TemplatesInv
<1>4. PICK line \in [Templates -> MetaStatuses] : line = [meta[entity] EXCEPT ![t] = status]
  BY <1>3 DEF MetaStatuses, LiveStatuses
<1>5. meta' = [meta EXCEPT ![entity] = line]
  BY <1>2, <1>3, <1>4
<1>6. meta' \in [Entities -> [Templates -> MetaStatuses]]
  BY <1>3, <1>4, <1>5
<1>7. ASSUME NEW x \in Entities, NEW u \in Templates, meta[x][u] # "none"
      PROVE  meta'[x][u] # "none"
  BY <1>3, <1>4, <1>5, <1>7
<1>8. TasksOK(create', Creates)
  <2>1. PICK task : task = [entity |-> entity, template |-> t, status |-> status]
    OBVIOUS
  <2>2. task.status \in RowStatuses
    BY <2>1 DEF RowStatuses, MetaStatuses, LiveStatuses
  <2>3. QED
    BY <1>2, <1>3, <2>1, <2>2, TaskSet
<1>9. row' \in [Entities -> [Templates -> RowStatuses]] /\ TasksOK(send', Sends)
  BY <1>2 DEF TemplatesInv
<1>10. QED
  BY <1>2, <1>6, <1>7, <1>8, <1>9, BesideSyncsKeeps

\* A row that takes a status, whoever's and which template's it is.
LEMMA RowWritten ==
    ASSUME NEW rows \in [Entities -> [Templates -> RowStatuses]], NEW e, NEW t,
           NEW status \in RowStatuses
    PROVE  [rows EXCEPT ![e][t] = status] \in [Entities -> [Templates -> RowStatuses]]
<1>1. CASE e \in Entities
  <2>1. PICK line : line = [rows[e] EXCEPT ![t] = status]
    OBVIOUS
  <2>2. line \in [Templates -> RowStatuses]
    BY <1>1, <2>1
  <2>3. [rows EXCEPT ![e][t] = status] = [rows EXCEPT ![e] = line]
    BY <2>1
  <2>4. QED
    BY <2>2, <2>3
<1>2. CASE e \notin Entities
  <2>1. [rows EXCEPT ![e][t] = status] = rows
    BY <1>2
  <2>2. QED
    BY <2>1
<1>3. QED
  BY <1>1, <1>2

LEMMA CacheCreatedKeeps ==
    ASSUME TemplatesInv, NEW c \in Creates, CacheCreated(c)
    PROVE  TemplatesInv'
<1> DEFINE e == create[c].entity
           t == create[c].template
<1>1. PICK status \in RowStatuses : status = create[c].status
  BY DEF TemplatesInv, TasksOK
<1>2. /\ row' \in {row, [row EXCEPT ![e][t] = status]}
      /\ create' = [create EXCEPT ![c] = NoTask]
      /\ Disturb(e) /\ meta' = meta /\ send' = send
  BY <1>1 DEF CacheCreated
<1>3. row' \in [Entities -> [Templates -> RowStatuses]]
  <2>1. row \in [Entities -> [Templates -> RowStatuses]]
    BY DEF TemplatesInv
  <2>2. [row EXCEPT ![e][t] = status] \in [Entities -> [Templates -> RowStatuses]]
    BY <2>1, RowWritten
  <2>3. QED
    BY <1>2, <2>1, <2>2
<1>4. TasksOK(create', Creates)
  BY <1>2, NoTaskIsOK, TaskSet DEF TemplatesInv
<1>5. meta' \in [Entities -> [Templates -> MetaStatuses]] /\ TasksOK(send', Sends)
  BY <1>2 DEF TemplatesInv
<1>6. \A x \in Entities, u \in Templates : meta[x][u] # "none" => meta'[x][u] # "none"
  BY <1>2
<1>7. QED
  BY <1>2, <1>3, <1>4, <1>5, <1>6, BesideSyncsKeeps

LEMMA MarkCacheStatusKeeps ==
    ASSUME TemplatesInv, NEW j \in Sends, MarkCacheStatus(j)
    PROVE  TemplatesInv'
<1> DEFINE e == send[j].entity
           t == send[j].template
<1>1. PICK status \in RowStatuses : status = send[j].status
  BY DEF TemplatesInv, TasksOK
<1>2. /\ row' \in {row, [row EXCEPT ![e][t] = status]}
      /\ send' = [send EXCEPT ![j] = NoTask]
      /\ Disturb(e) /\ meta' = meta /\ create' = create
  BY <1>1 DEF MarkCacheStatus
<1>3. row' \in [Entities -> [Templates -> RowStatuses]]
  <2>1. row \in [Entities -> [Templates -> RowStatuses]]
    BY DEF TemplatesInv
  <2>2. [row EXCEPT ![e][t] = status] \in [Entities -> [Templates -> RowStatuses]]
    BY <2>1, RowWritten
  <2>3. QED
    BY <1>2, <2>1, <2>2
<1>4. TasksOK(send', Sends)
  BY <1>2, NoTaskIsOK, TaskSet DEF TemplatesInv
<1>5. meta' \in [Entities -> [Templates -> MetaStatuses]] /\ TasksOK(create', Creates)
  BY <1>2 DEF TemplatesInv
<1>6. \A x \in Entities, u \in Templates : meta[x][u] # "none" => meta'[x][u] # "none"
  BY <1>2
<1>7. QED
  BY <1>2, <1>3, <1>4, <1>5, <1>6, BesideSyncsKeeps

\* Whoever the sender is that the job resolved.
LEMMA RefusedSendKeeps ==
    ASSUME TemplatesInv, NEW j \in Sends, NEW e \in Entities, NEW parent \in Somebody,
           NEW t \in Templates, RefusedSend(j, e, parent, t)
    PROVE  TemplatesInv'
<1>1. PICK entity : entity = ResolveSession(session, e, parent)
  OBVIOUS
<1>2. PICK status : status = InferredStatus(meta[entity][t])
  OBVIOUS
<1>3. status \in RowStatuses
  BY <1>2 DEF InferredStatus, RowStatuses, MetaStatuses, LiveStatuses
<1>4. PICK task : task = [entity |-> entity, template |-> t, status |-> status]
  OBVIOUS
<1>5. send' = [send EXCEPT ![j] = task] /\ meta' = meta /\ row' = row /\ sync' = sync
      /\ create' = create
  BY <1>1, <1>2, <1>4 DEF RefusedSend
<1>6. TasksOK(send', Sends)
  BY <1>3, <1>4, <1>5, TaskSet DEF TemplatesInv
<1>7. /\ meta' \in [Entities -> [Templates -> MetaStatuses]]
      /\ row' \in [Entities -> [Templates -> RowStatuses]]
      /\ TasksOK(create', Creates)
  BY <1>5 DEF TemplatesInv
<1>8. \A x \in Entities, u \in Templates : meta[x][u] # "none" => meta'[x][u] # "none"
  BY <1>5
<1>9. QED
  BY <1>5, <1>6, <1>7, <1>8, BesideSyncsKeeps

LEMMA TemplatesStepKeeps ==
    ASSUME TemplatesInv, TemplatesStep
    PROVE  TemplatesInv'
<1>1. CASE \E e \in Entities, t \in Templates, status \in MetaStatuses : MetaChanges(e, t, status)
  BY <1>1, MetaChangesKeeps
<1>2. CASE \E s \in Syncs, e \in Somebody : StartSync(s, e)
  BY <1>2, StartSyncKeeps
<1>3. CASE \E s \in Syncs, why \in {"complete", "limited", "failed"} : FetchStops(s, why)
  BY <1>3, FetchStopsKeeps
<1>4. CASE \E s \in Syncs : \/ FetchPage(s) \/ ReadRows(s) \/ Upsert(s) \/ StartPrune(s)
                            \/ Prune(s) \/ Answer(s) \/ EndSync(s)
  BY <1>4, FetchPageKeeps, ReadRowsKeeps, UpsertKeeps, StartPruneKeeps, PruneKeeps,
     AnswerKeeps, EndSyncKeeps
<1>5. CASE \E c \in Creates, e \in Somebody, t \in Templates, status \in {"PENDING", "APPROVED"} :
              CreateTemplate(c, e, t, status)
  BY <1>5, CreateTemplateKeeps
<1>6. CASE \E c \in Creates : CacheCreated(c)
  BY <1>6, CacheCreatedKeeps
<1>7. CASE \E j \in Sends, e \in Entities, parent \in Somebody, t \in Templates :
              RefusedSend(j, e, parent, t)
  BY <1>7, RefusedSendKeeps
<1>8. CASE \E j \in Sends : MarkCacheStatus(j)
  BY <1>8, MarkCacheStatusKeeps
<1>9. QED
  BY <1>1, <1>2, <1>3, <1>4, <1>5, <1>6, <1>7, <1>8 DEF TemplatesStep

LEMMA TemplatesNextKeeps == TemplatesInv /\ [WhatsAppNext]_whatsappVars => TemplatesInv'
<1> SUFFICES ASSUME TemplatesInv, [WhatsAppNext]_whatsappVars PROVE TemplatesInv'
  OBVIOUS
<1>1. ASSUME UNCHANGED templateVars PROVE TemplatesInv'
  BY <1>1 DEF TemplatesInv, LivingAtMeta, templateVars
<1>2. QED
  BY <1>1, TemplatesStepKeeps DEF WhatsAppNext, whatsappVars

\* A sync never marks a template as deleted that lived at Meta from the sync's
\* start on, whatever creates, marks, session changes and any number of other
\* syncs run beside it, unless its list broke off unnoticed or a write of it
\* failed (src/src/api/routes/whatsapp-templates.js).
THEOREM LivingTemplatesAreKeptAlways == WhatsAppSpec => []LivingTemplatesAreKept
<1>1. WhatsAppInit => TemplatesInv
  BY TemplatesInitInv DEF WhatsAppInit
<1>2. TemplatesInv => LivingTemplatesAreKept
  <2>1. SUFFICES ASSUME TemplatesInv, NEW s \in Syncs, sync[s].pc = "prune",
                        sync[s].todo \cap sync[s].lived # {}
                 PROVE  sync[s].broken
    BY DEF LivingTemplatesAreKept
  <2>2. PICK r \in SyncType : r = sync[s] /\ SyncOK(r)
    BY <2>1, SyncOf
  <2>3. PICK t : t \in r.todo /\ t \in r.lived
    BY <2>1, <2>2
  <2>4. r.pc = "prune" /\ t \notin GotIn(r) /\ r.truncated # TRUE
    BY <2>1, <2>2, <2>3 DEF SyncOK
  <2>5. r.broken = TRUE
    BY <2>2, <2>3, <2>4 DEF SyncOK
  <2>6. QED
    BY <2>2, <2>5
<1>3. QED
  BY <1>1, <1>2, TemplatesNextKeeps, PTL DEF WhatsAppSpec

-----------------------------------------------------------------------------
(* WhatsAppSessions: the search for the session that sends *)

Places == Seq(Somebody) \X SUBSET Entities
Tables == [Entities -> SessionType]

ParentsOf(rows, e) == IF rows[e].parent # Nobody THEN <<rows[e].parent>> ELSE <<>>
Drops(x) == Head(x[1]) = Nobody \/ Head(x[1]) \in x[2]
Ends(rows, x) == x[1] = <<>> \/ (~Drops(x) /\ Active(rows, Head(x[1])))
Outcome(x) == IF x[1] = <<>> THEN Nobody ELSE Head(x[1])
Onward(rows, x) ==
    IF Drops(x) THEN <<Tail(x[1]), x[2]>>
    ELSE <<Tail(x[1]) \o ParentsOf(rows, Head(x[1])), x[2] \cup {Head(x[1])}>>

\* What is left to look at: candidates in the queue and entities not visited.
Left(x) == Len(x[1]) + Cardinality(Entities \ x[2])

LEMMA LeftIsNatural == \A x \in Places : Left(x) \in Nat /\ Len(x[1]) \in Nat
<1>1. ASSUME NEW x \in Places PROVE Left(x) \in Nat /\ Len(x[1]) \in Nat
  <2>1. x[1] \in Seq(Somebody) /\ x[2] \in SUBSET Entities
    BY DEF Places
  <2>2. IsFiniteSet(Entities \ x[2])
    BY SessionsAssumption, FS_Difference
  <2>3. QED
    BY <2>1, <2>2, FS_CardinalityType, LenProperties DEF Left
<1>2. QED
  BY <1>1

LEMMA TailOfQueue ==
    ASSUME NEW q \in Seq(Somebody), q # <<>>
    PROVE  /\ Head(q) \in Somebody /\ Head(q) = q[1]
           /\ Tail(q) \in Seq(Somebody) /\ Len(Tail(q)) = Len(q) - 1 /\ Len(q) \in Nat
           /\ \A i \in 1..Len(q) : i = 1 \/ \E j \in 1..Len(Tail(q)) : Tail(q)[j] = q[i]
           /\ \A j \in 1..Len(Tail(q)) : Tail(q)[j] = q[j + 1] /\ j + 1 \in 1..Len(q)
<1>1. /\ Head(q) \in Somebody /\ Tail(q) \in Seq(Somebody) /\ Len(Tail(q)) = Len(q) - 1 /\ Len(q) \in Nat
      /\ \A j \in 1..Len(Tail(q)) : Tail(q)[j] = q[j + 1]
  BY HeadTailProperties, LenProperties
<1>2. Head(q) = q[1]
  OBVIOUS
<1>3. ASSUME NEW i \in 1..Len(q), i # 1 PROVE \E j \in 1..Len(Tail(q)) : Tail(q)[j] = q[i]
  <2>1. i - 1 \in 1..Len(Tail(q)) /\ (i - 1) + 1 = i
    BY <1>1, <1>3
  <2>2. Tail(q)[i - 1] = q[i]
    BY <1>1, <2>1
  <2>3. QED
    BY <2>1, <2>2
<1>4. \A j \in 1..Len(Tail(q)) : j + 1 \in 1..Len(q)
  BY <1>1
<1>5. QED
  BY <1>1, <1>2, <1>3, <1>4

\* Each look leaves less.
LEMMA OnwardLeavesLess ==
    ASSUME NEW rows \in Tables, NEW x \in Places, ~Ends(rows, x)
    PROVE  Onward(rows, x) \in Places /\ Left(Onward(rows, x)) < Left(x)
<1>1. PICK q, visited : q = x[1] /\ visited = x[2]
  OBVIOUS
<1>2. q \in Seq(Somebody) /\ visited \in SUBSET Entities /\ q # <<>>
  BY <1>1 DEF Places, Ends
<1>3. PICK e : e = Head(q)
  OBVIOUS
<1>4. e \in Somebody /\ Tail(q) \in Seq(Somebody) /\ Len(Tail(q)) = Len(q) - 1 /\ Len(q) \in Nat
  BY <1>2, <1>3, TailOfQueue
<1>5. IsFiniteSet(Entities \ visited) /\ Cardinality(Entities \ visited) \in Nat
  BY SessionsAssumption, FS_Difference, FS_CardinalityType
<1>6. CASE Drops(x)
  <2>1. PICK y : y = <<Tail(q), visited>>
    OBVIOUS
  <2>2. y[1] = Tail(q) /\ y[2] = visited /\ y \in Places
    BY <2>1, <1>2, <1>4 DEF Places
  <2>3. Onward(rows, x) = y
    BY <1>1, <1>6, <2>1 DEF Onward
  <2>4. Left(y) < Left(x)
    BY <1>1, <1>4, <1>5, <2>2 DEF Left
  <2>5. QED
    BY <2>2, <2>3, <2>4
<1>7. CASE ~Drops(x)
  <2>1. e \in Entities /\ e \notin visited
    BY <1>1, <1>3, <1>4, <1>7 DEF Drops, Somebody
  <2>2. PICK p : p = ParentsOf(rows, e)
    OBVIOUS
  <2>3. p \in Seq(Somebody) /\ Len(p) \in {0, 1}
    <3>1. rows[e].parent \in Somebody
      BY <2>1 DEF Tables, SessionType
    <3>2. QED
      BY <2>2, <3>1 DEF ParentsOf
  <2>4. PICK r : r = Tail(q) \o p
    OBVIOUS
  <2>5. r \in Seq(Somebody) /\ Len(r) = Len(Tail(q)) + Len(p)
    BY <1>4, <2>3, <2>4, ConcatProperties
  <2>6. PICK y : y = <<r, visited \cup {e}>>
    OBVIOUS
  <2>7. y[1] = r /\ y[2] = visited \cup {e} /\ y \in Places
    BY <2>6, <1>2, <2>1, <2>5 DEF Places
  <2>8. Onward(rows, x) = y
    BY <1>1, <1>3, <1>7, <2>2, <2>4, <2>6 DEF Onward
  <2>9. Cardinality(Entities \ (visited \cup {e})) = Cardinality(Entities \ visited) - 1
    <3>1. Entities \ (visited \cup {e}) = (Entities \ visited) \ {e}
      OBVIOUS
    <3>2. e \in Entities \ visited
      BY <2>1
    <3>3. QED
      BY <1>5, <3>1, <3>2, FS_RemoveElement
  <2>10. Len(r) <= Len(q)
    <3>1. \A a, b, c : a \in Nat /\ b = a - 1 /\ c \in {0, 1} => b + c <= a
      OBVIOUS
    <3>2. QED
      BY <1>4, <2>3, <2>5, <3>1
  <2>11. Left(y) = Len(r) + (Cardinality(Entities \ visited) - 1) /\ Left(x) = Len(q) + Cardinality(Entities \ visited)
    BY <1>1, <2>7, <2>9 DEF Left
  <2>12. Len(r) \in Nat
    BY <1>4, <2>3, <2>5
  <2>13. Left(y) < Left(x)
    BY <1>4, <1>5, <2>10, <2>11, <2>12
  <2>14. QED
    BY <2>7, <2>8, <2>13
<1>8. QED
  BY <1>6, <1>7

\* A function that follows the search where less than n is left.
Follows(rows, f, n) ==
    \A x \in Places : Left(x) < n => f[x] = IF Ends(rows, x) THEN Outcome(x) ELSE f[Onward(rows, x)]

LEMMA FollowersAgree ==
    ASSUME NEW rows \in Tables, NEW f, NEW g, NEW m \in Nat, NEW n \in Nat, m <= n,
           Follows(rows, f, m), Follows(rows, g, n)
    PROVE  \A x \in Places : Left(x) < m => f[x] = g[x]
<1> DEFINE Bad == {Left(x) : x \in {y \in Places : Left(y) < m /\ f[y] # g[y]}}
<1>1. SUFFICES ASSUME Bad # {} PROVE FALSE
  OBVIOUS
<1>2. Bad \in SUBSET Nat
  BY LeftIsNatural
<1>3. PICK k \in Bad : \A l \in Bad : k <= l
  BY <1>1, <1>2, LeastNatural
<1>4. PICK x \in Places : Left(x) < m /\ f[x] # g[x] /\ k = Left(x)
  OBVIOUS
<1>5. Left(x) \in Nat /\ Left(x) < n
  BY <1>4, LeftIsNatural
<1>6. /\ f[x] = IF Ends(rows, x) THEN Outcome(x) ELSE f[Onward(rows, x)]
      /\ g[x] = IF Ends(rows, x) THEN Outcome(x) ELSE g[Onward(rows, x)]
  BY <1>4, <1>5 DEF Follows
<1>7. ~Ends(rows, x)
  BY <1>4, <1>6
<1>8. PICK y : y = Onward(rows, x)
  OBVIOUS
<1>9. y \in Places /\ Left(y) < Left(x) /\ Left(y) \in Nat
  BY <1>7, <1>8, OnwardLeavesLess, LeftIsNatural
<1>10. f[y] # g[y]
  BY <1>4, <1>6, <1>7, <1>8
<1>11. Left(y) \in Bad
  <2>1. Left(y) < m
    BY <1>4, <1>5, <1>9
  <2>2. QED
    BY <1>9, <1>10, <2>1
<1>12. Left(x) <= Left(y)
  BY <1>3, <1>4, <1>11
<1>13. QED
  BY <1>5, <1>9, <1>12

LEMMA SomeFollow ==
    ASSUME NEW rows \in Tables
    PROVE  \A n \in Nat : \E f : Follows(rows, f, n)
<1> DEFINE Bad == {n \in Nat : ~ \E f : Follows(rows, f, n)}
<1>1. SUFFICES ASSUME Bad # {} PROVE FALSE
  OBVIOUS
<1>2. PICK n \in Bad : \A l \in Bad : n <= l
  BY <1>1, LeastNatural
<1>3. n \in Nat /\ ~ \E f : Follows(rows, f, n)
  OBVIOUS
<1>4. n # 0
  <2>1. ASSUME n = 0 PROVE Follows(rows, rows, n)
    <3>1. \A x \in Places : ~(Left(x) < 0)
      BY LeftIsNatural
    <3>2. QED
      BY <2>1, <3>1 DEF Follows
  <2>2. QED
    BY <1>3, <2>1
<1>5. n - 1 \in Nat /\ ~(n <= n - 1)
  BY <1>3, <1>4
<1>6. PICK f : Follows(rows, f, n - 1)
  <2>1. n - 1 \notin Bad
    BY <1>2, <1>5
  <2>2. QED
    BY <1>5, <2>1
<1>7. PICK g : g = [x \in Places |-> IF Left(x) < n - 1 THEN f[x]
                                     ELSE IF Ends(rows, x) THEN Outcome(x) ELSE f[Onward(rows, x)]]
  OBVIOUS
<1>8. ASSUME NEW x \in Places, Left(x) < n
      PROVE  g[x] = IF Ends(rows, x) THEN Outcome(x) ELSE g[Onward(rows, x)]
  <2>1. Left(x) \in Nat
    BY LeftIsNatural
  <2>2. g[x] = IF Ends(rows, x) THEN Outcome(x) ELSE f[Onward(rows, x)]
    <3>1. CASE Left(x) < n - 1
      BY <1>6, <1>7, <3>1 DEF Follows
    <3>2. CASE ~(Left(x) < n - 1)
      BY <1>7, <3>2
    <3>3. QED
      BY <3>1, <3>2
  <2>3. ASSUME ~Ends(rows, x) PROVE g[Onward(rows, x)] = f[Onward(rows, x)]
    <3>1. PICK y : y = Onward(rows, x)
      OBVIOUS
    <3>2. y \in Places /\ Left(y) < Left(x) /\ Left(y) \in Nat
      BY <2>3, <3>1, OnwardLeavesLess, LeftIsNatural
    <3>3. Left(y) < n - 1
      BY <1>3, <1>8, <2>1, <3>2
    <3>4. QED
      BY <1>7, <3>1, <3>2, <3>3
  <2>4. QED
    BY <2>2, <2>3
<1>9. Follows(rows, g, n)
  BY <1>8 DEF Follows
<1>10. QED
  BY <1>3, <1>9

FollowerOf(rows, n) == CHOOSE f : Follows(rows, f, n)

\* The recursion of Walk has a solution.
LEMMA WalkIsThere ==
    ASSUME NEW rows \in Tables
    PROVE  \E w : w = [x \in Places |-> IF Ends(rows, x) THEN Outcome(x) ELSE w[Onward(rows, x)]]
<1>1. PICK w : w = [x \in Places |-> FollowerOf(rows, Left(x) + 1)[x]]
  OBVIOUS
<1>2. \A n \in Nat : Follows(rows, FollowerOf(rows, n), n)
  BY SomeFollow DEF FollowerOf
<1>3. ASSUME NEW x \in Places
      PROVE  w[x] = IF Ends(rows, x) THEN Outcome(x) ELSE w[Onward(rows, x)]
  <2>1. Left(x) \in Nat /\ Left(x) + 1 \in Nat /\ Left(x) < Left(x) + 1
    BY LeftIsNatural
  <2>2. PICK f : f = FollowerOf(rows, Left(x) + 1)
    OBVIOUS
  <2>3. Follows(rows, f, Left(x) + 1)
    BY <1>2, <2>1, <2>2
  <2>4. w[x] = f[x]
    BY <1>1, <2>2
  <2>5. f[x] = IF Ends(rows, x) THEN Outcome(x) ELSE f[Onward(rows, x)]
    BY <2>1, <2>3 DEF Follows
  <2>6. ASSUME ~Ends(rows, x) PROVE w[Onward(rows, x)] = f[Onward(rows, x)]
    <3>1. PICK y : y = Onward(rows, x)
      OBVIOUS
    <3>2. y \in Places /\ Left(y) < Left(x) /\ Left(y) \in Nat
      BY <2>6, <3>1, OnwardLeavesLess, LeftIsNatural
    <3>3. PICK m : m = Left(y) + 1
      OBVIOUS
    <3>4. m \in Nat /\ Left(y) < m /\ m <= Left(x) + 1
      BY <2>1, <3>2, <3>3
    <3>5. Follows(rows, FollowerOf(rows, m), m)
      BY <1>2, <3>4
    <3>6. FollowerOf(rows, m)[y] = f[y]
      BY <2>1, <2>3, <3>2, <3>4, <3>5, FollowersAgree
    <3>7. w[y] = FollowerOf(rows, m)[y]
      BY <1>1, <3>2, <3>3
    <3>8. QED
      BY <3>1, <3>6, <3>7
  <2>7. QED
    BY <2>4, <2>5, <2>6
<1>4. w = [x \in Places |-> IF Ends(rows, x) THEN Outcome(x) ELSE w[Onward(rows, x)]]
  BY <1>1, <1>3
<1>5. QED
  BY <1>4

Recursion(w, rows) == [x \in Places |-> IF Ends(rows, x) THEN Outcome(x) ELSE w[Onward(rows, x)]]

LEMMA WalkUnfolds ==
    ASSUME NEW rows \in Tables
    PROVE  \A x \in Places :
              Walk(rows)[x] = IF Ends(rows, x) THEN Outcome(x) ELSE Walk(rows)[Onward(rows, x)]
<1> DEFINE Body(w) == [x \in Seq(Somebody) \X SUBSET Entities |->
          LET queue == x[1]
              visited == x[2]
              e == Head(queue)
              rest == Tail(queue)
              parents == IF rows[e].parent # Nobody THEN <<rows[e].parent>> ELSE <<>>
          IN  IF queue = <<>> THEN Nobody
              ELSE IF e = Nobody \/ e \in visited THEN w[<<rest, visited>>]
              ELSE IF Active(rows, e) THEN e
              ELSE w[<<rest \o parents, visited \cup {e}>>]]
<1>1. Walk(rows) = CHOOSE w : w = Body(w)
  BY DEF Walk
<1>2. ASSUME NEW w PROVE Body(w) = Recursion(w, rows)
  <2>1. ASSUME NEW x \in Places
        PROVE  Body(w)[x] = IF Ends(rows, x) THEN Outcome(x) ELSE w[Onward(rows, x)]
    <3>1. CASE x[1] = <<>>
      BY <3>1 DEF Places, Ends, Outcome
    <3>2. CASE x[1] # <<>> /\ Drops(x)
      BY <3>2 DEF Places, Ends, Onward, Drops
    <3>3. CASE x[1] # <<>> /\ ~Drops(x) /\ Active(rows, Head(x[1]))
      BY <3>3 DEF Places, Ends, Outcome, Drops
    <3>4. CASE x[1] # <<>> /\ ~Drops(x) /\ ~Active(rows, Head(x[1]))
      BY <3>4 DEF Places, Ends, Onward, Drops, ParentsOf
    <3>5. QED
      BY <3>1, <3>2, <3>3, <3>4
  <2>2. Body(w) = [x \in Places |-> Body(w)[x]]
    BY DEF Places
  <2> HIDE DEF Body
  <2>3. QED
    BY <2>1, <2>2 DEF Recursion
<1> HIDE DEF Body
<1>3. \E w : w = Body(w)
  <2>1. PICK w : w = Recursion(w, rows)
    BY WalkIsThere DEF Recursion
  <2>2. w = Body(w)
    BY <1>2, <2>1
  <2>3. QED
    BY <2>2
<1>4. Walk(rows) = Body(Walk(rows))
  BY <1>1, <1>3
<1>5. Walk(rows) = Recursion(Walk(rows), rows)
  BY <1>2, <1>4
<1>6. QED
  BY <1>5 DEF Recursion

-----------------------------------------------------------------------------
(* What it finds *)

Within(q, T) == \A i \in 1..Len(q) : q[i] \in T
Leads(rows, T) == \A e \in T \ {Nobody} : Active(rows, e) \/ rows[e].parent \in T

LEMMA ParentsAreWithin ==
    ASSUME NEW rows \in Tables, NEW q \in Seq(Somebody), NEW e \in Entities, NEW T,
           Within(q, T), rows[e].parent \in T \/ rows[e].parent = Nobody
    PROVE  Within(q \o ParentsOf(rows, e), T)
<1>1. PICK p : p = ParentsOf(rows, e)
  OBVIOUS
<1>2. p \in Seq(Somebody) /\ \A i \in 1..Len(p) : p[i] \in T
  <2>1. rows[e].parent \in Somebody
    BY DEF Tables, SessionType
  <2>2. QED
    BY <1>1, <2>1 DEF ParentsOf
<1>3. PICK r : r = q \o p
  OBVIOUS
<1>4. /\ Len(q) \in Nat /\ Len(p) \in Nat /\ Len(r) = Len(q) + Len(p)
      /\ \A i \in 1..(Len(q) + Len(p)) : r[i] = IF i <= Len(q) THEN q[i] ELSE p[i - Len(q)]
  BY <1>2, <1>3, ConcatProperties, LenProperties
<1>5. ASSUME NEW i \in 1..Len(r) PROVE r[i] \in T
  <2>1. i \in 1..Len(q) \/ i - Len(q) \in 1..Len(p)
    BY <1>4
  <2>2. CASE i \in 1..Len(q)
    BY <1>4, <2>2 DEF Within
  <2>3. CASE i \notin 1..Len(q)
    <3>1. i - Len(q) \in 1..Len(p) /\ ~(i <= Len(q))
      BY <1>4, <2>1, <2>3
    <3>2. QED
      BY <1>2, <1>4, <3>1
  <2>4. QED
    BY <2>2, <2>3
<1>6. QED
  BY <1>1, <1>3, <1>5 DEF Within

\* Who is found is active, and in every set that holds the candidates and the
\* parents of its inactive members.
LEMMA FoundIsReached ==
    ASSUME NEW rows \in Tables, NEW T \in SUBSET Somebody, Leads(rows, T)
    PROVE  \A x \in Places :
              Within(x[1], T) /\ Walk(rows)[x] # Nobody
                => Walk(rows)[x] \in T \cap Entities /\ Active(rows, Walk(rows)[x])
<1> DEFINE Wrong(x) == /\ Within(x[1], T) /\ Walk(rows)[x] # Nobody
                       /\ ~(Walk(rows)[x] \in T \cap Entities /\ Active(rows, Walk(rows)[x]))
           Bad == {Left(x) : x \in {y \in Places : Wrong(y)}}
<1>1. SUFFICES ASSUME Bad # {} PROVE FALSE
  OBVIOUS
<1>2. Bad \in SUBSET Nat
  BY LeftIsNatural
<1>3. PICK k \in Bad : \A l \in Bad : k <= l
  BY <1>1, <1>2, LeastNatural
<1>4. PICK x \in Places : Wrong(x) /\ k = Left(x)
  OBVIOUS
<1>5. PICK found : found = Walk(rows)[x]
  OBVIOUS
<1>6. found # Nobody /\ ~(found \in T \cap Entities /\ Active(rows, found)) /\ Within(x[1], T)
  BY <1>4, <1>5
<1>7. found = IF Ends(rows, x) THEN Outcome(x) ELSE Walk(rows)[Onward(rows, x)]
  BY <1>5, WalkUnfolds
<1>8. PICK q, visited : q = x[1] /\ visited = x[2] /\ q \in Seq(Somebody)
  BY DEF Places
<1>9. CASE Ends(rows, x)
  <2>1. q # <<>> /\ found = Head(q) /\ Active(rows, found)
    BY <1>6, <1>7, <1>8, <1>9 DEF Ends, Outcome
  <2>2. found \in Somebody /\ found = q[1] /\ 1 \in 1..Len(q)
    BY <1>8, <2>1, TailOfQueue
  <2>3. found \in T
    BY <1>6, <1>8, <2>2 DEF Within
  <2>4. QED
    BY <1>6, <2>1, <2>2, <2>3 DEF Somebody
<1>10. CASE ~Ends(rows, x)
  <2>1. PICK y : y = Onward(rows, x)
    OBVIOUS
  <2>2. y \in Places /\ Left(y) < Left(x) /\ Left(y) \in Nat /\ Left(x) \in Nat
    BY <1>10, <2>1, OnwardLeavesLess, LeftIsNatural
  <2>3. q # <<>>
    BY <1>8, <1>10 DEF Ends
  <2>4. PICK e : e = Head(q)
    OBVIOUS
  <2>5. /\ e \in Somebody /\ e = q[1] /\ Tail(q) \in Seq(Somebody)
        /\ \A j \in 1..Len(Tail(q)) : Tail(q)[j] = q[j + 1] /\ j + 1 \in 1..Len(q)
        /\ 1 \in 1..Len(q)
    BY <1>8, <2>3, <2>4, TailOfQueue
  <2>6. Within(Tail(q), T) /\ e \in T
    BY <1>6, <1>8, <2>5 DEF Within
  <2>7. Within(y[1], T)
    <3>1. CASE Drops(x)
      BY <1>8, <2>1, <2>6, <3>1 DEF Onward
    <3>2. CASE ~Drops(x)
      <4>1. e \in Entities /\ e # Nobody /\ ~Active(rows, e)
        BY <1>8, <1>10, <2>3, <2>4, <2>5, <3>2 DEF Ends, Drops, Somebody
      <4>2. rows[e].parent \in T
        BY <2>6, <4>1 DEF Leads
      <4>3. Within(Tail(q) \o ParentsOf(rows, e), T)
        BY <2>5, <2>6, <4>1, <4>2, ParentsAreWithin
      <4>4. QED
        BY <1>8, <2>1, <2>4, <3>2, <4>3 DEF Onward
    <3>3. QED
      BY <3>1, <3>2
  <2>8. Walk(rows)[y] = found
    BY <1>7, <1>10, <2>1
  <2>9. Wrong(y)
    BY <1>6, <2>7, <2>8
  <2>10. Left(y) \in Bad
    BY <2>2, <2>9
  <2>11. QED
    BY <1>3, <1>4, <2>2, <2>10
<1>11. QED
  BY <1>9, <1>10

\* Who was visited is not active, and has its parent looked at or to look at.
Sought(rows, x) ==
    \A e \in x[2] : ~Active(rows, e) /\ \/ rows[e].parent \in x[2] \cup {Nobody}
                                         \/ \E i \in 1..Len(x[1]) : x[1][i] = rows[e].parent

\* None is active in a set that holds the candidates and the parents of all.
Fruitless(rows, x) ==
    \E T \in SUBSET Somebody :
        Leads(rows, T) /\ Within(x[1], T) /\ x[2] \subseteq T /\ Nobody \in T
        /\ \A e \in T \ {Nobody} : ~Active(rows, e)

LEMMA SoughtOnward ==
    ASSUME NEW rows \in Tables, NEW x \in Places, ~Ends(rows, x), Sought(rows, x)
    PROVE  /\ Sought(rows, Onward(rows, x))
           /\ Fruitless(rows, Onward(rows, x)) => Fruitless(rows, x)
<1>1. PICK q, visited : q = x[1] /\ visited = x[2]
  OBVIOUS
<1>2. q \in Seq(Somebody) /\ visited \in SUBSET Entities /\ q # <<>>
  BY <1>1 DEF Places, Ends
<1>3. PICK e : e = Head(q)
  OBVIOUS
<1>4. PICK tail : tail = Tail(q)
  OBVIOUS
<1>5. /\ e \in Somebody /\ e = q[1] /\ tail \in Seq(Somebody)
      /\ \A i \in 1..Len(q) : i = 1 \/ \E j \in 1..Len(tail) : tail[j] = q[i]
  BY <1>2, <1>3, <1>4, TailOfQueue
<1>6. PICK y : y = Onward(rows, x)
  OBVIOUS
<1>7. \A v \in visited : ~Active(rows, v) /\ \/ rows[v].parent \in visited \cup {Nobody, e}
                                              \/ \E j \in 1..Len(tail) : tail[j] = rows[v].parent
  BY <1>1, <1>5 DEF Sought
<1>8. \A T : e \in T /\ Within(tail, T) => Within(q, T)
  BY <1>5 DEF Within
<1>9. CASE Drops(x)
  <2>1. y[1] = tail /\ y[2] = visited
    BY <1>1, <1>4, <1>6, <1>9 DEF Onward
  <2>2. e = Nobody \/ e \in visited
    BY <1>1, <1>3, <1>9 DEF Drops
  <2>3. Sought(rows, y)
    BY <1>7, <2>1, <2>2 DEF Sought
  <2>4. ASSUME Fruitless(rows, y) PROVE Fruitless(rows, x)
    <3>1. PICK T \in SUBSET Somebody :
             Leads(rows, T) /\ Within(tail, T) /\ visited \subseteq T /\ Nobody \in T
             /\ \A v \in T \ {Nobody} : ~Active(rows, v)
      BY <2>1, <2>4 DEF Fruitless
    <3>2. Within(q, T)
      BY <1>8, <2>2, <3>1
    <3>3. QED
      BY <1>1, <3>1, <3>2 DEF Fruitless
  <2>5. QED
    BY <1>6, <2>3, <2>4
<1>10. CASE ~Drops(x)
  <2>1. e \in Entities /\ e \notin visited /\ e # Nobody /\ ~Active(rows, e)
    BY <1>1, <1>2, <1>3, <1>5, <1>10 DEF Ends, Drops, Somebody
  <2>2. PICK p : p = ParentsOf(rows, e)
    OBVIOUS
  <2>3. PICK r : r = tail \o p
    OBVIOUS
  <2>4. y[1] = r /\ y[2] = visited \cup {e}
    BY <1>1, <1>3, <1>4, <1>6, <1>10, <2>2, <2>3 DEF Onward
  <2>5. /\ p \in Seq(Somebody)
        /\ rows[e].parent = Nobody \/ (Len(p) = 1 /\ p[1] = rows[e].parent)
    <3>1. rows[e].parent \in Somebody
      BY <2>1 DEF Tables, SessionType
    <3>2. QED
      BY <2>2, <3>1 DEF ParentsOf
  <2>6. /\ Len(tail) \in Nat /\ Len(p) \in Nat /\ Len(r) = Len(tail) + Len(p)
        /\ \A i \in 1..(Len(tail) + Len(p)) : r[i] = IF i <= Len(tail) THEN tail[i] ELSE p[i - Len(tail)]
    BY <1>5, <2>3, <2>5, ConcatProperties, LenProperties
  <2>7. ASSUME NEW j \in 1..Len(tail) PROVE j \in 1..Len(r) /\ r[j] = tail[j]
    BY <2>6
  <2>8. rows[e].parent = Nobody \/ \E i \in 1..Len(r) : r[i] = rows[e].parent
    <3>1. ASSUME Len(p) = 1, p[1] = rows[e].parent
          PROVE  Len(tail) + 1 \in 1..Len(r) /\ r[Len(tail) + 1] = p[1]
      <4>1. Len(tail) + 1 \in 1..(Len(tail) + Len(p)) /\ ~(Len(tail) + 1 <= Len(tail))
            /\ (Len(tail) + 1) - Len(tail) = 1
        BY <2>6, <3>1
      <4>2. QED
        BY <2>6, <4>1
    <3>2. QED
      BY <2>5, <3>1
  <2>9. Sought(rows, y)
    <3>1. ASSUME NEW v \in visited \cup {e}
          PROVE  ~Active(rows, v) /\ \/ rows[v].parent \in visited \cup {e, Nobody}
                                      \/ \E i \in 1..Len(r) : r[i] = rows[v].parent
      <4>1. CASE v = e
        BY <2>1, <2>8, <4>1
      <4>2. CASE v \in visited
        BY <1>7, <2>7, <4>2
      <4>3. QED
        BY <4>1, <4>2
    <3>2. QED
      BY <2>4, <3>1 DEF Sought
  <2>10. ASSUME Fruitless(rows, y) PROVE Fruitless(rows, x)
    <3>1. PICK T \in SUBSET Somebody :
             Leads(rows, T) /\ Within(r, T) /\ visited \cup {e} \subseteq T /\ Nobody \in T
             /\ \A v \in T \ {Nobody} : ~Active(rows, v)
      BY <2>4, <2>10 DEF Fruitless
    <3>2. Within(tail, T)
      BY <2>7, <3>1 DEF Within
    <3>3. Within(q, T)
      BY <1>8, <3>1, <3>2
    <3>4. QED
      BY <1>1, <3>1, <3>3 DEF Fruitless
  <2>11. QED
    BY <1>6, <2>9, <2>10
<1>11. QED
  BY <1>9, <1>10

LEMMA NoneIsFoundInVain ==
    ASSUME NEW rows \in Tables
    PROVE  \A x \in Places : Sought(rows, x) /\ Walk(rows)[x] = Nobody => Fruitless(rows, x)
<1> DEFINE Wrong(x) == Sought(rows, x) /\ Walk(rows)[x] = Nobody /\ ~Fruitless(rows, x)
           Bad == {Left(x) : x \in {y \in Places : Wrong(y)}}
<1>1. SUFFICES ASSUME Bad # {} PROVE FALSE
  OBVIOUS
<1>2. Bad \in SUBSET Nat
  BY LeftIsNatural
<1>3. PICK k \in Bad : \A l \in Bad : k <= l
  BY <1>1, <1>2, LeastNatural
<1>4. PICK x \in Places : Wrong(x) /\ k = Left(x)
  OBVIOUS
<1>5. Walk(rows)[x] = IF Ends(rows, x) THEN Outcome(x) ELSE Walk(rows)[Onward(rows, x)]
  BY WalkUnfolds
<1>6. PICK q, visited : q = x[1] /\ visited = x[2] /\ q \in Seq(Somebody) /\ visited \in SUBSET Entities
  BY DEF Places
<1>7. CASE q = <<>>
  <2>1. PICK T : T = visited \cup {Nobody}
    OBVIOUS
  <2>2. T \in SUBSET Somebody /\ Nobody \in T /\ visited \subseteq T /\ Within(q, T)
    BY <1>6, <1>7, <2>1 DEF Somebody, Within
  <2>3. \A e \in visited : ~Active(rows, e) /\ rows[e].parent \in visited \cup {Nobody}
    BY <1>4, <1>6, <1>7 DEF Sought
  <2>4. Leads(rows, T) /\ \A e \in T \ {Nobody} : ~Active(rows, e)
    BY <2>1, <2>3 DEF Leads
  <2>5. Fruitless(rows, x)
    BY <1>6, <2>2, <2>4 DEF Fruitless
  <2>6. QED
    BY <1>4, <2>5
<1>8. CASE q # <<>> /\ Ends(rows, x)
  <2>1. ~Drops(x) /\ Outcome(x) = Head(q)
    BY <1>6, <1>8 DEF Ends, Outcome
  <2>2. Head(q) # Nobody
    BY <1>6, <2>1 DEF Drops
  <2>3. QED
    BY <1>4, <1>5, <1>8, <2>1, <2>2
<1>9. CASE ~Ends(rows, x)
  <2>1. PICK y : y = Onward(rows, x)
    OBVIOUS
  <2>2. y \in Places /\ Left(y) < Left(x) /\ Left(y) \in Nat /\ Left(x) \in Nat
    BY <1>9, <2>1, OnwardLeavesLess, LeftIsNatural
  <2>3. Sought(rows, y) /\ (Fruitless(rows, y) => Fruitless(rows, x))
    BY <1>4, <1>9, <2>1, SoughtOnward
  <2>4. Walk(rows)[y] = Nobody
    BY <1>4, <1>5, <1>9, <2>1
  <2>5. Left(y) \in Bad
    BY <1>4, <2>2, <2>3, <2>4
  <2>6. QED
    BY <1>3, <1>4, <2>2, <2>5
<1>10. QED
  BY <1>7, <1>8, <1>9

-----------------------------------------------------------------------------
(* Whose session sends *)

Asking(e, parent) == <<<<e, parent>>, {}>>

LEMMA AskingIsAPlace ==
    ASSUME NEW e \in Somebody, NEW parent \in Somebody
    PROVE  /\ Asking(e, parent) \in Places
           /\ Asking(e, parent)[1] = <<e, parent>> /\ Asking(e, parent)[2] = {}
           /\ <<e, parent>> \in Seq(Somebody) /\ <<e, parent>> # <<>>
           /\ Head(<<e, parent>>) = e /\ Tail(<<e, parent>>) = <<parent>>
<1>1. <<e, parent>> \in Seq(Somebody) /\ <<e, parent>> # <<>>
  OBVIOUS
<1>2. Head(<<e, parent>>) = e /\ Tail(<<e, parent>>) = <<parent>>
  OBVIOUS
<1>3. QED
  BY <1>1, <1>2 DEF Asking, Places

\* The entity's own session comes first, its parent's next.
LEMMA OwnBeforeParents ==
    ASSUME NEW rows \in Tables, NEW e \in Somebody, NEW parent \in Somebody
    PROVE  /\ e \in Entities /\ Active(rows, e) => Walk(rows)[Asking(e, parent)] = e
           /\ parent \in Entities /\ Active(rows, parent) /\ ~(e \in Entities /\ Active(rows, e))
                => Walk(rows)[Asking(e, parent)] = parent
<1>1. PICK x : x = Asking(e, parent)
  OBVIOUS
<1>2. x \in Places /\ x[1] = <<e, parent>> /\ x[2] = {} /\ x[1] # <<>> /\ Head(x[1]) = e /\ Tail(x[1]) = <<parent>>
  BY <1>1, AskingIsAPlace
<1>3. Walk(rows)[x] = IF Ends(rows, x) THEN Outcome(x) ELSE Walk(rows)[Onward(rows, x)]
  BY <1>2, WalkUnfolds
<1>4. Drops(x) <=> e = Nobody
  BY <1>2 DEF Drops
<1>5. Outcome(x) = e
  BY <1>2 DEF Outcome
<1>6. Nobody \notin Entities
  BY SessionsAssumption
<1>7. ASSUME e \in Entities, Active(rows, e) PROVE Walk(rows)[x] = e
  <2>1. Ends(rows, x)
    BY <1>2, <1>4, <1>6, <1>7 DEF Ends
  <2>2. QED
    BY <1>3, <1>5, <2>1
<1>8. ASSUME parent \in Entities, Active(rows, parent), ~(e \in Entities /\ Active(rows, e))
      PROVE  Walk(rows)[x] = parent
  <2>1. ~Ends(rows, x)
    BY <1>2, <1>4, <1>8 DEF Ends, Somebody
  <2>2. PICK y : y = Onward(rows, x)
    OBVIOUS
  <2>3. y \in Places
    BY <1>2, <2>1, <2>2, OnwardLeavesLess
  <2>4. e # parent
    BY <1>8
  <2>5. y[1] # <<>> /\ Head(y[1]) = parent /\ y[2] \subseteq {e}
    <3>1. CASE e = Nobody
      <4>1. y[1] = <<parent>> /\ y[2] = {}
        BY <1>2, <1>4, <2>2, <3>1 DEF Onward
      <4>2. <<parent>> # <<>> /\ Head(<<parent>>) = parent
        OBVIOUS
      <4>3. QED
        BY <4>1, <4>2
    <3>2. CASE e # Nobody
      <4>1. PICK p : p = ParentsOf(rows, e)
        OBVIOUS
      <4>2. y[1] = <<parent>> \o p /\ y[2] = {} \cup {e}
        BY <1>2, <1>4, <2>2, <3>2, <4>1 DEF Onward
      <4>3. e \in Entities
        BY <3>2 DEF Somebody
      <4>4. rows[e].parent \in Somebody
        BY <4>3 DEF Tables, SessionType
      <4>5. p = <<>> \/ p = <<rows[e].parent>>
        BY <4>1 DEF ParentsOf
      <4>6. <<parent>> \o p # <<>> /\ Head(<<parent>> \o p) = parent
        <5>1. CASE p = <<>>
          BY <5>1
        <5>2. CASE p = <<rows[e].parent>>
          BY <4>4, <5>2
        <5>3. QED
          BY <4>5, <5>1, <5>2
      <4>7. QED
        BY <4>2, <4>6
    <3>3. QED
      BY <3>1, <3>2
  <2>6. ~Drops(y)
    BY <1>6, <1>8, <2>4, <2>5 DEF Drops
  <2>7. Ends(rows, y) /\ Outcome(y) = parent
    BY <1>8, <2>5, <2>6 DEF Ends, Outcome
  <2>8. Walk(rows)[y] = parent
    BY <2>3, <2>7, WalkUnfolds
  <2>9. QED
    BY <1>3, <2>1, <2>2, <2>8
<1>9. QED
  BY <1>1, <1>7, <1>8

NearOnes(e, parent) ==
    {x \in Entities : Active(session, x) /\ (Reaches(e, x) \/ Reaches(parent, x))}

Nearest(e, parent, near, found) ==
    /\ near # {} => found \in near
    /\ near = {} => found = FallbackOf(session)
    /\ e \in near => found = e
    /\ e \notin near /\ parent \in near => found = parent

LEMMA NearestIsFound == session \in Tables => ResolutionIsNearest
<1>1. SUFFICES ASSUME session \in Tables PROVE ResolutionIsNearest
  OBVIOUS
<1>2. SUFFICES ASSUME NEW e \in Somebody, NEW parent \in Somebody,
                      NEW near, near = NearOnes(e, parent),
                      NEW found, found = ResolveSession(session, e, parent)
               PROVE  Nearest(e, parent, near, found)
  <2>1. ResolutionIsNearest <=>
           \A e, parent \in Somebody : Nearest(e, parent, NearOnes(e, parent), ResolveSession(session, e, parent))
    BY DEF ResolutionIsNearest, NearOnes, Nearest
  <2>2. QED
    BY <2>1
<1> USE DEF NearOnes
<1>3. PICK walked : walked = Walk(session)[Asking(e, parent)]
  OBVIOUS
<1>4. found = IF walked # Nobody THEN walked ELSE FallbackOf(session)
  BY <1>2, <1>3 DEF ResolveSession, Asking
<1>5. Nobody \notin Entities
  BY SessionsAssumption
<1>6. \A T : e \in T /\ parent \in T => Within(Asking(e, parent)[1], T)
  <2>1. ASSUME NEW T, e \in T, parent \in T PROVE Within(<<e, parent>>, T)
    <3>1. \A i \in 1..Len(<<e, parent>>) : <<e, parent>>[i] \in {e, parent}
      OBVIOUS
    <3>2. QED
      BY <2>1, <3>1 DEF Within
  <2>2. QED
    BY <2>1, AskingIsAPlace
<1>7. ASSUME walked # Nobody PROVE walked \in near
  <2>1. \A T \in SUBSET Somebody :
           Leads(session, T) /\ e \in T /\ parent \in T
             => walked \in T \cap Entities /\ Active(session, walked)
    BY <1>1, <1>3, <1>6, <1>7, AskingIsAPlace, FoundIsReached
  <2>2. walked \in Entities /\ Active(session, walked)
    <3>1. Leads(session, Somebody) /\ Somebody \in SUBSET Somebody
      BY <1>1 DEF Leads, Tables, SessionType, Somebody
    <3>2. QED
      BY <2>1, <3>1
  <2>3. ASSUME ~Reaches(e, walked), ~Reaches(parent, walked) PROVE FALSE
    <3>1. PICK T \in SUBSET (Somebody \ {walked}) : e \in T /\ HasParents(T)
      BY <2>3 DEF Reaches
    <3>2. PICK U \in SUBSET (Somebody \ {walked}) : parent \in U /\ HasParents(U)
      BY <2>3 DEF Reaches
    <3>3. Leads(session, T \cup U)
      BY <3>1, <3>2 DEF Leads, HasParents
    <3>4. T \cup U \in SUBSET Somebody /\ e \in T \cup U /\ parent \in T \cup U /\ walked \notin T \cup U
      BY <3>1, <3>2
    <3>5. QED
      BY <2>1, <3>3, <3>4
  <2>4. QED
    BY <1>2, <2>2, <2>3
<1>8. ASSUME walked = Nobody PROVE near = {}
  <2>1. Sought(session, Asking(e, parent))
    BY AskingIsAPlace DEF Sought
  <2>2. Fruitless(session, Asking(e, parent))
    BY <1>1, <1>3, <1>8, <2>1, AskingIsAPlace, NoneIsFoundInVain
  <2>3. PICK T \in SUBSET Somebody :
           /\ Leads(session, T) /\ Within(<<e, parent>>, T)
           /\ \A x \in T \ {Nobody} : ~Active(session, x)
    BY <2>2, AskingIsAPlace DEF Fruitless
  <2>4. e \in T /\ parent \in T
    <3>1. 1 \in 1..Len(<<e, parent>>) /\ 2 \in 1..Len(<<e, parent>>) /\ <<e, parent>>[1] = e /\ <<e, parent>>[2] = parent
      OBVIOUS
    <3>2. <<e, parent>>[1] \in T /\ <<e, parent>>[2] \in T
      BY <2>3, <3>1 DEF Within
    <3>3. QED
      BY <3>1, <3>2
  <2>5. ASSUME NEW x \in Entities, Active(session, x) PROVE ~Reaches(e, x) /\ ~Reaches(parent, x)
    <3>1. T \in SUBSET (Somebody \ {x})
      BY <1>5, <2>3, <2>5
    <3>2. HasParents(T)
      BY <2>3 DEF Leads, HasParents
    <3>3. QED
      BY <2>4, <3>1, <3>2 DEF Reaches
  <2>6. QED
    BY <1>2, <2>5
<1>9. ASSUME e \in near PROVE found = e
  <2>1. walked = e
    BY <1>1, <1>2, <1>3, <1>9, OwnBeforeParents
  <2>2. QED
    BY <1>2, <1>4, <1>5, <1>9, <2>1
<1>10. ASSUME e \notin near, parent \in near PROVE found = parent
  <2>1. Reaches(e, e)
    BY DEF Reaches
  <2>2. ~(e \in Entities /\ Active(session, e))
    BY <1>2, <1>10, <2>1
  <2>3. walked = parent
    BY <1>1, <1>2, <1>3, <1>10, <2>2, OwnBeforeParents
  <2>4. QED
    BY <1>2, <1>4, <1>5, <1>10, <2>3
<1>11. QED
  BY <1>4, <1>7, <1>8, <1>9, <1>10 DEF Nearest

\* Of three candidates the first in a set.
LEMMA FirstOfThree ==
    ASSUME NEW a, NEW b, NEW c, NEW S
    PROVE  /\ a \in S => FirstAmong(<<a, b, c>>, S) = a
           /\ a \notin S /\ b \in S => FirstAmong(<<a, b, c>>, S) = b
           /\ a \notin S /\ b \notin S /\ c \in S => FirstAmong(<<a, b, c>>, S) = c
<1> DEFINE cands == <<a, b, c>>
           hits == {i \in DOMAIN cands : cands[i] \in S}
           first == CHOOSE i \in hits : \A j \in hits : i <= j
<1>1. DOMAIN cands = 1..3 /\ cands[1] = a /\ cands[2] = b /\ cands[3] = c
  OBVIOUS
<1>2. hits \subseteq 1..3 /\ (1 \in hits <=> a \in S) /\ (2 \in hits <=> b \in S) /\ (3 \in hits <=> c \in S)
  BY <1>1
<1>3. FirstAmong(cands, S) = IF hits = {} THEN Nobody ELSE cands[first]
  BY DEF FirstAmong
<1> HIDE DEF hits
<1>4. ASSUME NEW n \in hits, \A j \in hits : n <= j PROVE first = n
  <2>1. first \in hits /\ \A j \in hits : first <= j
    BY <1>4
  <2>2. n <= first /\ first <= n /\ n \in 1..3 /\ first \in 1..3
    BY <1>2, <1>4, <2>1
  <2>3. \A x, y \in 1..3 : x <= y /\ y <= x => x = y
    OBVIOUS
  <2>4. QED
    BY <2>2, <2>3
<1> HIDE DEF first, cands
<1>5. ASSUME a \in S PROVE FirstAmong(cands, S) = a
  <2>1. 1 \in hits /\ \A j \in hits : 1 <= j
    BY <1>2, <1>5
  <2>2. QED
    BY <1>1, <1>3, <1>4, <2>1
<1>6. ASSUME a \notin S, b \in S PROVE FirstAmong(cands, S) = b
  <2>1. 2 \in hits /\ \A j \in hits : 2 <= j
    BY <1>2, <1>6
  <2>2. QED
    BY <1>1, <1>3, <1>4, <2>1
<1>7. ASSUME a \notin S, b \notin S, c \in S PROVE FirstAmong(cands, S) = c
  <2>1. 3 \in hits /\ \A j \in hits : 3 <= j
    BY <1>2, <1>7
  <2>2. QED
    BY <1>1, <1>3, <1>4, <2>1
<1>8. QED
  BY <1>5, <1>6, <1>7 DEF cands

LEMMA OwnersSend == session \in Tables => TemplateOwnerSends
<1>1. SUFFICES ASSUME session \in Tables PROVE TemplateOwnerSends
  OBVIOUS
<1>2. PICK f : f = FallbackOf(session)
  OBVIOUS
<1>3. SUFFICES ASSUME NEW e \in Entities, NEW parent \in Somebody, NEW t \in Templates,
                      NEW cands, cands = Candidates(e, parent, IF cached = Nobody THEN f ELSE cached),
                      NEW owner, owner = Find(cands, t),
                      NEW sender, sender = ResolveSession(session, e, parent),
                      owner # Nobody, sender # Nobody, Active(session, owner), Approved(sender, t),
                      sender \in {e, parent, f}, cached \in {Nobody, f}
               PROVE  owner = sender
  BY <1>2 DEF TemplateOwnerSends
<1>4. cands = <<e, parent, f>>
  BY <1>3 DEF Candidates
<1>5. Nobody \notin Entities /\ f \in Somebody /\ e \in Somebody
  BY <1>2, SessionsAssumption, FallbackIsSomebody DEF Somebody
<1>6. PICK S : S = {x \in Entities : Approved(x, t)}
  OBVIOUS
<1>7. sender \in S
  BY <1>3, <1>5, <1>6 DEF Somebody
<1>8. PICK approved : approved = FirstAmong(cands, S)
  OBVIOUS
<1>9. approved \in S
  BY <1>3, <1>4, <1>7, <1>8, FirstOfThree
<1>10. owner = approved
  BY <1>3, <1>5, <1>6, <1>8, <1>9 DEF Find
<1>11. PICK walked : walked = Walk(session)[Asking(e, parent)]
  OBVIOUS
<1>12. sender = IF walked # Nobody THEN walked ELSE f
  BY <1>2, <1>3, <1>11 DEF ResolveSession, Asking
<1>13. CASE e \in S
  <2>1. owner = e
    BY <1>4, <1>8, <1>10, <1>13, FirstOfThree
  <2>2. walked = e
    BY <1>1, <1>3, <1>5, <1>11, <2>1, OwnBeforeParents
  <2>3. QED
    BY <1>3, <1>12, <2>1, <2>2
<1>14. CASE e \notin S /\ parent \in S
  <2>1. owner = parent /\ parent \in Entities
    BY <1>4, <1>6, <1>8, <1>10, <1>14, FirstOfThree
  <2>2. ~Active(session, e)
    <3>1. ASSUME Active(session, e) PROVE FALSE
      <4>1. walked = e
        BY <1>1, <1>3, <1>5, <1>11, <3>1, OwnBeforeParents
      <4>2. sender = e
        BY <1>3, <1>5, <1>12, <4>1
      <4>3. QED
        BY <1>7, <1>14, <4>2
    <3>2. QED
      BY <3>1
  <2>3. walked = parent
    BY <1>1, <1>3, <1>5, <1>11, <2>1, <2>2, OwnBeforeParents
  <2>4. QED
    BY <1>3, <1>12, <2>1, <2>3
<1>15. CASE e \notin S /\ parent \notin S
  <2>1. sender = f
    BY <1>3, <1>7, <1>15
  <2>2. owner = f
    BY <1>4, <1>7, <1>8, <1>10, <1>15, <2>1, FirstOfThree
  <2>3. QED
    BY <2>1, <2>2
<1>16. QED
  BY <1>13, <1>14, <1>15

LEMMA TablesOfSessions == WhatsAppSpec => [](session \in Tables)
<1>1. SessionsInv => session \in Tables
  BY DEF SessionsInv, Tables
<1>2. WhatsAppInit => SessionsInv
  BY SessionsInitInv DEF WhatsAppInit
<1>3. SessionsInv /\ [WhatsAppNext]_whatsappVars => SessionsInv'
  BY SessionsNextKeeps DEF WhatsAppNext, whatsappVars
<1>4. QED
  BY <1>1, <1>2, <1>3, PTL DEF WhatsAppSpec

\* Whatever parents the sessions name, cycles included, the search of
\* resolveWhatsAppSession ends, and takes the nearest active session; the fallback
\* only if none is reached. The recursion of the search has one solution, and
\* what it finds is bounded by the sets that hold the parents of their members.
THEOREM ResolutionIsNearestAlways == WhatsAppSpec => []ResolutionIsNearest
<1>1. QED
  BY TablesOfSessions, NearestIsFound, PTL

\* The session that sends an approved template is its owner's, up to the
\* exceptions TemplateOwnerSends names, for every table of sessions and templates.
THEOREM TemplateOwnerSendsAlways == WhatsAppSpec => []TemplateOwnerSends
<1>1. QED
  BY TablesOfSessions, OwnersSend, PTL

-----------------------------------------------------------------------------
(* Dispatch: how many messages an attempt may send to a number *)

LEMMA OneMoreTime ==
    \A s, k \in Nat : /\ s * k \in Nat /\ s * (1 + k) \in Nat
                     /\ s * (k + 1) = s * k + s
<1>1. QED
  OBVIOUS

To(R, n) == {a \in R : a.number = n}

AtMostOnce(R) == \A a, b \in R : a.number = b.number => a = b

LEMMA SetupsAreKnown ==
    \A s \in Setups : /\ s.channel \in {"push", "email", "sms", "whatsapp", "call", "inapp"}
                      /\ s.user \in SUBSET Addresses /\ IsFiniteSet(s.user)
<1>1. QED
  BY DispatchAssumption

Me == [number |-> Myself, spelling |-> 1, valid |-> TRUE]

LEMMA MeIsOne == Me \in Addresses /\ AtMostOnce({Me}) /\ IsFiniteSet({Me})
<1>1. Me \in Addresses
  BY DispatchAssumption DEF Me, Addresses
<1>2. QED
  BY <1>1, FS_Singleton DEF AtMostOnce

LEMMA FewRecipients ==
    ASSUME NEW u \in SUBSET Addresses, IsFiniteSet(u)
    PROVE  /\ Single(u) \in SUBSET u /\ AtMostOnce(Single(u)) /\ IsFiniteSet(Single(u))
           /\ OneSpelling(u) \in SUBSET u /\ AtMostOnce(OneSpelling(u)) /\ IsFiniteSet(OneSpelling(u))
<1>1. Single(u) \in SUBSET u /\ AtMostOnce(Single(u))
  BY DEF Single, AtMostOnce
<1>2. ASSUME NEW a \in OneSpelling(u)
      PROVE  a \in u /\ a = CHOOSE x \in u : x.number = a.number
  <2>1. PICK n \in {x.number : x \in u} : a = CHOOSE x \in u : x.number = n
    BY DEF OneSpelling
  <2>2. \E x \in u : x.number = n
    BY <2>1
  <2>3. a \in u /\ a.number = n
    BY <2>1, <2>2
  <2>4. QED
    BY <2>1, <2>3
<1>3. OneSpelling(u) \in SUBSET u
  BY <1>2
<1>4. AtMostOnce(OneSpelling(u))
  <2>1. ASSUME NEW a \in OneSpelling(u), NEW b \in OneSpelling(u), a.number = b.number
        PROVE  a = b
    BY <1>2, <2>1
  <2>2. QED
    BY <2>1 DEF AtMostOnce
<1>5. QED
  BY <1>1, <1>3, <1>4, FS_Subset

LEMMA AtMostOnceCounts ==
    ASSUME NEW R \in SUBSET Addresses, IsFiniteSet(R), AtMostOnce(R), NEW n
    PROVE  Cardinality(To(R, n)) <= 1
<1>1. CASE To(R, n) = {}
  BY <1>1, FS_EmptySet
<1>2. CASE To(R, n) # {}
  <2>1. PICK a : a \in To(R, n)
    BY <1>2
  <2>2. To(R, n) = {a}
    BY <2>1 DEF To, AtMostOnce
  <2>3. Cardinality({a}) = 1
    BY FS_Singleton
  <2>4. QED
    BY <2>2, <2>3
<1>3. QED
  BY <1>1, <1>2

Phones == {"sms", "whatsapp", "call"}

\* An adapter sends to addresses of the user, all of them where a number may be
\* spelled in several ways, and one of each number elsewhere.
LEMMA RecipientsAreTheUsers ==
    ASSUME setup \in Setups, NEW adapter
    PROVE  /\ Recipients(adapter) \in SUBSET Addresses
           /\ IsFiniteSet(Recipients(adapter))
           /\ setup.channel \in Phones => Recipients(adapter) \subseteq setup.user
           /\ setup.channel \notin Phones => AtMostOnce(Recipients(adapter))
<1>1. PICK u : u = setup.user
  OBVIOUS
<1>2. u \in SUBSET Addresses /\ IsFiniteSet(u)
  BY <1>1, SetupsAreKnown
<1>3. setup.channel \in {"push", "email", "sms", "whatsapp", "call", "inapp"}
  BY SetupsAreKnown
<1>4. PICK mails \in SUBSET Addresses : mails = {a \in u : a.valid}
  BY <1>2
<1>5. IsFiniteSet(mails)
  BY <1>2, <1>4, FS_Subset
<1>6. /\ Single(u) \in SUBSET u /\ AtMostOnce(Single(u)) /\ IsFiniteSet(Single(u))
      /\ OneSpelling(u) \in SUBSET u /\ AtMostOnce(OneSpelling(u)) /\ IsFiniteSet(OneSpelling(u))
  BY <1>2, FewRecipients
<1>7. /\ OneSpelling(mails) \in SUBSET mails /\ AtMostOnce(OneSpelling(mails))
      /\ IsFiniteSet(OneSpelling(mails))
  BY <1>5, FewRecipients
<1>8. Me \in Addresses /\ AtMostOnce({Me}) /\ IsFiniteSet({Me})
  BY MeIsOne
<1>9. CASE setup.channel = "push"
  <2>1. Recipients(adapter) \in {{Me}, Single(u), OneSpelling(u)}
    BY <1>1, <1>9 DEF Recipients, PushTokens, Me
  <2>2. QED
    BY <1>2, <1>6, <1>8, <1>9, <2>1 DEF Phones
<1>10. CASE setup.channel = "email"
  <2>1. Recipients(adapter) \in {Single(u), OneSpelling(mails)}
    BY <1>1, <1>4, <1>10 DEF Recipients, MailAddresses
  <2>2. QED
    BY <1>2, <1>6, <1>7, <1>10, <2>1 DEF Phones
<1>11. CASE setup.channel = "inapp"
  <2>1. Recipients(adapter) = {Me}
    BY <1>11 DEF Recipients, Me
  <2>2. QED
    BY <1>8, <1>11, <2>1 DEF Phones
<1>12. CASE setup.channel \in Phones
  <2>1. Recipients(adapter) \in {Single(u), u}
    BY <1>1, <1>12 DEF Recipients, PhoneNumbers, Phones
  <2>2. QED
    BY <1>1, <1>2, <1>6, <1>12, <2>1
<1>13. QED
  BY <1>3, <1>9, <1>10, <1>11, <1>12 DEF Phones

LEMMA SpellingsAreCounted ==
    ASSUME setup \in Setups
    PROVE  \A n : /\ Spellings(n) \in Nat
                  /\ setup.channel \in Phones => Spellings(n) = Cardinality(To(setup.user, n))
                  /\ setup.channel \notin Phones => Spellings(n) = 1
<1>1. ASSUME NEW n
      PROVE  /\ Spellings(n) \in Nat
             /\ setup.channel \in Phones => Spellings(n) = Cardinality(To(setup.user, n))
             /\ setup.channel \notin Phones => Spellings(n) = 1
  <2>1. IsFiniteSet(To(setup.user, n))
    BY SetupsAreKnown, FS_Subset DEF To
  <2>2. Cardinality(To(setup.user, n)) \in Nat
    BY <2>1, FS_CardinalityType
  <2>3. QED
    BY <2>2 DEF Spellings, Phones, To
<1>2. QED
  BY <1>1

\* One attempt sends to a number as often as it is spelled.
LEMMA AttemptReaches ==
    ASSUME setup \in Setups, NEW adapter, NEW n
    PROVE  Cardinality(To(Recipients(adapter), n)) <= Spellings(n)
<1>1. PICK R : R = Recipients(adapter)
  OBVIOUS
<1>2. /\ R \in SUBSET Addresses /\ IsFiniteSet(R)
      /\ setup.channel \in Phones => R \subseteq setup.user
      /\ setup.channel \notin Phones => AtMostOnce(R)
  BY <1>1, RecipientsAreTheUsers
<1>3. CASE setup.channel \in Phones
  <2>1. To(R, n) \in SUBSET To(setup.user, n)
    BY <1>2, <1>3 DEF To
  <2>2. IsFiniteSet(To(setup.user, n))
    BY SetupsAreKnown, FS_Subset DEF To
  <2>3. Cardinality(To(R, n)) <= Cardinality(To(setup.user, n))
    BY <2>1, <2>2, FS_Subset
  <2>4. QED
    BY <1>1, <1>3, <2>3, SpellingsAreCounted
<1>4. CASE setup.channel \notin Phones
  <2>1. Cardinality(To(R, n)) <= 1
    BY <1>2, <1>4, AtMostOnceCounts
  <2>2. QED
    BY <1>1, <1>4, <2>1, SpellingsAreCounted
<1>5. QED
  BY <1>3, <1>4

-----------------------------------------------------------------------------
(* The invariant: an attempt that is not the last one confirmed nobody *)

\* Adapters with a request for each recipient; the others make one for all.
OneByOne ==
    \/ via.name \in {"meta", "twilio"}
    \/ via.name = "msg91" /\ setup.channel \in {"whatsapp", "email"}

Explained(n) == copies[n] <= Spellings(n) * (1 + silent + losses)
ExplainedBefore(n) == copies[n] <= Spellings(n) * (silent + losses)

DispatchInv ==
    /\ setup \in Setups
    /\ phase \in {"waiting", "sending", "answered", "sent", "rejected", "dead"}
    /\ copies \in [Numbers -> Nat] /\ silent \in Nat /\ losses \in Nat
    /\ IsFiniteSet(recipients) /\ todo \subseteq recipients
    /\ \A n \in Numbers : Cardinality(To(recipients, n)) <= Spellings(n)
    /\ phase = "waiting" => \A n \in Numbers : ExplainedBefore(n)
    /\ phase # "waiting" => \A n \in Numbers : Explained(n)
    /\ phase = "sending" =>
          /\ \A n \in Numbers :
                copies[n] + Cardinality(To(todo, n)) <= Spellings(n) * (1 + silent + losses)
          /\ ids \cup failures \subseteq recipients \ todo
          /\ ~OneByOne => todo = recipients
    /\ phase = "answered" => (result = "success" \/ ids = {})

LEMMA DispatchInitInv == DispatchInit => DispatchInv
<1> SUFFICES ASSUME DispatchInit PROVE DispatchInv
  OBVIOUS
<1>1. setup \in Setups
  BY DEF DispatchInit
<1>2. \A n \in Numbers : To({}, n) = {} /\ Cardinality({}) = 0 /\ IsFiniteSet({})
  BY FS_EmptySet DEF To
<1>3. \A n \in Numbers : Spellings(n) \in Nat
  BY <1>1, SpellingsAreCounted
<1>4. \A n \in Numbers : Spellings(n) * (0 + 0) = 0
  BY <1>3
<1>5. IsFiniteSet({})
  BY FS_EmptySet
<1>6. /\ recipients = {} /\ todo = {} /\ phase = "waiting"
      /\ copies = [n \in Numbers |-> 0] /\ silent = 0 /\ losses = 0
  BY DEF DispatchInit
<1>7. \A n \in Numbers : Cardinality(To(recipients, n)) <= Spellings(n)
  BY <1>2, <1>3, <1>6
<1>8. \A n \in Numbers : ExplainedBefore(n)
  BY <1>4, <1>6 DEF ExplainedBefore
<1>9. QED
  BY <1>1, <1>5, <1>6, <1>7, <1>8 DEF DispatchInv

\* An adapter is taken up, after a lookup that may have failed.
LEMMA UseAdapterKeeps ==
    ASSUME DispatchInv, phase = "waiting", NEW adapter, UseAdapter(adapter),
           NEW later \in Nat, losses <= later, losses' = later
    PROVE  DispatchInv'
<1>1. PICK R : R = Recipients(adapter)
  OBVIOUS
<1>2. setup \in Setups /\ setup' = setup /\ copies' = copies /\ silent' = silent
      /\ copies \in [Numbers -> Nat] /\ silent \in Nat /\ losses \in Nat
  BY DEF DispatchInv, UseAdapter
<1>3. IsFiniteSet(R) /\ \A n \in Numbers : Cardinality(To(R, n)) <= Spellings(n)
  BY <1>1, <1>2, RecipientsAreTheUsers, AttemptReaches
<1>4. \A n \in Numbers : Spellings(n) \in Nat /\ Spellings(n)' = Spellings(n)
  BY <1>2, SpellingsAreCounted DEF Spellings
<1>5. \A n \in Numbers : Cardinality(To(R, n)) \in Nat
  <2>1. ASSUME NEW n \in Numbers PROVE Cardinality(To(R, n)) \in Nat
    BY <1>3, FS_Subset, FS_CardinalityType DEF To
  <2>2. QED
    BY <2>1
<1>6. ASSUME NEW n \in Numbers
      PROVE  copies[n] + Cardinality(To(R, n)) <= Spellings(n) * (1 + silent + later)
  <2>1. PICK s \in Nat : s = Spellings(n)
    BY <1>4
  <2>2. PICK k \in Nat : k = silent + losses
    BY <1>2
  <2>3. PICK m \in Nat : m = silent + later
    BY <1>2
  <2>4. PICK c \in Nat : c = copies[n]
    BY <1>2
  <2>5. PICK x \in Nat : x = Cardinality(To(R, n))
    BY <1>5
  <2>6. c <= s * k
    BY <2>1, <2>2, <2>4 DEF DispatchInv, ExplainedBefore
  <2>7. x <= s
    BY <1>3, <2>1, <2>5
  <2>8. k <= m
    BY <1>2, <2>2, <2>3
  <2>9. s * k <= s * m /\ s * (m + 1) = s * m + s /\ s * k \in Nat /\ s * m \in Nat
    BY <2>8
  <2>10. c + x <= s * (m + 1)
    BY <2>6, <2>7, <2>9
  <2>11. m + 1 = 1 + silent + later
    BY <1>2, <2>3
  <2>12. QED
    BY <2>1, <2>4, <2>5, <2>10, <2>11
<1>7. \A n \in Numbers : copies[n] <= Spellings(n) * (1 + silent + later)
  <2>1. ASSUME NEW n \in Numbers PROVE copies[n] <= Spellings(n) * (1 + silent + later)
    <3>1. PICK y : y = Spellings(n) * (1 + silent + later)
      OBVIOUS
    <3>2. y \in Nat
      BY <1>2, <1>4, <3>1, OneMoreTime
    <3>3. copies[n] + Cardinality(To(R, n)) <= y
      BY <1>6, <3>1
    <3>4. copies[n] \in Nat /\ Cardinality(To(R, n)) \in Nat
      BY <1>2, <1>5
    <3>5. QED
      BY <3>1, <3>2, <3>3, <3>4
  <2>2. QED
    BY <2>1
<1>8. /\ recipients' = R /\ ids' = {} /\ failures' = {} /\ todo' \in {R, {}}
      /\ phase' \in {"answered", "sending"}
      /\ phase' = "sending" => todo' = R
  BY <1>1 DEF UseAdapter
<1>9. (\A n \in Numbers : Explained(n))'
  BY <1>2, <1>4, <1>7 DEF Explained
<1>10. phase' = "sending" =>
          (\A n \in Numbers :
              copies[n] + Cardinality(To(todo, n)) <= Spellings(n) * (1 + silent + losses))'
  BY <1>2, <1>4, <1>6, <1>8
<1>11. (\A n \in Numbers : Cardinality(To(recipients, n)) <= Spellings(n))'
  BY <1>3, <1>4, <1>8
<1>12. phase' # "waiting"
  BY <1>8
<1>13. QED
  BY <1>2, <1>3, <1>8, <1>9, <1>10, <1>11, <1>12 DEF DispatchInv

LEMMA PartsOfTodo ==
    ASSUME DispatchInv, NEW R \in SUBSET todo, NEW S \in SUBSET (todo \ R), NEW n
    PROVE  /\ Cardinality(To(R, n)) \in Nat /\ Cardinality(To(S, n)) \in Nat
           /\ Cardinality(To(todo, n)) \in Nat
           /\ Cardinality(To(R, n)) + Cardinality(To(S, n)) <= Cardinality(To(todo, n))
<1>1. IsFiniteSet(todo)
  BY FS_Subset DEF DispatchInv
<1>2. PICK x, y, z : x = To(R, n) /\ y = To(S, n) /\ z = To(todo, n)
  OBVIOUS
<1>3. /\ x \in SUBSET z /\ y \in SUBSET z /\ z \in SUBSET todo
      /\ x \cap y = {} /\ x \cup y \in SUBSET z
  BY <1>2 DEF To
<1>4. IsFiniteSet(x) /\ IsFiniteSet(y) /\ IsFiniteSet(z) /\ IsFiniteSet(x \cup y)
  BY <1>1, <1>3, FS_Subset
<1>5. /\ Cardinality(x) \in Nat /\ Cardinality(y) \in Nat /\ Cardinality(z) \in Nat
  BY <1>4, FS_CardinalityType
<1>6. Cardinality(x \cup y) = Cardinality(x) + Cardinality(y)
  <2>1. Cardinality(x \cup y) = Cardinality(x) + Cardinality(y) - Cardinality(x \cap y)
    BY <1>4, FS_Union
  <2>2. Cardinality(x \cap y) = 0
    BY <1>3, FS_EmptySet
  <2>3. QED
    BY <1>5, <2>1, <2>2
<1>7. Cardinality(x \cup y) <= Cardinality(z)
  BY <1>3, <1>4, FS_Subset
<1>8. QED
  BY <1>2, <1>5, <1>6, <1>7

\* What came of some of those still to be sent to.
LEMMA PostKeeps ==
    ASSUME DispatchInv, phase = "sending", SameJob, NEW R \in SUBSET todo, Reach(R),
           todo' \in SUBSET (todo \ R),
           \/ phase' = "answered" /\ (result' = "success" \/ ids' = {})
           \/ phase' = "sending" /\ OneByOne /\ ids' \cup failures' \subseteq recipients \ todo'
    PROVE  DispatchInv'
<1>1. PICK S \in SUBSET (todo \ R) : S = todo'
  OBVIOUS
<1>2. /\ setup' = setup /\ via' = via /\ recipients' = recipients
      /\ silent' = silent /\ losses' = losses
      /\ setup \in Setups /\ silent \in Nat /\ losses \in Nat /\ copies \in [Numbers -> Nat]
      /\ IsFiniteSet(recipients) /\ todo \subseteq recipients
  BY DEF SameJob, DispatchInv
<1>3. \A n \in Numbers : Spellings(n)' = Spellings(n) /\ Spellings(n) \in Nat
  BY <1>2, SpellingsAreCounted DEF Spellings
<1>4. copies' = [n \in Numbers |-> copies[n] + Cardinality(To(R, n))]
  BY DEF Reach, To
<1>5. \A n : /\ Cardinality(To(R, n)) \in Nat /\ Cardinality(To(S, n)) \in Nat
             /\ Cardinality(To(todo, n)) \in Nat
             /\ Cardinality(To(R, n)) + Cardinality(To(S, n)) <= Cardinality(To(todo, n))
  BY PartsOfTodo
<1>6. copies' \in [Numbers -> Nat]
  BY <1>2, <1>4, <1>5
<1>7. ASSUME NEW n \in Numbers
      PROVE  /\ copies'[n] + Cardinality(To(S, n)) <= Spellings(n) * (1 + silent + losses)
             /\ copies'[n] <= Spellings(n) * (1 + silent + losses)
  <2>1. PICK y : y = Spellings(n) * (1 + silent + losses)
    OBVIOUS
  <2>2. y \in Nat
    BY <1>2, <1>3, <2>1
  <2>3. copies[n] + Cardinality(To(todo, n)) <= y /\ copies[n] \in Nat
    BY <1>2, <2>1 DEF DispatchInv
  <2>4. copies'[n] = copies[n] + Cardinality(To(R, n))
    BY <1>4
  <2>5. copies'[n] + Cardinality(To(S, n)) <= y /\ copies'[n] <= y
    BY <1>5, <2>2, <2>3, <2>4
  <2>6. QED
    BY <2>1, <2>5
<1>8. (\A n \in Numbers : Explained(n))'
  BY <1>2, <1>3, <1>7 DEF Explained
<1>9. (\A n \in Numbers :
          copies[n] + Cardinality(To(todo, n)) <= Spellings(n) * (1 + silent + losses))'
  BY <1>1, <1>2, <1>3, <1>7
<1>10. (\A n \in Numbers : Cardinality(To(recipients, n)) <= Spellings(n))'
  BY <1>2, <1>3 DEF DispatchInv
<1>11. todo' \subseteq recipients' /\ OneByOne' = OneByOne
  BY <1>2 DEF OneByOne
<1>12. CASE phase' = "answered" /\ (result' = "success" \/ ids' = {})
  BY <1>2, <1>6, <1>8, <1>10, <1>11, <1>12 DEF DispatchInv
<1>13. CASE phase' = "sending" /\ OneByOne /\ ids' \cup failures' \subseteq recipients \ todo'
  BY <1>2, <1>6, <1>8, <1>9, <1>10, <1>11, <1>13 DEF DispatchInv
<1>14. QED
  BY <1>12, <1>13

LEMMA NobodyIsReached ==
    ASSUME DispatchInv, NobodyReached
    PROVE  Reach({})
<1>1. \A n : {a \in {} : a.number = n} = {} /\ Cardinality({}) = 0
  BY FS_EmptySet
<1>2. copies \in [Numbers -> Nat] /\ copies' = copies
  BY DEF DispatchInv, NobodyReached
<1>3. \A n \in Numbers : copies[n] + 0 = copies[n]
  BY <1>2
<1>4. QED
  BY <1>1, <1>2, <1>3 DEF Reach

\* One request of several.
LEMMA PostToKeeps ==
    ASSUME DispatchInv, OneByOne, NEW a \in todo, NEW sendable, PostTo(a, sendable)
    PROVE  DispatchInv'
<1>1. /\ phase = "sending" /\ todo' = todo \ {a} /\ SameJob
      /\ ids \cup failures \subseteq recipients \ todo /\ todo \subseteq recipients
  BY DEF PostTo, DispatchInv
<1>2. PICK R \in SUBSET {a} : Reach(R)
  <2>1. CASE NobodyReached
    BY <2>1, NobodyIsReached
  <2>2. CASE Reach({a})
    BY <2>2
  <2>3. QED
    BY <2>1, <2>2 DEF PostTo, Refused, Accepted, AcceptedUnnamed, NoAnswer
<1>3. \/ ids' = ids \cup {a} /\ failures' = failures
      \/ ids' = ids /\ failures' = failures
      \/ ids' = ids /\ failures' = failures \cup {a}
  BY DEF PostTo, Refused, Accepted, AcceptedUnnamed, NoAnswer
<1>4. ids' \cup failures' \subseteq recipients \ todo'
  BY <1>1, <1>3
<1>5. todo' \in SUBSET (todo \ R) /\ R \in SUBSET todo
  BY <1>1
<1>6. CASE todo' = {}
  <2>1. phase' = "answered" /\ result' = EachResult
    BY <1>6 DEF PostTo
  <2>2. result' = "success" \/ ids' = {}
    <3>1. CASE Cardinality(recipients) = 1
      <4>1. recipients = {a}
        <5>1. IsFiniteSet(recipients)
          BY DEF DispatchInv
        <5>2. \E x : recipients = {x}
          BY <1>1, <3>1, <5>1, FS_Singleton
        <5>3. QED
          BY <1>1, <5>2
      <4>2. ids = {} /\ failures = {}
        BY <1>1, <4>1
      <4>3. failures' = {} \/ ids' = {}
        BY <1>3, <4>2
      <4>4. QED
        BY <2>1, <3>1, <4>3 DEF EachResult
    <3>2. CASE Cardinality(recipients) # 1
      BY <2>1, <3>2 DEF EachResult
    <3>3. QED
      BY <3>1, <3>2
  <2>3. QED
    BY <1>1, <1>2, <1>5, <2>1, <2>2, PostKeeps
<1>7. CASE todo' # {}
  <2>1. phase' = "sending"
    BY <1>1, <1>7 DEF PostTo
  <2>2. QED
    BY <1>1, <1>2, <1>4, <1>5, <2>1, PostKeeps
<1>8. QED
  BY <1>6, <1>7

\* One request for all, which reaches those of R.
LEMMA PostOnceKeeps ==
    ASSUME DispatchInv, phase = "sending", ~OneByOne, SameJob,
           NEW R \in SUBSET recipients, Reach(R),
           phase' = "answered", todo' = {}, result' = "success" \/ ids' = {}
    PROVE  DispatchInv'
<1>1. todo = recipients
  BY DEF DispatchInv
<1>2. R \in SUBSET todo /\ todo' \in SUBSET (todo \ R)
  BY <1>1
<1>3. QED
  BY <1>2, PostKeeps

LEMMA PostToAllKeeps ==
    ASSUME DispatchInv, ~OneByOne, PostToAll
    PROVE  DispatchInv'
<1>1. PICK R \in SUBSET recipients : Reach(R)
  BY NobodyIsReached DEF PostToAll
<1>2. /\ phase = "sending" /\ phase' = "answered" /\ todo' = {} /\ SameJob
      /\ result' = "success" \/ ids' = {}
  BY DEF PostToAll
<1>3. QED
  BY <1>1, <1>2, PostOnceKeeps

LEMMA PostStepKeeps ==
    ASSUME DispatchInv, Post
    PROVE  DispatchInv'
<1>1. CASE PostMeta \/ PostTwilio \/ PostMsg91WhatsApp \/ PostMsg91Email
  <2>1. OneByOne
    BY <1>1 DEF OneByOne, PostMeta, PostTwilio, PostMsg91WhatsApp, PostMsg91Email
  <2>2. PICK a \in todo : \E sendable : PostTo(a, sendable)
    BY <1>1 DEF PostMeta, PostTwilio, PostMsg91WhatsApp, PostMsg91Email
  <2>3. QED
    BY <2>1, <2>2, PostToKeeps
<1>2. CASE \/ PostFlow \/ PostOneSignal \/ PostOwnOneSignal \/ PostResend \/ PostOwnResend
  <2>1. ~OneByOne
    BY <1>2 DEF OneByOne, PostFlow, PostOneSignal, PostOwnOneSignal, PostResend, PostOwnResend
  <2>2. PostToAll
    BY <1>2 DEF PostFlow, PostOneSignal, PostOwnOneSignal, PostResend, PostOwnResend
  <2>3. QED
    BY <2>1, <2>2, PostToAllKeeps
<1>3. CASE PostFirebase \/ PostOwnFirebase \/ PostInApp
  <2>1. ~OneByOne
    BY <1>3 DEF OneByOne, PostFirebase, PostOwnFirebase, PostInApp
  <2>2. /\ phase = "sending" /\ phase' = "answered" /\ todo' = {} /\ SameJob
        /\ result' = "success" \/ ids' = {}
    BY <1>3 DEF PostFirebase, PostOwnFirebase, PostInApp
  <2>3. PICK R \in SUBSET recipients : Reach(R)
    BY <1>3, NobodyIsReached DEF PostFirebase, PostOwnFirebase, PostInApp
  <2>4. QED
    BY <2>1, <2>2, <2>3, PostOnceKeeps
<1>4. QED
  BY <1>1, <1>2, <1>3 DEF Post

-----------------------------------------------------------------------------
(* The other steps *)

\* Nothing is sent, and no fewer attempts are known to have been in vain.
LEMMA NothingSentKeeps ==
    ASSUME DispatchInv, phase # "waiting", phase' # "sending",
           phase' \in {"waiting", "answered", "sent", "rejected", "dead"},
           UNCHANGED <<setup, via, recipients, todo, ids, failures, result, copies>>,
           NEW k \in Nat, k = silent + losses, silent' \in Nat, losses' \in Nat,
           NEW m \in Nat, m = silent' + losses',
           k <= m, phase' = "waiting" => k < m,
           phase' # "answered"
    PROVE  DispatchInv'
<1>1. /\ setup' = setup /\ copies' = copies /\ recipients' = recipients /\ todo' = todo
      /\ setup \in Setups /\ silent \in Nat /\ losses \in Nat /\ copies \in [Numbers -> Nat]
  BY DEF DispatchInv
<1>2. \A n \in Numbers : Spellings(n)' = Spellings(n) /\ Spellings(n) \in Nat
  BY <1>1, SpellingsAreCounted DEF Spellings
<1>3. ASSUME NEW n \in Numbers
      PROVE  /\ copies[n] <= Spellings(n) * (1 + m)
             /\ k < m => copies[n] <= Spellings(n) * m
  <2>1. PICK s \in Nat : s = Spellings(n)
    BY <1>2
  <2>2. PICK c \in Nat : c = copies[n]
    BY <1>1
  <2>3. c <= s * (1 + k)
    <3>1. 1 + k = 1 + silent + losses
      BY <1>1
    <3>2. QED
      BY <2>1, <2>2, <3>1 DEF DispatchInv, Explained
  <2>4. s * (1 + k) <= s * (1 + m)
    OBVIOUS
  <2>5. k < m => s * (1 + k) <= s * m
    OBVIOUS
  <2>6. s * (1 + k) \in Nat /\ s * (1 + m) \in Nat /\ s * m \in Nat
    BY OneMoreTime
  <2>7. QED
    BY <2>1, <2>2, <2>3, <2>4, <2>5, <2>6
<1>4. 1 + m = 1 + silent' + losses'
  OBVIOUS
<1>5. phase' # "waiting" => (\A n \in Numbers : Explained(n))'
  BY <1>1, <1>2, <1>3, <1>4 DEF Explained
<1>6. phase' = "waiting" => (\A n \in Numbers : ExplainedBefore(n))'
  BY <1>1, <1>2, <1>3 DEF ExplainedBefore
<1>7. (\A n \in Numbers : Cardinality(To(recipients, n)) <= Spellings(n))'
  BY <1>1, <1>2 DEF DispatchInv
<1>8. QED
  BY <1>1, <1>5, <1>6, <1>7 DEF DispatchInv

LEMMA FindAdapterKeeps ==
    ASSUME DispatchInv, FindAdapter
    PROVE  DispatchInv'
<1>1. PICK adapter : phase = "waiting" /\ UseAdapter(adapter) /\ losses' = losses
  BY DEF FindAdapter
<1>2. PICK later \in Nat : later = losses
  BY DEF DispatchInv
<1>3. losses <= later /\ losses' = later
  BY <1>1, <1>2
<1>4. QED
  BY <1>1, <1>3, UseAdapterKeeps

LEMMA LookupFailsKeeps ==
    ASSUME DispatchInv, LookupFails
    PROVE  DispatchInv'
<1>1. PICK later \in Nat : later = losses + 1
  BY DEF DispatchInv
<1>2. losses <= later /\ losses' = later /\ losses \in Nat /\ silent \in Nat
  BY <1>1 DEF LookupFails, DispatchInv
<1>3. CASE setup.channel # "whatsapp"
  <2>1. phase = "waiting" /\ UseAdapter(ServerAdapter)
    BY <1>3 DEF LookupFails
  <2>2. QED
    BY <1>2, <2>1, UseAdapterKeeps
<1>4. CASE setup.channel = "whatsapp"
  <2>1. /\ phase' = "answered" /\ recipients' = {} /\ todo' = {} /\ ids' = {}
        /\ setup' = setup /\ copies' = copies /\ silent' = silent
        /\ phase = "waiting"
    BY <1>4 DEF LookupFails
  <2>2. setup \in Setups /\ copies \in [Numbers -> Nat]
    BY DEF DispatchInv
  <2>3. \A n \in Numbers : Spellings(n)' = Spellings(n) /\ Spellings(n) \in Nat
    BY <2>1, <2>2, SpellingsAreCounted DEF Spellings
  <2>4. (\A n \in Numbers : Cardinality(To(recipients, n)) <= Spellings(n))'
    <3>1. \A n \in Numbers : To({}, n) = {} /\ Cardinality({}) = 0
      BY FS_EmptySet DEF To
    <3>2. QED
      BY <2>1, <2>3, <3>1
  <2>5. ASSUME NEW n \in Numbers PROVE Explained(n)'
    <3>1. PICK s \in Nat : s = Spellings(n)
      BY <2>3
    <3>2. PICK k \in Nat : k = silent + losses
      BY <1>2
    <3>3. PICK m \in Nat : m = 1 + silent + later
      BY <1>2
    <3>4. PICK c \in Nat : c = copies[n]
      BY <2>2
    <3>5. c <= s * k
      BY <2>1, <3>1, <3>2, <3>4 DEF DispatchInv, ExplainedBefore
    <3>6. k <= m
      BY <1>1, <1>2, <3>2, <3>3
    <3>7. s * k <= s * m /\ s * k \in Nat /\ s * m \in Nat
      BY <3>6
    <3>8. c <= s * m
      BY <3>5, <3>7
    <3>9. QED
      BY <1>2, <2>1, <2>3, <3>1, <3>3, <3>4, <3>8 DEF Explained
  <2>6. IsFiniteSet({})
    BY FS_EmptySet
  <2>7. QED
    BY <1>2, <2>1, <2>2, <2>4, <2>5, <2>6 DEF DispatchInv
<1>5. QED
  BY <1>3, <1>4

LEMMA SettleKeeps ==
    ASSUME DispatchInv, Settle
    PROVE  DispatchInv'
<1>1. /\ phase = "answered" /\ (result = "success" \/ ids = {})
      /\ silent \in Nat /\ losses \in Nat
      /\ UNCHANGED <<setup, via, recipients, todo, ids, failures, result, copies>>
      /\ losses' = losses
  BY DEF DispatchInv, Settle
<1>2. /\ phase' \in {"waiting", "sent", "rejected", "dead"}
      /\ phase' = "waiting" => result # "success"
  BY DEF Settle
<1>3. silent' = IF ids = {} THEN silent + 1 ELSE silent
  BY DEF Settle
<1>4. PICK k \in Nat : k = silent + losses
  BY <1>1
<1>5. PICK u \in Nat : u = IF ids = {} THEN silent + 1 ELSE silent
  BY <1>1
<1>6. PICK m \in Nat : m = u + losses
  BY <1>1
<1>7. silent' = u /\ silent' \in Nat /\ losses' \in Nat /\ m = silent' + losses'
  BY <1>1, <1>3, <1>5, <1>6
<1>8. k <= m /\ (phase' = "waiting" => k < m)
  BY <1>1, <1>2, <1>4, <1>5, <1>6
<1>9. QED
  BY <1>1, <1>2, <1>4, <1>7, <1>8, NothingSentKeeps

LEMMA WorkerLostKeeps ==
    ASSUME DispatchInv, WorkerLost
    PROVE  DispatchInv'
<1>1. /\ phase # "waiting" /\ phase' \in {"waiting", "dead"}
      /\ silent \in Nat /\ losses \in Nat
      /\ UNCHANGED <<setup, via, recipients, todo, ids, failures, result, copies>>
      /\ silent' = silent /\ losses' = losses + 1
  BY DEF DispatchInv, WorkerLost
<1>2. PICK k \in Nat : k = silent + losses
  BY <1>1
<1>3. PICK m \in Nat : m = silent + losses + 1
  BY <1>1
<1>4. silent' \in Nat /\ losses' \in Nat /\ m = silent' + losses'
  BY <1>1, <1>3
<1>5. k < m /\ k <= m
  BY <1>1, <1>2, <1>3
<1>6. phase' # "sending" /\ phase' # "answered"
      /\ phase' \in {"waiting", "answered", "sent", "rejected", "dead"}
  BY <1>1
<1>7. QED
  BY <1>1, <1>2, <1>4, <1>5, <1>6, NothingSentKeeps

LEMMA DispatchNextKeeps == DispatchInv /\ [DispatchNext]_dispatchVars => DispatchInv'
<1> SUFFICES ASSUME DispatchInv, [DispatchNext]_dispatchVars PROVE DispatchInv'
  OBVIOUS
<1>1. ASSUME UNCHANGED dispatchVars PROVE DispatchInv'
  BY <1>1 DEF DispatchInv, dispatchVars, Explained, ExplainedBefore, Spellings, OneByOne
<1>2. QED
  BY <1>1, FindAdapterKeeps, LookupFailsKeeps, PostStepKeeps, SettleKeeps, WorkerLostKeeps
     DEF DispatchNext

\* Nobody gets a message more often than his number is spelled, but for each
\* attempt that confirmed no recipient and each worker, result or lookup lost: for
\* every user, every adapter and any number of attempts (src/src/providers/ and
\* src/src/workers/base.worker.js:153-215).
THEOREM RepeatsAreExplainedAlways == DispatchSpec => []RepeatsAreExplained
<1>1. DispatchInv => RepeatsAreExplained
  <2> SUFFICES ASSUME DispatchInv, NEW n \in Numbers
               PROVE  copies[n] <= Spellings(n) * (1 + silent + losses)
    BY DEF RepeatsAreExplained
  <2>1. CASE phase = "waiting"
    <3>1. PICK s \in Nat : s = Spellings(n)
      BY SpellingsAreCounted DEF DispatchInv
    <3>2. PICK k \in Nat : k = silent + losses
      BY DEF DispatchInv
    <3>3. copies[n] <= s * k /\ copies[n] \in Nat
      BY <2>1, <3>1, <3>2 DEF DispatchInv, ExplainedBefore
    <3>4. s * k <= s * (k + 1) /\ s * k \in Nat /\ s * (k + 1) \in Nat
      BY OneMoreTime
    <3>5. copies[n] <= s * (k + 1)
      BY <3>3, <3>4
    <3>6. k + 1 = 1 + silent + losses
      BY <3>2 DEF DispatchInv
    <3>7. QED
      BY <3>1, <3>5, <3>6
  <2>2. CASE phase # "waiting"
    BY <2>2 DEF DispatchInv, Explained
  <2>3. QED
    BY <2>1, <2>2
<1>2. QED
  BY <1>1, DispatchInitInv, DispatchNextKeeps, PTL DEF DispatchSpec

-----------------------------------------------------------------------------
(* TemplateVariables: indexes and lists *)

LEMMA MaxOfFinite ==
    ASSUME NEW S \in SUBSET Nat, IsFiniteSet(S), S # {}
    PROVE  Max(S) \in S /\ \A y \in S : Max(S) >= y
<1>1. \E x \in S : \A y \in S : y <= x
  BY GreatestOfFinite
<1>2. \E x \in S : \A y \in S : x >= y
  BY <1>1
<1>3. QED
  BY <1>2 DEF Max

\* The naturals up to n are in their own order.
LEMMA FirstInOrder ==
    ASSUME NEW n \in Nat
    PROVE  Cardinality(1..n) = n /\ \A i \in 1..n : InOrder(1..n)[i] = i
<1>1. Cardinality(1..n) = n
  BY FS_Interval
<1>2. ASSUME NEW k \in 1..n PROVE Cardinality({j \in 1..n : j < k}) = k - 1
  <2>1. {j \in 1..n : j < k} = 1..(k - 1)
    OBVIOUS
  <2>2. k - 1 \in Nat
    OBVIOUS
  <2>3. Cardinality(1..(k - 1)) = k - 1
    BY <2>2, FS_Interval
  <2>4. QED
    BY <2>1, <2>3
<1>3. ASSUME NEW i \in 1..n
      PROVE  (CHOOSE k \in 1..n : Cardinality({j \in 1..n : j < k}) = i - 1) = i
  <2>1. Cardinality({j \in 1..n : j < i}) = i - 1
    BY <1>2
  <2>2. PICK c \in 1..n : /\ c = CHOOSE k \in 1..n : Cardinality({j \in 1..n : j < k}) = i - 1
                          /\ Cardinality({j \in 1..n : j < c}) = i - 1
    BY <2>1
  <2>3. c - 1 = i - 1
    BY <1>2, <2>2
  <2>4. QED
    BY <2>2, <2>3
<1>4. QED
  BY <1>1, <1>3 DEF InOrder

Image(g) == {g[x] : x \in DOMAIN g}

LEMMA ImageIsFinite ==
    ASSUME NEW g, IsFiniteSet(DOMAIN g), g = [x \in DOMAIN g |-> g[x]]
    PROVE  IsFiniteSet(Image(g))
<1>1. g \in Surjection(DOMAIN g, Image(g))
  BY DEF Surjection, Image
<1>2. QED
  BY <1>1, FS_Surjection

\* Every place in the order is taken.
LEMMA RankedMember ==
    ASSUME NEW D \in SUBSET Nat, IsFiniteSet(D), NEW i \in 1..Cardinality(D)
    PROVE  \E k \in D : Cardinality({j \in D : j < k}) = i - 1
<1> DEFINE Under(k) == {j \in D : j < k}
           Late == {k \in D : Cardinality(Under(k)) >= i - 1}
<1>1. PICK n \in Nat : n = Cardinality(D)
  BY FS_CardinalityType
<1>2. \A k \in D : IsFiniteSet(Under(k)) /\ Cardinality(Under(k)) \in Nat
  BY FS_Subset, FS_CardinalityType
<1>3. D # {}
  BY <1>1, FS_EmptySet
<1>4. PICK last \in D : \A k \in D : k <= last
  BY <1>3, GreatestOfFinite
<1>5. Under(last) = D \ {last}
  <2>1. ASSUME NEW j \in D PROVE j < last <=> j # last
    <3>1. j \in Nat /\ last \in Nat /\ j <= last
      BY <1>4
    <3>2. QED
      BY <3>1
  <2>2. QED
    BY <2>1
<1>6. Cardinality(Under(last)) = n - 1
  BY <1>1, <1>5, FS_RemoveElement
<1>7. last \in Late
  BY <1>1, <1>6
<1>8. PICK k \in Late : \A m \in Late : k <= m
  BY <1>7, LeastNatural
<1>9. PICK c \in Nat : c = Cardinality(Under(k)) /\ c >= i - 1
  BY <1>2, <1>8
<1>10. ASSUME c # i - 1 PROVE FALSE
  <2>1. Under(k) # {}
    BY <1>9, <1>10, FS_EmptySet
  <2>2. PICK g \in Under(k) : \A j \in Under(k) : j <= g
    BY <1>2, <2>1, GreatestOfFinite
  <2>3. g \in D /\ g \in Nat /\ k \in Nat /\ g < k
    BY <2>2
  <2>4. Under(g) = Under(k) \ {g}
    <3>1. ASSUME NEW j \in D PROVE j < g <=> j < k /\ j # g
      <4>1. j \in Nat
        OBVIOUS
      <4>2. CASE j < k
        BY <2>2, <2>3, <4>1, <4>2
      <4>3. CASE ~(j < k)
        BY <2>3, <4>1, <4>3
      <4>4. QED
        BY <4>2, <4>3
    <3>2. QED
      BY <3>1
  <2>5. Cardinality(Under(g)) = c - 1
    <3>1. IsFiniteSet(Under(k))
      BY <1>2, <1>8
    <3>2. Cardinality(Under(k) \ {g}) = Cardinality(Under(k)) - 1
      BY <2>2, <3>1, FS_RemoveElement
    <3>3. QED
      BY <1>9, <2>4, <3>2
  <2>6. c - 1 >= i - 1
    BY <1>1, <1>9, <1>10
  <2>7. g \in Late
    BY <2>3, <2>5, <2>6
  <2>8. k <= g
    BY <1>8, <2>7
  <2>9. QED
    BY <2>3, <2>8
<1>11. QED
  BY <1>8, <1>9, <1>10

LEMMA SequencesHaveFiniteSets ==
    ASSUME NEW T, NEW s \in Seq(T)
    PROVE  IsFiniteSet(ToSet(s)) /\ ToSet(s) \in SUBSET T
<1>1. Len(s) \in Nat /\ s \in [1..Len(s) -> T] /\ DOMAIN s = 1..Len(s)
  OBVIOUS
<1>2. s = [i \in DOMAIN s |-> s[i]]
  BY <1>1
<1>3. IsFiniteSet(1..Len(s))
  BY <1>1, FS_Interval
<1>4. IsFiniteSet(Image(s))
  BY <1>1, <1>3, <1>2, ImageIsFinite
<1>5. QED
  BY <1>1, <1>4 DEF ToSet, Image

\* The parameters of a template are finitely many and numbered from 1.
LEMMA IndexesAreFinite ==
    ASSUME NEW f \in Forms
    PROVE  IsFiniteSet(Indexes(f)) /\ Indexes(f) \in SUBSET (Nat \ {0})
<1> DEFINE InText(i) == ToSet(f.texts[i].indexes)
           Each == [i \in DOMAIN f.texts |-> InText(i)]
           Texts == {Each[i] : i \in DOMAIN f.texts}
           top == Max(TextIndexes(f) \cup {0})
           dynamic == InOrder({k \in DOMAIN f.buttons : NeedsValue(f.buttons[k])})
           index == [k \in DOMAIN dynamic |-> top + k]
<1>1. ASSUME NEW i \in DOMAIN f.texts
      PROVE  IsFiniteSet(InText(i)) /\ InText(i) \in SUBSET (Nat \ {0})
  BY VariablesAssumption, SequencesHaveFiniteSets
<1>2. IsFiniteSet(Texts)
  <2>1. IsFiniteSet(DOMAIN f.texts)
    BY VariablesAssumption
  <2>2. DOMAIN Each = DOMAIN f.texts /\ Each = [i \in DOMAIN Each |-> Each[i]]
    OBVIOUS
  <2>3. Image(Each) = Texts
    BY <2>2 DEF Image
  <2> HIDE DEF Each
  <2>4. IsFiniteSet(Image(Each))
    BY <2>1, <2>2, ImageIsFinite
  <2>5. QED
    BY <2>3, <2>4
<1>3. TextIndexes(f) = UNION Texts
  BY DEF TextIndexes
<1>4. IsFiniteSet(TextIndexes(f)) /\ TextIndexes(f) \in SUBSET (Nat \ {0})
  BY <1>1, <1>2, <1>3, FS_UNION
<1>5. top \in Nat
  <2>1. IsFiniteSet(TextIndexes(f) \cup {0})
    BY <1>4, FS_AddElement
  <2>2. TextIndexes(f) \cup {0} \in SUBSET Nat
    BY <1>4
  <2>3. QED
    BY <2>1, <2>2, MaxOfFinite
<1>6. PICK n \in Nat : DOMAIN dynamic = 1..n
  <2> DEFINE B == {k \in DOMAIN f.buttons : NeedsValue(f.buttons[k])}
  <2>1. IsFiniteSet(B)
    BY VariablesAssumption, FS_Subset
  <2>2. Cardinality(B) \in Nat
    BY <2>1, FS_CardinalityType
  <2>3. QED
    BY <2>2 DEF InOrder
<1>7. DOMAIN Slots(f) = {index[k] : k \in DOMAIN dynamic}
  BY DEF Slots
<1> HIDE DEF dynamic, top
<1>8. IsFiniteSet({index[k] : k \in DOMAIN dynamic})
  <2>1. IsFiniteSet(DOMAIN dynamic)
    BY <1>6, FS_Interval
  <2>2. DOMAIN index = DOMAIN dynamic /\ index = [k \in DOMAIN index |-> index[k]]
    OBVIOUS
  <2>3. Image(index) = {index[k] : k \in DOMAIN dynamic}
    BY <2>2 DEF Image
  <2> HIDE DEF index
  <2>4. IsFiniteSet(Image(index))
    BY <2>1, <2>2, ImageIsFinite
  <2>5. QED
    BY <2>3, <2>4 DEF index
<1>9. \A k \in DOMAIN dynamic : index[k] \in Nat \ {0}
  BY <1>5, <1>6
<1>10. QED
  BY <1>4, <1>7, <1>8, <1>9, FS_Union DEF Indexes

-----------------------------------------------------------------------------
(* One mapping *)

Highest(f, n) == Max(Indexes(f) \cup {0, n})

LEMMA HighestIsHigh ==
    ASSUME NEW f \in Forms, NEW n \in Nat
    PROVE  /\ Highest(f, n) \in Nat /\ Highest(f, n) >= n
           /\ \A i \in Indexes(f) : i \in 1..Highest(f, n)
           /\ Highest(f, Highest(f, n)) = Highest(f, n)
<1> DEFINE S(m) == Indexes(f) \cup {0, m}
<1>1. IsFiniteSet(Indexes(f)) /\ Indexes(f) \in SUBSET (Nat \ {0})
  BY IndexesAreFinite
<1>2. ASSUME NEW m \in Nat
      PROVE  /\ Max(S(m)) \in S(m) /\ \A y \in S(m) : Max(S(m)) >= y
             /\ S(m) \in SUBSET Nat
  <2>1. IsFiniteSet({0, m})
    <3>1. IsFiniteSet({0})
      BY FS_Singleton
    <3>2. IsFiniteSet({0} \cup {m})
      BY <3>1, FS_AddElement
    <3>3. {0} \cup {m} = {0, m}
      OBVIOUS
    <3>4. QED
      BY <3>2, <3>3
  <2>2. IsFiniteSet(S(m))
    BY <1>1, <2>1, FS_Union
  <2>3. S(m) \in SUBSET Nat /\ S(m) # {}
    BY <1>1
  <2>4. QED
    BY <2>2, <2>3, MaxOfFinite
<1>3. PICK h : h = Highest(f, n)
  OBVIOUS
<1>4. /\ h \in S(n) /\ h \in Nat /\ \A y \in S(n) : h >= y
  BY <1>2, <1>3 DEF Highest
<1>5. h >= n /\ \A i \in Indexes(f) : i \in 1..h
  BY <1>1, <1>4
<1>6. PICK g : g = Highest(f, h)
  OBVIOUS
<1>7. g \in S(h) /\ g \in Nat /\ \A y \in S(h) : g >= y
  BY <1>2, <1>4, <1>6 DEF Highest
<1>8. g >= h
  BY <1>7
<1>9. g <= h
  BY <1>4, <1>5, <1>7
<1>10. g = h
  BY <1>4, <1>7, <1>8, <1>9
<1>11. QED
  BY <1>3, <1>4, <1>5, <1>6, <1>10

Listed(f, v) ==
    [i \in 1..Highest(f, Len(Positional(v))) |->
        IF i <= Len(Positional(v)) THEN Positional(v)[i] ELSE SlotValue(f, v, i)]

MissingIn(f, list) == {i \in Indexes(f) : list[i] = Blank}

LEMMA MapIs ==
    ASSUME NEW f, NEW v
    PROVE  MapVariables(f, v) = IF Highest(f, Len(Positional(v))) = 0
                                THEN [whatsapp |-> v.whatsapp, missing |-> {}]
                                ELSE [whatsapp |-> Listed(f, v), missing |-> MissingIn(f, Listed(f, v))]
  BY DEF MapVariables, Highest, Listed, MissingIn

LEMMA PositionalIsAList ==
    ASSUME NEW v \in Inputs
    PROVE  Positional(v) \in Seq(Values)
<1>1. CASE v.whatsapp # NoList
  BY <1>1, VariablesAssumption DEF Positional
<1>2. CASE v.whatsapp = NoList /\ v.params # NoList
  BY <1>2, VariablesAssumption DEF Positional
<1>3. CASE v.whatsapp = NoList /\ v.params = NoList
  <2>1. Positional(v) = SortedValues(v.numeric)
    BY <1>3 DEF Positional
  <2> DEFINE D == DOMAIN v.numeric
  <2>2. IsFiniteSet(D) /\ D \in SUBSET Nat /\ v.numeric \in [D -> Values]
    BY VariablesAssumption
  <2>3. PICK n \in Nat : n = Cardinality(D)
    BY <2>2, FS_CardinalityType
  <2>4. DOMAIN InOrder(D) = 1..n
    BY <2>3 DEF InOrder
  <2>5. ASSUME NEW i \in 1..n PROVE InOrder(D)[i] \in D
    <3>1. PICK k \in D : Cardinality({j \in D : j < k}) = i - 1
      BY <2>2, <2>3, RankedMember
    <3>2. QED
      BY <2>3, <3>1 DEF InOrder
  <2>6. \A i \in 1..n : v.numeric[InOrder(D)[i]] \in Values
    BY <2>2, <2>5
  <2>7. SortedValues(v.numeric) = [i \in 1..n |-> v.numeric[InOrder(D)[i]]]
    BY <2>4 DEF SortedValues
  <2>8. QED
    BY <2>1, <2>6, <2>7
<1>4. QED
  BY <1>1, <1>2, <1>3
LEMMA SlotsAreValues ==
    ASSUME NEW f, NEW v \in Inputs, NEW i
    PROVE  SlotValue(f, v, i) \in Values
<1>1. \A name : Lookup(v, name) \in Values
  BY VariablesAssumption DEF Lookup
<1>2. QED
  BY <1>1, VariablesAssumption DEF SlotValue

\* What is mapped is a list again, as long as the highest index.
LEMMA ListedIsAList ==
    ASSUME NEW f \in Forms, NEW v \in Inputs
    PROVE  /\ Listed(f, v) \in Seq(Values) /\ Listed(f, v) # NoList
           /\ Len(Listed(f, v)) = Highest(f, Len(Positional(v)))
           /\ Highest(f, Len(Listed(f, v))) = Len(Listed(f, v))
           /\ Indexes(f) \in SUBSET (1..Len(Listed(f, v)))
<1>1. PICK s \in Seq(Values) : s = Positional(v)
  BY PositionalIsAList
<1>2. PICK h \in Nat : /\ h = Highest(f, Len(s)) /\ h = Highest(f, h)
                       /\ \A i \in Indexes(f) : i \in 1..h
  BY HighestIsHigh
<1>3. \A i \in 1..h : i <= Len(s) => s[i] \in Values
  OBVIOUS
<1>4. Listed(f, v) = [i \in 1..h |-> IF i <= Len(s) THEN s[i] ELSE SlotValue(f, v, i)]
  BY <1>1, <1>2 DEF Listed
<1>5. PICK list : list = Listed(f, v)
  OBVIOUS
<1>6. list \in [1..h -> Values]
  BY <1>3, <1>4, <1>5, SlotsAreValues
<1>7. list \in Seq(Values) /\ Len(list) = h
  BY <1>6
<1>8. list # NoList
  <2>1. list = NoList => list[1] = "no list" /\ 1 \in DOMAIN list
    <3>1. <<"no list">>[1] = "no list" /\ 1 \in DOMAIN <<"no list">>
      OBVIOUS
    <3>2. QED
      BY <3>1 DEF NoList
  <2>2. "no list" \notin Values
    BY VariablesAssumption
  <2>3. QED
    BY <1>6, <2>1, <2>2
<1>9. QED
  BY <1>1, <1>2, <1>5, <1>7, <1>8

\* Mapping what was mapped changes nothing.
LEMMA MapsOnce ==
    ASSUME NEW f \in Forms, NEW v \in Inputs, NEW w,
           w = [v EXCEPT !.whatsapp = MapVariables(f, v).whatsapp]
    PROVE  MapVariables(f, w) = MapVariables(f, v)
<1> DEFINE h == Highest(f, Len(Positional(v)))
           list == Listed(f, v)
<1>1. v = [whatsapp |-> v.whatsapp, params |-> v.params, numeric |-> v.numeric, named |-> v.named]
  BY VariablesAssumption
<1>2. CASE h = 0
  <2>1. MapVariables(f, v).whatsapp = v.whatsapp
    BY <1>2, MapIs
  <2>2. w = v
    BY <1>1, <2>1
  <2>3. QED
    BY <2>2
<1>3. CASE h # 0
  <2>1. MapVariables(f, v) = [whatsapp |-> list, missing |-> MissingIn(f, list)]
    BY <1>3, MapIs
  <2>2. w.whatsapp = list
    BY <1>1, <2>1
  <2>3. list # NoList /\ list \in Seq(Values) /\ Len(list) = h /\ Highest(f, Len(list)) = h
    BY ListedIsAList
  <2>4. Positional(w) = list
    BY <2>2, <2>3 DEF Positional
  <2>5. MapVariables(f, w) = [whatsapp |-> Listed(f, w), missing |-> MissingIn(f, Listed(f, w))]
    BY <1>3, <2>3, <2>4, MapIs
  <2>6. Listed(f, w) = [i \in 1..h |-> IF i <= h THEN list[i] ELSE SlotValue(f, w, i)]
    BY <2>3, <2>4 DEF Listed
  <2>7. Listed(f, w) = list
    <3>1. PICK s \in Seq(Values) : s = list
      BY <2>3
    <3>2. Len(s) = h /\ h \in Nat /\ s = [i \in 1..h |-> s[i]]
      BY <2>3, <3>1
    <3>3. [i \in 1..h |-> IF i <= h THEN s[i] ELSE SlotValue(f, w, i)] = [i \in 1..h |-> s[i]]
      BY <3>2
    <3>4. QED
      BY <2>6, <3>1, <3>2, <3>3
  <2>8. QED
    BY <2>1, <2>5, <2>7
<1>4. QED
  BY <1>2, <1>3

\* What is sent after a mapping is what was mapped, if the variables are unmixed.
LEMMA SendsWhatItMapped ==
    ASSUME NEW f \in Forms, NEW v \in Inputs, Unmixed(v), NEW w,
           w = [v EXCEPT !.whatsapp = MapVariables(f, v).whatsapp],
           NEW i \in Indexes(f)
    PROVE  /\ Parameters(f, w)[i] = MapVariables(f, v).whatsapp[i]
           /\ Parameters(f, w)[i] = Blank <=> i \in MapVariables(f, v).missing
<1>1. PICK list \in Seq(Values) :
        /\ list = Listed(f, v) /\ list # NoList
        /\ Len(list) = Highest(f, Len(Positional(v))) /\ Indexes(f) \in SUBSET (1..Len(list))
  BY ListedIsAList
<1>2. i \in 1..Len(list) /\ Len(list) \in Nat /\ Len(list) # 0
  BY <1>1
<1>3. MapVariables(f, v) = [whatsapp |-> list, missing |-> MissingIn(f, list)]
  BY <1>1, <1>2, MapIs
<1>4. v = [whatsapp |-> v.whatsapp, params |-> v.params, numeric |-> v.numeric, named |-> v.named]
  BY VariablesAssumption
<1>5. w.whatsapp = list /\ w.numeric = v.numeric
  BY <1>3, <1>4
<1>6. Positional(w) = list
  BY <1>1, <1>5 DEF Positional
<1>7. Parameters(f, w)[i] = IF i \in DOMAIN v.numeric THEN v.numeric[i] ELSE list[i]
  BY <1>2, <1>5, <1>6 DEF Parameters
<1>8. ASSUME i \in DOMAIN v.numeric PROVE v.numeric[i] = list[i]
  <2>1. /\ v.whatsapp = NoList /\ v.params = NoList
        /\ DOMAIN v.numeric = 1..Len(SortedValues(v.numeric))
    BY <1>8 DEF Unmixed
  <2>2. Positional(v) = SortedValues(v.numeric)
    BY <2>1 DEF Positional
  <2>3. PICK n \in Nat : n = Len(Positional(v))
    BY PositionalIsAList
  <2>4. DOMAIN v.numeric = 1..n
    BY <2>1, <2>2, <2>3
  <2>5. InOrder(1..n)[i] = i /\ DOMAIN InOrder(1..n) = 1..n
    <3>1. Cardinality(1..n) = n /\ \A k \in 1..n : InOrder(1..n)[k] = k
      BY FirstInOrder
    <3>2. DOMAIN InOrder(1..n) = 1..Cardinality(1..n)
      BY DEF InOrder
    <3>3. QED
      BY <1>8, <2>4, <3>1, <3>2
  <2> DEFINE keys == InOrder(1..n)
  <2>6. SortedValues(v.numeric)[i] = v.numeric[i]
    <3>1. SortedValues(v.numeric) = [k \in DOMAIN keys |-> v.numeric[keys[k]]]
      BY <2>4 DEF SortedValues
    <3>2. i \in DOMAIN keys /\ keys[i] = i
      BY <1>8, <2>4, <2>5
    <3> HIDE DEF keys
    <3>3. QED
      BY <3>1, <3>2
  <2>7. list[i] = Positional(v)[i]
    <3>1. i \in 1..n /\ i <= n /\ i \in 1..Highest(f, Len(Positional(v)))
      BY <1>1, <1>2, <1>8, <2>4
    <3>2. QED
      BY <1>1, <2>3, <3>1 DEF Listed
  <2>8. QED
    BY <2>2, <2>6, <2>7
<1>9. Parameters(f, w)[i] = list[i]
  BY <1>7, <1>8
<1>10. QED
  BY <1>3, <1>9 DEF MissingIn

-----------------------------------------------------------------------------
(* The stages *)

Mapped(m) ==
    /\ mappings \in {<<m>>, <<m, m>>}
    /\ variables = [given EXCEPT !.whatsapp = m.whatsapp]
    /\ stage = "mapped" => mappings = <<m>>

FormInv ==
    /\ form \in Forms /\ given \in Inputs
    /\ stage \in {"asked", "mapped", "built", "refused", "sent"}
    /\ stage = "asked" => variables = given /\ mappings = <<>>
    /\ stage # "asked" => Mapped(MapVariables(form, given))
    /\ stage = "sent" => sent = Parameters(form, variables)

LEMMA OneMore ==
    ASSUME NEW m
    PROVE  /\ Append(<<>>, m) = <<m>> /\ Append(<<m>>, m) = <<m, m>>
           /\ <<m>>[1] = m /\ <<m, m>>[1] = m /\ <<m, m>>[2] = m
           /\ Len(<<m>>) = 1 /\ Len(<<m, m>>) = 2
<1>1. Append(<<>>, m) = <<m>>
  <2>1. << >> \in Seq({m}) /\ Len(<< >>) = 0
    OBVIOUS
  <2>2. Append(<< >>, m) \in Seq({m}) /\ Len(Append(<< >>, m)) = 1 /\ Append(<< >>, m)[1] = m
    BY <2>1
  <2>3. \A s \in Seq({m}) : Len(s) = 1 /\ s[1] = m => s = <<m>>
    OBVIOUS
  <2>4. QED
    BY <2>2, <2>3
<1>2. Append(<<m>>, m) = <<m, m>>
  <2>1. <<m>> \in Seq({m}) /\ Len(<<m>>) = 1 /\ <<m>>[1] = m
    OBVIOUS
  <2>2. PICK s \in Seq({m}) : s = <<m>>
    BY <2>1
  <2>3. Append(s, m) \in Seq({m}) /\ Len(Append(s, m)) = 2 /\ Append(s, m)[1] = m /\ Append(s, m)[2] = m
    BY <2>1, <2>2
  <2>4. \A r \in Seq({m}) : Len(r) = 2 /\ r[1] = m /\ r[2] = m => r = <<m, m>>
    OBVIOUS
  <2>5. QED
    BY <2>2, <2>3, <2>4
<1>3. <<m>>[1] = m /\ <<m, m>>[1] = m /\ <<m, m>>[2] = m
  OBVIOUS
<1>4. Len(<<m>>) = 1 /\ Len(<<m, m>>) = 2
  OBVIOUS
<1>5. QED
  BY <1>1, <1>2, <1>3, <1>4

LEMMA MappingKeeps ==
    ASSUME FormInv, Mapping, stage \in {"asked", "mapped"}, stage' \in {"mapped", "built", "refused"},
           stage' = "mapped" => stage = "asked"
    PROVE  FormInv'
<1>1. PICK m : m = MapVariables(form, given)
  OBVIOUS
<1>2. PICK k : k = MapVariables(form, variables)
  OBVIOUS
<1>3. /\ variables' = [variables EXCEPT !.whatsapp = k.whatsapp]
      /\ mappings' = Append(mappings, k)
      /\ form' = form /\ given' = given /\ sent' = sent
  BY <1>2 DEF Mapping
<1>4. form \in Forms /\ given \in Inputs
  BY DEF FormInv
<1>5. k = m /\ variables' = [given EXCEPT !.whatsapp = m.whatsapp] /\ mappings' \in {<<m>>, <<m, m>>}
      /\ (stage = "asked" => mappings' = <<m>>)
  <2>1. CASE stage = "asked"
    <3>1. variables = given /\ mappings = <<>>
      BY <2>1 DEF FormInv
    <3>2. QED
      BY <1>1, <1>2, <1>3, <3>1, OneMore
  <2>2. CASE stage = "mapped"
    <3>1. mappings = <<m>> /\ variables = [given EXCEPT !.whatsapp = m.whatsapp]
      BY <1>1, <2>2 DEF FormInv, Mapped
    <3>2. k = m
      BY <1>1, <1>2, <1>4, <3>1, MapsOnce
    <3>3. given = [whatsapp |-> given.whatsapp, params |-> given.params,
                   numeric |-> given.numeric, named |-> given.named]
      BY <1>4, VariablesAssumption
    <3>4. variables' = [given EXCEPT !.whatsapp = m.whatsapp]
      BY <1>3, <3>1, <3>2, <3>3
    <3>5. mappings' = <<m, m>>
      BY <1>3, <3>1, <3>2, OneMore
    <3>6. QED
      BY <2>2, <3>2, <3>4, <3>5
  <2>3. QED
    BY <2>1, <2>2
<1>6. MapVariables(form, given)' = m
  BY <1>1, <1>3 DEF MapVariables, Highest, Positional, Indexes, SlotValue
<1>7. QED
  BY <1>3, <1>4, <1>5, <1>6 DEF FormInv, Mapped

LEMMA FormNextKeeps ==
    ASSUME FormInv, [FormNext]_formVars
    PROVE  FormInv'
<1>1. CASE MapBatch
  BY <1>1, MappingKeeps DEF MapBatch
<1>2. CASE BuildForNotify
  BY <1>2, MappingKeeps DEF BuildForNotify
<1>3. CASE BuildForSchedule
  BY <1>3, MappingKeeps DEF BuildForSchedule
<1>4. CASE Send
  BY <1>4 DEF Send, FormInv, Mapped
<1>5. CASE UNCHANGED formVars
  BY <1>5 DEF formVars, FormInv, Mapped
<1>6. QED
  BY <1>1, <1>2, <1>3, <1>4, <1>5 DEF FormNext

LEMMA FormInvSends == FormInv => SentAsMapped
<1> SUFFICES ASSUME FormInv PROVE SentAsMapped
  OBVIOUS
<1>1. PICK m : m = MapVariables(form, given)
  OBVIOUS
<1>2. form \in Forms /\ given \in Inputs
  BY DEF FormInv
<1>3. CASE stage = "asked"
  BY <1>3 DEF FormInv, SentAsMapped
<1>4. CASE stage # "asked"
  <2>1. /\ mappings \in {<<m>>, <<m, m>>} /\ variables = [given EXCEPT !.whatsapp = m.whatsapp]
        /\ stage = "sent" => sent = Parameters(form, variables)
    BY <1>1, <1>4 DEF FormInv, Mapped
  <2>2. mappings[1] = m /\ (Len(mappings) = 2 => mappings[2] = m)
    BY <2>1, OneMore
  <2>3. ASSUME stage = "sent", Unmixed(given), NEW i \in DOMAIN sent
        PROVE  sent[i] = m.whatsapp[i] /\ (sent[i] = Blank <=> i \in m.missing)
    <3>1. sent = Parameters(form, variables)
      BY <2>1, <2>3
    <3>2. i \in Indexes(form)
      BY <2>3, <3>1 DEF Parameters
    <3>3. QED
      BY <1>1, <1>2, <2>1, <2>3, <3>1, <3>2, SendsWhatItMapped
  <2>4. QED
    BY <2>2, <2>3 DEF SentAsMapped
<1>5. QED
  BY <1>3, <1>4

\* The list that a broadcast or the notify handler mapped is mapped no further, and
\* is what Meta is sent, for any template, header, buttons and variables
\* (normalizeWhatsAppVariables, buildTemplateSendComponents).
THEOREM SentAsMappedAlways == FormSpec => []SentAsMapped
<1>1. FormInit => FormInv
  BY DEF FormInit, FormInv
<1>2. FormInv /\ [FormNext]_formVars => FormInv'
  BY FormNextKeeps
<1>3. QED
  BY <1>1, <1>2, FormInvSends, PTL DEF FormSpec
=============================================================================
