--------------------------- MODULE StoppointsProofs ---------------------------
(***************************************************************************)
(* Proofs about Stoppoints, for any ranges, symbol tables, address spaces, *)
(* cores and numbers of stoppoints.                                        *)
(***************************************************************************)
EXTENDS Stoppoints, WellFoundedInduction, TLAPS

(* The ranges of a vector of points do not overlap. *)
Apart(ps) == \A i, j \in DOMAIN ps : i # j => ~Overlaps(ps[i].range, ps[j].range)

(* Nor do its identifiers repeat: they grow along the vector, so that the  *)
(* last point has the greatest.                                            *)
Good(ps) == /\ ps \in Seq(Point)
            /\ Apart(ps)
            /\ \A i, j \in DOMAIN ps : i < j => ps[i].id < ps[j].id

(* The map has the points of the vector, by the start of their range. *)
MapInv == addressMap = MapOf(points)

SymbolsInv == symbols \in Tables \cup {Off}

IInv == Good(points) /\ MapInv /\ SymbolsInv

-----------------------------------------------------------------------------
LEMMA SeqIntro ==
  ASSUME NEW S, NEW n \in Nat, NEW f \in [1..n -> S]
  PROVE  f \in Seq(S) /\ Len(f) = n /\ DOMAIN f = 1..n
  OBVIOUS

LEMMA SeqElim ==
  ASSUME NEW S, NEW f \in Seq(S)
  PROVE  /\ Len(f) \in Nat /\ DOMAIN f = 1..Len(f) /\ f \in [1..Len(f) -> S]
         /\ \A i \in DOMAIN f : f[i] \in S
  OBVIOUS

(* The naturals are well-founded: what serves for induction here. *)
LEMMA LeastNatural ==
  ASSUME NEW S, S \subseteq Nat, S # {}
  PROVE  \E n \in S : \A m \in S : n <= m
<1> DEFINE R == OpToRel(<, Nat)
<1>1. \A m, n \in Nat : <<m, n>> \in R <=> m < n
  BY DEF OpToRel
<1>2. IsWellFoundedOn(R, Nat)
  BY NatLessThanWellFounded
<1> HIDE DEF R
<1>3. PICK n \in S : \A m \in S : ~(<<m, n>> \in R)
  BY <1>2, WFMin
<1>4. \A m \in S : n <= m
  <2>1. \A m \in S : m \in Nat /\ n \in Nat
    OBVIOUS
  <2>2. \A m \in S : ~(m < n)
    BY <1>1, <1>3, <2>1
  <2> QED
    BY <2>1, <2>2
<1>5. QED
  BY <1>4

(* The points of a vector.  Facts about their ranges. *)
LEMMA RangeFacts ==
  ASSUME NEW r \in Range
  PROVE  /\ r.asid \in Nat /\ r.start \in Nat /\ r.end \in Nat /\ r.start <= r.end
         /\ r.asid \in Asid /\ KeyOf(r) \in Key
  BY AsidAssumption DEF Range, KeyOf, Key

LEMMA OverlapSymmetric ==
  ASSUME NEW q \in Range, NEW r \in Range
  PROVE  Overlaps(q, r) <=> Overlaps(r, q)
  BY RangeFacts DEF Overlaps

(* Two ranges that hold a common address overlap. *)
LEMMA CommonAddress ==
  ASSUME NEW q \in Range, NEW r \in Range, NEW a, NEW x \in Nat, Contains(q, a, x), Contains(r, a, x)
  PROVE  Overlaps(q, r)
  BY RangeFacts DEF Overlaps, Contains

(* Ranges that start together overlap: keys of a good vector are distinct. *)
LEMMA SameKey ==
  ASSUME NEW q \in Range, NEW r \in Range, KeyOf(q) = KeyOf(r)
  PROVE  Overlaps(q, r)
<1>1. q.asid = r.asid /\ q.start = r.start
  BY DEF KeyOf
<1>2. QED
  BY <1>1, RangeFacts DEF Overlaps

LEMMA PointFacts ==
  ASSUME NEW ps \in Seq(Point), NEW i \in DOMAIN ps
  PROVE  ps[i] \in Point /\ ps[i].id \in Nat /\ ps[i].range \in Range /\ i \in Nat
<1>1. ps[i] \in Point /\ i \in 1..Len(ps) /\ Len(ps) \in Nat
  BY SeqElim
<1>2. QED
  BY <1>1 DEF Point

-----------------------------------------------------------------------------
(* What the map made of such a vector says. *)
LEMMA MapFacts ==
  ASSUME NEW ps \in Seq(Point), Apart(ps)
  PROVE  /\ DOMAIN MapOf(ps) = {KeyOf(ps[i].range) : i \in DOMAIN ps}
         /\ \A i \in DOMAIN ps : MapOf(ps)[KeyOf(ps[i].range)] = ps[i].id
<1>1. ASSUME NEW i \in DOMAIN ps
      PROVE  (CHOOSE j \in DOMAIN ps : KeyOf(ps[j].range) = KeyOf(ps[i].range)) = i
  <2>1. \A j \in DOMAIN ps : KeyOf(ps[j].range) = KeyOf(ps[i].range) => j = i
    BY PointFacts, SameKey DEF Apart
  <2>2. QED
    BY <2>1
<1>2. QED
  BY <1>1 DEF MapOf

(* The keys are ordered as pairs of numbers. *)
LEMMA Order ==
  ASSUME NEW j \in Key, NEW k \in Key
  PROVE  (~Before(j, k) /\ ~Before(k, j)) => j = k
<1>1. j = <<j[1], j[2]>> /\ k = <<k[1], k[2]>>
  BY DEF Key
<1>2. j[1] \in Nat /\ j[2] \in Nat /\ k[1] \in Nat /\ k[2] \in Nat
  BY AsidAssumption DEF Key
<1>3. (~Before(j, k) /\ ~Before(k, j)) => j[1] = k[1] /\ j[2] = k[2]
  BY <1>2 DEF Before
<1>4. QED
  BY <1>1, <1>3

(* The nearest range that starts no later than an address is the only one  *)
(* that may hold it.                                                       *)
LEMMA CandidateFinds ==
  ASSUME Good(points), MapInv, NEW i \in DOMAIN points, NEW a \in Asid, NEW x \in Nat,
         Contains(points[i].range, a, x)
  PROVE  Candidate(<<a, x>>) = KeyOf(points[i].range)
<1> DEFINE k == KeyOf(points[i].range)
<1>1. points \in Seq(Point) /\ Apart(points)
  BY DEF Good
<1>2. /\ DOMAIN addressMap = {KeyOf(points[j].range) : j \in DOMAIN points}
      /\ k \in DOMAIN addressMap
  BY <1>1, MapFacts DEF MapInv
<1>3. /\ points[i].range \in Range /\ points[i].range.asid = a
      /\ points[i].range.start <= x /\ k = <<a, points[i].range.start>>
      /\ points[i].range.start \in Nat /\ a \in Nat
  BY <1>1, PointFacts, RangeFacts, AsidAssumption DEF Contains, KeyOf
<1>4. CASE <<a, x>> \in DOMAIN addressMap
  <2>1. PICK j \in DOMAIN points : KeyOf(points[j].range) = <<a, x>>
    BY <1>2, <1>4
  <2>2. Contains(points[j].range, a, x) /\ points[j].range \in Range
    <3>1. points[j].range \in Range
      BY <1>1, PointFacts
    <3>2. points[j].range.asid = a /\ points[j].range.start = x
      BY <2>1 DEF KeyOf
    <3>3. QED
      BY <3>1, <3>2, RangeFacts DEF Contains
  <2>3. j = i
    BY <1>1, <1>3, <2>2, CommonAddress DEF Apart
  <2>4. QED
    BY <1>4, <2>1, <2>3 DEF Candidate
<1>5. CASE <<a, x>> \notin DOMAIN addressMap
  <2> DEFINE before == {j \in DOMAIN addressMap : Before(j, <<a, x>>)}
  <2>1. k # <<a, x>>
    BY <1>2, <1>5
  <2>2. k \in before
    BY <1>2, <1>3, <2>1 DEF Before
  <2>3. ASSUME NEW j \in DOMAIN points, KeyOf(points[j].range) \in before
        PROVE  ~Before(k, KeyOf(points[j].range))
    <3>1. /\ points[j].range \in Range /\ points[j].range.start \in Nat /\ points[j].range.asid \in Nat
          /\ points[j].range.end \in Nat /\ points[j].range.start <= points[j].range.end
      BY <1>1, PointFacts, RangeFacts
    <3>2. SUFFICES ASSUME Before(k, KeyOf(points[j].range))
                   PROVE  FALSE
      OBVIOUS
    <3>3. /\ points[j].range.asid = a
          /\ points[i].range.start < points[j].range.start /\ points[j].range.start < x
      BY <1>3, <2>3, <3>1, <3>2 DEF Before, KeyOf
    <3>4. Overlaps(points[i].range, points[j].range)
      BY <1>3, <3>1, <3>3, RangeFacts DEF Overlaps, Contains
    <3>5. i # j
      BY <1>3, <3>3
    <3>6. QED
      BY <1>1, <3>4, <3>5 DEF Apart
  <2>4. \A j \in before : ~Before(k, j)
    BY <1>2, <2>3
  <2>5. before \subseteq Key
    BY <1>1, <1>2, PointFacts, RangeFacts
  <2>6. \A g \in before : (\A j \in before : ~Before(g, j)) => g = k
    BY <2>2, <2>4, <2>5, Order
  <2>7. Greatest(before) = k
    BY <2>2, <2>4, <2>6 DEF Greatest
  <2>8. QED
    BY <1>5, <2>2, <2>7 DEF Candidate
<1>6. QED
  BY <1>4, <1>5

LEMMA GoodIsDistinct == Good(points) => Distinct
<1> SUFFICES ASSUME Good(points), NEW i \in DOMAIN points, NEW j \in DOMAIN points, i # j
             PROVE  points[i].id # points[j].id /\ ~Overlaps(points[i].range, points[j].range)
  BY DEF Distinct
<1>1. points[i].id \in Nat /\ points[j].id \in Nat /\ i \in Nat /\ j \in Nat
  BY PointFacts DEF Good
<1>2. points[i].id # points[j].id
  BY <1>1 DEF Good
<1>3. QED
  BY <1>2 DEF Good, Apart

LEMMA PointOfId ==
  ASSUME Good(points), NEW i \in DOMAIN points
  PROVE  /\ (CHOOSE j \in DOMAIN points : points[j].id = points[i].id) = i
         /\ PointOf(points[i].id) = points[i]
<1>1. \A j \in DOMAIN points : points[j].id = points[i].id => j = i
  BY GoodIsDistinct DEF Distinct
<1>2. (CHOOSE j \in DOMAIN points : points[j].id = points[i].id) = i
  BY <1>1
<1>3. QED
  BY <1>2 DEF PointOf

LEMMA ProbeIsExact ==
  ASSUME Good(points), MapInv
  PROVE  ProbeFinds
<1> SUFFICES ASSUME NEW i \in DOMAIN points, NEW a \in Asid, NEW x \in Nat, NEW m \in Mode,
                    Matches(points[i], a, x, m)
             PROVE  Probe(a, x, m) = points[i].id
  BY DEF ProbeFinds
<1>1. points # <<>>
  OBVIOUS
<1>2. Candidate(<<a, x>>) = KeyOf(points[i].range)
  BY CandidateFinds DEF Matches
<1>3. addressMap[KeyOf(points[i].range)] = points[i].id
  BY MapFacts DEF Good, MapInv
<1>4. QED
  BY <1>1, <1>2, <1>3, PointOfId DEF Probe
-----------------------------------------------------------------------------
(* A map is the one made of a vector if it has its keys and identifiers.   *)
LEMMA MapExtensional ==
  ASSUME NEW ps, Good(ps), NEW K, NEW f, f = [k \in K |-> f[k]],
         K = {KeyOf(ps[i].range) : i \in DOMAIN ps},
         \A i \in DOMAIN ps : f[KeyOf(ps[i].range)] = ps[i].id
  PROVE  f = MapOf(ps)
<1>1. /\ DOMAIN MapOf(ps) = K
      /\ \A i \in DOMAIN ps : MapOf(ps)[KeyOf(ps[i].range)] = ps[i].id
  BY MapFacts DEF Good
<1>2. \A k \in K : f[k] = MapOf(ps)[k]
  BY <1>1
<1>3. MapOf(ps) = [k \in K |-> MapOf(ps)[k]]
  BY <1>1 DEF MapOf
<1>4. QED
  BY <1>2, <1>3

(* The identifier of a new point is greater than all others. *)
LEMMA NextIdGreatest ==
  ASSUME Good(points)
  PROVE  nextId(points) \in Nat /\ \A i \in DOMAIN points : points[i].id < nextId(points)
<1> DEFINE past == {0} \cup {points[i].id + 1 : i \in DOMAIN points}
<1>1. /\ Len(points) \in Nat /\ DOMAIN points = 1..Len(points)
      /\ \A i \in DOMAIN points : points[i].id \in Nat
  BY SeqElim, PointFacts DEF Good
<1>2. past \subseteq Nat
  BY <1>1
<1>3. PICK n \in past : \A m \in past : m <= n
  <2>1. CASE Len(points) = 0
    <3>1. past = {0}
      BY <1>1, <2>1
    <3>2. QED
      BY <3>1
  <2>2. CASE Len(points) > 0
    <3> DEFINE l == Len(points)
    <3>1. l \in DOMAIN points /\ \A i \in DOMAIN points : i = l \/ i < l
      BY <1>1, <2>2
    <3>2. \A i \in DOMAIN points : points[i].id <= points[l].id
      BY <1>1, <3>1 DEF Good
    <3>3. points[l].id + 1 \in past /\ \A m \in past : m <= points[l].id + 1
      BY <1>1, <3>1, <3>2
    <3>4. QED
      BY <3>3
  <2>3. QED
    BY <1>1, <2>1, <2>2
<1>4. nextId(points) = CHOOSE k \in past : \A m \in past : m <= k
  BY DEF nextId
<1>5. nextId(points) \in past /\ \A m \in past : m <= nextId(points)
  BY <1>3, <1>4
<1>6. \A i \in DOMAIN points : points[i].id + 1 <= nextId(points)
  BY <1>5
<1>7. QED
  BY <1>1, <1>2, <1>5, <1>6

LEMMA AddStep ==
  ASSUME IInv, NEW r \in Ranges, NEW m \in Modes, Add(r, m)
  PROVE  IInv'
<1> DEFINE new == New(r, m)  n == Len(points)
<1>1. points \in Seq(Point) /\ n \in Nat /\ DOMAIN points = 1..n
  BY SeqElim DEF IInv, Good
<1>2. r \in Range
  BY DEF Ranges, Range, Address
<1>3. /\ new \in Point /\ new.range = r /\ new.id = nextId(points)
      /\ \A i \in DOMAIN points : points[i].id < new.id
  BY <1>2, NextIdGreatest DEF IInv, New, Point
<1>4. points' = Append(points, new)
  BY DEF Add
<1>5. /\ points' \in Seq(Point) /\ DOMAIN points' = 1..n+1
      /\ \A i \in 1..n : points'[i] = points[i]
      /\ points'[n+1] = new
  BY <1>1, <1>3, <1>4
<1>6. \A i \in DOMAIN points : ~Overlaps(points[i].range, r) /\ ~Overlaps(r, points[i].range)
  <2>1. \A i \in DOMAIN points : points[i].range \in Range /\ ~Overlaps(points[i].range, r)
    BY <1>1, PointFacts DEF Add, CanInsert
  <2>2. QED
    BY <1>2, <2>1, OverlapSymmetric
<1>7. Apart(points')
  <2>1. ASSUME NEW i \in 1..n+1, NEW j \in 1..n+1, i # j
        PROVE  ~Overlaps(points'[i].range, points'[j].range)
    <3>1. CASE i \in 1..n /\ j \in 1..n
      BY <1>1, <1>5, <2>1, <3>1 DEF IInv, Good, Apart
    <3>2. CASE i = n+1 /\ j \in 1..n
      BY <1>1, <1>3, <1>5, <1>6, <3>2
    <3>3. CASE j = n+1 /\ i \in 1..n
      BY <1>1, <1>3, <1>5, <1>6, <3>3
    <3>4. QED
      BY <1>1, <2>1, <3>1, <3>2, <3>3
  <2>2. QED
    BY <1>5, <2>1 DEF Apart
<1>8. Good(points')
  <2>1. ASSUME NEW i \in 1..n+1, NEW j \in 1..n+1, i < j
        PROVE  points'[i].id < points'[j].id
    <3>1. CASE j \in 1..n
      <4>1. i \in 1..n
        BY <1>1, <2>1, <3>1
      <4>2. QED
        BY <1>1, <1>5, <2>1, <3>1, <4>1 DEF IInv, Good
    <3>2. CASE j = n+1
      <4>1. i \in 1..n
        BY <1>1, <2>1, <3>2
      <4>2. QED
        BY <1>1, <1>3, <1>5, <3>2, <4>1
    <3>3. QED
      BY <1>1, <3>1, <3>2
  <2>2. QED
    BY <1>5, <1>7, <2>1 DEF Good
<1>9. MapInv'
  <2> DEFINE K == DOMAIN addressMap \cup {KeyOf(r)}
  <2>1. addressMap' = [k \in K |-> IF k = KeyOf(r) THEN nextId(points) ELSE addressMap[k]]
    BY DEF Add
  <2>2. /\ DOMAIN addressMap = {KeyOf(points[i].range) : i \in DOMAIN points}
        /\ \A i \in DOMAIN points : addressMap[KeyOf(points[i].range)] = points[i].id
    BY MapFacts DEF IInv, MapInv, Good
  <2>3. \A i \in DOMAIN points : KeyOf(points[i].range) # KeyOf(r)
    BY <1>1, <1>2, <1>6, PointFacts, SameKey
  <2>4. K = {KeyOf(points'[i].range) : i \in DOMAIN points'}
    <3>1. \A i \in 1..n+1 : KeyOf(points'[i].range) \in K
      BY <1>1, <1>3, <1>5, <2>2
    <3>2. \A k \in K : \E i \in 1..n+1 : k = KeyOf(points'[i].range)
      <4>1. n+1 \in 1..n+1 /\ KeyOf(points'[n+1].range) = KeyOf(r)
        BY <1>1, <1>3, <1>5
      <4>2. \A i \in 1..n : i \in 1..n+1 /\ KeyOf(points'[i].range) = KeyOf(points[i].range)
        BY <1>1, <1>5
      <4>3. QED
        BY <1>1, <2>2, <4>1, <4>2
    <3>3. QED
      BY <1>5, <3>1, <3>2
  <2>5. ASSUME NEW i \in DOMAIN points'
        PROVE  addressMap'[KeyOf(points'[i].range)] = points'[i].id
    <3>1. CASE i = n+1
      BY <1>3, <1>5, <2>1, <3>1
    <3>2. CASE i \in 1..n
      BY <1>1, <1>5, <2>1, <2>2, <2>3, <3>2
    <3>3. QED
      BY <1>1, <1>5, <3>1, <3>2
  <2>6. addressMap' = [k \in K |-> addressMap'[k]]
    BY <2>1
  <2>7. QED
    BY <1>8, <2>4, <2>5, <2>6, MapExtensional DEF MapInv
<1>10. QED
  BY <1>8, <1>9 DEF IInv, SymbolsInv, Add
LEMMA RemoveStep ==
  ASSUME IInv, NEW i \in DOMAIN points, Remove(i)
  PROVE  IInv'
<1> DEFINE n == Len(points)
           from(j) == IF j < i THEN j ELSE j + 1
<1>1. points \in Seq(Point) /\ n \in Nat /\ DOMAIN points = 1..n /\ i \in 1..n
  BY SeqElim DEF IInv, Good
<1>2. points' = [j \in 1..n-1 |-> IF j < i THEN points[j] ELSE points[j + 1]]
  BY DEF Remove, Without
<1>3. /\ \A j \in 1..n-1 : from(j) \in 1..n /\ from(j) # i /\ points'[j] = points[from(j)]
      /\ \A j, k \in 1..n-1 : j < k => from(j) < from(k)
      /\ \A j \in 1..n : j = i \/ \E k \in 1..n-1 : from(k) = j
  <2>1. \A j \in 1..n-1 : from(j) \in 1..n /\ from(j) # i /\ points'[j] = points[from(j)]
    BY <1>1, <1>2
  <2>2. \A j, k \in 1..n-1 : j < k => from(j) < from(k)
    BY <1>1
  <2>3. ASSUME NEW j \in 1..n, j # i
        PROVE  \E k \in 1..n-1 : from(k) = j
    <3>1. CASE j < i
      <4>1. j \in 1..n-1 /\ from(j) = j
        BY <1>1, <3>1
      <4>2. QED
        BY <4>1
    <3>2. CASE j > i
      <4>1. j-1 \in 1..n-1 /\ from(j-1) = j
        BY <1>1, <3>2
      <4>2. QED
        BY <4>1
    <3>3. QED
      BY <1>1, <2>3, <3>1, <3>2
  <2>4. QED
    BY <2>1, <2>2, <2>3
<1> HIDE DEF from
<1>4. points' \in Seq(Point) /\ DOMAIN points' = 1..n-1
  <2>1. \A j \in 1..n-1 : points'[j] \in Point
    BY <1>1, <1>3, SeqElim
  <2>2. points' \in [1..n-1 -> Point] /\ n - 1 \in Nat
    BY <1>1, <1>2, <2>1
  <2>3. QED
    BY <2>2, SeqIntro
<1>5. Apart(points')
  <2>1. ASSUME NEW j \in 1..n-1, NEW k \in 1..n-1, j # k
        PROVE  ~Overlaps(points'[j].range, points'[k].range)
    <3>1. from(j) # from(k) /\ from(j) \in 1..n /\ from(k) \in 1..n
      BY <1>1, <1>3, <2>1
    <3>2. QED
      BY <1>1, <1>3, <3>1 DEF IInv, Good, Apart
  <2>2. QED
    BY <1>4, <2>1 DEF Apart
<1>6. Good(points')
  <2>1. \A j, k \in 1..n-1 : j < k => points'[j].id < points'[k].id
    BY <1>1, <1>3 DEF IInv, Good
  <2>2. QED
    BY <1>4, <1>5, <2>1 DEF Good
<1>7. MapInv'
  <2> DEFINE K == DOMAIN addressMap \ {KeyOf(points[i].range)}
  <2>1. addressMap' = [k \in K |-> addressMap[k]]
    BY DEF Remove
  <2>2. /\ DOMAIN addressMap = {KeyOf(points[j].range) : j \in DOMAIN points}
        /\ \A j \in DOMAIN points : addressMap[KeyOf(points[j].range)] = points[j].id
    BY MapFacts DEF IInv, MapInv, Good
  <2>3. \A j \in 1..n : j # i => KeyOf(points[j].range) # KeyOf(points[i].range)
    BY <1>1, PointFacts, SameKey DEF IInv, Good, Apart
  <2>4. \A j \in 1..n-1 : /\ KeyOf(points'[j].range) \in K
                          /\ addressMap'[KeyOf(points'[j].range)] = points'[j].id
    BY <1>1, <1>3, <2>1, <2>2, <2>3
  <2>5. \A k \in K : \E j \in 1..n-1 : k = KeyOf(points'[j].range)
    <3>1. ASSUME NEW k \in K
          PROVE  \E j \in 1..n-1 : k = KeyOf(points'[j].range)
      <4>1. PICK l \in 1..n : k = KeyOf(points[l].range) /\ l # i
        BY <1>1, <2>2, <3>1
      <4>2. PICK j \in 1..n-1 : from(j) = l
        BY <1>3, <4>1
      <4>3. QED
        BY <1>3, <4>1, <4>2
    <3>2. QED
      BY <3>1
  <2>6. K = {KeyOf(points'[j].range) : j \in DOMAIN points'}
    BY <1>4, <2>4, <2>5
  <2>7. addressMap' = [k \in K |-> addressMap'[k]]
    BY <2>1
  <2>8. QED
    BY <1>4, <1>6, <2>4, <2>6, <2>7, MapExtensional DEF MapInv
<1>8. QED
  BY <1>6, <1>7 DEF IInv, SymbolsInv, Remove

(* Points may be enabled, disabled and given other modes. *)
LEMMA SameRanges ==
  ASSUME IInv, NEW i \in DOMAIN points, NEW p \in Point,
         p.id = points[i].id, p.range = points[i].range,
         points' = [points EXCEPT ![i] = p], addressMap' = addressMap, symbols' = symbols
  PROVE  IInv'
<1>1. points \in Seq(Point) /\ Len(points) \in Nat /\ DOMAIN points = 1..Len(points)
  BY SeqElim DEF IInv, Good
<1>2. points' \in Seq(Point) /\ DOMAIN points' = DOMAIN points
  BY <1>1
<1>3. \A j \in DOMAIN points : points'[j].id = points[j].id /\ points'[j].range = points[j].range
  BY <1>1
<1>4. Good(points')
  BY <1>2, <1>3 DEF IInv, Good, Apart
<1>5. MapOf(points') = MapOf(points)
  <2> DEFINE f == MapOf(points)
             K == {KeyOf(points[j].range) : j \in DOMAIN points}
  <2>1. f = [k \in K |-> f[k]]
    BY DEF MapOf
  <2>2. K = {KeyOf(points'[j].range) : j \in DOMAIN points'}
    BY <1>2, <1>3
  <2>3. \A j \in DOMAIN points : f[KeyOf(points[j].range)] = points[j].id
    BY MapFacts DEF IInv, Good
  <2>4. \A j \in DOMAIN points' : f[KeyOf(points'[j].range)] = points'[j].id
    BY <1>2, <1>3, <2>3
  <2> HIDE DEF f, K
  <2>5. ASSUME NEW ps, ps = points'
        PROVE  f = MapOf(ps)
    <3>1. Good(ps) /\ K = {KeyOf(ps[j].range) : j \in DOMAIN ps}
          /\ \A j \in DOMAIN ps : f[KeyOf(ps[j].range)] = ps[j].id
      BY <1>4, <2>2, <2>4, <2>5 DEF Good, Apart
    <3>2. QED
      BY <3>1, <2>1, MapExtensional
  <2>6. QED
    BY <2>5 DEF f
<1>6. QED
  BY <1>4, <1>5 DEF IInv, MapInv, SymbolsInv

LEMMA FlagsStep ==
  ASSUME IInv, NEW i \in DOMAIN points, SetEnabled(i) \/ \E m \in Modes : setAccessMode(i, m)
  PROVE  IInv'
<1>1. points[i] \in Point
  BY SeqElim DEF IInv, Good
<1>2. CASE SetEnabled(i)
  <2> DEFINE p == [points[i] EXCEPT !.enabled = ~@]
  <2>1. p \in Point /\ p.id = points[i].id /\ p.range = points[i].range
    BY <1>1 DEF Point
  <2>2. points' = [points EXCEPT ![i] = p] /\ addressMap' = addressMap /\ symbols' = symbols
    BY <1>2 DEF SetEnabled
  <2>3. QED
    BY <2>1, <2>2, SameRanges
<1>3. ASSUME NEW m \in Modes, setAccessMode(i, m)
      PROVE  IInv'
  <2> DEFINE p == [points[i] EXCEPT !.mode = m]
  <2>1. p \in Point /\ p.id = points[i].id /\ p.range = points[i].range
    BY <1>1 DEF Point
  <2>2. points' = [points EXCEPT ![i] = p] /\ addressMap' = addressMap /\ symbols' = symbols
    BY <1>3 DEF setAccessMode
  <2>3. QED
    BY <2>1, <2>2, SameRanges
<1>4. QED
  BY <1>2, <1>3

-----------------------------------------------------------------------------
(* A range is moved with its symbol and stays a range. *)
LEMMA RelocatedRange ==
  ASSUME SymbolsInv, NEW t \in Tables, NEW r \in Range
  PROVE  Relocated(r, t) \in Range
<1> DEFINE from == IF r.asid = symbols.asid THEN Owner(symbols, r.start) ELSE {}
           to == UNION {Lookup(t, s.name) : s \in from}
           start == (CHOOSE s \in to : TRUE).start + r.start - (CHOOSE s \in from : TRUE).start
<1>1. r \in [asid : Asid, start : Nat, end : Nat] /\ r.start <= r.end
  BY DEF Range
<1>2. CASE \E s \in to : to = {s}
  <2>1. to # {}
    BY <1>2
  <2>2. from # {}
    BY <2>1
  <2>3. PICK s \in from : s = (CHOOSE q \in from : TRUE)
    BY <2>2
  <2>4. PICK u \in to : u = (CHOOSE q \in to : TRUE)
    BY <2>1
  <2>5. s.start \in Nat /\ s.start <= r.start
    BY <2>3 DEF Owner, SymbolsInv, Tables, Off, Address
  <2>6. u.start \in Nat
    BY <2>4 DEF Lookup, Tables, Address
  <2>7. start \in Nat /\ r.end - r.start \in Nat
    BY <1>1, <2>3, <2>4, <2>5, <2>6
  <2>8. [r EXCEPT !.start = start, !.end = start + (r.end - r.start)] \in Range
    <3> HIDE DEF start
    <3>1. start + (r.end - r.start) \in Nat /\ start <= start + (r.end - r.start)
      BY <2>7
    <3> DEFINE end == start + (r.end - r.start)
    <3> HIDE DEF end
    <3>2. [r EXCEPT !.start = start, !.end = end] \in Range
      BY <1>1, <2>7, <3>1 DEF Range, end
    <3>3. QED
      BY <3>2 DEF end
  <2>9. QED
    BY <1>2, <2>8 DEF Relocated
<1>3. CASE ~\E s \in to : to = {s}
  BY <1>3 DEF Relocated
<1>4. QED
  BY <1>2, <1>3

LEMMA RelocatedVector ==
  ASSUME IInv, NEW t \in Tables, NEW ps \in Relocations(points, t)
  PROVE  Good(ps)
<1> DEFINE moved == [i \in DOMAIN points |-> Relocated(points[i].range, t)]
<1>1. PICK at \in UNION {[1..n -> DOMAIN points] : n \in 0..Len(points)} :
        /\ \A j, k \in DOMAIN at : j < k => at[j] < at[k]
        /\ Keeps(at, moved)
        /\ ps = [k \in DOMAIN at |-> [points[at[k]] EXCEPT !.range = moved[at[k]]]]
  BY DEF Relocations
<1>2. points \in Seq(Point) /\ Len(points) \in Nat /\ DOMAIN points = 1..Len(points)
  BY SeqElim DEF IInv, Good
<1>3. PICK n \in 0..Len(points) : at \in [1..n -> DOMAIN points]
  BY <1>1
<1>4. n \in Nat /\ DOMAIN at = 1..n /\ \A k \in 1..n : at[k] \in DOMAIN points /\ at[k] \in Nat
  BY <1>2, <1>3
<1>5. \A i \in DOMAIN points : moved[i] \in Range /\ points[i] \in Point
  BY <1>2, PointFacts, RelocatedRange DEF IInv
<1> HIDE DEF moved
<1>6. \A k \in 1..n : ps[k] \in Point /\ ps[k].id = points[at[k]].id /\ ps[k].range = moved[at[k]]
  BY <1>1, <1>4, <1>5 DEF Point
<1>7. ps \in Seq(Point) /\ DOMAIN ps = 1..n
  <2>1. ps \in [1..n -> Point]
    BY <1>1, <1>4, <1>6
  <2>2. QED
    BY <1>4, <2>1, SeqIntro
<1>8. ASSUME NEW j \in 1..n, NEW k \in 1..n, j < k
      PROVE  ~Overlaps(moved[at[j]], moved[at[k]])
  <2>1. at[j] < at[k] /\ at[k] \in DOMAIN moved
    BY <1>1, <1>4, <1>8 DEF moved
  <2>2. \E l \in DOMAIN at : at[l] = at[k]
    BY <1>4
  <2>3. QED
    BY <1>1, <1>4, <2>1, <2>2 DEF Keeps
<1>9. Apart(ps)
  <2>1. ASSUME NEW j \in 1..n, NEW k \in 1..n, j # k
        PROVE  ~Overlaps(ps[j].range, ps[k].range)
    <3>1. CASE j < k
      BY <1>6, <1>8, <3>1
    <3>2. CASE k < j
      BY <1>4, <1>5, <1>6, <1>8, <3>2, OverlapSymmetric
    <3>3. QED
      BY <1>4, <2>1, <3>1, <3>2
  <2>2. QED
    BY <1>7, <2>1 DEF Apart
<1>10. \A j, k \in 1..n : j < k => ps[j].id < ps[k].id
  BY <1>1, <1>4, <1>6 DEF IInv, Good
<1>11. QED
  BY <1>7, <1>9, <1>10 DEF Good

LEMMA InitializeStep ==
  ASSUME IInv, initializeMachine
  PROVE  IInv'
<1>1. PICK t \in Tables :
        /\ IF symbols # Off /\ t.asid = symbols.asid
           THEN points' \in Relocations(points, t) /\ addressMap' = MapOf(points')
           ELSE UNCHANGED <<points, addressMap>>
        /\ symbols' = t
  BY DEF initializeMachine
<1>2. CASE symbols # Off /\ t.asid = symbols.asid
  BY <1>1, <1>2, RelocatedVector DEF IInv, MapInv, SymbolsInv
<1>3. CASE ~(symbols # Off /\ t.asid = symbols.asid)
  BY <1>1, <1>3 DEF IInv, MapInv, SymbolsInv
<1>4. QED
  BY <1>2, <1>3

LEMMA EmptyVector == Good(<<>>) /\ <<>> = MapOf(<<>>)
<1>1. <<>> \in Seq(Point) /\ DOMAIN <<>> = {}
  OBVIOUS
<1>2. MapOf(<<>>) = <<>>
  BY <1>1 DEF MapOf
<1>3. QED
  BY <1>1, <1>2 DEF Good, Apart

LEMMA NextIInv == IInv /\ [Next]_vars => IInv'
<1> SUFFICES ASSUME IInv, [Next]_vars
             PROVE  IInv'
  OBVIOUS
<1>1. CASE onMachineConfigChanged
  BY <1>1, EmptyVector DEF onMachineConfigChanged, IInv, MapInv, SymbolsInv
<1>2. ASSUME UNCHANGED <<points, addressMap, symbols>>
      PROVE  IInv'
  BY <1>2 DEF IInv, MapInv, SymbolsInv
<1>3. CASE halt \/ Run \/ Stop \/ UNCHANGED vars
  BY <1>2, <1>3 DEF halt, Run, Stop, vars
<1>4. ASSUME NEW c \in Core, NEW a \in Asid, NEW x \in Address, NEW m \in Mode, HandleAccess(c, a, x, m)
      PROVE  IInv'
  BY <1>2, <1>4 DEF HandleAccess
<1>5. QED
  BY <1>1, <1>3, <1>4, InitializeStep, AddStep, RemoveStep, FlagsStep DEF Next

-----------------------------------------------------------------------------
(* The inductive invariant. *)
THEOREM Invariant == Spec => []IInv
<1>1. Init => IInv
  BY EmptyVector DEF Init, IInv, MapInv, SymbolsInv
<1>2. QED
  BY <1>1, NextIInv, PTL DEF Spec

(* Ranges never overlap and identifiers never repeat, whatever is added,   *)
(* removed or moved with its symbol (StoppointSet::Add and Remove,         *)
(* DebugSession::relocateStoppoints).                                      *)
THEOREM RangesStayApart == Spec => []Distinct
<1>1. IInv => Distinct
  BY GoodIsDistinct DEF IInv
<1>2. QED
  BY Invariant, <1>1, PTL

(* StoppointSet::Probe finds every access that an enabled stoppoint is     *)
(* about, though it looks at one range only.                               *)
THEOREM ProbeIsComplete == Spec => []ProbeFinds
<1>1. IInv => ProbeFinds
  BY ProbeIsExact DEF IInv
<1>2. QED
  BY Invariant, <1>1, PTL

-----------------------------------------------------------------------------
(* The list.  A hit is of a point that is there.                           *)
RowsInv == /\ hits \subseteq Nat \X Core
           /\ \A h \in hits : \E i \in DOMAIN points : points[i].id = h[1]
           /\ status \in {"halted", "stopped", "running"}
           /\ status = "halted" => hits = {}
           /\ rows \in Seq([range : Range, victims : SUBSET Core])
           /\ RowsTruth

(* Among the keys of finitely many points there is a greatest.             *)
LEMMA GreatestExists ==
  ASSUME NEW n \in Nat, NEW f \in [1..n -> Key], NEW I, I \subseteq 1..n, I # {}
  PROVE  \E g \in I : \A j \in I : ~Before(f[g], f[j])
<1> DEFINE Up(m) == I \cap (1..m) = {} \/ \E g \in I \cap (1..m) : \A j \in I \cap (1..m) : ~Before(f[g], f[j])
           bad == {m \in 0..n : ~Up(m)}
<1>1. ASSUME NEW m \in 0..n, m # 0, Up(m - 1)
      PROVE  Up(m)
  <2>1. CASE m \notin I
    <3>1. I \cap (1..m) = I \cap (1..m-1)
      BY <1>1, <2>1
    <3>2. QED
      BY <1>1, <3>1
  <2>2. CASE m \in I /\ I \cap (1..m-1) = {}
    <3>1. I \cap (1..m) = {m}
      BY <1>1, <2>2
    <3>2. ~Before(f[m], f[m])
      <4>1. f[m] \in Asid \X Nat
        BY <2>2 DEF Key
      <4>2. f[m][1] \in Nat /\ f[m][2] \in Nat
        BY <4>1, AsidAssumption
      <4>3. QED
        BY <4>2 DEF Before
    <3>3. QED
      BY <3>1, <3>2
  <2>3. CASE m \in I /\ I \cap (1..m-1) # {}
    <3>1. PICK g \in I \cap (1..m-1) : \A j \in I \cap (1..m-1) : ~Before(f[g], f[j])
      BY <1>1, <2>3
    <3>2. I \cap (1..m) = (I \cap (1..m-1)) \cup {m}
      BY <1>1, <2>3
    <3>3. \A j \in I : f[j] \in Key /\ f[j][1] \in Nat /\ f[j][2] \in Nat
      <4>1. \A j \in I : f[j] \in Key
        OBVIOUS
      <4>2. QED
        BY <4>1, AsidAssumption DEF Key
    <3>4. CASE Before(f[g], f[m])
      <4>1. \A j \in I \cap (1..m) : ~Before(f[m], f[j])
        BY <2>3, <3>1, <3>2, <3>3, <3>4 DEF Before
      <4>2. QED
        BY <2>3, <3>2, <4>1
    <3>5. CASE ~Before(f[g], f[m])
      BY <3>1, <3>2, <3>5
    <3>6. QED
      BY <3>4, <3>5
  <2>4. QED
    BY <2>1, <2>2, <2>3
<1>2. Up(0)
  OBVIOUS
<1> HIDE DEF Up
<1>3. bad = {}
  <2> SUFFICES ASSUME bad # {}
               PROVE  FALSE
    OBVIOUS
  <2>1. bad \subseteq Nat
    OBVIOUS
  <2>2. PICK m \in bad : \A k \in bad : m <= k
    BY <2>1, LeastNatural
  <2>3. m # 0 /\ m \in 0..n /\ m - 1 \in 0..n /\ ~Up(m)
    BY <1>2, <2>2
  <2>4. Up(m - 1)
    BY <2>2, <2>3
  <2>5. QED
    BY <1>1, <2>3, <2>4
<1>4. Up(n)
  BY <1>3
<1>5. I \cap (1..n) = I
  OBVIOUS
<1>6. QED
  BY <1>4, <1>5 DEF Up

(* And a least one: the same, with the order the other way round. *)
LEMMA LeastExists ==
  ASSUME NEW n \in Nat, NEW f \in [1..n -> Key], n # 0
  PROVE  \E l \in 1..n : \A j \in 1..n : ~Before(f[j], f[l])
<1> DEFINE Down(m) == m = 0 \/ \E l \in 1..m : \A j \in 1..m : ~Before(f[j], f[l])
           bad == {m \in 0..n : ~Down(m)}
<1>1. \A j \in 1..n : f[j][1] \in Nat /\ f[j][2] \in Nat
  <2>1. \A j \in 1..n : f[j] \in Asid \X Nat
    BY DEF Key
  <2>2. QED
    BY <2>1, AsidAssumption
<1>2. ASSUME NEW m \in 0..n, m # 0, Down(m - 1)
      PROVE  Down(m)
  <2>1. CASE m = 1
    <3>1. ~Before(f[1], f[1])
      BY <1>1, <2>1 DEF Before
    <3>2. 1..m = {1}
      BY <2>1
    <3>3. QED
      BY <3>1, <3>2
  <2>2. CASE m # 1
    <3>1. PICK l \in 1..m-1 : \A j \in 1..m-1 : ~Before(f[j], f[l])
      BY <1>2, <2>2
    <3>2. 1..m = (1..m-1) \cup {m} /\ l \in 1..n /\ m \in 1..n /\ 1..m \subseteq 1..n
      BY <1>2
    <3>3. CASE Before(f[m], f[l])
      <4>1. \A j \in 1..m : ~Before(f[j], f[m])
        BY <1>1, <3>1, <3>2, <3>3 DEF Before
      <4>2. QED
        BY <3>2, <4>1
    <3>4. CASE ~Before(f[m], f[l])
      BY <3>1, <3>2, <3>4
    <3>5. QED
      BY <3>3, <3>4
  <2>3. QED
    BY <2>1, <2>2
<1>3. Down(0)
  OBVIOUS
<1> HIDE DEF Down
<1>4. bad = {}
  <2> SUFFICES ASSUME bad # {}
               PROVE  FALSE
    OBVIOUS
  <2>1. bad \subseteq Nat
    OBVIOUS
  <2>2. PICK m \in bad : \A k \in bad : m <= k
    BY <2>1, LeastNatural
  <2>3. m # 0 /\ m \in 0..n /\ m - 1 \in 0..n /\ ~Down(m)
    BY <1>3, <2>2
  <2>4. Down(m - 1)
    BY <2>2, <2>3
  <2>5. QED
    BY <1>2, <2>3, <2>4
<1>5. Down(n)
  BY <1>4
<1>6. QED
  BY <1>5 DEF Down

(* Whatever key Probe looks at is the key of a point.                      *)
LEMMA CandidateKnown ==
  ASSUME Good(points), MapInv, points # <<>>, NEW k \in Key
  PROVE  Candidate(k) \in DOMAIN addressMap
<1> DEFINE n == Len(points)
           f == [i \in 1..n |-> KeyOf(points[i].range)]
           before == {j \in DOMAIN addressMap : Before(j, k)}
<1>1. points \in Seq(Point) /\ n \in Nat /\ DOMAIN points = 1..n /\ n # 0
  BY SeqElim DEF Good
<1>2. DOMAIN addressMap = {KeyOf(points[i].range) : i \in DOMAIN points}
  BY MapFacts DEF MapInv, Good
<1>3. f \in [1..n -> Key]
  BY <1>1, PointFacts, RangeFacts
<1>4. ASSUME before # {}
      PROVE  Greatest(before) \in before
  <2> DEFINE I == {i \in 1..n : f[i] \in before}
  <2>1. I \subseteq 1..n /\ I # {} /\ before = {f[i] : i \in I}
    BY <1>1, <1>2, <1>4
  <2>2. PICK g \in I : \A j \in I : ~Before(f[g], f[j])
    BY <1>1, <1>3, <2>1, GreatestExists
  <2>3. f[g] \in before /\ \A j \in before : ~Before(f[g], j)
    BY <2>1, <2>2
  <2>4. QED
    BY <2>3 DEF Greatest
<1>5. ASSUME before = {}, k \notin DOMAIN addressMap
      PROVE  Least(DOMAIN addressMap) \in DOMAIN addressMap
  <2>1. PICK l \in 1..n : \A j \in 1..n : ~Before(f[j], f[l])
    BY <1>1, <1>3, LeastExists
  <2>2. f[l] \in DOMAIN addressMap /\ \A j \in DOMAIN addressMap : ~Before(j, f[l])
    BY <1>1, <1>2, <2>1
  <2>3. QED
    BY <2>2 DEF Least
<1>6. QED
  BY <1>4, <1>5 DEF Candidate

(* A probe that finds something finds a point of the set. *)
LEMMA ProbeFindsPoint ==
  ASSUME Good(points), MapInv, NEW a \in Asid, NEW x \in Address, NEW m \in Mode,
         Probe(a, x, m) # NoPoint
  PROVE  \E i \in DOMAIN points : points[i].id = Probe(a, x, m)
<1>1. points # <<>> /\ Probe(a, x, m) = addressMap[Candidate(<<a, x>>)]
  BY DEF Probe
<1>2. <<a, x>> \in Key
  BY DEF Key, Address
<1>3. Candidate(<<a, x>>) \in DOMAIN addressMap
  BY <1>1, <1>2, CandidateKnown
<1>4. PICK i \in DOMAIN points : Candidate(<<a, x>>) = KeyOf(points[i].range)
  BY <1>3, MapFacts DEF MapInv, Good
<1>5. addressMap[KeyOf(points[i].range)] = points[i].id
  BY MapFacts DEF MapInv, Good
<1>6. QED
  BY <1>1, <1>4, <1>5

LEMMA AddRows ==
  ASSUME IInv, RowsInv, NEW r \in Ranges, NEW m \in Modes, Add(r, m)
  PROVE  RowsInv'
<1> DEFINE n == Len(points)
           row == [range |-> r, victims |-> {}]
<1>1. /\ points \in Seq(Point) /\ n \in Nat /\ DOMAIN points = 1..n
      /\ rows \in Seq([range : Range, victims : SUBSET Core]) /\ Len(rows) = n
  BY SeqElim DEF IInv, Good, Add, RowsInv, RowsTruth
<1>2. /\ status = "stopped" /\ UNCHANGED <<status, hits>>
      /\ rows' = Append(rows, row)
      /\ points' = Append(points, New(r, m))
  BY DEF Add
<1>3. /\ New(r, m).id = nextId(points) /\ New(r, m).range = r
      /\ \A i \in DOMAIN points : points[i].id < nextId(points) /\ points[i].id \in Nat
      /\ nextId(points) \in Nat
  BY NextIdGreatest, PointFacts DEF IInv, New, Good
<1>4. row \in [range : Range, victims : SUBSET Core]
  BY DEF Ranges, Range, Address
<1>5. /\ Len(points') = n + 1 /\ Len(rows') = n + 1 /\ DOMAIN points' = 1..n+1
      /\ \A i \in 1..n : points'[i] = points[i] /\ rows'[i] = rows[i]
      /\ points'[n+1] = New(r, m) /\ rows'[n+1] = row
      /\ rows' \in Seq([range : Range, victims : SUBSET Core])
  BY <1>1, <1>2, <1>4
<1>6. \A c \in Core : <<nextId(points), c>> \notin hits
  <2> SUFFICES ASSUME NEW c \in Core, <<nextId(points), c>> \in hits
               PROVE  FALSE
    OBVIOUS
  <2>1. PICK i \in DOMAIN points : points[i].id = <<nextId(points), c>>[1]
    BY DEF RowsInv
  <2>2. QED
    BY <1>3, <2>1
<1>7. ASSUME NEW i \in 1..n+1
      PROVE  /\ rows'[i].range = points'[i].range
             /\ rows'[i].victims = {c \in Core : <<points'[i].id, c>> \in hits'}
  <2>1. CASE i \in 1..n
    BY <1>1, <1>2, <1>5, <2>1 DEF RowsInv, RowsTruth
  <2>2. CASE i = n+1
    BY <1>2, <1>3, <1>5, <1>6, <2>2
  <2>3. QED
    BY <1>1, <2>1, <2>2
<1>8. RowsTruth'
  BY <1>5, <1>7 DEF RowsTruth
<1>9. \A h \in hits' : \E i \in DOMAIN points' : points'[i].id = h[1]
  <2>1. \A i \in DOMAIN points : i \in DOMAIN points' /\ points'[i].id = points[i].id
    BY <1>1, <1>5
  <2>2. QED
    BY <1>2, <2>1 DEF RowsInv
<1>10. QED
  BY <1>2, <1>5, <1>8, <1>9 DEF RowsInv

LEMMA RemoveRows ==
  ASSUME IInv, RowsInv, NEW i \in DOMAIN points, Remove(i)
  PROVE  RowsInv'
<1> DEFINE n == Len(points)
           Row == [range : Range, victims : SUBSET Core]
           from(j) == IF j < i THEN j ELSE j + 1
<1>1. /\ points \in Seq(Point) /\ n \in Nat /\ DOMAIN points = 1..n /\ i \in 1..n
      /\ rows \in Seq(Row) /\ Len(rows) = n
  BY SeqElim DEF IInv, Good, Remove, RowsInv, RowsTruth
<1>2. /\ status = "stopped" /\ UNCHANGED status
      /\ hits' = {h \in hits : h[1] # points[i].id}
      /\ points' = [j \in 1..n-1 |-> IF j < i THEN points[j] ELSE points[j + 1]]
      /\ rows' = [j \in 1..n-1 |-> IF j < i THEN rows[j] ELSE rows[j + 1]]
  BY <1>1 DEF Remove, Without
<1>3. \A j \in 1..n-1 : /\ from(j) \in 1..n /\ from(j) # i
                        /\ points'[j] = points[from(j)] /\ rows'[j] = rows[from(j)]
  BY <1>1, <1>2
<1>4. ASSUME NEW j \in 1..n, j # i
      PROVE  \E k \in 1..n-1 : from(k) = j
  <2>1. CASE j < i
    <3>1. j \in 1..n-1 /\ from(j) = j
      BY <1>1, <2>1
    <3>2. QED
      BY <3>1
  <2>2. CASE j > i
    <3>1. j-1 \in 1..n-1 /\ from(j-1) = j
      BY <1>1, <2>2
    <3>2. QED
      BY <3>1
  <2>3. QED
    BY <1>1, <1>4, <2>1, <2>2
<1> HIDE DEF from
<1>5. rows' \in Seq(Row) /\ Len(rows') = n - 1 /\ Len(points') = n - 1 /\ DOMAIN points' = 1..n-1
  <2>1. \A j \in 1..n : rows[j] \in Row /\ points[j] \in Point
    BY <1>1, SeqElim
  <2>2. \A j \in 1..n-1 : rows'[j] \in Row /\ points'[j] \in Point
    BY <1>3, <2>1
  <2>3. rows' \in [1..n-1 -> Row] /\ points' \in [1..n-1 -> Point]
    BY <1>2, <2>2
  <2>4. n - 1 \in Nat
    BY <1>1
  <2>5. rows' \in Seq(Row) /\ Len(rows') = n - 1
    <3> HIDE DEF Row
    <3>1. QED
      BY <2>3, <2>4, SeqIntro
  <2>6. Len(points') = n - 1 /\ DOMAIN points' = 1..n-1
    BY <2>3, <2>4, SeqIntro
  <2>7. QED
    BY <2>5, <2>6
<1>6. \A j \in 1..n : j # i => points[j].id # points[i].id
  BY <1>1, GoodIsDistinct DEF IInv, Distinct
<1>7. RowsTruth'
  <2>1. ASSUME NEW j \in 1..n-1
        PROVE  /\ rows'[j].range = points'[j].range
               /\ rows'[j].victims = {c \in Core : <<points'[j].id, c>> \in hits'}
    <3>1. /\ rows[from(j)].range = points[from(j)].range
          /\ rows[from(j)].victims = {c \in Core : <<points[from(j)].id, c>> \in hits}
      BY <1>1, <1>2, <1>3 DEF RowsInv, RowsTruth
    <3>2. points[from(j)].id # points[i].id
      BY <1>3, <1>6
    <3>3. \A c \in Core : <<points[from(j)].id, c>> \in hits' <=> <<points[from(j)].id, c>> \in hits
      BY <1>2, <3>2
    <3>4. QED
      BY <1>3, <3>1, <3>3
  <2>2. QED
    BY <1>5, <2>1 DEF RowsTruth
<1>8. \A h \in hits' : \E j \in DOMAIN points' : points'[j].id = h[1]
  <2> SUFFICES ASSUME NEW h \in hits'
               PROVE  \E j \in 1..n-1 : points'[j].id = h[1]
    BY <1>5
  <2>1. h \in hits /\ h[1] # points[i].id
    BY <1>2
  <2>2. PICK k \in 1..n : points[k].id = h[1] /\ k # i
    BY <1>1, <2>1 DEF RowsInv
  <2>3. PICK j \in 1..n-1 : from(j) = k
    BY <1>4, <2>2
  <2>4. QED
    BY <1>3, <2>2, <2>3
<1>9. hits' \subseteq Nat \X Core
  BY <1>2 DEF RowsInv
<1>10. QED
  BY <1>2, <1>5, <1>7, <1>8, <1>9 DEF RowsInv

LEMMA HitRows ==
  ASSUME IInv, RowsInv, NEW c \in Core, NEW a \in Asid, NEW x \in Address, NEW m \in Mode,
         HandleAccess(c, a, x, m)
  PROVE  RowsInv'
<1> DEFINE id == Probe(a, x, m)
           Row == [range : Range, victims : SUBSET Core]
<1>1. /\ status = "running" /\ UNCHANGED <<points, status>>
      /\ id # NoPoint /\ hits' = hits \cup {<<id, c>>}
      /\ rows' = [i \in DOMAIN rows |->
                    IF i = CHOOSE j \in DOMAIN points : points[j].id = id
                    THEN [rows[i] EXCEPT !.victims = @ \cup {c}] ELSE rows[i]]
  BY DEF HandleAccess
<1>2. PICK h \in DOMAIN points : points[h].id = id
  BY <1>1, ProbeFindsPoint DEF IInv
<1>3. rows' = [i \in DOMAIN rows |-> IF i = h THEN [rows[i] EXCEPT !.victims = @ \cup {c}] ELSE rows[i]]
  <2>1. (CHOOSE j \in DOMAIN points : points[j].id = id) = h
    BY <1>2, PointOfId DEF IInv
  <2>2. QED
    BY <1>1, <2>1
<1>4. /\ id \in Nat
      /\ \A i \in DOMAIN points : i # h => points[i].id # id
  BY <1>2, PointFacts, GoodIsDistinct DEF IInv, Good, Distinct
<1>5. /\ points \in Seq(Point) /\ DOMAIN points = 1..Len(points) /\ Len(points) \in Nat
      /\ rows \in Seq(Row) /\ Len(rows) = Len(points) /\ DOMAIN rows = 1..Len(points)
      /\ \A i \in DOMAIN rows : rows[i] \in Row
  <2>1. points \in Seq(Point) /\ rows \in Seq(Row) /\ Len(rows) = Len(points)
    BY <1>1 DEF IInv, Good, RowsInv, RowsTruth
  <2>2. QED
    BY <2>1, SeqElim
<1> HIDE DEF id
<1>6. /\ rows' \in Seq(Row) /\ Len(rows') = Len(points)
      /\ \A i \in 1..Len(points) : /\ rows'[i].range = rows[i].range
                                  /\ rows'[i].victims = IF i = h THEN rows[i].victims \cup {c}
                                                        ELSE rows[i].victims
  <2>1. \A i \in 1..Len(points) : rows'[i] \in Row
    BY <1>3, <1>5
  <2>2. rows' \in [1..Len(points) -> Row]
    BY <1>3, <1>5, <2>1
  <2>3. rows' \in Seq(Row) /\ Len(rows') = Len(points)
    BY <1>5, <2>2, SeqIntro
  <2>4. QED
    BY <1>3, <1>5, <2>3
<1>7. RowsTruth'
  <2>1. ASSUME NEW i \in 1..Len(points)
        PROVE  /\ rows'[i].range = points[i].range
               /\ rows'[i].victims = {d \in Core : <<points[i].id, d>> \in hits'}
    <3>1. rows[i].range = points[i].range /\ rows[i].victims = {d \in Core : <<points[i].id, d>> \in hits}
      BY <1>1, <1>5 DEF RowsInv, RowsTruth
    <3>2. CASE i = h
      <4>1. \A d \in Core : <<id, d>> \in hits' <=> (<<id, d>> \in hits \/ d = c)
        BY <1>1
      <4>2. {d \in Core : <<id, d>> \in hits'} = {d \in Core : <<id, d>> \in hits} \cup {c}
        BY <4>1
      <4>3. QED
        BY <1>2, <1>6, <3>1, <3>2, <4>2
    <3>3. CASE i # h
      BY <1>1, <1>4, <1>5, <1>6, <3>1, <3>3
    <3>4. QED
      BY <3>2, <3>3
  <2>2. QED
    BY <1>1, <1>5, <1>6, <2>1 DEF RowsTruth
<1>8. \A g \in hits' : \E i \in DOMAIN points' : points'[i].id = g[1]
  <2>1. <<id, c>>[1] = id
    OBVIOUS
  <2>2. \A g \in hits' : g \in hits \/ g = <<id, c>>
    BY <1>1
  <2>3. QED
    BY <1>1, <1>2, <2>1, <2>2 DEF RowsInv
<1>9. hits' \subseteq Nat \X Core
  BY <1>1, <1>4 DEF RowsInv
<1>10. QED
  BY <1>1, <1>6, <1>7, <1>8, <1>9 DEF RowsInv

(* Enabling, disabling and changing modes leave ranges and identifiers.    *)
LEMMA FlagsRows ==
  ASSUME IInv, RowsInv, NEW i \in DOMAIN points, SetEnabled(i) \/ \E m \in Modes : setAccessMode(i, m)
  PROVE  RowsInv'
<1>1. points \in Seq(Point) /\ points[i] \in Point /\ DOMAIN points = 1..Len(points) /\ Len(points) \in Nat
  BY SeqElim DEF IInv, Good
<1>2. UNCHANGED <<rows, status, hits>>
  BY DEF SetEnabled, setAccessMode
<1>3. /\ DOMAIN points' = DOMAIN points /\ Len(points') = Len(points)
      /\ \A j \in DOMAIN points : points'[j].id = points[j].id /\ points'[j].range = points[j].range
  <2>1. PICK p : /\ points' = [points EXCEPT ![i] = p]
                 /\ p.id = points[i].id /\ p.range = points[i].range
    BY <1>1 DEF SetEnabled, setAccessMode, Point
  <2>2. QED
    BY <1>1, <2>1
<1>4. RowsTruth'
  BY <1>1, <1>2, <1>3 DEF RowsInv, RowsTruth
<1>5. \A h \in hits' : \E j \in DOMAIN points' : points'[j].id = h[1]
  BY <1>2, <1>3 DEF RowsInv
<1>6. QED
  BY <1>2, <1>4, <1>5 DEF RowsInv

(* The list is built anew with the machine. *)
LEMMA InitializeRows ==
  ASSUME IInv, RowsInv, initializeMachine
  PROVE  RowsInv'
<1> DEFINE Row == [range : Range, victims : SUBSET Core]
<1>1. IInv'
  BY InitializeStep
<1>2. /\ rows' = RowsOf(points') /\ status' = "stopped" /\ hits' = {}
  BY DEF initializeMachine
<1>3. ASSUME NEW ps, Good(ps)
      PROVE  /\ DOMAIN ps = 1..Len(ps) /\ RowsOf(ps) \in Seq(Row) /\ Len(RowsOf(ps)) = Len(ps)
             /\ \A i \in DOMAIN ps : RowsOf(ps)[i].range = ps[i].range /\ RowsOf(ps)[i].victims = {}
  <2>1. Len(ps) \in Nat /\ DOMAIN ps = 1..Len(ps) /\ \A i \in DOMAIN ps : ps[i] \in Point
    BY <1>3, SeqElim DEF Good
  <2>2. \A i \in DOMAIN ps : [range |-> ps[i].range, victims |-> {}] \in Row
    BY <2>1 DEF Point
  <2>3. RowsOf(ps) \in [1..Len(ps) -> Row]
    BY <2>1, <2>2 DEF RowsOf
  <2>4. RowsOf(ps) \in Seq(Row) /\ Len(RowsOf(ps)) = Len(ps)
    <3> HIDE DEF Row
    <3>1. QED
      BY <2>1, <2>3, SeqIntro
  <2>5. QED
    BY <2>1, <2>4 DEF RowsOf
<1>4. /\ DOMAIN points' = 1..Len(points') /\ rows' \in Seq(Row) /\ Len(rows') = Len(points')
      /\ \A i \in DOMAIN points' : rows'[i].range = points'[i].range /\ rows'[i].victims = {}
  BY <1>1, <1>2, <1>3 DEF IInv
<1>5. RowsTruth'
  BY <1>2, <1>4 DEF RowsTruth
<1>6. QED
  BY <1>2, <1>4, <1>5 DEF RowsInv

(* MachineRan clears the victims of every row. *)
LEMMA RunRows ==
  ASSUME IInv, RowsInv, Run
  PROVE  RowsInv'
<1> DEFINE Row == [range : Range, victims : SUBSET Core]
<1>1. /\ status = "stopped" /\ status' = "running" /\ hits' = {} /\ UNCHANGED points
      /\ rows' = [i \in DOMAIN rows |-> [rows[i] EXCEPT !.victims = {}]]
  BY DEF Run
<1>2. /\ rows \in Seq(Row) /\ Len(rows) \in Nat /\ DOMAIN rows = 1..Len(rows) /\ Len(rows) = Len(points)
      /\ \A i \in DOMAIN rows : rows[i] \in Row /\ rows[i].range = points[i].range
  <2>1. rows \in Seq(Row)
    BY DEF RowsInv
  <2>2. Len(rows) \in Nat /\ DOMAIN rows = 1..Len(rows) /\ \A i \in DOMAIN rows : rows[i] \in Row
    <3> HIDE DEF Row
    <3>1. QED
      BY <2>1, SeqElim
  <2>3. Len(rows) = Len(points)
    BY <1>1 DEF RowsInv, RowsTruth
  <2>4. \A i \in DOMAIN points : rows[i].range = points[i].range
    BY <1>1 DEF RowsInv, RowsTruth
  <2>5. DOMAIN points = 1..Len(points)
    BY SeqElim DEF IInv, Good
  <2>6. QED
    BY <2>1, <2>2, <2>3, <2>4, <2>5
<1>3. \A i \in DOMAIN rows : /\ rows'[i] \in Row
                             /\ rows'[i].range = points[i].range /\ rows'[i].victims = {}
  BY <1>1, <1>2
<1>4. rows' \in [1..Len(rows) -> Row]
  BY <1>1, <1>2, <1>3
<1>5. rows' \in Seq(Row) /\ Len(rows') = Len(points)
  <2> HIDE DEF Row
  <2>1. QED
    BY <1>2, <1>4, SeqIntro
<1>6. RowsTruth'
  BY <1>1, <1>2, <1>3, <1>5 DEF RowsTruth
<1>7. QED
  BY <1>1, <1>5, <1>6 DEF RowsInv

LEMMA NextRows ==
  ASSUME IInv, RowsInv, [Next]_vars
  PROVE  RowsInv'
<1>1. CASE halt
  <2>1. <<>> \in Seq([range : Range, victims : SUBSET Core])
    OBVIOUS
  <2>2. QED
    BY <1>1, <2>1 DEF halt, RowsInv, RowsTruth
<1>2. CASE onMachineConfigChanged
  BY <1>2 DEF onMachineConfigChanged, RowsInv, RowsTruth
<1>3. CASE Stop
  BY <1>3 DEF Stop, RowsInv, RowsTruth
<1>4. CASE UNCHANGED vars
  BY <1>4 DEF vars, RowsInv, RowsTruth
<1>5. QED
  BY <1>1, <1>2, <1>3, <1>4, InitializeRows, AddRows, RemoveRows, FlagsRows, HitRows, RunRows DEF Next

LEMMA InitStoppoints == Init => IInv /\ RowsInv
<1>1. <<>> \in Seq([range : Range, victims : SUBSET Core])
  OBVIOUS
<1>2. QED
  BY <1>1, EmptyVector DEF Init, IInv, MapInv, SymbolsInv, RowsInv, RowsTruth

LEMMA InvariantMeans == IInv => Distinct /\ ProbeFinds
  BY GoodIsDistinct, ProbeIsExact DEF IInv

(* The list of a running or stopped machine has a row for every stoppoint, *)
(* in their order, with its range and exactly the cores that hit it since  *)
(* the machine last ran (StoppointListModel, StoppointSet::Add and Remove).*)
THEOREM ListIsTrue == Spec => []RowsTruth
<1>1. Init => IInv /\ RowsInv
  BY InitStoppoints
<1>2. IInv /\ RowsInv /\ [Next]_vars => IInv' /\ RowsInv'
  BY NextIInv, NextRows
<1>3. RowsInv => RowsTruth
  BY DEF RowsInv
<1>4. QED
  BY <1>1, <1>2, <1>3, PTL DEF Spec
=============================================================================
