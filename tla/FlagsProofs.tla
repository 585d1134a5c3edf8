---------------------------- MODULE FlagsProofs ----------------------------
(* Theorems about Flags, for every set of points and every radius.         *)
EXTENDS Flags, ConfidenceProofs, FiniteSetTheorems, WellFoundedInduction, TLAPS

\* A solitary flag is one touch, never a mean.
SinglePoints == \A e \in Solitaries : e.at.hits = 1

FlagsIInv == FlagsTypeOK /\ IndexMatchesGroups /\ SolitariesApart /\ SinglePoints

-----------------------------------------------------------------------------
(* Arithmetic of positions *)

\* A square is a natural number.
LEMMA SquareNat == ASSUME NEW x \in Int PROVE Square(x) \in Nat
<1>1. CASE x >= 0 BY <1>1, SMT DEF Square
<1>2. CASE x <  0
  <2>1. /\ -x \in Nat
        /\ x * x = (-x) * (-x)
    BY <1>2, SMT
  <2> QED BY <2>1, SMT DEF Square
<1> QED BY <1>1, <1>2

\* Scaled distances are natural numbers.
LEMMA DistanceNat ==
  ASSUME NEW a \in Position, NEW p \in [lon : Int, lat : Int]
  PROVE  ScaledDistance(a, p) \in Nat
<1>1. /\ a.lon - a.hits * p.lon \in Int
      /\ a.lat - a.hits * p.lat \in Int
  BY SMT DEF Position
<1> QED BY <1>1, SquareNat, SMT DEF ScaledDistance

\* The mean of one more point stays in Position.
LEMMA AddPointPosition ==
  ASSUME NEW a \in Position, NEW p \in [lon : Int, lat : Int]
  PROVE  AddPoint(a, p) \in Position
BY SMT DEF Position, AddPoint

\* Adding p to a mean leaves its scaled distance from p as it was.
LEMMA AddPointDistance ==
  ASSUME NEW a \in Position, NEW p \in [lon : Int, lat : Int]
  PROVE  ScaledDistance(AddPoint(a, p), p) = ScaledDistance(a, p)
<1>1. /\ (a.lon + p.lon) - (a.hits + 1) * p.lon = a.lon - a.hits * p.lon
      /\ (a.lat + p.lat) - (a.hits + 1) * p.lat = a.lat - a.hits * p.lat
  BY SMT DEF Position
<1> QED BY <1>1, SMT DEF ScaledDistance, AddPoint

\* A mean that had p in reach still has p in reach once p is added to it.
LEMMA AddPointWithin ==
  ASSUME NEW a \in Position, NEW p \in [lon : Int, lat : Int], Within(a, p)
  PROVE  Within(AddPoint(a, p), p)
<1> DEFINE n == a.hits
<1>1. n \in Nat /\ Radius \in Nat /\ AddPoint(a, p).hits = n + 1
  BY FlagsAssumption, SMT DEF Position, AddPoint
<1>2. Square(Radius * n) <= Square(Radius * (n + 1))
  <2>1. /\ Radius * n \in Nat
        /\ Radius * (n + 1) = Radius * n + Radius
    BY <1>1, SMT
  <2> DEFINE m == Radius * n
  <2>2. /\ m \in Nat
        /\ (m + Radius) * (m + Radius) = m * m + (2 * m * Radius + Radius * Radius)
        /\ 2 * m * Radius + Radius * Radius \in Nat
        /\ m * m \in Nat
    BY <1>1, <2>1, SMT
  <2> HIDE DEF m
  <2>3. m * m <= (m + Radius) * (m + Radius) BY <2>2, SMT
  <2> QED BY <2>1, <2>3, SMT DEF Square, m
<1>3. /\ ScaledDistance(AddPoint(a, p), p) = ScaledDistance(a, p)
      /\ ScaledDistance(a, p) \in Nat
  BY AddPointDistance, DistanceNat
<1>4. /\ Square(Radius * n) \in Nat
      /\ Square(Radius * (n + 1)) \in Nat
  <2>1. Radius * n \in Int /\ Radius * (n + 1) \in Int BY <1>1, SMT
  <2> QED BY <2>1, SquareNat
<1>5. ScaledDistance(a, p) <= Square(Radius * n) BY DEF Within
<1> HIDE DEF n
<1>6. ScaledDistance(AddPoint(a, p), p) <= Square(Radius * (n + 1))
  BY <1>2, <1>3, <1>4, <1>5, SMT
<1> QED BY <1>1, <1>6, SMT DEF Within

\* If the nearest entry is out of reach, so is every single point.
LEMMA NearestOutOfReach ==
  ASSUME NEW a \in Position, NEW b \in Position, b.hits = 1,
         NEW p \in [lon : Int, lat : Int],
         NoFarther(a, b, p), ~Within(a, p)
  PROVE  ~Within(b, p)
<1> DEFINE n == a.hits
           A == ScaledDistance(a, p)
           B == ScaledDistance(b, p)
<1>1. A \in Nat /\ B \in Nat /\ n \in Nat /\ Radius \in Nat
  BY DistanceNat, FlagsAssumption, SMT DEF Position
<1>2. A * Square(1) <= B * Square(n) /\ ~(A <= Square(Radius * n))
  BY SMT DEF NoFarther, Within
<1>3. SUFFICES ASSUME B <= Square(Radius * 1) PROVE FALSE
  BY SMT DEF Within
<1> HIDE DEF n, A, B
<1>4. /\ Square(1) = 1
      /\ Square(Radius * 1) = Radius * Radius
      /\ Square(n) = n * n
      /\ Square(Radius * n) = (Radius * n) * (Radius * n)
  BY <1>1, SMT DEF Square
<1>5. n * n \in Nat /\ Radius * Radius \in Nat BY <1>1, SMT
<1>6. B * (n * n) <= (Radius * Radius) * (n * n)
  BY <1>1, <1>3, <1>4, <1>5, TimesMonotone
<1>7. (Radius * Radius) * (n * n) = (Radius * n) * (Radius * n)
  BY <1>1, SMT
<1> QED BY <1>1, <1>2, <1>4, <1>5, <1>6, <1>7, SMT

-----------------------------------------------------------------------------
(* The invariant *)

\* An empty index satisfies the inductive invariant (Flags::Impl).
LEMMA FlagsInitIInv == FlagsInit => FlagsIInv
BY SMT DEF FlagsInit, FlagsIInv, FlagsTypeOK, IndexMatchesGroups, SolitariesApart,
           SinglePoints, Solitaries, NoGroup

\* What CloseNeighbour and IndexMatchesGroups say of the entry that is removed.
LEMMA CentroidOfGroup ==
  ASSUME FlagsIInv, NEW e \in rtree, e.group # NoGroup
  PROVE  /\ e.group \in DOMAIN groups
         /\ e = [at |-> groups[e.group], id |-> e.group, group |-> e.group]
<1>1. e \in rtree \ Solitaries BY DEF Solitaries
<1>2. PICK g \in DOMAIN groups :
           e = [at |-> groups[g], id |-> g, group |-> g]
  BY <1>1 DEF FlagsIInv, IndexMatchesGroups
<1> QED BY <1>2

\* Replacing the entry e by the centroid of group g keeps the two copies equal:
\* e is a solitary flag and g is new, or e is the old centroid of g.
LEMMA StoreGroupIInv ==
  ASSUME FlagsIInv, NEW e \in rtree, NEW g \in Nat, NEW gr \in Position,
         StoreGroup(e, g, gr),
         \/ e.group = NoGroup /\ g = next_group_id /\ next_group_id' = next_group_id + 1
         \/ e.group = g /\ g # NoGroup /\ next_group_id' = next_group_id,
         next_id' = next_id
  PROVE  FlagsIInv'
<1> DEFINE new == [at |-> gr, id |-> g, group |-> g]
<1>1. /\ rtree' = (rtree \ {e}) \cup {new}
      /\ groups' = [h \in DOMAIN groups \cup {g} |-> IF h = g THEN gr ELSE groups[h]]
      /\ accepted' = accepted + 1
  BY DEF StoreGroup
<1>2. /\ FlagsTypeOK /\ IndexMatchesGroups /\ SolitariesApart /\ SinglePoints
      /\ DOMAIN groups = 0 .. next_group_id - 1
      /\ next_group_id \in Nat
  BY DEF FlagsIInv, FlagsTypeOK
<1>3. g # NoGroup /\ new \in Entry
  BY SMT DEF Entry, NoGroup
<1>4. e.group # NoGroup => g \in DOMAIN groups
  BY <1>3, CentroidOfGroup
<1>5. DOMAIN groups \cup {g} = 0 .. next_group_id' - 1
  BY <1>2, <1>4, <1>3, SMT
<1>6. FlagsTypeOK'
  BY <1>1, <1>2, <1>3, <1>5, SMT DEF FlagsTypeOK
<1>7. /\ Solitaries' = Solitaries \ {e}
      /\ rtree' \ Solitaries' = ((rtree \ Solitaries) \ {e}) \cup {new}
  <2>1. new.group = g OBVIOUS
  <2> HIDE DEF new
  <2> QED BY <1>1, <1>3, <2>1 DEF Solitaries
<1>8. IndexMatchesGroups'
  <2> DEFINE Centroid(h) == [at |-> groups[h], id |-> h, group |-> h]
  <2>1. rtree \ Solitaries = {Centroid(h) : h \in DOMAIN groups}
    BY <1>2 DEF IndexMatchesGroups
  <2>2. (rtree \ Solitaries) \ {e} = {Centroid(h) : h \in DOMAIN groups \ {g}}
    <3>1. CASE e.group = NoGroup
      <4>1. g \notin DOMAIN groups BY <1>2, <1>3, <3>1, SMT
      <4>2. e \notin rtree \ Solitaries BY <3>1 DEF Solitaries
      <4> QED BY <2>1, <4>1, <4>2
    <3>2. CASE e.group # NoGroup
      <4>1. g \in DOMAIN groups /\ e = Centroid(g)
        BY <3>2, CentroidOfGroup
      <4>2. \A h \in DOMAIN groups : Centroid(h) = Centroid(g) => h = g
        BY SMT
      <4> QED BY <2>1, <4>1, <4>2
    <3> QED BY <3>1, <3>2
  <2>3. DOMAIN groups' = DOMAIN groups \cup {g}
    BY <1>1
  <2>4. {[at |-> groups'[h], id |-> h, group |-> h] : h \in DOMAIN groups'}
          = {Centroid(h) : h \in DOMAIN groups \ {g}} \cup {new}
    BY <1>1, <2>3
  <2> QED BY <1>7, <2>2, <2>4 DEF IndexMatchesGroups
<1>9. SolitariesApart' /\ SinglePoints'
  BY <1>2, <1>7 DEF SolitariesApart, SinglePoints
<1> QED BY <1>6, <1>8, <1>9 DEF FlagsIInv

\* Every alert keeps the invariant.
LEMMA AddFlagIInv ==
  ASSUME FlagsIInv, NEW p \in Points, NEW g, AddFlag(p, g)
  PROVE  FlagsIInv'
<1> USE FlagsAssumption
<1>1. p \in [lon : Int, lat : Int] OBVIOUS
<1>2. CASE Skip(p)
  BY <1>2, SMT DEF Skip, flagVars, FlagsIInv, FlagsTypeOK, IndexMatchesGroups,
           SolitariesApart, SinglePoints, Solitaries
<1>3. CASE InsertSolitary(p)
  <2> DEFINE new == [at |-> PointAt(p), id |-> next_id, group |-> NoGroup]
  <2>1. /\ NoneClose(p)
        /\ rtree' = rtree \cup {new}
        /\ next_id' = next_id + 1
        /\ accepted' = accepted + 1
        /\ UNCHANGED <<groups, next_group_id>>
    BY <1>3 DEF InsertSolitary
  <2>2. /\ PointAt(p) \in Position
        /\ PointAt(p).hits = 1
        /\ new \in Entry
    BY <1>1, SMT DEF PointAt, Position, Entry, NoGroup, FlagsIInv, FlagsTypeOK
  <2>3. FlagsTypeOK'
    BY <2>1, <2>2, SMT DEF FlagsIInv, FlagsTypeOK
  <2>4. /\ Solitaries' = Solitaries \cup {new}
        /\ rtree' \ Solitaries' = rtree \ Solitaries
    <3>1. new.group = NoGroup OBVIOUS
    <3> HIDE DEF new
    <3> QED BY <2>1, <3>1 DEF Solitaries
  <2>5. IndexMatchesGroups' /\ SinglePoints'
    BY <2>1, <2>2, <2>4 DEF FlagsIInv, IndexMatchesGroups, SinglePoints
  <2>6. \A f \in Solitaries : ~Within(f.at, PointAt(p)) /\ ~Within(PointAt(p), f.at)
    <3> SUFFICES ASSUME NEW f \in Solitaries
                 PROVE  ~Within(f.at, PointAt(p)) /\ ~Within(PointAt(p), f.at)
      OBVIOUS
    <3>1. f \in rtree /\ f.at \in Position /\ f.at.hits = 1
      BY DEF Solitaries, FlagsIInv, FlagsTypeOK, Entry, SinglePoints
    <3>2. PICK e \in Nearest(p) : ~Within(e.at, p)
      BY <2>1, <3>1 DEF NoneClose
    <3>3. e.at \in Position /\ NoFarther(e.at, f.at, p)
      BY <3>1, <3>2 DEF Nearest, FlagsIInv, FlagsTypeOK, Entry
    <3>4. ~Within(f.at, p)
      BY <1>1, <3>1, <3>2, <3>3, NearestOutOfReach
    <3>5. /\ ScaledDistance(f.at, PointAt(p)) = ScaledDistance(f.at, p)
          /\ ScaledDistance(PointAt(p), f.at) = ScaledDistance(f.at, p)
      BY <1>1, <3>1, SMT DEF PointAt, Position, ScaledDistance, Square
    <3> QED BY <2>2, <3>1, <3>4, <3>5, SMT DEF Within
  <2>7. SolitariesApart'
    <3> HIDE DEF new
    <3>1. new.at = PointAt(p) BY DEF new
    <3> QED BY <2>4, <2>6, <3>1 DEF FlagsIInv, SolitariesApart
  <2> QED BY <2>3, <2>5, <2>7 DEF FlagsIInv
<1>4. CASE \E e \in rtree : Promote(p, e)
  <2>1. PICK e \in rtree : Promote(p, e) BY <1>4
  <2>2. e.at \in Position /\ next_group_id \in Nat
    BY DEF FlagsIInv, FlagsTypeOK, Entry
  <2>3. AddPoint(e.at, p) \in Position BY <1>1, <2>2, AddPointPosition
  <2> QED BY <2>1, <2>2, <2>3, StoreGroupIInv DEF Promote
<1>5. CASE \E e \in rtree : Corroborate(p, e)
  <2>1. PICK e \in rtree : Corroborate(p, e) BY <1>5
  <2>2. /\ e.group # NoGroup
        /\ e.group \in DOMAIN groups
    BY <2>1, CentroidOfGroup DEF Corroborate
  <2>3. e.group \in Nat /\ groups[e.group] \in Position
    BY <2>2, SMT DEF FlagsIInv, FlagsTypeOK
  <2>4. AddPoint(groups[e.group], p) \in Position BY <1>1, <2>3, AddPointPosition
  <2> QED BY <2>1, <2>2, <2>3, <2>4, StoreGroupIInv DEF Corroborate
<1> QED BY <1>2, <1>3, <1>4, <1>5 DEF AddFlag

\* One alert, skipped or stored, preserves the inductive invariant (Impl::add).
LEMMA FlagsNextIInv == FlagsIInv /\ [FlagsNext]_flagVars => FlagsIInv'
<1> SUFFICES ASSUME FlagsIInv, [FlagsNext]_flagVars PROVE FlagsIInv'
  OBVIOUS
<1>1. CASE FlagsNext BY <1>1, AddFlagIInv DEF FlagsNext
<1>2. CASE UNCHANGED flagVars
  BY <1>2 DEF flagVars, FlagsIInv, FlagsTypeOK, IndexMatchesGroups, SolitariesApart,
              SinglePoints, Solitaries
<1> QED BY <1>1, <1>2

\* The inductive invariant holds in every reachable state of the index.
THEOREM FlagsInvariant == FlagsSpec => []FlagsIInv
BY FlagsInitIInv, FlagsNextIInv, PTL DEF FlagsSpec

\* The index and the group records are well typed, for every set of points.
THEOREM FlagsTypeCorrect == FlagsSpec => []FlagsTypeOK
<1>1. FlagsIInv => FlagsTypeOK BY DEF FlagsIInv
<1> QED BY <1>1, FlagsInvariant, PTL

\* The R-tree and the map of groups hold the same centroids (Impl::add).
THEOREM IndexAlwaysMatches == FlagsSpec => []IndexMatchesGroups
<1>1. FlagsIInv => IndexMatchesGroups BY DEF FlagsIInv
<1> QED BY <1>1, FlagsInvariant, PTL

\* Two flags that stay solitary are farther apart than the radius.
THEOREM SolitariesAlwaysApart == FlagsSpec => []SolitariesApart
<1>1. FlagsIInv => SolitariesApart BY DEF FlagsIInv
<1> QED BY <1>1, FlagsInvariant, PTL

-----------------------------------------------------------------------------
(* What one alert does to the pins *)

\* The shift of a mean by one more point is the distance of that point from it.
LEMMA AddPointShift ==
  ASSUME NEW a \in Position, NEW p \in [lon : Int, lat : Int]
  PROVE  /\ ScaledShift(a, AddPoint(a, p)) = ScaledDistance(a, p)
         /\ ScaledShift(a, a) = 0
<1>1. /\ (a.lon + p.lon) * a.hits - a.lon * (a.hits + 1) = -(a.lon - a.hits * p.lon)
      /\ (a.lat + p.lat) * a.hits - a.lat * (a.hits + 1) = -(a.lat - a.hits * p.lat)
      /\ a.lon * a.hits - a.lon * a.hits = 0
      /\ a.lat * a.hits - a.lat * a.hits = 0
  BY SMT DEF Position
<1>2. \A x \in Int : Square(-x) = Square(x)
  BY SMT DEF Square
<1>3. /\ a.lon - a.hits * p.lon \in Int
      /\ a.lat - a.hits * p.lat \in Int
      /\ Square(0) = 0
  BY SMT DEF Position, Square
<1> QED BY <1>1, <1>2, <1>3, SMT DEF ScaledShift, ScaledDistance, AddPoint

\* The alert that corroborates group g was in reach of the centroid of g.
LEMMA CorroborateInReach ==
  ASSUME FlagsIInv, NEW p \in Points, NEW e \in rtree, Corroborate(p, e)
  PROVE  /\ e.group \in DOMAIN groups
         /\ e.at = groups[e.group]
         /\ e.at \in Position
         /\ Within(e.at, p)
<1>1. e.group # NoGroup BY DEF Corroborate
<1> QED BY <1>1, CentroidOfGroup DEF Corroborate, CloseNeighbour, FlagsIInv, FlagsTypeOK, Entry

\* A group that no touch was added to has not moved, which is little.
LEMMA StillIsLittle ==
  ASSUME NEW a \in Position
  PROVE  ScaledShift(a, a) <= Square(Radius * a.hits)
<1>1. Radius * a.hits \in Int BY FlagsAssumption, SMT DEF Position
<1>2. Square(Radius * a.hits) \in Nat BY <1>1, SquareNat
<1>3. ScaledShift(a, a) = 0
  <2> DEFINE o == [lon |-> 0, lat |-> 0]
  <2>1. o \in [lon : Int, lat : Int] OBVIOUS
  <2> QED BY <2>1, AddPointShift
<1> QED BY <1>2, <1>3, SMT

\* A pin of n hits is never moved by more than Radius / (n + 1) in one step,
\* whatever the points and the radius are (GroupRecord::add_point).
THEOREM PinsAlwaysMoveLittle == FlagsSpec => PinsMoveLittle
<1> DEFINE Little(g) == /\ g \in DOMAIN groups'
                        /\ ScaledShift(groups[g], groups'[g]) <= Square(Radius * groups[g].hits)
<1>1. ASSUME FlagsIInv, [FlagsNext]_flagVars, NEW g \in DOMAIN groups
      PROVE  Little(g)
  <2>1. groups[g] \in Position BY <1>1 DEF FlagsIInv, FlagsTypeOK
  <2>2. CASE groups' = groups BY <2>1, <2>2, StillIsLittle
  <2>3. CASE \E p \in Points, e \in rtree : Promote(p, e)
    <3>1. PICK p \in Points, e \in rtree : Promote(p, e) BY <2>3
    <3>2. g # next_group_id BY <1>1, SMT DEF FlagsIInv, FlagsTypeOK
    <3>3. g \in DOMAIN groups' /\ groups'[g] = groups[g]
      BY <3>1, <3>2, <1>1 DEF Promote, StoreGroup
    <3> QED BY <2>1, <3>3, StillIsLittle
  <2>4. CASE \E p \in Points, e \in rtree : Corroborate(p, e)
    <3>1. PICK p \in Points, e \in rtree : Corroborate(p, e) BY <2>4
    <3>2. /\ e.at = groups[e.group]
          /\ Within(e.at, p)
          /\ DOMAIN groups' = DOMAIN groups \cup {e.group}
          /\ groups' = [h \in DOMAIN groups \cup {e.group} |->
                          IF h = e.group THEN AddPoint(groups[e.group], p) ELSE groups[h]]
      BY <1>1, <3>1, CorroborateInReach DEF Corroborate, StoreGroup
    <3>3. CASE g = e.group
      <4>1. groups'[g] = AddPoint(groups[g], p) BY <3>2, <3>3, <1>1
      <4>2. ScaledShift(groups[g], groups'[g]) = ScaledDistance(groups[g], p)
        BY <2>1, <4>1, AddPointShift, FlagsAssumption
      <4> QED BY <1>1, <3>2, <3>3, <4>2 DEF Within
    <3>4. CASE g # e.group
      <4>1. groups'[g] = groups[g] BY <3>2, <3>4, <1>1
      <4> QED BY <1>1, <2>1, <3>2, <4>1, StillIsLittle
    <3> QED BY <3>3, <3>4
  <2> QED
    BY <1>1, <2>2, <2>3, <2>4
    DEF FlagsNext, flagVars, AddFlag, Skip, InsertSolitary
<1>2. FlagsIInv /\ [FlagsNext]_flagVars => [\A g \in DOMAIN groups : Little(g)]_flagVars
  BY <1>1
<1> QED BY <1>2, FlagsInvariant, PTL DEF FlagsSpec, PinsMoveLittle

\* An alert that was stored lies within the radius of some entry right after,
\* although the entry it matched has been removed (Impl::contains_within).
THEOREM StoredTouchAlwaysCovered == FlagsSpec => StoredTouchIsCovered
<1>1. ASSUME FlagsIInv, NEW p \in Points, NEW g, AddFlag(p, g), ~IsSkipped(p)
      PROVE  ContainsWithin(p)'
  <2>1. p \in [lon : Int, lat : Int] BY FlagsAssumption
  <2>2. SUFFICES \E e \in rtree' : Within(e.at, p) BY DEF ContainsWithin
  <2>3. CASE InsertSolitary(p)
    <3>1. [at |-> PointAt(p), id |-> next_id, group |-> NoGroup] \in rtree'
      BY <2>3 DEF InsertSolitary
    <3>2. Within(PointAt(p), p)
      <4>1. ScaledDistance(PointAt(p), p) = 0
        BY <2>1, SMT DEF PointAt, ScaledDistance, Square
      <4>2. Radius * 1 \in Int /\ PointAt(p).hits = 1
        BY FlagsAssumption, SMT DEF PointAt
      <4> QED BY <4>1, <4>2, SquareNat, SMT DEF Within
    <3> QED BY <3>1, <3>2
  <2>4. ASSUME NEW a \in Position, NEW e \in rtree, NEW h, Within(a, p),
               StoreGroup(e, h, AddPoint(a, p))
        PROVE  \E f \in rtree' : Within(f.at, p)
    <3>1. [at |-> AddPoint(a, p), id |-> h, group |-> h] \in rtree'
      BY <2>4 DEF StoreGroup
    <3> QED BY <2>1, <2>4, <3>1, AddPointWithin
  <2>5. CASE \E e \in rtree : Promote(p, e)
    <3>1. PICK e \in rtree : Promote(p, e) BY <2>5
    <3>2. e.at \in Position /\ Within(e.at, p)
      BY <1>1, <3>1 DEF Promote, CloseNeighbour, FlagsIInv, FlagsTypeOK, Entry
    <3> QED BY <2>4, <3>1, <3>2 DEF Promote
  <2>6. CASE \E e \in rtree : Corroborate(p, e)
    <3>1. PICK e \in rtree : Corroborate(p, e) BY <2>6
    <3> QED BY <1>1, <2>4, <3>1, CorroborateInReach DEF Corroborate
  <2> QED BY <1>1, <2>3, <2>5, <2>6 DEF AddFlag, Skip, flagVars
<1>2. FlagsIInv /\ [FlagsNext]_flagVars =>
        [\A p \in Points, g \in DOMAIN groups' \cup {NoGroup} :
           AddFlag(p, g) /\ ~IsSkipped(p) => ContainsWithin(p)']_flagVars
  BY <1>1
<1> QED BY <1>2, FlagsInvariant, PTL DEF FlagsSpec, StoredTouchIsCovered

\* What add returns: the group whose mean a had the alert in reach and now
\* counts it, where a is the old centroid or the one point of a new group.
LEMMA AddFlagGroup ==
  ASSUME FlagsIInv, NEW p \in Points,
         NEW g \in DOMAIN groups \cup {next_group_id}, AddFlag(p, g)
  PROVE  \E a \in Position :
           /\ Within(a, p)
           /\ groups' = [h \in DOMAIN groups \cup {g} |->
                           IF h = g THEN AddPoint(a, p) ELSE groups[h]]
           /\ g \in DOMAIN groups => a = groups[g]
           /\ g \notin DOMAIN groups => a.hits = 1
<1>1. g # NoGroup BY SMT DEF FlagsIInv, FlagsTypeOK, NoGroup
<1>2. next_group_id \notin DOMAIN groups BY SMT DEF FlagsIInv, FlagsTypeOK
<1>3. CASE \E e \in rtree : Promote(p, e) /\ g = next_group_id
  <2>1. PICK e \in rtree : Promote(p, e) /\ g = next_group_id BY <1>3
  <2>2. e.at \in Position /\ e.at.hits = 1
    BY <2>1 DEF Promote, Solitaries, FlagsIInv, FlagsTypeOK, Entry, SinglePoints
  <2> QED BY <1>2, <2>1, <2>2 DEF Promote, CloseNeighbour, StoreGroup
<1>4. CASE \E e \in rtree : Corroborate(p, e) /\ g = e.group
  <2>1. PICK e \in rtree : Corroborate(p, e) /\ g = e.group BY <1>4
  <2>2. g \in DOMAIN groups /\ e.at = groups[g] /\ e.at \in Position /\ Within(e.at, p)
    BY <2>1, CorroborateInReach
  <2> QED BY <2>1, <2>2 DEF Corroborate, StoreGroup
<1> QED BY <1>1, <1>3, <1>4 DEF AddFlag

\* An alert for which add returns -1 changes no group.
LEMMA AddFlagNoGroup ==
  ASSUME FlagsIInv, NEW p \in Points, AddFlag(p, NoGroup)
  PROVE  groups' = groups
<1>1. next_group_id # NoGroup BY SMT DEF FlagsIInv, FlagsTypeOK, NoGroup
<1> QED BY <1>1 DEF AddFlag, Skip, flagVars, InsertSolitary, Corroborate
-----------------------------------------------------------------------------
(* Induction, over sets instead of predicates *)

\* A set of naturals with 0 and with the successors of its members is Nat.
LEMMA NatInductive ==
  ASSUME NEW T, 0 \in T, \A n \in Nat : n \in T => n + 1 \in T
  PROVE  Nat \subseteq T
<1> SUFFICES ASSUME Nat \ T # {} PROVE FALSE OBVIOUS
<1>1. PICK x \in Nat \ T : \A y \in Nat \ T : ~(<<y, x>> \in OpToRel(<, Nat))
  BY NatLessThanWellFounded, WFMin
<1>2. \A y \in Nat \ T : ~(y < x) BY <1>1 DEF OpToRel
<1> QED BY <1>2, SMT

\* A family with every subset of the finite set D all of whose subsets by one
\* element less it has, has all subsets of D.
LEMMA SubsetInductive ==
  ASSUME NEW D, IsFiniteSet(D), NEW T,
         \A s \in SUBSET D : (\A x \in s : s \ {x} \in T) => s \in T
  PROVE  SUBSET D \subseteq T
<1> DEFINE N == {n \in Nat : \A s \in SUBSET D : Cardinality(s) = n => s \in T}
<1>1. \A s \in SUBSET D : IsFiniteSet(s) /\ Cardinality(s) \in Nat
  BY FS_Subset, FS_CardinalityType
<1>2. 0 \in N
  <2>1. \A s \in SUBSET D : Cardinality(s) = 0 => s = {} BY <1>1, FS_EmptySet
  <2> QED BY <2>1
<1>3. ASSUME NEW n \in Nat, n \in N PROVE n + 1 \in N
  <2>1. ASSUME NEW s \in SUBSET D, Cardinality(s) = n + 1 PROVE s \in T
    <3>1. ASSUME NEW x \in s PROVE s \ {x} \in T
      <4>1. Cardinality(s \ {x}) = (n + 1) - 1 BY <1>1, <2>1, FS_RemoveElement
      <4>2. Cardinality(s \ {x}) = n BY <4>1, SMT
      <4> QED BY <1>3, <4>2
    <3> QED BY <3>1
  <2>2. n + 1 \in Nat BY SMT
  <2> QED BY <2>1, <2>2
<1> HIDE DEF N
<1>4. Nat \subseteq N BY <1>2, <1>3, NatInductive
<1> QED BY <1>1, <1>4 DEF N

-----------------------------------------------------------------------------
(* The sum of the hits of all groups *)

SumOfHits(gs) == MapThenSumSet(LAMBDA g : gs[g].hits, DOMAIN gs)

Pick(s) == CHOOSE x \in s : TRUE

\* The recursion behind MapThenSumSet.
Step(f, gs, s) == IF s = {} THEN 0 ELSE gs[Pick(s)].hits + f[s \ {Pick(s)}]

IsTotal(f, gs) == f = [s \in SUBSET DOMAIN gs |-> Step(f, gs, s)]

Counted(gs) == IsFiniteSet(DOMAIN gs) /\ \A g \in DOMAIN gs : gs[g].hits \in Nat

LEMMA PickIn == ASSUME NEW s, s # {} PROVE Pick(s) \in s
BY DEF Pick

LEMMA SumIsTotal ==
  ASSUME NEW gs PROVE SumOfHits(gs) = (CHOOSE f : IsTotal(f, gs))[DOMAIN gs]
BY DEF SumOfHits, IsTotal, Step, Pick, MapThenSumSet, MapThenFoldSet

\* A function exists that satisfies the recursion.
LEMMA TotalExists == ASSUME NEW gs, Counted(gs) PROVE \E f : IsTotal(f, gs)
<1> DEFINE D == DOMAIN gs
           N == {n \in Nat : \E f : \A s \in SUBSET D :
                               Cardinality(s) <= n => f[s] = Step(f, gs, s)}
<1>1. \A s \in SUBSET D : IsFiniteSet(s) /\ Cardinality(s) \in Nat
  BY FS_Subset, FS_CardinalityType DEF Counted
<1>2. \A s \in SUBSET D : \A x \in s : Cardinality(s \ {x}) = Cardinality(s) - 1
  BY <1>1, FS_RemoveElement
<1>3. 0 \in N
  <2>1. \A s \in SUBSET D : Cardinality(s) <= 0 => s = {}
    BY <1>1, FS_EmptySet, SMT
  <2> DEFINE f == [s \in SUBSET D |-> 0]
  <2>2. \A s \in SUBSET D : Cardinality(s) <= 0 => f[s] = Step(f, gs, s)
    BY <2>1 DEF Step
  <2> HIDE DEF f
  <2> QED BY <2>2
<1>4. ASSUME NEW n \in Nat, n \in N PROVE n + 1 \in N
  <2>1. PICK f : \A s \in SUBSET D : Cardinality(s) <= n => f[s] = Step(f, gs, s)
    BY <1>4
  <2> DEFINE e == [s \in SUBSET D |-> Step(f, gs, s)]
  <2>2. ASSUME NEW s \in SUBSET D, Cardinality(s) <= n + 1 PROVE e[s] = Step(e, gs, s)
    <3>1. CASE s = {} BY <3>1 DEF Step
    <3>2. CASE s # {}
      <4> DEFINE t == s \ {Pick(s)}
      <4>1. t \in SUBSET D /\ Cardinality(t) <= n
        <5>1. Cardinality(t) = Cardinality(s) - 1 BY <1>2, <3>2, PickIn
        <5>2. t \in SUBSET D OBVIOUS
        <5> HIDE DEF t
        <5> QED BY <1>1, <2>2, <5>1, <5>2, SMT
      <4>2. e[t] = f[t] BY <2>1, <4>1
      <4>3. e[s] = gs[Pick(s)].hits + f[t] BY <3>2 DEF Step
      <4> QED BY <3>2, <4>2, <4>3 DEF Step
    <3> QED BY <3>1, <3>2
  <2> HIDE DEF e
  <2>3. n + 1 \in Nat BY SMT
  <2> QED BY <2>2, <2>3
<1> HIDE DEF N
<1>5. Nat \subseteq N BY <1>3, <1>4, NatInductive
<1>6. Cardinality(D) \in N BY <1>1, <1>5
<1>7. \A s \in SUBSET D : Cardinality(s) <= Cardinality(D)
  BY FS_Subset DEF Counted
<1>8. PICK f : \A s \in SUBSET D : f[s] = Step(f, gs, s)
  BY <1>6, <1>7 DEF N
<1> DEFINE e == [s \in SUBSET D |-> f[s]]
<1>9. \A s \in SUBSET D : Step(e, gs, s) = Step(f, gs, s)
  BY PickIn DEF Step
<1>10. e = [s \in SUBSET D |-> Step(e, gs, s)] BY <1>8, <1>9
<1> HIDE DEF e
<1> QED BY <1>10 DEF IsTotal

\* The function of the recursion, and its values.
Total(gs) == CHOOSE f : IsTotal(f, gs)

LEMMA TotalStep ==
  ASSUME NEW gs, Counted(gs), NEW s \in SUBSET DOMAIN gs
  PROVE  Total(gs)[s] = Step(Total(gs), gs, s)
<1>1. IsTotal(Total(gs), gs) BY TotalExists DEF Total
<1> QED BY <1>1 DEF IsTotal

\* A total is a natural number.
LEMMA TotalNat ==
  ASSUME NEW gs, Counted(gs)
  PROVE  \A s \in SUBSET DOMAIN gs : Total(gs)[s] \in Nat
<1> DEFINE T == {s \in SUBSET DOMAIN gs : Total(gs)[s] \in Nat}
<1>1. ASSUME NEW s \in SUBSET DOMAIN gs, \A x \in s : s \ {x} \in T PROVE s \in T
  <2>1. Total(gs)[s] = Step(Total(gs), gs, s) BY TotalStep
  <2>2. CASE s = {} BY <2>1, <2>2 DEF Step
  <2>3. CASE s # {}
    <3>1. Pick(s) \in s BY <2>3, PickIn
    <3>2. gs[Pick(s)].hits \in Nat /\ Total(gs)[s \ {Pick(s)}] \in Nat
      BY <1>1, <3>1 DEF Counted
    <3>3. Total(gs)[s] \in Nat BY <2>1, <2>3, <3>2, SMT DEF Step
    <3> QED BY <3>3
  <2> QED BY <2>2, <2>3
<1>2. IsFiniteSet(DOMAIN gs) BY DEF Counted
<1>3. \A s \in SUBSET DOMAIN gs : (\A x \in s : s \ {x} \in T) => s \in T BY <1>1
<1> HIDE DEF T
<1>4. SUBSET DOMAIN gs \subseteq T BY <1>2, <1>3, SubsetInductive
<1> QED BY <1>4 DEF T

\* Whichever element is taken first, the total is the same.
LEMMA TotalRemove ==
  ASSUME NEW gs, Counted(gs)
  PROVE  \A s \in SUBSET DOMAIN gs : \A x \in s :
           Total(gs)[s] = gs[x].hits + Total(gs)[s \ {x}]
<1> DEFINE f == Total(gs)
           T == {s \in SUBSET DOMAIN gs : \A x \in s : f[s] = gs[x].hits + f[s \ {x}]}
<1>1. /\ \A s \in SUBSET DOMAIN gs : f[s] \in Nat
      /\ \A x \in DOMAIN gs : gs[x].hits \in Nat
  BY TotalNat DEF Counted
<1>2. \A s \in SUBSET DOMAIN gs : s # {} =>
        Pick(s) \in s /\ f[s] = gs[Pick(s)].hits + f[s \ {Pick(s)}]
  BY PickIn, TotalStep DEF Step
<1> HIDE DEF f
<1>3. ASSUME NEW s \in SUBSET DOMAIN gs, \A x \in s : s \ {x} \in T,
             NEW x \in s
      PROVE  f[s] = gs[x].hits + f[s \ {x}]
  <2> DEFINE c == Pick(s)
  <2>1. c \in s /\ f[s] = gs[c].hits + f[s \ {c}] BY <1>2
  <2> HIDE DEF c
  <2>2. CASE x = c BY <2>1, <2>2
  <2>3. CASE x # c
    <3>1. f[s \ {c}] = gs[x].hits + f[(s \ {c}) \ {x}] BY <1>3, <2>1, <2>3
    <3>2. f[s \ {x}] = gs[c].hits + f[(s \ {c}) \ {x}]
      <4>1. f[s \ {x}] = gs[c].hits + f[(s \ {x}) \ {c}] BY <1>3, <2>1, <2>3
      <4>2. (s \ {x}) \ {c} = (s \ {c}) \ {x} OBVIOUS
      <4> QED BY <4>1, <4>2
    <3>3. f[(s \ {c}) \ {x}] \in Nat /\ gs[x].hits \in Nat /\ gs[c].hits \in Nat
      BY <1>1, <2>1
    <3> QED BY <2>1, <3>1, <3>2, <3>3, SMT
  <2> QED BY <2>2, <2>3
<1>4. \A s \in SUBSET DOMAIN gs : (\A x \in s : s \ {x} \in T) => s \in T BY <1>3
<1>5. IsFiniteSet(DOMAIN gs) BY DEF Counted
<1> HIDE DEF T
<1>6. SUBSET DOMAIN gs \subseteq T BY <1>4, <1>5, SubsetInductive
<1> QED BY <1>6 DEF T, f

\* A total depends on the hits of its own groups alone.
LEMMA TotalAgrees ==
  ASSUME NEW gs, NEW ks, Counted(gs), Counted(ks),
         \A x \in DOMAIN gs : x \in DOMAIN ks => gs[x].hits = ks[x].hits
  PROVE  \A s \in SUBSET DOMAIN gs : s \subseteq DOMAIN ks => Total(gs)[s] = Total(ks)[s]
<1> DEFINE T == {s \in SUBSET DOMAIN gs :
                   s \subseteq DOMAIN ks => Total(gs)[s] = Total(ks)[s]}
<1>1. ASSUME NEW s \in SUBSET DOMAIN gs, \A x \in s : s \ {x} \in T,
             s \subseteq DOMAIN ks
      PROVE  Total(gs)[s] = Total(ks)[s]
  <2>1. /\ Total(gs)[s] = Step(Total(gs), gs, s)
        /\ Total(ks)[s] = Step(Total(ks), ks, s)
    BY <1>1, TotalStep
  <2>2. CASE s = {} BY <2>1, <2>2 DEF Step
  <2>3. CASE s # {}
    <3>1. Pick(s) \in s BY <2>3, PickIn
    <3>2. /\ gs[Pick(s)].hits = ks[Pick(s)].hits
          /\ Total(gs)[s \ {Pick(s)}] = Total(ks)[s \ {Pick(s)}]
      BY <1>1, <3>1
    <3> QED BY <2>1, <2>3, <3>2 DEF Step
  <2> QED BY <2>2, <2>3
<1>2. \A s \in SUBSET DOMAIN gs : (\A x \in s : s \ {x} \in T) => s \in T BY <1>1
<1> HIDE DEF T
<1>3. SUBSET DOMAIN gs \subseteq T BY <1>2, SubsetInductive DEF Counted
<1> QED BY <1>3 DEF T

LEMMA SumOfHitsNat == ASSUME NEW gs, Counted(gs) PROVE SumOfHits(gs) \in Nat
BY SumIsTotal, TotalNat DEF Total

\* What one group contributes: a new group adds its hits, an old one the
\* difference.
LEMMA SumOfHitsStored ==
  ASSUME NEW gs, Counted(gs), NEW g, NEW gr, gr.hits \in Nat
  PROVE  LET ks == [h \in DOMAIN gs \cup {g} |-> IF h = g THEN gr ELSE gs[h]]
         IN  /\ g \notin DOMAIN gs => SumOfHits(ks) = SumOfHits(gs) + gr.hits
             /\ g \in DOMAIN gs =>
                  SumOfHits(ks) + gs[g].hits = SumOfHits(gs) + gr.hits
<1> DEFINE ks == [h \in DOMAIN gs \cup {g} |-> IF h = g THEN gr ELSE gs[h]]
           rest == DOMAIN gs \ {g}
           old  == [h \in rest |-> gs[h]]
<1>1. /\ DOMAIN ks = DOMAIN gs \cup {g} /\ ks[g] = gr
      /\ \A h \in rest : ks[h] = gs[h]
  OBVIOUS
<1>2. Counted(ks)
  <2>1. IsFiniteSet(DOMAIN ks) BY <1>1, FS_AddElement DEF Counted
  <2>2. \A h \in DOMAIN ks : ks[h].hits \in Nat BY <1>1 DEF Counted
  <2> QED BY <2>1, <2>2 DEF Counted
<1>3. Counted(old)
  <2>1. DOMAIN old = rest /\ \A h \in rest : old[h] = gs[h] OBVIOUS
  <2>2. IsFiniteSet(rest) BY FS_RemoveElement DEF Counted
  <2> QED BY <2>1, <2>2 DEF Counted
<1>4. DOMAIN old = rest /\ \A h \in rest : old[h] = gs[h] OBVIOUS
<1> HIDE DEF ks, old
<1>5. Total(ks)[rest] = Total(old)[rest] /\ Total(gs)[rest] = Total(old)[rest]
  BY <1>1, <1>2, <1>3, <1>4, TotalAgrees
<1>6. /\ SumOfHits(gs) = Total(gs)[DOMAIN gs]
      /\ SumOfHits(ks) = Total(ks)[DOMAIN ks]
  BY SumIsTotal DEF Total
<1>7. /\ Total(ks)[DOMAIN ks] = gr.hits + Total(ks)[DOMAIN ks \ {g}]
      /\ DOMAIN ks \ {g} = rest
  BY <1>1, <1>2, TotalRemove
<1>8. SumOfHits(ks) = gr.hits + Total(gs)[rest] BY <1>5, <1>6, <1>7
<1>9. SumOfHits(gs) \in Nat /\ Total(gs)[rest] \in Nat BY TotalNat, SumOfHitsNat
<1>10. CASE g \in DOMAIN gs
  <2>1. SumOfHits(gs) = gs[g].hits + Total(gs)[rest] BY <1>6, <1>10, TotalRemove
  <2>2. gs[g].hits \in Nat BY <1>10 DEF Counted
  <2> HIDE DEF rest
  <2>3. SumOfHits(ks) + gs[g].hits = SumOfHits(gs) + gr.hits
    BY <1>8, <1>9, <2>1, <2>2, SMT
  <2> QED BY <1>10, <2>3 DEF ks
<1>11. CASE g \notin DOMAIN gs
  <2>1. rest = DOMAIN gs BY <1>11
  <2> HIDE DEF rest
  <2>2. SumOfHits(ks) = SumOfHits(gs) + gr.hits
    BY <1>6, <1>8, <1>9, <2>1, SMT
  <2> QED BY <1>11, <2>2 DEF ks
<1> QED BY <1>10, <1>11

-----------------------------------------------------------------------------
(* No touch is lost or counted twice *)

SumConserved == accepted = Cardinality(Solitaries) + SumOfHits(groups)

\* The ids tell solitary flags apart, so that a new one is one more.
HitsIInv ==
  /\ IsFiniteSet(rtree)
  /\ \A e \in Solitaries : e.id < next_id
  /\ SumConserved

\* Every alert that is stored adds one to the sum, and no other does.
LEMMA AddFlagHitsIInv ==
  ASSUME FlagsIInv, HitsIInv, NEW p \in Points, NEW g, AddFlag(p, g)
  PROVE  HitsIInv'
<1>1. /\ IsFiniteSet(Solitaries) /\ Cardinality(Solitaries) \in Nat
      /\ Solitaries \subseteq rtree
  <2>1. Solitaries \in SUBSET rtree BY DEF Solitaries
  <2> QED BY <2>1, FS_Subset, FS_CardinalityType DEF HitsIInv
<1>2. Counted(groups) /\ SumOfHits(groups) \in Nat
  <2>1. next_group_id - 1 \in Int /\ 0 \in Int BY SMT DEF FlagsIInv, FlagsTypeOK
  <2>2. IsFiniteSet(DOMAIN groups) BY <2>1, FS_Interval DEF FlagsIInv, FlagsTypeOK
  <2>3. \A h \in DOMAIN groups : groups[h].hits \in Nat
    BY DEF FlagsIInv, FlagsTypeOK, Position
  <2>4. Counted(groups) BY <2>2, <2>3 DEF Counted
  <2> QED BY <2>4, SumOfHitsNat
<1>3. /\ next_id \in Nat /\ accepted \in Nat
      /\ \A e \in Solitaries : e.id \in Nat
      /\ accepted = Cardinality(Solitaries) + SumOfHits(groups)
  BY <1>1 DEF FlagsIInv, FlagsTypeOK, Entry, HitsIInv, SumConserved
<1>4. CASE Skip(p)
  <2>1. UNCHANGED <<rtree, groups, next_id, accepted>> BY <1>4 DEF Skip, flagVars
  <2> QED BY <2>1 DEF HitsIInv, SumConserved, Solitaries
<1>5. CASE InsertSolitary(p)
  <2> DEFINE new == [at |-> PointAt(p), id |-> next_id, group |-> NoGroup]
  <2>1. /\ rtree' = rtree \cup {new} /\ next_id' = next_id + 1
        /\ accepted' = accepted + 1 /\ groups' = groups
        /\ new.group = NoGroup /\ new.id = next_id
    BY <1>5 DEF InsertSolitary
  <2> HIDE DEF new
  <2>2. Solitaries' = Solitaries \cup {new} BY <2>1 DEF Solitaries
  <2>3. new \notin Solitaries
    <3>1. ~(next_id < next_id) BY <1>3, SMT
    <3> QED BY <2>1, <3>1 DEF HitsIInv
  <2>4. Cardinality(Solitaries') = Cardinality(Solitaries) + 1
    BY <1>1, <2>2, <2>3, FS_AddElement
  <2>5. IsFiniteSet(rtree') BY <2>1, FS_AddElement DEF HitsIInv
  <2>6. \A e \in Solitaries' : e.id < next_id'
    <3>1. \A e \in Solitaries : e.id < next_id + 1 BY <1>3, SMT DEF HitsIInv
    <3>2. new.id < next_id + 1 BY <1>3, <2>1, SMT
    <3> QED BY <2>1, <2>2, <3>1, <3>2
  <2>7. accepted' = Cardinality(Solitaries') + SumOfHits(groups')
    BY <1>1, <1>2, <1>3, <2>1, <2>4, SMT
  <2> QED BY <2>5, <2>6, <2>7 DEF HitsIInv, SumConserved
<1>6. ASSUME NEW e \in rtree, NEW h, h # NoGroup, NEW gr \in Position,
             StoreGroup(e, h, gr), next_id' = next_id
      PROVE  /\ IsFiniteSet(rtree')
             /\ Solitaries' = Solitaries \ {e}
             /\ \A f \in Solitaries' : f.id < next_id'
             /\ h \in DOMAIN groups =>
                  SumOfHits(groups') + groups[h].hits = SumOfHits(groups) + gr.hits
             /\ h \notin DOMAIN groups => SumOfHits(groups') = SumOfHits(groups) + gr.hits
  <2> DEFINE new == [at |-> gr, id |-> h, group |-> h]
  <2>1. /\ rtree' = (rtree \ {e}) \cup {new} /\ new.group = h
        /\ groups' = [k \in DOMAIN groups \cup {h} |-> IF k = h THEN gr ELSE groups[k]]
    BY <1>6 DEF StoreGroup
  <2> HIDE DEF new
  <2>2. Solitaries' = Solitaries \ {e} BY <1>6, <2>1 DEF Solitaries
  <2>3. IsFiniteSet(rtree') BY <2>1, FS_AddElement, FS_RemoveElement DEF HitsIInv
  <2>4. gr.hits \in Nat BY DEF Position
  <2>5. \A f \in Solitaries' : f.id < next_id' BY <1>6, <2>2 DEF HitsIInv
  <2> QED BY <1>2, <2>1, <2>2, <2>3, <2>4, <2>5, SumOfHitsStored
<1>7. CASE \E e \in rtree : Promote(p, e)
  <2>1. PICK e \in rtree : Promote(p, e) BY <1>7
  <2> DEFINE gr == AddPoint(e.at, p)
  <2>2. e \in Solitaries /\ e.at \in Position /\ e.at.hits = 1
    BY <2>1 DEF Promote, Solitaries, FlagsIInv, FlagsTypeOK, Entry, SinglePoints
  <2>3. gr \in Position /\ gr.hits = 2
    <3>1. gr \in Position BY <2>2, FlagsAssumption, AddPointPosition
    <3>2. gr.hits = 2 BY <2>2, SMT DEF AddPoint
    <3> QED BY <3>1, <3>2
  <2>4. next_group_id # NoGroup /\ next_group_id \notin DOMAIN groups
    BY SMT DEF FlagsIInv, FlagsTypeOK, NoGroup
  <2>5. StoreGroup(e, next_group_id, gr) /\ next_id' = next_id BY <2>1 DEF Promote
  <2> HIDE DEF gr
  <2>6. /\ IsFiniteSet(rtree') /\ Solitaries' = Solitaries \ {e}
        /\ \A f \in Solitaries' : f.id < next_id'
        /\ SumOfHits(groups') = SumOfHits(groups) + 2
    BY <1>6, <2>3, <2>4, <2>5
  <2>7. Cardinality(Solitaries') = Cardinality(Solitaries) - 1
    BY <1>1, <2>2, <2>6, FS_RemoveElement
  <2>8. accepted' = Cardinality(Solitaries') + SumOfHits(groups')
    BY <1>1, <1>2, <1>3, <2>5, <2>6, <2>7, SMT DEF StoreGroup
  <2> QED BY <2>6, <2>8 DEF HitsIInv, SumConserved
<1>8. CASE \E e \in rtree : Corroborate(p, e)
  <2>1. PICK e \in rtree : Corroborate(p, e) BY <1>8
  <2> DEFINE h == e.group
             gr == AddPoint(groups[h], p)
  <2>2. h # NoGroup /\ e \notin Solitaries BY <2>1 DEF Corroborate, Solitaries
  <2>3. h \in DOMAIN groups /\ groups[h] \in Position
    BY <2>1, CorroborateInReach DEF FlagsIInv, FlagsTypeOK
  <2>4. gr \in Position /\ gr.hits = groups[h].hits + 1
    BY <2>3, FlagsAssumption, AddPointPosition DEF AddPoint
  <2>5. StoreGroup(e, h, gr) /\ next_id' = next_id BY <2>1 DEF Corroborate
  <2>6. groups[h].hits \in Nat BY <2>3 DEF Position
  <2> HIDE DEF gr, h
  <2>7. /\ IsFiniteSet(rtree') /\ Solitaries' = Solitaries \ {e}
        /\ \A f \in Solitaries' : f.id < next_id'
        /\ SumOfHits(groups') + groups[h].hits = SumOfHits(groups) + gr.hits
    BY <1>6, <2>2, <2>3, <2>4, <2>5
  <2>8. Solitaries' = Solitaries BY <2>2, <2>7
  <2>9. SumOfHits(groups') \in Nat
    <3>1. groups' = [k \in DOMAIN groups \cup {h} |-> IF k = h THEN gr ELSE groups[k]]
      BY <2>5 DEF StoreGroup
    <3>2. IsFiniteSet(DOMAIN groups') BY <1>2, <3>1, FS_AddElement DEF Counted
    <3>3. gr.hits \in Nat BY <2>4 DEF Position
    <3>4. Counted(groups') BY <1>2, <3>1, <3>2, <3>3 DEF Counted
    <3> QED BY <3>4, SumOfHitsNat
  <2>10. accepted' = Cardinality(Solitaries') + SumOfHits(groups')
    <3>1. SumOfHits(groups') = SumOfHits(groups) + 1
      BY <1>2, <2>4, <2>6, <2>7, <2>9, SMT
    <3>2. Cardinality(Solitaries') = Cardinality(Solitaries) BY <2>8
    <3>3. accepted' = accepted + 1 BY <2>5 DEF StoreGroup
    <3> QED BY <1>1, <1>2, <1>3, <3>1, <3>2, <3>3, SMT
  <2> QED BY <2>7, <2>10 DEF HitsIInv, SumConserved
<1> QED BY <1>4, <1>5, <1>7, <1>8 DEF AddFlag

\* However flags are promoted and groups grow, the solitary flags and the hits
\* of the groups add up to the alerts stored (Impl::add).
THEOREM HitsAlwaysConserved == FlagsSpec => []HitsConserved
<1>1. FlagsInit => HitsIInv
  <2> SUFFICES ASSUME FlagsInit PROVE HitsIInv OBVIOUS
  <2>1. rtree = {} /\ accepted = 0 /\ DOMAIN groups = {} BY SMT DEF FlagsInit
  <2>2. Solitaries = {} BY <2>1 DEF Solitaries
  <2>3. Counted(groups) BY <2>1, FS_EmptySet DEF Counted
  <2>4. SumOfHits(groups) = 0
    <3>1. SumOfHits(groups) = Total(groups)[{}] BY <2>1, SumIsTotal DEF Total
    <3>2. Total(groups)[{}] = Step(Total(groups), groups, {}) BY <2>3, TotalStep
    <3> QED BY <3>1, <3>2 DEF Step
  <2>5. accepted = Cardinality(Solitaries) + SumOfHits(groups)
    BY <2>1, <2>2, <2>4, FS_EmptySet, SMT
  <2> QED BY <2>1, <2>2, <2>5, FS_EmptySet DEF HitsIInv, SumConserved
<1>2. FlagsIInv /\ HitsIInv /\ [FlagsNext]_flagVars => HitsIInv'
  <2>1. UNCHANGED flagVars /\ HitsIInv => HitsIInv'
    BY DEF flagVars, HitsIInv, SumConserved, Solitaries
  <2> QED BY <2>1, AddFlagHitsIInv DEF FlagsNext
<1>3. HitsIInv => HitsConserved BY DEF HitsIInv, SumConserved, HitsConserved, SumOfHits
<1> QED BY <1>1, <1>2, <1>3, FlagsInvariant, PTL DEF FlagsSpec
=============================================================================
