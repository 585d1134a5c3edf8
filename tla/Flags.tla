------------------------------- MODULE Flags -------------------------------
(***************************************************************************)
(* The spatial index of mine_tracker: class Flags of                       *)
(* mine_tracker/src/flags.cpp.  An alert that comes with coordinates is    *)
(* either skipped, stored as a solitary flag, joined with a solitary flag  *)
(* into a new group, or added to the group whose centroid is closest.      *)
(*                                                                         *)
(* Positions are points of an integer grid.  A position that is a mean of  *)
(* n points is the record [lon, lat, hits] of the two sums and of n, so    *)
(* that the running mean of the code is exact; distances are compared      *)
(* squared and multiplied out, in the plane instead of on the geoid.       *)
(***************************************************************************)
EXTENDS Integers, FiniteSetsExt

CONSTANTS
  Points,         \* the coordinates alerts may carry, [lon, lat]
  Radius,         \* radius_meters, in grid units
  MinCoordinate,  \* the 0.01 degrees below which an alert is skipped
  MaxAlerts       \* bound: alerts stored in one behaviour

ASSUME FlagsAssumption ==
  /\ Points \subseteq [lon : Int, lat : Int]
  /\ Radius \in Nat \ {0}
  /\ MinCoordinate \in Int
  /\ MaxAlerts \in Nat

VARIABLES
  rtree,          \* the R-tree: a set of [at, id, group]
  groups,         \* group id -> GroupRecord
  next_id,
  next_group_id,
  accepted        \* history: how many alerts were stored

flagVars == <<rtree, groups, next_id, next_group_id, accepted>>

NoGroup == -1

-----------------------------------------------------------------------------
(* Positions *)

Position == [lon : Int, lat : Int, hits : Nat \ {0}]

PointAt(p) == [lon |-> p.lon, lat |-> p.lat, hits |-> 1]

\* Mutants: hit_count is not incremented; the last point becomes the centroid.
AddPointWithoutHit(gr, p) == [lon |-> gr.lon + p.lon, lat |-> gr.lat + p.lat, hits |-> gr.hits]
AddPointReplaces(gr, p) ==
  [lon |-> p.lon * (gr.hits + 1), lat |-> p.lat * (gr.hits + 1), hits |-> gr.hits + 1]

\* GroupRecord::add_point: the mean of one more point.
AddPoint(gr, p) == [lon  |-> gr.lon + p.lon,
                    lat  |-> gr.lat + p.lat,
                    hits |-> gr.hits + 1]

Square(x) == x * x

\* The squared distance between position a and point p, times a.hits squared.
ScaledDistance(a, p) ==
  Square(a.lon - a.hits * p.lon) + Square(a.lat - a.hits * p.lat)

Within(a, p) == ScaledDistance(a, p) <= Square(Radius * a.hits)

NoFarther(a, b, p) ==
  ScaledDistance(a, p) * Square(b.hits) <= ScaledDistance(b, p) * Square(a.hits)

-----------------------------------------------------------------------------
(* The index *)

Entry == [at : Position, id : Nat, group : Nat \cup {NoGroup}]

\* bgi::nearest(target, 1): any one of the closest entries.
Nearest(p) == {e \in rtree : \A f \in rtree : NoFarther(e.at, f.at, p)}

ContainsWithin(p) == \E e \in rtree : Within(e.at, p)

Solitaries == {e \in rtree : e.group = NoGroup}

FlagsInit ==
  /\ rtree = {}
  /\ groups = <<>>
  /\ next_id = 0
  /\ next_group_id = 0
  /\ accepted = 0

\* Mutant: nothing is skipped.
NothingSkipped(p) == FALSE

IsSkipped(p) == p.lon < MinCoordinate \/ p.lat < MinCoordinate

\* Coordinates that look like "no fix yet" are not stored.
Skip(p) ==
  /\ IsSkipped(p)
  /\ UNCHANGED flagVars

\* Mutant: dist < radius_meters.
NoneStrictlyClose(p) ==
  \/ rtree = {}
  \/ \E e \in Nearest(p) : ScaledDistance(e.at, p) >= Square(Radius * e.at.hits)

\* find_closest_pair_within returns the default pair: nothing is close enough.
NoneClose(p) ==
  \/ rtree = {}
  \/ \E e \in Nearest(p) : ~Within(e.at, p)

InsertSolitary(p) ==
  /\ ~IsSkipped(p)
  /\ NoneClose(p)
  /\ rtree' = rtree \cup {[at |-> PointAt(p), id |-> next_id, group |-> NoGroup]}
  /\ next_id' = next_id + 1
  /\ accepted' = accepted + 1
  /\ UNCHANGED <<groups, next_group_id>>

CloseNeighbour(e, p) == e \in Nearest(p) /\ Within(e.at, p)

\* Mutants: the entry that matched stays; the centroid is not inserted again.
StoreGroupKeepsEntry(e, g, gr) ==
  /\ rtree' = rtree \cup {[at |-> gr, id |-> g, group |-> g]}
  /\ groups' = [h \in DOMAIN groups \cup {g} |-> IF h = g THEN gr ELSE groups[h]]
  /\ accepted' = accepted + 1

StoreGroupLosesEntry(e, g, gr) ==
  /\ rtree' = rtree \ {e}
  /\ groups' = [h \in DOMAIN groups \cup {g} |-> IF h = g THEN gr ELSE groups[h]]
  /\ accepted' = accepted + 1

\* remove(neighbor_pair), store the group, insert its centroid.
StoreGroup(e, g, gr) ==
  /\ rtree' = (rtree \ {e}) \cup {[at |-> gr, id |-> g, group |-> g]}
  /\ groups' = [h \in DOMAIN groups \cup {g} |-> IF h = g THEN gr ELSE groups[h]]
  /\ accepted' = accepted + 1

\* The closest entry is a solitary flag: it and p become a group.
Promote(p, e) ==
  /\ ~IsSkipped(p)
  /\ CloseNeighbour(e, p)
  /\ e.group = NoGroup
  /\ StoreGroup(e, next_group_id, AddPoint(e.at, p))
  /\ next_group_id' = next_group_id + 1
  /\ UNCHANGED next_id

\* The closest entry is the centroid of a group: p moves it.
Corroborate(p, e) ==
  /\ ~IsSkipped(p)
  /\ CloseNeighbour(e, p)
  /\ e.group # NoGroup
  /\ StoreGroup(e, e.group, AddPoint(groups[e.group], p))
  /\ UNCHANGED <<next_id, next_group_id>>

\* Flags::add_flag; g is the value it returns.
AddFlag(p, g) ==
  \/ Skip(p) /\ g = NoGroup
  \/ InsertSolitary(p) /\ g = NoGroup
  \/ \E e \in rtree : Promote(p, e) /\ g = next_group_id
  \/ \E e \in rtree : Corroborate(p, e) /\ g = e.group

FlagsNext ==
  /\ accepted < MaxAlerts
  /\ \E p \in Points, g \in DOMAIN groups \cup {NoGroup, next_group_id} :
        AddFlag(p, g)

FlagsSpec == FlagsInit /\ [][FlagsNext]_flagVars

-----------------------------------------------------------------------------
(* Properties *)

\* The type of the index.
FlagsTypeOK ==
  /\ rtree \subseteq Entry
  /\ next_id \in Nat
  /\ next_group_id \in Nat
  /\ groups \in [0 .. next_group_id - 1 -> Position]
  /\ accepted \in Nat

\* The R-tree and the map of groups are two copies of the same centroids: the
\* tree holds one entry per group, at the centroid the map has for it.  The
\* code keeps them equal by a remove and an insert around every change.
IndexMatchesGroups ==
  rtree \ Solitaries =
    {[at |-> groups[g], id |-> g, group |-> g] : g \in DOMAIN groups}

\* Two flags that stay solitary are farther apart than the radius: otherwise
\* the second one would have been joined with the first (find_closest_pair_within).
SolitariesApart ==
  \A e, f \in Solitaries : e # f => ~Within(e.at, f.at)

\* No touch is lost or counted twice when flags are promoted and groups grow:
\* the solitary flags and the hits of the groups add up to the stored alerts.
HitsConserved ==
  accepted = Cardinality(Solitaries)
               + MapThenSumSet(LAMBDA g : groups[g].hits, DOMAIN groups)

\* A pin does not jump: one more touch moves the centroid of a group of n hits
\* by at most Radius / (n + 1) (GroupRecord::add_point on a point in reach).
ScaledShift(a, b) ==
  Square(b.lon * a.hits - a.lon * b.hits) + Square(b.lat * a.hits - a.lat * b.hits)

PinsMoveLittle ==
  [][\A g \in DOMAIN groups :
       /\ g \in DOMAIN groups'
       /\ ScaledShift(groups[g], groups'[g]) <= Square(Radius * groups[g].hits)]_flagVars

\* A touch that was stored is covered by the index right after, although the
\* entry it matched was removed (is_within_radius_of_any in the tests).
StoredTouchIsCovered ==
  [][\A p \in Points, g \in DOMAIN groups' \cup {NoGroup} :
       AddFlag(p, g) /\ ~IsSkipped(p) => ContainsWithin(p)']_flagVars
=============================================================================
