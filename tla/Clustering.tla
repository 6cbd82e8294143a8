----------------------------- MODULE Clustering -----------------------------
(***************************************************************************)
(* DBSCAN (internal/algo/cluster/dbscan.go): features become points of the *)
(* plane, a grid of cells as wide as the radius finds their neighbours, and *)
(* clusters grow breadth first from points with enough of them.            *)
(***************************************************************************)
EXTENDS Listing, Sequences, Functions, FiniteSetsExt

CONSTANTS
    Collections,    \* what a source may return: sequences of features
    Eps,            \* eps_m
    Densities,      \* min_points a request may ask for
    HalfRange,      \* half the number of cell numbers (2^31 in the code)
    CheckEvery      \* algo.CancelCheckInterval

ASSUME ClusterAssumption ==
    /\ Collections \subseteq Seq(Seq(Int \X Int))
    /\ Eps \in Nat \ {0} /\ Densities \subseteq Nat \ {0}
    /\ HalfRange \in Nat \ {0} /\ CheckEvery \in Nat \ {0}

VARIABLES
    pts,         \* the points, projected to metres: <<x, y>>
    minPts,
    label,       \* Unclassified, Noise, or a cluster from 0 on
    cluster,     \* the next cluster
    point,       \* the point the outer loop comes to
    growing,     \* the queue of the cluster being grown
    steps,       \* steps since the last look at the context
    sums,        \* count and bounds of each cluster
    phase        \* "no", "scanning", "growing", "done", "cancelled", "refused"

clustering == <<pts, minPts, label, cluster, point, growing, steps, sums, phase>>

Noise == -1
Unclassified == -2
Indices == DOMAIN pts

ClusterIdle ==
    /\ pts = <<>> /\ minPts = 1 /\ label = <<>> /\ cluster = 0 /\ point = 1 /\ growing = <<>>
    /\ steps = 0 /\ sums = <<>> /\ phase = "no"

\* A feature is the sequence of its vertices, empty if it has no geometry.  A point
\* stands for itself, anything else for the middle of its bounds.
Middle(f, axis) ==
    LET coordinates == {f[v][axis] : v \in DOMAIN f}
    IN (Min(coordinates) + Max(coordinates)) \div 2
Placed(feats) ==
    LET usable == Picked(feats, {i \in DOMAIN feats : feats[i] # <<>>})
    IN [i \in DOMAIN usable |-> <<Middle(usable[i], 1), Middle(usable[i], 2)>>]

BeginClustering(feats, density) ==
    /\ pts' = Placed(feats)
    /\ minPts' = density
    /\ label' = [i \in DOMAIN pts' |-> Unclassified]
    /\ phase' = IF pts' = <<>> THEN "refused" ELSE "scanning"
    /\ UNCHANGED <<cluster, point, growing, steps, sums>>

-----------------------------------------------------------------------------
\* Arithmetic of cell numbers, which run from -HalfRange to HalfRange - 1.
Wrap(n) == ((n + HalfRange) % (2 * HalfRange)) - HalfRange
\* Conversion to a cell number: what does not fit becomes the least one, as on amd64.
Convert(n) == IF Wrap(n) = n THEN n ELSE -HalfRange
CellOf(i) == <<Convert(pts[i][1] \div Eps), Convert(pts[i][2] \div Eps)>>
Near(i, j) ==
    LET dx == pts[j][1] - pts[i][1]
        dy == pts[j][2] - pts[i][2]
    IN dx * dx + dy * dy <= Eps * Eps

\* Mutant: only the cell of the point and the ones before it.
BesideBackwards(i) == {<<Wrap(CellOf(i)[1] + dx), Wrap(CellOf(i)[2] + dy)>> : dx, dy \in -1..0}
Beside(i) == {<<Wrap(CellOf(i)[1] + dx), Wrap(CellOf(i)[2] + dy)>> : dx, dy \in -1..1}
\* neighbours; the order in which they are met is that of the cells, and then of the points.
Neighbours(i) ==
    LET near == {j \in Indices : CellOf(j) \in Beside(i) /\ Near(i, j)}
        shift(j, axis) == Wrap(CellOf(j)[axis] - CellOf(i)[axis])
        Before(a, b) == \/ shift(a, 2) < shift(b, 2)
                        \/ /\ shift(a, 2) = shift(b, 2)
                           /\ shift(a, 1) < shift(b, 1) \/ (shift(a, 1) = shift(b, 1) /\ a < b)
    IN Listed(near, {p \in near \X near : Before(p[1], p[2])})

\* One point of the outer loop.
ScanPoint ==
    /\ phase = "scanning" /\ point <= Len(pts)
    /\ IF label[point] # Unclassified
       THEN point' = point + 1 /\ UNCHANGED <<label, growing, steps, phase>>
       ELSE IF Len(Neighbours(point)) < minPts
       THEN /\ label' = [label EXCEPT ![point] = Noise]
            /\ point' = point + 1
            /\ UNCHANGED <<growing, steps, phase>>
       ELSE /\ label' = [label EXCEPT ![point] = cluster]
            /\ growing' = Neighbours(point)
            /\ steps' = 0 /\ phase' = "growing"
            /\ UNCHANGED point
    /\ UNCHANGED <<pts, minPts, cluster, sums>>

\* One point of the queue: noise becomes border, and a new core point spreads.
Grow ==
    /\ phase = "growing" /\ growing # <<>>
    /\ LET j == Head(growing) IN
       IF label[j] \in {Noise, Unclassified}
       THEN /\ label' = [label EXCEPT ![j] = cluster]
            /\ growing' = IF label[j] = Unclassified /\ Len(Neighbours(j)) >= minPts
                          THEN Tail(growing) \o Neighbours(j) ELSE Tail(growing)
       ELSE growing' = Tail(growing) /\ UNCHANGED label
    /\ steps' = (steps + 1) % CheckEvery
    /\ UNCHANGED <<pts, minPts, cluster, point, sums, phase>>

ClusterGrown ==
    /\ phase = "growing" /\ growing = <<>>
    /\ cluster' = cluster + 1 /\ point' = point + 1 /\ phase' = "scanning"
    /\ UNCHANGED <<pts, minPts, label, growing, steps, sums>>

\* The context has ended when a loop looks at it.
ClusteringGivesUp ==
    /\ \/ phase = "scanning" /\ point <= Len(pts) /\ (point - 1) % CheckEvery = 0
       \/ phase = "growing" /\ growing # <<>> /\ steps = 0
    /\ phase' = "cancelled"
    /\ UNCHANGED <<pts, minPts, label, cluster, point, growing, steps, sums>>

Members(id) == {i \in Indices : label[i] = id}
\* The summaries go through as many ids as there are labels in use, from 0 on.
Summarize ==
    /\ phase = "scanning" /\ point > Len(pts)
    /\ sums' = [id \in 0..(Cardinality({label[i] : i \in Indices} \ {Noise}) - 1) |->
                  [count |-> Cardinality(Members(id)),
                   low   |-> <<Min({pts[i][1] : i \in Members(id)}), Min({pts[i][2] : i \in Members(id)})>>,
                   high  |-> <<Max({pts[i][1] : i \in Members(id)}), Max({pts[i][2] : i \in Members(id)})>>]]
    /\ phase' = "done"
    /\ UNCHANGED <<pts, minPts, label, cluster, point, growing, steps>>

ClusterNext ==
    \/ phase = "no" /\ \E feats \in Collections, density \in Densities : BeginClustering(feats, density)
    \/ ScanPoint \/ Grow \/ ClusterGrown \/ ClusteringGivesUp \/ Summarize

-----------------------------------------------------------------------------
ClusterSpec == ClusterIdle /\ [][ClusterNext]_clustering

ClusterTypeOK ==
    /\ label \in [Indices -> {Noise, Unclassified} \cup Nat]
    /\ cluster \in 0..Len(pts) /\ point \in 1..(Len(pts) + 1)
    /\ \A k \in DOMAIN growing : growing[k] \in Indices
    /\ phase \in {"no", "scanning", "growing", "done", "cancelled", "refused"}

\* The definition of DBSCAN: core points, and those that are density-connected to one,
\* the members of every set that has it and the core points near each of its members.
Core == {i \in Indices : Cardinality({j \in Indices : Near(i, j)}) >= minPts}
Spread(set) == \A m \in set, j \in Core : Near(m, j) => j \in set
Connected(i) == {j \in Indices : \A set \in SUBSET Indices : i \in set /\ Spread(set) => j \in set}

\* Whatever the order of the features, and although cell numbers wrap around, core
\* points have one label exactly if they are density-connected, a border point has the
\* label of a core point near it, noise has none near, and no id is skipped (the loop
\* over the summaries would dereference nil).
ClustersDense ==
    phase = "done" =>
        /\ \A i \in Core : /\ label[i] \in 0..(cluster - 1)
                           /\ \A j \in Core : label[i] = label[j] <=> j \in Connected(i)
        /\ \A i \in Indices \ Core :
             LET around == {j \in Core : Near(i, j)} IN
             IF around = {} THEN label[i] = Noise
             ELSE \E j \in around : label[i] = label[j]
        /\ DOMAIN sums = {label[i] : i \in Indices} \ {Noise}
        /\ SumFunction([id \in DOMAIN sums |-> sums[id].count]) + Cardinality(Members(Noise)) = Len(pts)
=============================================================================
