----------------------------- MODULE GraphBuild -----------------------------
(***************************************************************************)
(* Building the graph of a network from its features, and the two spatial  *)
(* indexes it is entered through (graph.go and index.go of                 *)
(* internal/algo/network).                                                 *)
(***************************************************************************)
EXTENDS NetworkGraph, SequencesExt

CONSTANTS
    DefaultSpeed,    \* BuildOptions.DefaultSpeedKMH
    ElevatorTime,    \* duration of a connector that has neither length nor duration
    GridCells,       \* cells of an index
    ArcDegree,       \* metres of a degree in Haversine
    GridDegree,      \* metres of a degree in metersPerDegree
    CheckInterval    \* features between two looks at the context

ASSUME BuildAssumption ==
    /\ DefaultSpeed \in Nat \ {0} /\ ElevatorTime \in Nat \ {0}
    /\ GridCells \in Nat \ {0} /\ CheckInterval \in Nat \ {0}
    /\ ArcDegree \in Nat \ {0} /\ GridDegree \in Nat \ {0}

VARIABLES
    features,    \* what the source returned: records, see Feature
    next,        \* the feature Build comes to next
    pieces,      \* the edges still to be made of the one before
    built,       \* "building", "ready" or "failed"
    low, extent, \* gridExtent: where the cells begin, and over what width they go
    nodeCells,   \* pointGrid: the nodes of each cell
    edgeCells    \* segGrid: the edges of each cell, one of each pair of twins

indexes == <<low, extent, nodeCells, edgeCells>>
build == <<features, next, pieces, built, indexes>>

\* A feature: its lines (none if its geometry is of another kind), the level it
\* lies on, or the two that it connects, and its speed (0 if it states none).
Feature == [lines : Seq(Seq(Points)), levels : [1..1 -> Levels] \cup [1..2 -> Levels],
            dur : Nat, speed : Nat, oneway : BOOLEAN]
IsConnector(f) == Len(f.levels) = 2

Piece == [a : Points, b : Points, la : Levels, lb : Levels, len : Nat, dur : Nat]

LineLength(ln) == SumFunction([i \in 1..(Len(ln) - 1) |-> Dist(ln[i], ln[i + 1])])

\* One edge from the first point to the last, on two levels.
ConnectorPiece(f, ln) ==
    LET len == LineLength(ln) IN
    [a |-> Head(ln), b |-> Last(ln), la |-> f.levels[1], lb |-> f.levels[2], len |-> len,
     dur |-> IF len = 0 /\ f.dur = 0 THEN ElevatorTime ELSE f.dur]
\* One edge for each pair of neighbouring points.
SegmentPieces(f, ln) ==
    [i \in 1..(Len(ln) - 1) |->
       [a |-> ln[i], b |-> ln[i + 1], la |-> f.levels[1], lb |-> f.levels[1],
        len |-> Dist(ln[i], ln[i + 1]), dur |-> 0]]
Pieces(f) ==
    FlattenSeq([i \in DOMAIN f.lines |->
       IF Len(f.lines[i]) < 2 THEN <<>>
       ELSE IF IsConnector(f) THEN <<ConnectorPiece(f, f.lines[i])>>
       ELSE SegmentPieces(f, f.lines[i])])

\* Mutant: a line without a speed gets none.
SpeedAsStated(f) == f.speed
SpeedOf(f) == IF f.speed > 0 THEN f.speed ELSE DefaultSpeed

BuildInit(inputs) ==
    /\ features \in inputs
    /\ nodes = <<>> /\ edges = <<>>
    /\ next = 1 /\ pieces = <<>> /\ built = "building"
    /\ low = 0 /\ extent = 1 /\ nodeCells = <<>> /\ edgeCells = <<>>

-----------------------------------------------------------------------------
\* Mutant: the index is keyed by the coordinate as it is.
AtExactly(ns, p, l) == {i \in DOMAIN ns : ns[i].pt = p /\ ns[i].level = l}
\* The nodes that have the key of a point on a level.
At(ns, p, l) == {i \in DOMAIN ns : Quantize(ns[i].pt) = Quantize(p) /\ ns[i].level = l}

WithNode(ns, p, l) ==
    IF At(ns, p, l) = {} THEN Append(ns, [pt |-> p, level |-> l]) ELSE ns
NodeOf(ns, p, l) == CHOOSE i \in At(ns, p, l) : TRUE

NextFeature ==
    /\ built = "building" /\ pieces = <<>> /\ next <= Len(features)
    /\ pieces' = Pieces(features[next])
    /\ next' = next + 1
    /\ UNCHANGED <<features, built, indexes, graph>>

\* The context has ended when Build looks at it.
BuildGivesUp ==
    /\ built = "building" /\ pieces = <<>> /\ next <= Len(features)
    /\ (next - 1) % CheckInterval = 0
    /\ built' = "failed"
    /\ UNCHANGED <<features, next, pieces, indexes, graph>>

Edge(f, from, to, p) ==
    [from |-> from, to |-> to, len |-> p.len, speed |-> SpeedOf(features[f]), dur |-> p.dur,
     feat |-> f]

\* A piece whose ends coincide makes no edge, a two-way one makes two.
NewEdges(f, u, v, p) ==
    IF u = v THEN <<>>
    ELSE IF features[f].oneway THEN <<Edge(f, u, v, p)>>
    ELSE <<Edge(f, u, v, p), Edge(f, v, u, p)>>

\* addSegment or addConnector.
AddPiece ==
    /\ built = "building" /\ pieces # <<>>
    /\ LET p   == Head(pieces)
           ns  == WithNode(WithNode(nodes, p.a, p.la), p.b, p.lb)
       IN /\ nodes' = ns
          /\ edges' = edges \o NewEdges(next - 1, NodeOf(ns, p.a, p.la), NodeOf(ns, p.b, p.lb), p)
    /\ pieces' = Tail(pieces)
    /\ UNCHANGED <<features, next, built, indexes>>

-----------------------------------------------------------------------------
(* The indexes: a row of cells over the extent of the nodes.               *)

Clamp(v, lo, hi) == IF v < lo THEN lo ELSE IF v > hi THEN hi ELSE v
\* The cell at a distance from where the cells begin.  (Below the extent the rounding
\* of a negative quotient makes no difference.)
CellAt(d, width) == Clamp((d * GridCells) \div width, 0, GridCells - 1)
Cell(x, lo, width) == CellAt(x - lo, width)
\* A query looks at the cells within its radius in degrees, which are not the degrees
\* that Haversine measures: the window holds the distances that are InWindow.
InWindow(d, radius) == d * GridDegree <= radius * ArcDegree
Cells(p, radius) ==
    LET from  == (p - low) * GridDegree
        width == extent * GridDegree
    IN CellAt(from - radius * ArcDegree, width)..CellAt(from + radius * ArcDegree, width)

\* Mutant: one-way edges are not thought of.
HasReverseAlways(i) == TRUE
HasReverse(i) ==
    \E j \in EdgeIDs : /\ edges[j].from = edges[i].to /\ edges[j].to = edges[i].from
                       /\ edges[j].feat = edges[i].feat
\* One direction of each edge is enough for the index.
Indexed == {i \in EdgeIDs : ~(edges[i].from > edges[i].to /\ HasReverse(i))}

LowEnd(i)  == Min({nodes[edges[i].from].pt, nodes[edges[i].to].pt})
HighEnd(i) == Max({nodes[edges[i].from].pt, nodes[edges[i].to].pt})

BuildIndexes ==
    LET positions == {nodes[i].pt : i \in NodeIDs}
        lo    == Min(positions)
        width == Max({Max(positions) - lo, 1})
    IN /\ low' = lo /\ extent' = width
       /\ nodeCells' = [c \in 0..(GridCells - 1) |->
                          {i \in NodeIDs : Cell(nodes[i].pt, lo, width) = c}]
       /\ edgeCells' = [c \in 0..(GridCells - 1) |->
                          {i \in Indexed : c \in Cell(LowEnd(i), lo, width)..Cell(HighEnd(i), lo, width)}]

\* A graph without edges is an error.
FinishBuild ==
    /\ built = "building" /\ pieces = <<>> /\ next > Len(features)
    /\ IF edges = <<>> THEN built' = "failed" /\ UNCHANGED indexes
                      ELSE built' = "ready" /\ BuildIndexes
    /\ UNCHANGED <<features, next, pieces, graph>>

BuildNext == NextFeature \/ BuildGivesUp \/ AddPiece \/ FinishBuild

\* NearestNode within a distance: of several at the same one the last met, cell by
\* cell; 0 if there is none.
NearestNode(p, l, max) ==
    LET near == {m \in Cells(p, max) \X NodeIDs :
                   /\ m[2] \in nodeCells[m[1]]
                   /\ nodes[m[2]].level = l /\ Dist(p, nodes[m[2]].pt) <= max}
        Before(m, n) == LET dm == Dist(p, nodes[m[2]].pt)
                            dn == Dist(p, nodes[n[2]].pt)
                        IN \/ dm > dn
                           \/ dm = dn /\ (m[1] < n[1] \/ (m[1] = n[1] /\ m[2] <= n[2]))
    IN IF near = {} THEN 0 ELSE (CHOOSE n \in near : \A m \in near : Before(m, n))[2]

\* projectOnSegment.
Project(p, i) == Clamp(p, LowEnd(i), HighEnd(i))

\* nearby, before it sorts by distance and keeps the first k.
NearbyEdges(p, l, radius) ==
    {i \in UNION {edgeCells[c] : c \in Cells(p, radius)} :
       /\ nodes[edges[i].from].level = l /\ nodes[edges[i].to].level = l
       /\ Dist(p, Project(p, i)) <= radius}

-----------------------------------------------------------------------------
BuildTypeOK ==
    /\ built \in {"building", "ready", "failed"}
    /\ next \in 1..(Len(features) + 1)
    /\ \A i \in DOMAIN pieces : pieces[i] \in Piece
    /\ \A i \in NodeIDs : nodes[i] \in [pt : Points, level : Levels]
    /\ \A i \in EdgeIDs :
         edges[i] \in [from : NodeIDs, to : NodeIDs, len : Nat, speed : Nat \ {0}, dur : Nat,
                       feat : DOMAIN features]

\* Features join wherever their ends round to one key on one level, whatever
\* feature came first: no two nodes share a key.  (builder.node)
NodesDistinct ==
    \A i, j \in NodeIDs :
        Quantize(nodes[i].pt) = Quantize(nodes[j].pt) /\ nodes[i].level = nodes[j].level => i = j

Reversed(e) == [e EXCEPT !.from = e.to, !.to = e.from]
\* Between two pieces every two-way line can be travelled both ways at one price,
\* and no edge leads from a node to itself.  (addSegment, addConnector)
TwoWay ==
    \A i \in EdgeIDs :
        /\ edges[i].from # edges[i].to
        /\ ~features[edges[i].feat].oneway =>
              \E j \in EdgeIDs : edges[j] = Reversed(edges[i])

\* Whatever the features and their order: no two nodes share a key, and every two-way
\* line can be travelled both ways at one price.  (builder.node, addSegment,
\* addConnector)
GraphSound == NodesDistinct /\ TwoWay

\* Every edge is represented in the segment index: by itself or by an edge of its
\* feature between its ends.  Dropping one direction never loses a one-way edge.
\* (newSegGrid, hasReverse)
IndexCovers ==
    built = "ready" =>
        \A i \in EdgeIDs : \E j \in Indexed :
            /\ edges[j].feat = edges[i].feat
            /\ {edges[j].from, edges[j].to} = {edges[i].from, edges[i].to}

\* What is near, by Haversine alone.
NodesNear(p, l, r) == {i \in NodeIDs : nodes[i].level = l /\ Dist(p, nodes[i].pt) <= r}
EdgesNear(p, l, r) ==
    {i \in Indexed : /\ {nodes[edges[i].from].level, nodes[edges[i].to].level} = {l}
                     /\ LowEnd(i) - p <= r /\ p - HighEnd(i) <= r}

\* For every query point, also outside the extent, and every radius: what the grids find
\* is within the radius; they miss nothing that their window holds, whatever cells it
\* lies in; and if it holds a node, the one found is a nearest of all.  (Less than the
\* comment of Graph.NearestNode says: "Returns false if none is in range".)
\* (pointGrid.nearest, segGrid.nearby)
GridsFind ==
    built = "ready" =>
        \A p \in Points, l \in Levels, r \in Points :
            LET near == NodesNear(p, l, r)
                held == {i \in near : InWindow(Dist(p, nodes[i].pt), r)}
                got  == NearestNode(p, l, r)
                close == EdgesNear(p, l, r)
                found == NearbyEdges(p, l, r)
            IN /\ got \in near \/ (got = 0 /\ held = {})
               /\ held # {} => \A i \in near : Dist(p, nodes[got].pt) <= Dist(p, nodes[i].pt)
               /\ found \subseteq close
               /\ \A i \in close \ found : ~InWindow(LowEnd(i) - p, r) \/ ~InWindow(p - HighEnd(i), r)
=============================================================================
