---------------------------- MODULE NetworkGraph ----------------------------
(***************************************************************************)
(* The graph the network algorithms share (Graph of                        *)
(* internal/algo/network/graph.go): nodes at a point of a level, directed  *)
(* edges between them, and what an edge costs.  GraphBuild fills it,       *)
(* GraphSearch searches it.                                                *)
(*                                                                         *)
(* Geometry is one axis: a point is its position, in units well below the  *)
(* quantum to which coordinates are rounded, and a distance is a           *)
(* difference.  What the code does with geometry it does axis by axis.     *)
(***************************************************************************)
EXTENDS Integers, Sequences

CONSTANTS
    Points,      \* positions of vertices
    Levels,
    Quantum,     \* width of the interval rounded to one key
    Scale        \* time to travel one unit of length at speed one

ASSUME GraphAssumption ==
    /\ Points \subseteq Nat /\ Levels \subseteq Int
    /\ Quantum \in Nat \ {0} /\ Scale \in Nat \ {0}

VARIABLES
    nodes,       \* Graph.Nodes: sequence of [pt, level]
    edges        \* Graph.Edges: sequence of [from, to, len, speed, dur, feat]

graph == <<nodes, edges>>
NodeIDs == DOMAIN nodes
EdgeIDs == DOMAIN edges

\* Haversine.
Dist(p, q) == IF p < q THEN q - p ELSE p - q

\* quantize: rounding to the nearest multiple, halves up.
Quantize(p) == (p + Quantum \div 2) \div Quantum

\* TravelSeconds: a connector's own duration, or length over speed.
TravelTime(e) == IF e.dur > 0 THEN e.dur ELSE (e.len * Scale) \div e.speed

\* costFunc.
Price(basis, e) == IF basis = "time" THEN TravelTime(e) ELSE e.len

\* Graph.Adj.
Out(u) == {i \in EdgeIDs : edges[i].from = u}

\* Graph.MaxSpeedMS.
MaxSpeed == IF edges = <<>> THEN 1
            ELSE CHOOSE s \in {edges[i].speed : i \in EdgeIDs} :
                     \A i \in EdgeIDs : edges[i].speed <= s

-----------------------------------------------------------------------------
(* What a search should find, independently of how it searches.            *)

\* The cost of a node that is not reached.
Inf == -1
Less(a, b) == a # Inf /\ (b = Inf \/ a < b)
Least(S) == IF S \subseteq {Inf} THEN Inf
            ELSE CHOOSE a \in S : a # Inf /\ \A b \in S : ~Less(b, a)

\* Least costs over walks from the seeds (a function from nodes to initial costs), of
\* no edge, of one edge more than before, and of at most k.
AtSeeds(seeds) == [v \in NodeIDs |-> IF v \in DOMAIN seeds THEN seeds[v] ELSE Inf]
OneEdgeMore(before, basis) ==
    [v \in NodeIDs |->
       Least({before[v]} \cup
             {before[edges[j].from] + Price(basis, edges[j]) :
                j \in {m \in EdgeIDs : edges[m].to = v /\ before[edges[m].from] # Inf}})]
LeastWithin(seeds, basis, k) ==
    LET within[i \in 0..k] ==
          IF i = 0 THEN AtSeeds(seeds) ELSE OneEdgeMore(within[i - 1], basis)
    IN within[k]
LeastCost(seeds, basis) == LeastWithin(seeds, basis, Len(nodes))
\* The same up to a cutoff (0: none); a seed beyond it keeps its own cost.
LeastUpTo(seeds, basis, cutoff) ==
    LET least == LeastCost(seeds, basis) IN
    [v \in NodeIDs |-> IF cutoff = 0 \/ least[v] <= cutoff THEN least[v]
                       ELSE IF v \in DOMAIN seeds THEN seeds[v] ELSE Inf]
=============================================================================
