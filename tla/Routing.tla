------------------------------ MODULE Routing ------------------------------
(***************************************************************************)
(* The routing algorithms of internal/algo/routing as far as they use the  *)
(* network: a graph is built from features, the points of a request are    *)
(* snapped to it, and it is searched.                                      *)
(***************************************************************************)
EXTENDS GraphBuild, GraphSearch

CONSTANTS
    Inputs,       \* sequences of features a source may return
    Snap,         \* snap_radius_m
    Cutoffs       \* cutoffs of isochrones and of the searches of map matching

ASSUME RoutingAssumption ==
    Inputs \subseteq Seq(Feature) /\ Snap \in Nat /\ Cutoffs \subseteq Nat

routing == <<graph, build, search>>

Request(algo, seeds, basis, cutoff, target) ==
    [algo |-> algo, seeds |-> seeds, basis |-> basis, cutoff |-> cutoff, target |-> target]

\* A search from one node, which costs nothing.
SeedAt(v) == [u \in {v} |-> 0]

\* ShortestPath.Run: both ends have to be near a node of their level.
ShortestPath(p, l, q, m, basis) ==
    LET src == NearestNode(p, l, Snap)
        dst == NearestNode(q, m, Snap)
    IN /\ src # 0 /\ dst # 0
       /\ StartSearch(Request("astar", SeedAt(src), basis, 0, dst))

\* Isochrone.Run searches with the greatest of its cutoffs.
Isochrone(p, l, basis, cut) ==
    LET src == NearestNode(p, l, Snap) IN
    /\ src # 0
    /\ StartSearch(Request("dijkstra", SeedAt(src), basis, cut, 0))

\* exitSeeds: from a point on an edge towards both its ends.
ExitSeeds(e, offset) ==
    [v \in {e.from, e.to} |-> IF v = e.from THEN offset ELSE e.len - offset]
\* The searches of MapMatch.Run, from an edge of the segment index: with a cutoff while
\* candidates are scored, without one when the route is drawn.
MatchFrom(i, offset, cut) ==
    StartSearch(Request("dijkstra", ExitSeeds(edges[i], offset), "distance", cut, 0))

Ask ==
    \/ \E p, q \in Points, l, m \in Levels, basis \in {"time", "distance"} :
          ShortestPath(p, l, q, m, basis)
    \/ \E p \in Points, l \in Levels, basis \in {"time", "distance"}, cut \in Cutoffs :
          Isochrone(p, l, basis, cut)
    \/ \E i \in Indexed : \E offset \in 0..edges[i].len, cut \in Cutoffs \cup {0} :
          MatchFrom(i, offset, cut)

RoutingNext ==
    \/ BuildNext /\ UNCHANGED search
    \/ built = "ready" /\ searched = "no" /\ Ask /\ UNCHANGED build
    \/ SearchStep /\ UNCHANGED build

RoutingInit == BuildInit(Inputs) /\ SearchIdle
RoutingSpec == RoutingInit /\ [][RoutingNext]_routing

\* A search runs on the goroutine of its request and waits for nothing.
RoutingFairness == WF_routing(SearchStep /\ UNCHANGED build)

\* Both spatial indexes answer every query with what is near and miss nothing in its
\* window, and represent every edge.  (Looked at before a search begins: a ready graph
\* does not change.)
IndexesFind == searched = "no" => IndexCovers /\ GridsFind

\* Every search ends: a node re-enters the queue only at a lower cost, also over
\* edges that cost nothing.
SearchEnds == searched = "running" ~> searched # "running"
=============================================================================
