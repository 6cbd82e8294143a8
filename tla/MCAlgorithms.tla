--------------------------- MODULE MCAlgorithms ---------------------------
(***************************************************************************)
(* One instance for TLC of everything that computes on features: the runs  *)
(* that share a manager, a network with its searches, map matching,        *)
(* clustering and the outlines of isochrones.  They share no state beyond  *)
(* the graph, so a behaviour takes one of them and the others stay idle.   *)
(***************************************************************************)
EXTENDS MCAlgorithmRuns, MapMatch, Clustering, Contours

VARIABLE setup

everyVar == <<setup, vars, routing, match, clustering, contour>>

-----------------------------------------------------------------------------
(* Features on positions 0, 3, 4 and 8, of which 3 and 4 round to one key. *)

Line(at, level, speed, oneway) ==
    [lines |-> <<at>>, levels |-> <<level>>, dur |-> 0, speed |-> speed, oneway |-> oneway]
Connector(at, from, to, dur) ==
    [lines |-> <<at>>, levels |-> <<from, to>>, dur |-> dur, speed |-> 0, oneway |-> FALSE]
Street   == Line(<<0, 3>>, 0, 0, FALSE)
Avenue   == Line(<<4, 8>>, 0, 0, FALSE)
Bypass   == Line(<<8, 0>>, 0, 2, TRUE)
Gallery  == Line(<<0, 4, 8>>, 1, 0, FALSE)
Elevator == Connector(<<8, 8>>, 0, 1, 0)
Express  == Connector(<<0, 8>>, 0, 1, 1)
Stairs   == Connector(<<0, 3, 4>>, 1, 0, 0)
Point    == [lines |-> <<>>, levels |-> <<0>>, dur |-> 0, speed |-> 0, oneway |-> FALSE]
Crumbs   == [Line(<<3, 4, 8>>, 0, 2, FALSE) EXCEPT !.lines = <<<<8>>, <<3, 4, 8>>, <<0, 4>>>>]
Suburb   == Line(<<12, 15>>, 0, 0, FALSE)

Networks2 ==
    { <<Street, Avenue, Bypass>>, <<Avenue, Bypass, Street>>, <<Street, Elevator, Gallery, Avenue>>,
      <<Bypass, Express, Gallery>>, <<Gallery, Stairs, Express>>, <<Point, Crumbs, Elevator>>,
      <<Street, Express, Stairs, Gallery>>, <<Point>>, <<Street, Gallery>> }
    \cup {<<f, g>> : f \in {Street, Avenue, Bypass, Stairs, Crumbs, Gallery},
                     g \in {Bypass, Elevator, Express, Crumbs}}

\* Networks and traces to match: points on, beside, between and far from streets.
MatchInputs == { <<Street, Avenue>>, <<Street, Suburb>>, <<Street, Avenue, Bypass>>, <<Crumbs>> }
TracePoints == {0, 4, 6, 8, 13}
SomeTraces == {<<p, q, r>> : p \in TracePoints, q \in TracePoints, r \in TracePoints}

\* Features to cluster: points, one with two vertices, one without geometry.
Spots == {<<p>> : p \in {<<0, 0>>, <<2, 1>>, <<3, 0>>, <<5, 2>>, <<-3, 0>>, <<9, 0>>}}
            \cup {<<>>, <<<<0, 0>>, <<2, 4>>>>}
SomeCollections == {<<a, b, c, d>> : a \in Spots, b \in Spots, c \in {<<<<5, 2>>>>},
                                     d \in {<<<<0, 0>>>>, <<<<3, 0>>>>}}

\* What a search reached: parts of a square, alone, with a diagonal, or with a spot
\* inside; spots that come to touch at a corner; a street too long for its cells.
Square == << <<<<0, 0>>, <<12, 0>>>>, <<<<12, 0>>, <<12, 12>>>>, <<<<12, 12>>, <<0, 12>>>>,
             <<<<0, 12>>, <<0, 0>>>> >>
Spot(x, y) == << <<<<x, y>>, <<x, y>>>> >>
SomeDrawings ==
    { SubSeq(Square, 1, n) : n \in 1..4 }
    \cup { Square \o Spot(6, 6), Square \o << <<<<0, 0>>, <<11, 7>>>> >>, Spot(6, 6),
           Spot(0, 0) \o Spot(3, 3), Spot(3, 0) \o Spot(0, 3) \o Spot(6, 4),
           SubSeq(Square, 1, 2) \o << <<<<0, 12>>, <<5, 9>>>> >>,
           << <<<<0, 0>>, <<18, 12>>>> >> }

-----------------------------------------------------------------------------
AllInit ==
    /\ setup \in {"runs", "network", "match", "clusters", "contours"}
    /\ Init /\ (setup # "runs" => rev = [n \in Networks |-> 1])
    /\ BuildInit(CASE setup = "network" -> Inputs [] setup = "match" -> MatchInputs [] OTHER -> {<<>>})
    /\ SearchIdle /\ MatchIdle /\ ClusterIdle /\ ContourIdle

RunsStep == setup = "runs" /\ Next /\ UNCHANGED <<routing, match, clustering, contour>>

NetworkStep == setup = "network" /\ RoutingNext /\ UNCHANGED <<vars, match, clustering, contour>>

MatchingStep == setup = "match" /\ MatchNext /\ UNCHANGED <<vars, clustering, contour>>
ClusterStep == setup = "clusters" /\ ClusterNext /\ UNCHANGED <<vars, routing, match, contour>>
ContourStep == setup = "contours" /\ ContourNext /\ UNCHANGED <<vars, routing, match, clustering>>

AllNext ==
    /\ RunsStep \/ NetworkStep \/ MatchingStep \/ ClusterStep \/ ContourStep
    /\ UNCHANGED setup

AllSpec == AllInit /\ [][AllNext]_everyVar /\ Fairness /\ RoutingFairness

-----------------------------------------------------------------------------
\* The type invariants of the components.
AnalysesTypeOK ==
    TypeOK /\ BuildTypeOK /\ SearchTypeOK /\ MatchTypeOK /\ ClusterTypeOK /\ ContourTypeOK
=============================================================================
