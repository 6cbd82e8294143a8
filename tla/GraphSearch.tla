---------------------------- MODULE GraphSearch ----------------------------
(***************************************************************************)
(* Searching the graph: Dijkstra from weighted seeds, with a cutoff or a   *)
(* target, and A* (internal/algo/network/search.go), pop by pop and edge   *)
(* by edge, and what shortest paths and isochrones read from the result    *)
(* (internal/algo/routing).                                                *)
(***************************************************************************)
EXTENDS NetworkGraph, Functions, FiniteSetsExt

CONSTANT PopInterval    \* cancelCheckInterval: pops between two looks at the context

ASSUME SearchAssumption == PopInterval \in Nat \ {0}

VARIABLES
    ask,        \* the request: algo, seeds (node -> cost), basis, cutoff, target (0: none)
    cost,       \* SearchResult.Cost
    prev,       \* SearchResult.PrevEdge, 0 if none
    queue,      \* entries [node, prio] of the heap
    settled,    \* the nodes A* has settled
    cur, left,  \* the node popped last, and its edges not relaxed yet
    pops,       \* pops since the last look at the context
    searched    \* "no", "running", "done" or "cancelled"

search == <<ask, cost, prev, queue, settled, cur, left, pops, searched>>

SearchIdle ==
    /\ ask = [algo |-> "dijkstra", seeds |-> <<>>, basis |-> "time", cutoff |-> 0, target |-> 0]
    /\ cost = <<>> /\ prev = <<>> /\ queue = {} /\ settled = {}
    /\ cur = 0 /\ left = {} /\ pops = 0 /\ searched = "no"

-----------------------------------------------------------------------------
\* The heuristic of A*: the time the straight line would take at the greatest speed
\* of any edge, or its length.
Heuristic(v) ==
    LET d == Dist(nodes[v].pt, nodes[ask.target].pt) IN
    IF ask.basis = "time" THEN (d * Scale) \div MaxSpeed ELSE d
Priority(v, c) == IF ask.algo = "astar" THEN c + Heuristic(v) ELSE c

\* (A* starts with one seed of cost 0 and its priority is never compared.)
StartSearch(request) ==
    /\ searched = "no"
    /\ ask' = request
    /\ cost' = [v \in NodeIDs |-> IF v \in DOMAIN request.seeds THEN request.seeds[v] ELSE Inf]
    /\ prev' = [v \in NodeIDs |-> 0]
    /\ queue' = {[node |-> v, prio |-> request.seeds[v]] : v \in DOMAIN request.seeds}
    /\ searched' = "running"
    /\ UNCHANGED <<graph, settled, cur, left, pops>>

\* The context has ended when the search looks at it.
SearchGivesUp ==
    /\ searched = "running" /\ cur = 0 /\ queue # {} /\ pops = 0
    /\ searched' = "cancelled"
    /\ UNCHANGED <<graph, ask, cost, prev, queue, settled, cur, left, pops>>

\* heap.Pop: an entry of least priority; of several, any.
IsNext(it) == it \in queue /\ \A other \in queue : it.prio <= other.prio
Popping(it) ==
    /\ searched = "running" /\ cur = 0 /\ IsNext(it)
    /\ queue' = queue \ {it}
    /\ pops' = (pops + 1) % PopInterval

\* Dijkstra knows an entry that was overtaken by its cost, A* by the node.
Stale(it) == IF ask.algo = "astar" THEN it.node \in settled ELSE it.prio > cost[it.node]
NowSettled(v) == IF ask.algo = "astar" THEN settled \cup {v} ELSE settled

PopStale(it) ==
    /\ Popping(it) /\ Stale(it)
    /\ UNCHANGED <<graph, ask, cost, prev, settled, cur, left, searched>>

PopTarget(it) ==
    /\ Popping(it) /\ ~Stale(it) /\ it.node = ask.target
    /\ settled' = NowSettled(it.node)
    /\ searched' = "done"
    /\ UNCHANGED <<graph, ask, cost, prev, cur, left>>

PopNode(it) ==
    /\ Popping(it) /\ ~Stale(it) /\ it.node # ask.target
    /\ settled' = NowSettled(it.node)
    /\ cur' = it.node /\ left' = Out(it.node)
    /\ UNCHANGED <<graph, ask, cost, prev, searched>>

Beyond(c) == ask.cutoff > 0 /\ c > ask.cutoff

\* Mutant: an equal cost counts as an improvement.
ImprovesOrEqual(v, c) == ~Beyond(c) /\ (cost[v] = Inf \/ c <= cost[v])
Improves(v, c) == ~Beyond(c) /\ Less(c, cost[v])

\* Mutant: the edge is recorded but not the cost's entry in the queue, if there is one.
EntriesOnce(v, c) ==
    IF \E it \in queue : it.node = v THEN queue ELSE queue \cup {[node |-> v, prio |-> Priority(v, c)]}
Entries(v, c) == queue \cup {[node |-> v, prio |-> Priority(v, c)]}

\* One edge of the node popped last, in the order of the edges.
Relax ==
    /\ cur # 0 /\ left # {}
    /\ LET i == Min(left)
           v == edges[i].to
           c == cost[cur] + Price(ask.basis, edges[i])
       IN IF Improves(v, c)
          THEN /\ cost' = [cost EXCEPT ![v] = c]
               /\ prev' = [prev EXCEPT ![v] = i]
               /\ queue' = Entries(v, c)
          ELSE UNCHANGED <<cost, prev, queue>>
    /\ left' = left \ {Min(left)}
    /\ UNCHANGED <<graph, ask, settled, cur, pops, searched>>

EndNode ==
    /\ cur # 0 /\ left = {}
    /\ cur' = 0
    /\ UNCHANGED <<graph, ask, cost, prev, queue, settled, left, pops, searched>>

\* The queue is empty.
Exhausted ==
    /\ searched = "running" /\ cur = 0 /\ queue = {}
    /\ searched' = "done"
    /\ UNCHANGED <<graph, ask, cost, prev, queue, settled, cur, left, pops>>

Pop == \E it \in queue : PopStale(it) \/ PopTarget(it) \/ PopNode(it)
SearchStep == SearchGivesUp \/ Pop \/ Relax \/ EndNode \/ Exhausted

-----------------------------------------------------------------------------
(* What is read from a result.                                             *)

\* PathTo: the edges back from a node t, as the loop meets them; longer than there
\* are nodes if it would not end.
Origin(path, t) == IF path = <<>> THEN t ELSE edges[Head(path)].from
Longer(path, t) ==
    IF prev[Origin(path, t)] = 0 THEN path ELSE <<prev[Origin(path, t)]>> \o path
PathTo(t) ==
    LET back[i \in 0..Len(nodes)] == IF i = 0 THEN <<>> ELSE Longer(back[i - 1], t)
    IN back[Len(nodes)]
PathPrice(path) == SumFunction([i \in DOMAIN path |-> Price(ask.basis, edges[path[i]])])

\* contourForCutoff: the nodes within a cutoff, and the segments drawn, each with how
\* much of its price is drawn.
ReachedBy(cut) == {u \in NodeIDs : cost[u] # Inf /\ cost[u] <= cut}
IsFull(i, cut) ==
    /\ cost[edges[i].from] + Price(ask.basis, edges[i]) <= cut
    /\ edges[i].to \in ReachedBy(cut)
Partial(cut) ==
    {i \in EdgeIDs : /\ edges[i].from \in ReachedBy(cut) /\ ~IsFull(i, cut)
                     /\ Price(ask.basis, edges[i]) > 0 /\ cost[edges[i].from] < cut}
PartOf(i, cut) == cut - cost[edges[i].from]

-----------------------------------------------------------------------------
SearchTypeOK ==
    /\ searched \in {"no", "running", "done", "cancelled"}
    /\ searched # "no" =>
         /\ ask.algo \in {"dijkstra", "astar"} /\ ask.basis \in {"time", "distance"}
         /\ ask.cutoff \in Nat /\ ask.target \in NodeIDs \cup {0}
         /\ DOMAIN ask.seeds \subseteq NodeIDs
         /\ cost \in [NodeIDs -> Nat \cup {Inf}]
         /\ prev \in [NodeIDs -> EdgeIDs \cup {0}]
         /\ queue \subseteq [node : NodeIDs, prio : Nat]
         /\ settled \subseteq NodeIDs
         /\ cur \in NodeIDs \cup {0}
         /\ left \subseteq EdgeIDs
         /\ pops \in 0..(PopInterval - 1)

\* The heuristic never promises more than an edge takes away.
Consistent ==
    \A i \in EdgeIDs :
        Heuristic(edges[i].from) <= Price(ask.basis, edges[i]) + Heuristic(edges[i].to)
\* A finished Dijkstra without a target has the least cost of every node, up to its
\* cutoff; with one, that of the target.  A* finds some path wherever there is one, and
\* a least one wherever its heuristic is consistent, although it never returns to a
\* settled node.  (Its comment promises a least one always; a connector with a duration
\* of its own may be faster than the heuristic allows for.)
LeastCosts ==
    searched = "done" =>
        LET least == LeastUpTo(ask.seeds, ask.basis, ask.cutoff) IN
        IF ask.algo = "dijkstra"
        THEN \A v \in NodeIDs : ask.target \in {0, v} => cost[v] = least[v]
        ELSE /\ cost[ask.target] = Inf <=> least[ask.target] = Inf
             /\ Consistent => cost[ask.target] = least[ask.target]

\* In every state, from every reached node the recorded edges lead back to a seed in
\* an unbroken path that costs no more than the node's cost says: PathTo ends, even
\* over edges of no cost, and the route returned is never dearer than announced.
PathSound ==
    searched # "no" =>
        \A v \in NodeIDs : cost[v] # Inf =>
            LET path   == PathTo(v)
                origin == Origin(path, v)
            IN /\ Len(path) < Len(nodes)
               /\ \A k \in 1..(Len(path) - 1) : edges[path[k]].to = edges[path[k + 1]].from
               /\ path # <<>> => edges[path[Len(path)]].to = v
               /\ origin \in DOMAIN ask.seeds
               /\ ask.seeds[origin] + PathPrice(path) <= cost[v]

\* Isochrones cut every edge inside itself, whichever of the cutoffs is drawn: what
\* is drawn of an edge that is not drawn whole ends before its far end.  Only the
\* greatest cutoff was searched with.
CutsInside ==
    searched = "done" /\ ask.algo = "dijkstra" /\ ask.target = 0 =>
        \A cut \in 1..ask.cutoff : \A i \in Partial(cut) :
            PartOf(i, cut) < Price(ask.basis, edges[i])

\* A route exists wherever a cost does and is not dearer than it says, and no isochrone
\* draws an edge beyond its end.  (PathTo, contourForCutoff)
RoutesSound == PathSound /\ CutsInside
=============================================================================
