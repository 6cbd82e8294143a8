------------------------------ MODULE MapMatch ------------------------------
(***************************************************************************)
(* Map matching (internal/algo/routing/mapmatch.go): a trace of points is  *)
(* matched to the chain of places on edges that explains it best, by       *)
(* Viterbi's algorithm over the edges near each point.  The searches       *)
(* between two candidates are those of GraphSearch; here they are taken to *)
(* find the least costs, which is what LeastCosts says of them.            *)
(***************************************************************************)
EXTENDS Routing, Listing

CONSTANTS
    Traces,          \* traces a request may hold: sequences of points
    Radius,          \* search_radius_m
    MaxCandidates,   \* defaultMaxCandidates
    Detour, Slack,   \* cutoff of a search: Detour times the straight distance plus Slack
    Gap              \* penalty of a step that no search explains

ASSUME MatchAssumption ==
    /\ Traces \subseteq Seq(Int)
    /\ Radius \in Nat /\ MaxCandidates \in Nat \ {0}
    /\ Detour \in Nat /\ Slack \in Nat /\ Gap \in Nat

VARIABLES
    rows,        \* states: [pt, cands] of each trace point that has candidates
    score, back, \* of the rows done so far; back is 0 if unset, -1 in the first row
    line,        \* the row being scored: score and back of each candidate
    pred,        \* the candidate of the row before that is searched from next
    chosen,      \* the chain
    matched      \* "no", "scoring", "done", "failed"

match == <<rows, score, back, line, pred, chosen, matched>>

MatchIdle ==
    /\ rows = <<>> /\ score = <<>> /\ back = <<>> /\ line = <<>> /\ pred = 1 /\ chosen = <<>>
    /\ matched = "no"

\* EdgeCandidate: the edge, the projection of the point and its distance from it, and
\* how far along the edge it is.
Candidate(p, i) ==
    LET e  == edges[i]
        at == Project(p, i)
        a  == nodes[e.from].pt
    IN [edge |-> i, pt |-> at, dist |-> Dist(p, at),
        off |-> (Dist(a, at) * e.len) \div Dist(a, nodes[e.to].pt)]
\* NearbyEdges: the nearest first, and only so many; several at one distance in any
\* order, which the sort leaves open.
CandidateLists(p, l) ==
    LET near == NearbyEdges(p, l, Radius)
        far(i) == Dist(p, Project(p, i))
        Sorted(s) == /\ \A j, k \in DOMAIN s : j < k => s[j] # s[k] /\ far(s[j]) <= far(s[k])
                     /\ \A i \in near \ Range(s), k \in DOMAIN s : far(s[k]) <= far(i)
        kept == Min({Cardinality(near), MaxCandidates})
    IN {[k \in 1..kept |-> Candidate(p, s[k])] : s \in {t \in [1..kept -> near] : Sorted(t)}}
Emission(c) == -(c.dist * c.dist)

\* argmax: the first of the greatest.
ArgMax(v) == Min({k \in DOMAIN v : \A m \in DOMAIN v : v[m] <= v[k]})

Sum2(a, b) == IF a = Inf THEN Inf ELSE a + b
\* entryDistance, from the costs of a search.
EntryDistance(costs, from, to) ==
    LET e == edges[to.edge] IN
    IF to.edge = from.edge THEN Dist(to.off, from.off)
    ELSE Least({Sum2(costs[e.from], to.off), Sum2(costs[e.to], e.len - to.off)})

\* The points of a trace with the candidates of each.
CandidateRows(trace, l) ==
    LET rowsAt(i) == {[pt |-> trace[i], cands |-> cs] : cs \in CandidateLists(trace[i], l)}
    IN {rs \in [DOMAIN trace -> UNION {rowsAt(i) : i \in DOMAIN trace}] :
          \A i \in DOMAIN trace : rs[i] \in rowsAt(i)}

BeginMatch(trace, l) ==
    /\ matched = "no"
    /\ \E all \in CandidateRows(trace, l) :
       LET kept == Picked(all, {i \in DOMAIN all : all[i].cands # <<>>})
       IN /\ rows' = kept
          /\ IF Len(kept) < 2
             THEN matched' = "failed" /\ UNCHANGED <<score, back, line>>
             ELSE /\ matched' = "scoring"
                  /\ score' = <<[k \in DOMAIN kept[1].cands |-> Emission(kept[1].cands[k])]>>
                  /\ back' = <<[k \in DOMAIN kept[1].cands |-> -1]>>
                  /\ line' = [k \in DOMAIN kept[2].cands |-> [score |-> 0, back |-> 0]]
    /\ UNCHANGED <<pred, chosen>>

Row == Len(score) + 1     \* the row being scored
Straight == Dist(rows[Row - 1].pt, rows[Row].pt)

\* Mutant: a score that is not set yet counts as the zero it holds.
BetterThanZero(entry, s) == s > entry.score
Better(entry, s) == entry.back = 0 \/ s > entry.score

\* The route from one candidate to another, as far as a search with the cutoff finds one.
RouteD(i, j, k) ==
    LET from == rows[i - 1].cands[j]
        gc   == Dist(rows[i - 1].pt, rows[i].pt)
    IN EntryDistance(LeastUpTo(ExitSeeds(edges[from.edge], from.off), "distance", gc * Detour + Slack), from,
                     rows[i].cands[k])

\* One search, and every candidate of the row scored with its result.
Transition ==
    /\ matched = "scoring" /\ Row <= Len(rows) /\ pred <= Len(rows[Row - 1].cands)
    /\ line' = [k \in DOMAIN line |->
         LET d == RouteD(Row, pred, k)
             s == score[Row - 1][pred] - Dist(d, Straight) + Emission(rows[Row].cands[k])
         IN IF d # Inf /\ Better(line[k], s) THEN [score |-> s, back |-> pred] ELSE line[k]]
    /\ pred' = pred + 1
    /\ UNCHANGED <<rows, score, back, chosen, matched>>

\* The context of the search has ended.
MatchGivesUp ==
    /\ matched = "scoring" /\ Row <= Len(rows) /\ pred <= Len(rows[Row - 1].cands)
    /\ matched' = "failed"
    /\ UNCHANGED <<rows, score, back, line, pred, chosen>>

\* Candidates that no search reached continue the best chain so far; the next row.
EndRow ==
    /\ matched = "scoring" /\ Row <= Len(rows) /\ pred > Len(rows[Row - 1].cands)
    /\ LET best == ArgMax(score[Row - 1])
           full == [k \in DOMAIN line |->
                      IF line[k].back # 0 THEN line[k]
                      ELSE [score |-> score[Row - 1][best] + Emission(rows[Row].cands[k]) - Gap,
                            back |-> best]]
       IN /\ score' = Append(score, [k \in DOMAIN full |-> full[k].score])
          /\ back' = Append(back, [k \in DOMAIN full |-> full[k].back])
    /\ line' = IF Row = Len(rows) THEN <<>>
               ELSE [k \in DOMAIN rows[Row + 1].cands |-> [score |-> 0, back |-> 0]]
    /\ pred' = 1
    /\ UNCHANGED <<rows, chosen, matched>>

\* One candidate of every row.
Selections == {c \in [DOMAIN rows -> 1..MaxCandidates] : \A i \in DOMAIN rows : c[i] \in DOMAIN rows[i].cands}

\* From the best of the last row back to the first.
Backtrack ==
    /\ matched = "scoring" /\ Row > Len(rows)
    /\ \E chain \in Selections :
         /\ chain[Len(rows)] = ArgMax(score[Len(rows)])
         /\ \A i \in 2..Len(rows) : chain[i - 1] = back[i][chain[i]]
         /\ chosen' = chain
    /\ matched' = "done"
    /\ UNCHANGED <<rows, score, back, line, pred>>

MatchStep == Transition \/ MatchGivesUp \/ EndRow \/ Backtrack

matching == <<routing, match>>

MatchInit == RoutingInit /\ MatchIdle
\* A trace is matched once the graph is there.
MatchNext ==
    \/ BuildNext /\ UNCHANGED <<search, match>>
    \/ /\ built = "ready" /\ \E trace \in Traces, l \in Levels : BeginMatch(trace, l)
       /\ UNCHANGED routing
    \/ MatchStep /\ UNCHANGED routing
MatchSpec == MatchInit /\ [][MatchNext]_matching

\* routeGeometry: the length of what is drawn between two places.  This search has no
\* cutoff; without a route a straight line is drawn.
DrawnLength(from, to) ==
    LET e     == edges[to.edge]
        costs == LeastCost(ExitSeeds(edges[from.edge], from.off), "distance")
        viaTo == Less(Sum2(costs[e.to], e.len - to.off), Sum2(costs[e.from], to.off))
        entry == IF viaTo THEN e.to ELSE e.from
    IN IF to.edge = from.edge \/ costs[entry] = Inf THEN Dist(from.pt, to.pt)
       ELSE costs[entry] + IF viaTo THEN e.len - to.off ELSE to.off

-----------------------------------------------------------------------------
MatchTypeOK ==
    /\ matched \in {"no", "scoring", "done", "failed"}
    /\ \A i \in DOMAIN rows : \A k \in DOMAIN rows[i].cands :
         rows[i].cands[k].off \in 0..edges[rows[i].cands[k].edge].len
    /\ matched = "scoring" => Len(score) = Len(back) /\ Len(score) <= Len(rows)
    /\ \A i \in DOMAIN back : i > 1 => \A k \in DOMAIN back[i] : back[i][k] \in DOMAIN back[i - 1]

\* A chain may step to a candidate over a route, or, if no candidate of the row before
\* has a route to it, over a gap.
Chains == {c \in Selections :
             \A i \in 2..Len(rows) :
                \/ RouteD(i, c[i - 1], c[i]) # Inf
                \/ \A j \in DOMAIN rows[i - 1].cands : RouteD(i, j, c[i]) = Inf}
\* What a step to row i weighs, from candidate j to candidate k.
StepWeight(i, j, k) ==
    LET d == RouteD(i, j, k) IN
    Emission(rows[i].cands[k]) - IF d = Inf THEN Gap ELSE Dist(d, Dist(rows[i - 1].pt, rows[i].pt))
Weight(c) ==
    SumFunction([i \in DOMAIN rows |-> IF i = 1 THEN Emission(rows[1].cands[c[1]])
                                       ELSE StepWeight(i, c[i - 1], c[i])])

\* The chain chosen is one of the chains, and none explains the trace better, across
\* points without candidates, gaps and searches cut off.  What is drawn between places on
\* two edges is no longer than the route that was scored.  (MapMatch.Run, routeGeometry)
ChainBest ==
    matched = "done" =>
        /\ chosen \in Chains
        /\ \A c \in Chains : Weight(c) <= Weight(chosen)
        /\ \A i \in 2..Len(rows) :
             LET d    == RouteD(i, chosen[i - 1], chosen[i])
                 from == rows[i - 1].cands[chosen[i - 1]]
                 to   == rows[i].cands[chosen[i]]
             IN d # Inf /\ from.edge # to.edge => DrawnLength(from, to) <= d
=============================================================================
