--------------------------- MODULE NetworkProofs ---------------------------
(***************************************************************************)
(* Proofs about the network algorithms (GraphBuild, GraphSearch, Routing): *)
(* what a built graph and its indexes are like for any features, and what  *)
(* a search of it finds for any request.                                   *)
(***************************************************************************)
EXTENDS Routing, SequenceTheorems, DataTheorems

Node == [pt : Points, level : Levels]
EdgeAmong(n, m) == [from : 1..n, to : 1..n, len : Nat, speed : Nat \ {0}, dur : Nat,
                    feat : 1..m]

-----------------------------------------------------------------------------
(* Arithmetic.                                                             *)

LEMMA DivNat ==
    ASSUME NEW a \in Nat, NEW b \in Nat \ {0}
    PROVE  a \div b \in Nat
OBVIOUS

LEMMA TimesMonotonic ==
    ASSUME NEW a \in Int, NEW b \in Int, a <= b, NEW g \in Nat
    PROVE  a * g \in Int /\ b * g \in Int /\ a * g <= b * g
OBVIOUS

LEMMA DivMonotonic ==
    ASSUME NEW a \in Int, NEW b \in Int, a <= b, NEW w \in Nat \ {0}
    PROVE  a \div w \in Int /\ b \div w \in Int /\ a \div w <= b \div w
OBVIOUS

LEMMA DistType ==
    ASSUME NEW p \in Int, NEW q \in Int
    PROVE  Dist(p, q) \in Nat /\ Dist(p, q) = Dist(q, p)
BY DEF Dist

-----------------------------------------------------------------------------
(* The pieces of a feature.                                                *)

FlatUpTo(seqs, k, g) == g = [i \in 1..k |-> IF i = 1 THEN seqs[i] ELSE g[i - 1] \o seqs[i]]

LEMMA FlattenMore ==
    ASSUME NEW S, NEW seqs \in Seq(Seq(S)), NEW k \in Nat, k < Len(seqs),
           NEW g \in [1..k -> Seq(S)], FlatUpTo(seqs, k, g)
    PROVE  \E h \in [1..(k + 1) -> Seq(S)] : FlatUpTo(seqs, k + 1, h)
<1>1. k + 1 \in 1..Len(seqs) /\ 1 \in 1..Len(seqs)
  OBVIOUS
<1>2. seqs[k + 1] \in Seq(S)
  BY <1>1
<1> DEFINE last == IF k = 0 THEN seqs[k + 1] ELSE g[k] \o seqs[k + 1]
<1>3. last \in Seq(S)
  <2>1. CASE k = 0
    BY <1>2, <2>1
  <2>2. CASE k # 0
    <3>1. g[k] \in Seq(S)
      BY <2>2
    <3>. QED
      BY <1>2, <2>2, <3>1
  <2>. QED
    BY <2>1, <2>2
<1>10. /\ k = 0 => last = seqs[k + 1]
       /\ k # 0 => last = g[k] \o seqs[k + 1]
  OBVIOUS
<1> HIDE DEF last
<1> DEFINE h == [i \in 1..(k + 1) |-> IF i = k + 1 THEN last ELSE g[i]]
<1>4. h \in [1..(k + 1) -> Seq(S)]
  BY <1>3
<1>5. ASSUME NEW i \in 1..(k + 1)
      PROVE  h[i] = IF i = 1 THEN seqs[i] ELSE h[i - 1] \o seqs[i]
  <2>1. CASE i = k + 1
    <3>1. h[i] = last
      BY <2>1
    <3>2. k # 0 => h[i - 1] = g[k]
      BY <2>1
    <3> HIDE DEF h
    <3>3. CASE k = 0
      BY <1>10, <2>1, <3>1, <3>3
    <3>4. CASE k # 0
      <4>1. i # 1
        BY <2>1, <3>4
      <4>. QED
        BY <1>10, <2>1, <3>1, <3>2, <3>4, <4>1
    <3>. QED
      BY <3>3, <3>4
  <2>2. CASE i # k + 1
    <3>1. i \in 1..k /\ h[i] = g[i] /\ (i # 1 => h[i - 1] = g[i - 1])
      BY <2>2
    <3>2. g[i] = IF i = 1 THEN seqs[i] ELSE g[i - 1] \o seqs[i]
      BY <3>1 DEF FlatUpTo
    <3>. QED
      BY <3>1, <3>2
  <2>. QED
    BY <2>1, <2>2
<1>6. FlatUpTo(seqs, k + 1, h)
  <2>1. h = [i \in 1..(k + 1) |-> h[i]]
    OBVIOUS
  <2> HIDE DEF h
  <2>. QED
    BY <1>5, <2>1 DEF FlatUpTo
<1>. QED
  BY <1>4, <1>6

LEMMA FlattenType ==
    ASSUME NEW S, NEW seqs \in Seq(Seq(S))
    PROVE  FlattenSeq(seqs) \in Seq(S)
<1>1. PICK n \in Nat : n = Len(seqs)
  OBVIOUS
<1> DEFINE T == {k \in 0..n : \E g \in [1..k -> Seq(S)] : FlatUpTo(seqs, k, g)}
<1>2. 0 \in T
  <2> DEFINE e == [i \in 1..0 |-> seqs[i]]
  <2>1. e \in [1..0 -> Seq(S)]
    OBVIOUS
  <2>2. FlatUpTo(seqs, 0, e)
    <3>1. DOMAIN e = {}
      OBVIOUS
    <3>. QED
      BY DEF FlatUpTo
  <2>3. 0 \in 0..n
    OBVIOUS
  <2> HIDE DEF e
  <2>. QED
    BY <2>1, <2>2, <2>3
<1>3. \A k \in T : k < n => k + 1 \in T
  BY <1>1, FlattenMore
<1>4. n \in T
  <2>1. T \subseteq 0..n
    OBVIOUS
  <2> HIDE DEF T
  <2>2. T = 0..n
    BY <1>2, <1>3, <2>1, UpTo
  <2>. QED
    BY <2>2
<1>5. PICK g \in [1..n -> Seq(S)] : FlatUpTo(seqs, n, g)
  BY <1>4
<1> DEFINE f == CHOOSE h : FlatUpTo(seqs, n, h)
<1>6. FlatUpTo(seqs, n, f)
  BY <1>5
<1> HIDE DEF f
<1>7. \A k \in 1..n : f[k] = IF k = 1 THEN seqs[k] ELSE f[k - 1] \o seqs[k]
  BY <1>6 DEF FlatUpTo
<1> DEFINE U == {k \in 0..n : k = 0 \/ f[k] \in Seq(S)}
<1>8. \A k \in U : k < n => k + 1 \in U
  <2> TAKE k \in U
  <2> HAVE k < n
  <2>1. k + 1 \in 1..n /\ seqs[k + 1] \in Seq(S)
    BY <1>1
  <2>2. f[k + 1] = IF k + 1 = 1 THEN seqs[k + 1] ELSE f[k] \o seqs[k + 1]
    BY <1>7, <2>1
  <2>3. k = 0 \/ f[k] \in Seq(S)
    OBVIOUS
  <2>4. f[k + 1] \in Seq(S)
    BY <2>1, <2>2, <2>3
  <2>. QED
    BY <2>1, <2>4
<1>9. n \in U
  <2>1. U \subseteq 0..n /\ 0 \in U
    OBVIOUS
  <2> HIDE DEF U
  <2>2. U = 0..n
    BY <1>8, <2>1, UpTo
  <2>. QED
    BY <2>2
<1>10. CASE n = 0
  <2>0. Len(seqs) = 0
    BY <1>1, <1>10
  <2>1. seqs = <<>> /\ FlattenSeq(seqs) = seqs
    <3>1. FlattenSeq(seqs) = seqs
      BY <2>0, Zenon DEF FlattenSeq
    <3>2. seqs = <<>>
      BY <2>0
    <3>. QED
      BY <3>1, <3>2
  <2>2. <<>> \in Seq(S)
    OBVIOUS
  <2>. QED
    BY <2>1, <2>2, Zenon
<1>11. CASE n # 0
  <2>1. FlattenSeq(seqs) = f[n]
    BY <1>1, <1>11 DEF FlattenSeq, f, FlatUpTo
  <2>. QED
    BY <1>9, <1>11, <2>1
<1>. QED
  BY <1>10, <1>11

LEMMA LengthType ==
    ASSUME NEW ln \in Seq(Points)
    PROVE  LineLength(ln) \in Nat
<1>1. Points \subseteq Nat
  BY GraphAssumption
<1> DEFINE D == 1..(Len(ln) - 1)
           f == [i \in D |-> Dist(ln[i], ln[i + 1])]
<1>2. \A i \in D : ln[i] \in Points /\ ln[i + 1] \in Points
  OBVIOUS
<1>3. \A i \in D : ln[i] \in Int /\ ln[i + 1] \in Int
  <2>1. \A x \in Points : x \in Int
    BY <1>1
  <2> HIDE DEF D
  <2>. QED
    BY <1>2, <2>1
<1>4. \A i \in D : Dist(ln[i], ln[i + 1]) \in Nat
  BY <1>3, DistType
<1>5. \A i \in D : f[i] \in Nat
  BY <1>4
<1>6. IsFiniteSet(D)
  <2>1. 1 \in Int /\ Len(ln) - 1 \in Int
    OBVIOUS
  <2>. QED
    BY <2>1, FS_Interval
<1>7. DOMAIN f = D
  OBVIOUS
<1> HIDE DEF D
<1>8. SumFunctionOnSet(f, D) \in Nat
  <2> HIDE DEF f
  <2>. QED BY <1>5, <1>6, SumNat
<1>. QED
  BY <1>7, <1>8 DEF LineLength, SumFunction, D

LEMMA PieceTypes ==
    ASSUME NEW f \in Feature
    PROVE  Pieces(f) \in Seq(Piece)
<1>1. f.levels[1] \in Levels /\ (IsConnector(f) => f.levels[2] \in Levels)
  BY DEF Feature, IsConnector
<1> DEFINE g == [i \in DOMAIN f.lines |->
                   IF Len(f.lines[i]) < 2 THEN <<>>
                   ELSE IF IsConnector(f) THEN <<ConnectorPiece(f, f.lines[i])>>
                   ELSE SegmentPieces(f, f.lines[i])]
<1>2. \A i \in DOMAIN f.lines : g[i] \in Seq(Piece)
  <2> SUFFICES ASSUME NEW i \in DOMAIN f.lines, ~(Len(f.lines[i]) < 2) PROVE g[i] \in Seq(Piece)
    OBVIOUS
  <2> DEFINE ln == f.lines[i]
  <2>1. ln \in Seq(Points) /\ Len(ln) >= 2
    BY DEF Feature
  <2>2. CASE IsConnector(f)
    <3>1. ConnectorPiece(f, ln) \in Piece
      <4>1. LineLength(ln) \in Nat
        BY <2>1, LengthType
      <4>2. Head(ln) \in Points /\ Last(ln) \in Points
        BY <2>1 DEF Last
      <4>3. f.dur \in Nat /\ ElevatorTime \in Nat
        BY BuildAssumption DEF Feature
      <4> HIDE DEF ln
      <4>. QED
        BY <1>1, <2>2, <4>1, <4>2, <4>3 DEF ConnectorPiece, Piece
    <3>. QED
      BY <2>1, <2>2, <3>1
  <2>3. CASE ~IsConnector(f)
    <3>1. \A j \in 1..(Len(ln) - 1) : ln[j] \in Points /\ ln[j + 1] \in Points
      BY <2>1
    <3>2. \A j \in 1..(Len(ln) - 1) : Dist(ln[j], ln[j + 1]) \in Nat
      <4>0. \A x \in Points : x \in Int
        BY GraphAssumption
      <4> HIDE DEF ln
      <4>1. \A j \in 1..(Len(ln) - 1) : ln[j] \in Int /\ ln[j + 1] \in Int
        BY <3>1, <4>0
      <4>. QED
        BY <4>1, DistType
    <3>3. SegmentPieces(f, ln) \in Seq(Piece)
      <4> HIDE DEF ln
      <4>1. SegmentPieces(f, ln) \in [1..(Len(ln) - 1) -> Piece]
        BY <1>1, <3>1, <3>2 DEF SegmentPieces, Piece
      <4>. QED
        BY <2>1, <4>1
    <3>. QED
      BY <2>1, <2>3, <3>3
  <2>. QED
    BY <2>2, <2>3
<1>3. g \in Seq(Seq(Piece))
  <2>1. f.lines \in Seq(Seq(Points))
    BY DEF Feature
  <2>2. DOMAIN f.lines = 1..Len(f.lines) /\ Len(f.lines) \in Nat
    BY <2>1
  <2>3. g = [i \in 1..Len(f.lines) |-> g[i]]
    BY <2>2
  <2> HIDE DEF g
  <2>4. g \in [1..Len(f.lines) -> Seq(Piece)]
    BY <1>2, <2>2, <2>3
  <2>. QED
    BY <2>2, <2>4
<1>. QED
  BY <1>3, FlattenType DEF Pieces

-----------------------------------------------------------------------------
(* Building the graph.                                                     *)

Distinct(ns) ==
    \A i, j \in DOMAIN ns :
        Quantize(ns[i].pt) = Quantize(ns[j].pt) /\ ns[i].level = ns[j].level => i = j
Twins(es) ==
    \A i \in DOMAIN es :
        /\ es[i].from # es[i].to
        /\ ~features[es[i].feat].oneway =>
              \E j \in DOMAIN es : es[j] = Reversed(es[i])

\* What the grids hold, whatever the extent they cover.
IndexInv ==
    built = "ready" =>
        /\ low \in Nat /\ extent \in Nat \ {0}
        /\ nodeCells = [c \in 0..(GridCells - 1) |->
                          {i \in NodeIDs : Cell(nodes[i].pt, low, extent) = c}]
        /\ edgeCells = [c \in 0..(GridCells - 1) |->
                          {i \in Indexed : c \in Cell(LowEnd(i), low, extent)
                                                  ..Cell(HighEnd(i), low, extent)}]

BuildInv ==
    /\ built \in {"building", "ready", "failed"}
    /\ features \in Seq(Feature) /\ next \in 1..(Len(features) + 1)
    /\ pieces \in Seq(Piece) /\ (pieces # <<>> => next > 1)
    /\ nodes \in Seq(Node) /\ edges \in Seq(EdgeAmong(Len(nodes), Len(features)))
    /\ Distinct(nodes) /\ Twins(edges)
    /\ IndexInv

LEMMA WithNodeFacts ==
    ASSUME NEW ns \in Seq(Node), Distinct(ns), NEW p \in Points, NEW l \in Levels
    PROVE  /\ WithNode(ns, p, l) \in Seq(Node) /\ Distinct(WithNode(ns, p, l))
           /\ Len(ns) <= Len(WithNode(ns, p, l))
           /\ \A i \in 1..Len(ns) : WithNode(ns, p, l)[i] = ns[i]
           /\ At(WithNode(ns, p, l), p, l) # {}
<1>1. CASE At(ns, p, l) # {}
  BY <1>1 DEF WithNode
<1>2. CASE At(ns, p, l) = {}
  <2> DEFINE nd == [pt |-> p, level |-> l]
             ms == Append(ns, nd)
  <2>1. WithNode(ns, p, l) = ms /\ nd \in Node
    BY <1>2 DEF WithNode, Node
  <2>2. /\ ms \in Seq(Node) /\ Len(ms) = Len(ns) + 1 /\ DOMAIN ms = 1..(Len(ns) + 1)
        /\ \A i \in 1..Len(ns) : ms[i] = ns[i]
        /\ ms[Len(ns) + 1] = nd
    BY <2>1
  <2>3. nd.pt = p /\ nd.level = l
    OBVIOUS
  <2> HIDE DEF ms, nd
  <2>4. \A i \in 1..Len(ns) : ~(Quantize(ns[i].pt) = Quantize(p) /\ ns[i].level = l)
    BY <1>2 DEF At
  <2>5. Distinct(ms)
    <3> SUFFICES ASSUME NEW i \in 1..(Len(ns) + 1), NEW j \in 1..(Len(ns) + 1),
                        Quantize(ms[i].pt) = Quantize(ms[j].pt), ms[i].level = ms[j].level
                 PROVE  i = j
      BY <2>2 DEF Distinct
    <3>1. CASE i \in 1..Len(ns) /\ j \in 1..Len(ns)
      BY <2>2, <3>1 DEF Distinct
    <3>2. CASE i = Len(ns) + 1 /\ j \in 1..Len(ns)
      BY <2>2, <2>3, <2>4, <3>2
    <3>3. CASE i \in 1..Len(ns) /\ j = Len(ns) + 1
      BY <2>2, <2>3, <2>4, <3>3
    <3>. QED
      BY <3>1, <3>2, <3>3
  <2>6. Len(ns) + 1 \in At(ms, p, l)
    BY <2>2, <2>3 DEF At
  <2>. QED
    BY <2>1, <2>2, <2>5, <2>6
<1>. QED
  BY <1>1, <1>2

LEMMA NodeOfType ==
    ASSUME NEW ns \in Seq(Node), NEW p, NEW l, At(ns, p, l) # {}
    PROVE  NodeOf(ns, p, l) \in 1..Len(ns)
BY DEF NodeOf, At

LEMMA AtKept ==
    ASSUME NEW ns \in Seq(Node), NEW ms \in Seq(Node), Len(ns) <= Len(ms),
           \A i \in 1..Len(ns) : ms[i] = ns[i],
           NEW p, NEW l, At(ns, p, l) # {}
    PROVE  At(ms, p, l) # {}
<1>1. PICK i \in 1..Len(ns) : i \in At(ns, p, l)
  BY DEF At
<1>2. i \in DOMAIN ms /\ ms[i] = ns[i]
  OBVIOUS
<1>. QED
  BY <1>1, <1>2 DEF At

LEMMA ReversedEdge ==
    ASSUME NEW f, NEW u, NEW v, NEW p
    PROVE  Reversed(Edge(f, u, v, p)) = Edge(f, v, u, p)
<1>1. PICK e, r, x, s, d :
         /\ e = Edge(f, u, v, p) /\ r = Edge(f, v, u, p)
         /\ e = [from |-> u, to |-> v, len |-> x, speed |-> s, dur |-> d, feat |-> f]
         /\ r = [from |-> v, to |-> u, len |-> x, speed |-> s, dur |-> d, feat |-> f]
  BY DEF Edge
<1>2. PICK q : q = [e EXCEPT !.from = e.to]
  OBVIOUS
<1>3. q = [from |-> v, to |-> v, len |-> x, speed |-> s, dur |-> d, feat |-> f]
  BY <1>1, <1>2
<1>4. r = [q EXCEPT !.to = e.from]
  BY <1>1, <1>3
<1>5. Reversed(e) = r
  BY <1>2, <1>4 DEF Reversed
<1>. QED
  BY <1>1, <1>5

LEMMA EdgesOfPiece ==
    ASSUME BuildInv, NEW f \in 1..Len(features), NEW n \in Nat, NEW u \in 1..n, NEW v \in 1..n,
           NEW p \in Piece
    PROVE  /\ Edge(f, u, v, p) \in EdgeAmong(n, Len(features))
           /\ Edge(f, v, u, p) \in EdgeAmong(n, Len(features))
<1>1. features[f] \in Feature
  BY DEF BuildInv
<1>2. SpeedOf(features[f]) \in Nat \ {0}
  BY <1>1, BuildAssumption DEF SpeedOf, Feature
<1>3. p.len \in Nat /\ p.dur \in Nat
  BY DEF Piece
<1> DEFINE sp == SpeedOf(features[f])
<1>4. /\ Edge(f, u, v, p) = [from |-> u, to |-> v, len |-> p.len, speed |-> sp, dur |-> p.dur,
                             feat |-> f]
      /\ Edge(f, v, u, p) = [from |-> v, to |-> u, len |-> p.len, speed |-> sp, dur |-> p.dur,
                             feat |-> f]
  BY DEF Edge
<1> HIDE DEF sp
<1>5. sp \in Nat \ {0}
  BY <1>2 DEF sp
<1>6. Edge(f, u, v, p) \in EdgeAmong(n, Len(features))
  BY <1>3, <1>4, <1>5 DEF EdgeAmong
<1>7. Edge(f, v, u, p) \in EdgeAmong(n, Len(features))
  BY <1>3, <1>4, <1>5 DEF EdgeAmong
<1>. QED
  BY <1>6, <1>7

LEMMA AddPieceKeeps ==
    ASSUME BuildInv, AddPiece
    PROVE  BuildInv'
<1>1. PICK p \in Piece : p = Head(pieces)
  BY DEF AddPiece, BuildInv
<1>2. Tail(pieces) \in Seq(Piece) /\ pieces' = Tail(pieces)
  BY DEF AddPiece, BuildInv
<1>3. PICK f \in 1..Len(features) : f = next - 1
  BY DEF AddPiece, BuildInv
<1>4. p.a \in Points /\ p.b \in Points /\ p.la \in Levels /\ p.lb \in Levels
  BY DEF Piece
<1>5. PICK ms : ms = WithNode(nodes, p.a, p.la)
  OBVIOUS
<1>51. /\ ms \in Seq(Node) /\ Distinct(ms) /\ Len(nodes) <= Len(ms)
       /\ At(ms, p.a, p.la) # {}
  <2>1. nodes \in Seq(Node) /\ Distinct(nodes)
    BY DEF BuildInv
  <2>. QED
    BY <1>4, <1>5, <2>1, WithNodeFacts
<1>6. PICK ns : ns = WithNode(ms, p.b, p.lb)
  OBVIOUS
<1>61. /\ ns \in Seq(Node) /\ Distinct(ns) /\ Len(ms) <= Len(ns)
       /\ \A i \in 1..Len(ms) : ns[i] = ms[i]
       /\ At(ns, p.b, p.lb) # {}
  BY <1>4, <1>51, <1>6, WithNodeFacts
<1>7. At(ns, p.a, p.la) # {}
  BY <1>51, <1>61, AtKept
<1>8. PICK u \in 1..Len(ns) : u = NodeOf(ns, p.a, p.la)
  BY <1>61, <1>7, NodeOfType
<1>9. PICK v \in 1..Len(ns) : v = NodeOf(ns, p.b, p.lb)
  BY <1>61, NodeOfType
<1>10. nodes' = ns /\ edges' = edges \o NewEdges(f, u, v, p)
  BY <1>1, <1>3, <1>5, <1>6, <1>8, <1>9 DEF AddPiece
<1>11. Len(nodes) \in Nat /\ Len(ns) \in Nat /\ Len(nodes) <= Len(ns)
  <2>1. Len(nodes) \in Nat /\ Len(ns) \in Nat /\ Len(ms) \in Nat
    BY <1>51, <1>61 DEF BuildInv
  <2>. QED
    BY <1>51, <1>61, <2>1
<1> DEFINE m == Len(features)
           E == Edge(f, u, v, p)
           R == Edge(f, v, u, p)
<1>12. edges \in Seq(EdgeAmong(Len(ns), m))
  <2>1. EdgeAmong(Len(nodes), m) \subseteq EdgeAmong(Len(ns), m)
    <3>1. 1..Len(nodes) \subseteq 1..Len(ns)
      BY <1>11
    <3>. QED
      BY <3>1 DEF EdgeAmong
  <2>2. edges \in Seq(EdgeAmong(Len(nodes), m))
    BY DEF BuildInv
  <2>. QED
    BY <2>1, <2>2
<1>13. /\ E \in EdgeAmong(Len(ns), m) /\ R \in EdgeAmong(Len(ns), m)
       /\ Reversed(E) = R /\ Reversed(R) = E
  <2>1. /\ Edge(f, u, v, p) \in EdgeAmong(Len(ns), Len(features))
        /\ Edge(f, v, u, p) \in EdgeAmong(Len(ns), Len(features))
        /\ Reversed(Edge(f, u, v, p)) = Edge(f, v, u, p)
        /\ Reversed(Edge(f, v, u, p)) = Edge(f, u, v, p)
    BY <1>11, EdgesOfPiece, ReversedEdge
  <2>. QED
    BY <2>1, Zenon DEF E, R, m
<1>14. E.from = u /\ E.to = v /\ E.feat = f /\ R.from = v /\ R.to = u /\ R.feat = f
  BY DEF Edge
<1> HIDE DEF E, R
<1>15. PICK new \in Seq(EdgeAmong(Len(ns), m)) :
          /\ edges' = edges \o new
          /\ \/ new = <<>>
             \/ u # v /\ new = <<E>> /\ features[f].oneway
             \/ u # v /\ new = <<E, R>>
  <2>1. NewEdges(f, u, v, p) =
          IF u = v THEN <<>> ELSE IF features[f].oneway THEN <<E>> ELSE <<E, R>>
    BY Zenon DEF NewEdges, E, R
  <2>2. /\ <<>> \in Seq(EdgeAmong(Len(ns), m)) /\ <<E>> \in Seq(EdgeAmong(Len(ns), m))
        /\ <<E, R>> \in Seq(EdgeAmong(Len(ns), m))
    BY <1>13
  <2>. QED
    BY <1>10, <2>1, <2>2
<1>16. /\ edges' \in Seq(EdgeAmong(Len(ns), m))
       /\ DOMAIN edges = 1..Len(edges) /\ Len(edges) \in Nat /\ Len(new) \in Nat
       /\ DOMAIN edges' = 1..(Len(edges) + Len(new))
       /\ \A i \in 1..Len(edges) : edges'[i] = edges[i]
       /\ \A i \in 1..Len(new) : edges'[Len(edges) + i] = new[i]
  BY <1>12, <1>15
<1>17. features' = features /\ built' = "building" /\ next' = next
  BY DEF AddPiece
<1>18. Twins(edges)'
  <2> SUFFICES ASSUME NEW i \in DOMAIN edges'
               PROVE  /\ edges'[i].from # edges'[i].to
                      /\ ~features[edges'[i].feat].oneway =>
                            \E j \in DOMAIN edges' : edges'[j] = Reversed(edges'[i])
    BY <1>17 DEF Twins
  <2>1. CASE i \in 1..Len(edges)
    <3>1. edges'[i] = edges[i]
      BY <1>16, <2>1
    <3>2. /\ edges[i].from # edges[i].to
          /\ ~features[edges[i].feat].oneway =>
                \E j \in DOMAIN edges : edges[j] = Reversed(edges[i])
      BY <1>16, <2>1 DEF BuildInv, Twins
    <3>3. \A j \in DOMAIN edges : j \in DOMAIN edges' /\ edges'[j] = edges[j]
      BY <1>16
    <3>. QED
      BY <3>1, <3>2, <3>3
  <2>2. CASE i \notin 1..Len(edges)
    <3>1. PICK k \in 1..Len(new) : i = Len(edges) + k
      <4>1. i - Len(edges) \in 1..Len(new) /\ i = Len(edges) + (i - Len(edges))
        BY <1>16, <2>2
      <4>. QED
        BY <4>1
    <3>2. edges'[i] = new[k]
      BY <1>16, <3>1
    <3>3. CASE u # v /\ new = <<E>> /\ features[f].oneway
      <4>1. new[k] = E
        BY <3>3
      <4>. QED
        BY <1>14, <3>2, <3>3, <4>1
    <3>4. CASE u # v /\ new = <<E, R>>
      <4>1. Len(new) = 2 /\ new[1] = E /\ new[2] = R
        BY <3>4
      <4>2. /\ Len(edges) + 1 \in DOMAIN edges' /\ edges'[Len(edges) + 1] = E
            /\ Len(edges) + 2 \in DOMAIN edges' /\ edges'[Len(edges) + 2] = R
        BY <1>16, <4>1
      <4>3. edges'[i] = E \/ edges'[i] = R
        BY <3>2, <4>1
      <4>4. CASE edges'[i] = E
        BY <1>13, <1>14, <3>4, <4>2, <4>4
      <4>5. CASE edges'[i] = R
        BY <1>13, <1>14, <3>4, <4>2, <4>5
      <4>. QED
        BY <4>3, <4>4, <4>5
    <3>5. new # <<>>
      BY <3>1
    <3>. QED
      BY <1>15, <3>3, <3>4, <3>5
  <2>. QED
    BY <2>1, <2>2
<1>19. Distinct(nodes)'
  BY <1>61, <1>10 DEF Distinct
<1>20. IndexInv'
  BY <1>17 DEF IndexInv
<1>21. (pieces' # <<>> => next' > 1) /\ next' \in 1..(Len(features) + 1)
  BY <1>17 DEF AddPiece, BuildInv
<1>. QED
  BY <1>2, <1>61, <1>10, <1>16, <1>17, <1>18, <1>19, <1>20, <1>21 DEF BuildInv

LEMMA MinOfTwo ==
    ASSUME NEW a \in Nat, NEW b \in Nat
    PROVE  /\ Min({a, b}) \in {a, b} /\ Min({a, b}) <= a /\ Min({a, b}) <= b
           /\ Max({a, b}) \in {a, b} /\ a <= Max({a, b}) /\ b <= Max({a, b})
<1>1. {a, b} \subseteq Int /\ {a, b} \subseteq Nat /\ {a, b} # {}
  OBVIOUS
<1>2. IsFiniteSet({a, b})
  <2>1. IsFiniteSet({a}) /\ IsFiniteSet({b}) /\ {a, b} = {a} \cup {b}
    BY FS_Singleton
  <2>. QED
    BY <2>1, FS_Union
<1>. QED
  BY <1>1, <1>2, MinIsLeast, MaxIsGreatest

\* The nodes lie in a finite stretch.
LEMMA ExtentType ==
    ASSUME NEW ns \in Seq(Node), ns # <<>>
    PROVE  LET positions == {ns[i].pt : i \in DOMAIN ns} IN
           /\ Min(positions) \in Nat
           /\ Max({Max(positions) - Min(positions), 1}) \in Nat \ {0}
           /\ \A i \in DOMAIN ns : /\ Min(positions) <= ns[i].pt
                                   /\ ns[i].pt <= Max(positions)
<1> DEFINE positions == {ns[i].pt : i \in DOMAIN ns}
<1>1. \A i \in DOMAIN ns : ns[i].pt \in Nat
  <2>0. \A i \in DOMAIN ns : ns[i] \in Node
    OBVIOUS
  <2>1. \A i \in DOMAIN ns : ns[i].pt \in Points
    BY <2>0 DEF Node
  <2>2. Points \subseteq Nat
    BY GraphAssumption
  <2>. QED
    BY <2>1, <2>2
<1>2. positions \subseteq Nat /\ positions # {} /\ positions \subseteq Int
  BY <1>1
<1>3. IsFiniteSet(positions)
  <2> DEFINE D == 1..Len(ns)
             f == [i \in D |-> ns[i].pt]
  <2>1. IsFiniteSet(D)
    BY FS_Interval
  <2>2. f \in Surjection(D, positions)
    BY DEF Surjection
  <2> HIDE DEF D, f, positions
  <2>. QED
    BY <2>1, <2>2, FS_Surjection
<1>4. \A i \in DOMAIN ns : ns[i].pt \in positions
  OBVIOUS
<1> HIDE DEF positions
<1>5. /\ Min(positions) \in positions /\ Max(positions) \in positions
      /\ \A k \in positions : Min(positions) <= k /\ k <= Max(positions)
  BY <1>2, <1>3, MinIsLeast, MaxIsGreatest
<1>6. Max(positions) - Min(positions) \in Nat
  <2>1. Min(positions) <= Max(positions) /\ Min(positions) \in Int /\ Max(positions) \in Int
    BY <1>2, <1>5
  <2>. QED
    BY <2>1
<1>7. PICK d \in Nat : d = Max(positions) - Min(positions)
  BY <1>6
<1>8. Max({d, 1}) \in {d, 1} /\ 1 <= Max({d, 1})
  BY MinOfTwo
<1>9. Max({Max(positions) - Min(positions), 1}) \in Nat \ {0}
  BY <1>7, <1>8
<1>10. /\ Min(positions) \in Nat /\ Max({Max(positions) - Min(positions), 1}) \in Nat \ {0}
       /\ \A i \in DOMAIN ns : Min(positions) <= ns[i].pt /\ ns[i].pt <= Max(positions)
  BY <1>2, <1>4, <1>5, <1>9
<1>. QED
  BY <1>10 DEF positions

LEMMA GraphKept ==
    ASSUME BuildInv, UNCHANGED <<features, graph, low, extent, nodeCells, edgeCells>>,
           built' = "ready" => built = "ready"
    PROVE  IndexInv'
<1>1. IndexInv
  BY DEF BuildInv
<1>2. nodes' = nodes /\ edges' = edges /\ NodeIDs' = NodeIDs /\ EdgeIDs' = EdgeIDs
  BY DEF graph, NodeIDs, EdgeIDs
<1>3. Indexed' = Indexed
  BY <1>2 DEF Indexed, HasReverse
<1>. QED
  BY <1>1, <1>2, <1>3 DEF IndexInv, LowEnd, HighEnd, Cell, Clamp

LEMMA FinishKeeps ==
    ASSUME BuildInv, FinishBuild
    PROVE  BuildInv'
<1>1. UNCHANGED <<features, next, pieces, graph>> /\ built' \in {"failed", "ready"}
  BY DEF FinishBuild
<1>2. nodes' = nodes /\ edges' = edges /\ NodeIDs' = NodeIDs /\ EdgeIDs' = EdgeIDs
  BY <1>1 DEF graph, NodeIDs, EdgeIDs
<1>3. IndexInv'
  <2> SUFFICES ASSUME built' = "ready" PROVE IndexInv'
    BY DEF IndexInv
  <2>1. edges # <<>> /\ BuildIndexes
    BY DEF FinishBuild
  <2>2. nodes # <<>>
    <3>1. edges[1] \in EdgeAmong(Len(nodes), Len(features))
      BY <2>1 DEF BuildInv
    <3>2. Len(nodes) # 0 /\ nodes \in Seq(Node)
      BY <3>1 DEF BuildInv, EdgeAmong
    <3>. QED
      BY <3>2
  <2> DEFINE positions == {nodes[i].pt : i \in DOMAIN nodes}
             lo == Min(positions)
             width == Max({Max(positions) - Min(positions), 1})
  <2>3. lo \in Nat /\ width \in Nat \ {0}
    BY <2>2, ExtentType DEF BuildInv
  <2>4. /\ low' = lo /\ extent' = width
        /\ nodeCells' = [c \in 0..(GridCells - 1) |->
                           {i \in NodeIDs : Cell(nodes[i].pt, lo, width) = c}]
        /\ edgeCells' = [c \in 0..(GridCells - 1) |->
                           {i \in Indexed : c \in Cell(LowEnd(i), lo, width)
                                                   ..Cell(HighEnd(i), lo, width)}]
    BY <2>1 DEF BuildIndexes, NodeIDs
  <2> HIDE DEF lo, width
  <2>5. Indexed' = Indexed
    BY <1>2 DEF Indexed, HasReverse
  <2>. QED
    BY <1>2, <2>3, <2>4, <2>5 DEF IndexInv, LowEnd, HighEnd, Cell, CellAt, Clamp
<1>. QED
  BY <1>1, <1>2, <1>3 DEF BuildInv, Distinct, Twins

LEMMA BuildSteps ==
    ASSUME BuildInv, BuildNext
    PROVE  BuildInv'
<1>1. CASE NextFeature
  <2>1. UNCHANGED <<features, built, indexes, graph>> /\ next' = next + 1
        /\ pieces' = Pieces(features[next])
    BY <1>1 DEF NextFeature
  <2>2. features[next] \in Feature /\ next + 1 \in 1..(Len(features) + 1) /\ next + 1 > 1
    BY <1>1 DEF NextFeature, BuildInv
  <2>3. Pieces(features[next]) \in Seq(Piece)
    BY <2>2, PieceTypes
  <2>4. IndexInv'
    BY <2>1, GraphKept DEF indexes
  <2>. QED
    BY <2>1, <2>2, <2>3, <2>4 DEF BuildInv, Distinct, Twins, graph
<1>2. CASE BuildGivesUp
  <2>1. UNCHANGED <<features, next, pieces, indexes, graph>> /\ built' = "failed"
    BY <1>2 DEF BuildGivesUp
  <2>2. IndexInv'
    BY <2>1 DEF IndexInv
  <2>. QED
    BY <2>1, <2>2 DEF BuildInv, Distinct, Twins, graph
<1>3. CASE AddPiece
  BY <1>3, AddPieceKeeps
<1>4. CASE FinishBuild
  BY <1>4, FinishKeeps
<1>. QED
  BY <1>1, <1>2, <1>3, <1>4 DEF BuildNext

LEMMA BuildStart ==
    ASSUME RoutingInit
    PROVE  BuildInv
<1>1. features \in Seq(Feature)
  BY RoutingAssumption DEF RoutingInit, BuildInit
<1>2. /\ nodes = <<>> /\ edges = <<>> /\ next = 1 /\ pieces = <<>> /\ built = "building"
  BY DEF RoutingInit, BuildInit
<1>3. /\ nodes \in Seq(Node) /\ pieces \in Seq(Piece)
      /\ edges \in Seq(EdgeAmong(Len(nodes), Len(features)))
  BY <1>2
<1>4. Distinct(nodes) /\ Twins(edges) /\ IndexInv
  BY <1>2 DEF Distinct, Twins, IndexInv
<1>5. next \in 1..(Len(features) + 1)
  BY <1>1, <1>2
<1>. QED
  BY <1>1, <1>2, <1>3, <1>4, <1>5 DEF BuildInv

-----------------------------------------------------------------------------
(* The indexes.                                                            *)

LEMMA CellAtFacts ==
    ASSUME NEW w \in Nat \ {0}
    PROVE  \A x \in Int :
              /\ CellAt(x, w) \in 0..(GridCells - 1)
              /\ \A y \in Int : x <= y => CellAt(x, w) <= CellAt(y, w)
<1> SUFFICES ASSUME NEW x \in Int, NEW y \in Int, x <= y
             PROVE  CellAt(x, w) \in 0..(GridCells - 1) /\ CellAt(x, w) <= CellAt(y, w)
  OBVIOUS
<1>1. GridCells \in Nat \ {0}
  BY BuildAssumption
<1>2. PICK c \in Int, d \in Int : c = x * GridCells /\ d = y * GridCells /\ c <= d
  BY <1>1, TimesMonotonic
<1>3. PICK q \in Int, s \in Int : q = c \div w /\ s = d \div w /\ q <= s
  BY <1>2, DivMonotonic
<1>4. /\ CellAt(x, w) = Clamp(q, 0, GridCells - 1)
      /\ CellAt(y, w) = Clamp(s, 0, GridCells - 1)
  BY <1>2, <1>3, Zenon DEF CellAt
<1>. QED
  BY <1>1, <1>3, <1>4 DEF Clamp

LEMMA CellFacts ==
    ASSUME NEW lo \in Nat, NEW w \in Nat \ {0}
    PROVE  \A x \in Int :
              /\ Cell(x, lo, w) \in 0..(GridCells - 1)
              /\ \A y \in Int : x <= y => Cell(x, lo, w) <= Cell(y, lo, w)
<1>1. \A x, y \in Int : x - lo \in Int /\ (x <= y => x - lo <= y - lo)
  OBVIOUS
<1>. QED
  BY <1>1, CellAtFacts DEF Cell

LEMMA DivScaled ==
    ASSUME NEW c \in Int, NEW w \in Nat \ {0}, NEW k \in Nat \ {0}
    PROVE  (c * k) \div (w * k) = c \div w
<1>1. PICK q \in Int : q = c \div w /\ w * q <= c /\ c < w * q + w
  OBVIOUS
<1>2. PICK m \in Int : m = w * q
  OBVIOUS
<1>3. c - m >= 0 /\ m + w - c > 0
  BY <1>1, <1>2
<1>4. (c - m) * k >= 0 /\ (m + w - c) * k > 0
  BY <1>2, <1>3
<1>5. PICK a \in Int, b \in Nat \ {0}, e \in Int : a = c * k /\ b = w * k /\ e = m * k
  OBVIOUS
<1>6. (c - m) * k = a - e /\ (m + w - c) * k = e + b - a
  BY <1>2, <1>5
<1>7. e = b * q
  BY <1>2, <1>5
<1>8. b * q <= a /\ a < b * q + b
  BY <1>4, <1>6, <1>7
<1>9. a \div b = q
  BY ONLY <1>5, <1>8, q \in Int
<1>. QED
  BY <1>1, <1>5, <1>9

\* The same cell in other units.
LEMMA CellScaled ==
    ASSUME NEW d \in Int, NEW w \in Nat \ {0}, NEW k \in Nat \ {0}
    PROVE  CellAt(d * k, w * k) = CellAt(d, w)
<1>1. GridCells \in Nat
  BY BuildAssumption
<1>2. PICK c \in Int : c = d * GridCells
  BY <1>1
<1>3. (d * k) * GridCells = c * k
  BY <1>1, <1>2
<1>4. (c * k) \div (w * k) = c \div w
  BY <1>2, DivScaled
<1>. QED
  BY <1>2, <1>3, <1>4, Zenon DEF CellAt

\* A query looks at the cell of every place its window holds.
LEMMA WindowCells ==
    ASSUME BuildInv, built = "ready", NEW p \in Int, NEW r \in Nat
    PROVE  /\ \E u, v \in 0..(GridCells - 1) : Cells(p, r) = u..v
           /\ \A x \in Int : InWindow(p - x, r) /\ InWindow(x - p, r) =>
                 Cell(x, low, extent) \in Cells(p, r)
<1>1. low \in Nat /\ extent \in Nat \ {0}
  BY DEF BuildInv, IndexInv
<1>2. PICK k \in Nat \ {0} : k = GridDegree
  BY BuildAssumption
<1>3. PICK reach \in Nat : reach = r * ArcDegree
  BY BuildAssumption
<1>4. PICK width \in Nat \ {0} : width = extent * k
  BY <1>1
<1>5. PICK from \in Int : from = (p - low) * k
  BY <1>1
<1>6. PICK g \in Nat : g = GridCells - 1
  BY BuildAssumption
<1>7. \A x \in Int : CellAt(x, width) \in 0..g /\ \A y \in Int : x <= y => CellAt(x, width) <= CellAt(y, width)
  BY <1>6, CellAtFacts
<1>8. Cells(p, r) = CellAt(from - reach, width)..CellAt(from + reach, width)
  BY <1>2, <1>3, <1>4, <1>5, Zenon DEF Cells
<1>9. ASSUME NEW x \in Int, InWindow(p - x, r), InWindow(x - p, r)
      PROVE  Cell(x, low, extent) \in Cells(p, r)
  <2>1. PICK there \in Int : there = (x - low) * k
    BY <1>1
  <2>2. (p - x) * k <= reach /\ (x - p) * k <= reach
    BY <1>2, <1>3, <1>9 DEF InWindow
  <2>3. (p - x) * k = from - there /\ (x - p) * k = there - from
    BY <1>1, <1>5, <2>1
  <2>4. from - reach <= there /\ there <= from + reach
    BY <2>2, <2>3
  <2>5. Cell(x, low, extent) = CellAt(there, width)
    <3>1. x - low \in Int
      BY <1>1
    <3>. QED
      BY <1>1, <1>4, <2>1, <3>1, CellScaled DEF Cell
  <2>6. from - reach \in Int /\ from + reach \in Int
    OBVIOUS
  <2>7. /\ CellAt(there, width) \in 0..g
        /\ CellAt(from - reach, width) \in 0..g /\ CellAt(from + reach, width) \in 0..g
        /\ CellAt(from - reach, width) <= CellAt(there, width)
        /\ CellAt(there, width) <= CellAt(from + reach, width)
    BY <1>7, <2>4, <2>6
  <2>. QED
    BY <1>8, <2>5, <2>7
<1>10. from - reach \in Int /\ from + reach \in Int
  OBVIOUS
<1>11. CellAt(from - reach, width) \in 0..g /\ CellAt(from + reach, width) \in 0..g
  BY <1>7, <1>10
<1>. QED
  BY <1>6, <1>8, <1>9, <1>11

LEMMA NodePlaces ==
    ASSUME BuildInv
    PROVE  /\ \A i \in NodeIDs : nodes[i] \in Node /\ nodes[i].pt \in Nat
           /\ NodeIDs = 1..Len(nodes) /\ Len(nodes) \in Nat
<1>1. nodes \in Seq(Node)
  BY DEF BuildInv
<1>2. \A i \in NodeIDs : nodes[i] \in Node
  BY <1>1 DEF NodeIDs
<1>3. \A i \in NodeIDs : nodes[i].pt \in Points
  BY <1>2 DEF Node
<1>4. Points \subseteq Nat
  BY GraphAssumption
<1>5. NodeIDs = 1..Len(nodes) /\ Len(nodes) \in Nat
  BY <1>1 DEF NodeIDs
<1>. QED
  BY <1>2, <1>3, <1>4, <1>5

\* Of pairs of a cell and a node at their distances there is a last in the order of Before.
LEMMA LastOfPairs ==
    ASSUME NEW g \in Nat, NEW n \in Nat, NEW S, S \subseteq (0..g) \X (1..n), S # {},
           NEW d \in [1..n -> Nat]
    PROVE  \E s \in S : \A m \in S :
              \/ d[m[2]] > d[s[2]]
              \/ d[m[2]] = d[s[2]] /\ (m[1] < s[1] \/ (m[1] = s[1] /\ m[2] <= s[2]))
<1>0. \A m \in S : m[1] \in 0..g /\ m[2] \in 1..n /\ d[m[2]] \in Nat
  OBVIOUS
<1> DEFINE D == {d[m[2]] : m \in S}
<1>1. PICK x \in D : \A y \in D : x <= y
  <2>1. D \subseteq Nat /\ D # {}
    BY <1>0
  <2> HIDE DEF D
  <2>. QED
    BY <2>1, SmallestNat
<1> DEFINE C == {g - m[1] : m \in {k \in S : d[k[2]] = x}}
<1>2. PICK c \in C : \A y \in C : c <= y
  <2>1. C \subseteq Nat /\ C # {}
    BY <1>0, <1>1
  <2> HIDE DEF C
  <2>. QED
    BY <2>1, SmallestNat
<1> DEFINE I == {n - m[2] : m \in {k \in S : d[k[2]] = x /\ g - k[1] = c}}
<1>3. PICK i \in I : \A y \in I : i <= y
  <2>1. I \subseteq Nat /\ I # {}
    BY <1>0, <1>2
  <2> HIDE DEF I
  <2>. QED
    BY <2>1, SmallestNat
<1>4. PICK s \in S : d[s[2]] = x /\ g - s[1] = c /\ n - s[2] = i
  BY <1>3
<1>5. ASSUME NEW m \in S
      PROVE  \/ d[m[2]] > d[s[2]]
             \/ d[m[2]] = d[s[2]] /\ (m[1] < s[1] \/ (m[1] = s[1] /\ m[2] <= s[2]))
  <2>0. /\ m[1] \in Int /\ m[2] \in Int /\ d[m[2]] \in Int
        /\ s[1] \in Int /\ s[2] \in Int /\ d[s[2]] \in Int
    BY <1>0
  <2>1. x <= d[m[2]] /\ x \in Nat
    BY <1>0, <1>1
  <2>2. CASE d[m[2]] # x
    <3>1. PICK y \in Int, z \in Int : y = d[m[2]] /\ z = x
      BY <2>0, <2>1
    <3>2. z < y
      BY <2>1, <2>2, <3>1
    <3>3. d[m[2]] > d[s[2]]
      BY <1>4, <3>1, <3>2
    <3>. QED
      BY <3>3
  <2>3. CASE d[m[2]] = x
    <3>1. c <= g - m[1]
      BY <1>2, <2>3
    <3>2. CASE g - m[1] # c
      <4>1. m[1] < s[1]
        <5>1. PICK a \in Int, b \in Int : a = m[1] /\ b = s[1]
          BY <2>0
        <5>2. c = g - b /\ c <= g - a /\ g - a # c
          BY <1>4, <3>1, <3>2, <5>1
        <5>3. a < b
          BY <5>2
        <5>. QED
          BY <5>1, <5>3
      <4>. QED
        BY <1>4, <2>3, <4>1
    <3>3. CASE g - m[1] = c
      <4>1. i <= n - m[2]
        BY <1>3, <2>3, <3>3
      <4>2. m[1] = s[1] /\ m[2] <= s[2]
        <5>1. PICK a \in Int, b \in Int, j \in Int, k \in Int :
                  a = m[1] /\ b = s[1] /\ j = m[2] /\ k = s[2]
          BY <2>0
        <5>2. c = g - b /\ g - a = c /\ i = n - k /\ i <= n - j
          BY <1>4, <3>3, <4>1, <5>1
        <5>3. a = b /\ j <= k
          BY <5>2
        <5>. QED
          BY <5>1, <5>3
      <4>. QED
        BY <1>4, <2>3, <4>2
    <3>. QED
      BY <3>2, <3>3
  <2>. QED
    BY <2>2, <2>3
<1>. QED
  BY <1>5

LEMMA WindowClosed ==
    ASSUME NEW d \in Int, NEW e \in Int, NEW r \in Nat, d <= e, InWindow(e, r)
    PROVE  InWindow(d, r)
<1>1. PICK k \in Nat, reach \in Nat : k = GridDegree /\ reach = r * ArcDegree
  BY BuildAssumption
<1>2. d * k <= e * k
  BY TimesMonotonic
<1>3. e * k <= reach
  BY <1>1 DEF InWindow
<1>4. d * k \in Int /\ e * k \in Int
  OBVIOUS
<1>5. d * k <= reach
  BY <1>2, <1>3, <1>4
<1>. QED
  BY <1>1, <1>5 DEF InWindow

LEMMA BothSides ==
    ASSUME NEW p \in Int, NEW x \in Int, NEW r \in Nat, InWindow(Dist(p, x), r)
    PROVE  InWindow(p - x, r) /\ InWindow(x - p, r)
<1>1. PICK d \in Int : d = Dist(p, x) /\ p - x <= d /\ x - p <= d
  BY DEF Dist
<1>2. p - x \in Int /\ x - p \in Int
  OBVIOUS
<1>. QED
  BY <1>1, <1>2, WindowClosed

LEMMA NearestIsNearest ==
    ASSUME BuildInv, built = "ready", NEW p \in Points, NEW l, NEW r \in Nat
    PROVE  LET near == NodesNear(p, l, r)
               held == {i \in near : InWindow(Dist(p, nodes[i].pt), r)}
               got  == NearestNode(p, l, r)
           IN /\ got \in near \/ (got = 0 /\ held = {})
              /\ held # {} => \A i \in near : Dist(p, nodes[got].pt) <= Dist(p, nodes[i].pt)
<1>1. p \in Nat
  BY GraphAssumption
<1>2. /\ low \in Nat /\ extent \in Nat \ {0}
      /\ nodeCells = [c \in 0..(GridCells - 1) |->
                        {i \in NodeIDs : Cell(nodes[i].pt, low, extent) = c}]
  BY DEF BuildInv, IndexInv
<1>3. PICK g \in Nat : g = GridCells - 1
  BY BuildAssumption
<1> DEFINE n == Len(nodes)
           d == [i \in 1..n |-> Dist(p, nodes[i].pt)]
           cell(i) == Cell(nodes[i].pt, low, extent)
           near == {i \in NodeIDs : nodes[i].level = l /\ Dist(p, nodes[i].pt) <= r}
           held == {i \in near : InWindow(Dist(p, nodes[i].pt), r)}
           pairs == {m \in Cells(p, r) \X NodeIDs :
                        /\ m[2] \in nodeCells[m[1]]
                        /\ nodes[m[2]].level = l /\ Dist(p, nodes[m[2]].pt) <= r}
<1>4. NodeIDs = 1..n /\ n \in Nat /\ \A i \in 1..n : nodes[i].pt \in Nat
  BY NodePlaces
<1>40. \A i \in 1..n : Dist(p, nodes[i].pt) \in Nat
  <2> HIDE DEF n
  <2>1. p \in Int /\ \A i \in 1..n : nodes[i].pt \in Int
    BY <1>1, <1>4
  <2>. QED
    BY <2>1, DistType
<1>5. d \in [1..n -> Nat]
  BY <1>40
<1>6. /\ \E u, v \in 0..g : Cells(p, r) = u..v
      /\ \A x \in Int : /\ Cell(x, low, extent) \in 0..g
                        /\ InWindow(p - x, r) /\ InWindow(x - p, r) =>
                              Cell(x, low, extent) \in Cells(p, r)
  <2>1. p \in Int
    BY <1>1
  <2>2. /\ \E u, v \in 0..g : Cells(p, r) = u..v
        /\ \A x \in Int : InWindow(p - x, r) /\ InWindow(x - p, r) =>
              Cell(x, low, extent) \in Cells(p, r)
    BY <1>3, <2>1, WindowCells
  <2>3. \A x \in Int : Cell(x, low, extent) \in 0..g
    BY <1>2, <1>3, CellFacts
  <2>. QED
    BY <2>2, <2>3
<1>7. \A i \in held : <<cell(i), i>> \in pairs
  <2> SUFFICES ASSUME NEW i \in held PROVE <<cell(i), i>> \in pairs
    OBVIOUS
  <2>1. i \in 1..n /\ nodes[i].pt \in Nat /\ Dist(p, nodes[i].pt) <= r /\ InWindow(Dist(p, nodes[i].pt), r)
    BY <1>4
  <2>2. cell(i) \in 0..g /\ cell(i) \in Cells(p, r)
    <3>1. nodes[i].pt \in Int /\ p \in Int
      BY <1>1, <2>1
    <3>2. InWindow(p - nodes[i].pt, r) /\ InWindow(nodes[i].pt - p, r)
      BY <2>1, <3>1, BothSides
    <3>. QED
      BY <1>6, <3>1, <3>2
  <2>3. i \in nodeCells[cell(i)]
    BY <1>2, <1>3, <1>4, <2>1, <2>2
  <2>. QED
    BY <1>4, <2>1, <2>2, <2>3
<1>8. \A m \in pairs : m[2] \in near
  OBVIOUS
<1>9. pairs \subseteq (0..g) \X (1..n)
  <2>1. PICK u \in 0..g, v \in 0..g : Cells(p, r) = u..v
    BY <1>6
  <2>2. Cells(p, r) \subseteq 0..g
    BY <2>1
  <2>. QED
    BY <1>4, <2>2
<1>10. CASE pairs = {}
  <2>1. held = {}
    BY <1>7, <1>10
  <2>2. NearestNode(p, l, r) = 0
    BY <1>10 DEF NearestNode
  <2>. QED
    BY <2>1, <2>2 DEF NodesNear
<1>11. CASE pairs # {}
  <2> DEFINE Before(m, s) == \/ Dist(p, nodes[m[2]].pt) > Dist(p, nodes[s[2]].pt)
                             \/ /\ Dist(p, nodes[m[2]].pt) = Dist(p, nodes[s[2]].pt)
                                /\ (m[1] < s[1] \/ (m[1] = s[1] /\ m[2] <= s[2]))
  <2>1. pairs # {}
    BY <1>11
  <2>2. \A m \in pairs : m[2] \in 1..n /\ d[m[2]] = Dist(p, nodes[m[2]].pt)
    BY <1>4
  <2>3. \E s \in pairs : \A m \in pairs : Before(m, s)
    <3> HIDE DEF pairs, d
    <3>1. PICK s \in pairs : \A m \in pairs :
              \/ d[m[2]] > d[s[2]]
              \/ d[m[2]] = d[s[2]] /\ (m[1] < s[1] \/ (m[1] = s[1] /\ m[2] <= s[2]))
      <4> HIDE DEF n
      <4>. QED BY <1>4, <1>5, <1>9, <2>1, LastOfPairs
    <3>. QED
      BY <2>2, <3>1
  <2> DEFINE got == CHOOSE s \in pairs : \A m \in pairs : Before(m, s)
  <2>4. got \in pairs /\ \A m \in pairs : Before(m, got)
    <3> HIDE DEF pairs, Before
    <3>. QED BY <2>3
  <2>5. NearestNode(p, l, r) = got[2]
    BY <2>1 DEF NearestNode
  <2>6. PICK k : k = got[2]
    OBVIOUS
  <2>7. k \in near
    BY <1>8, <2>4, <2>6
  <2>8. \A i \in held : Dist(p, nodes[k].pt) <= Dist(p, nodes[i].pt)
    <3> SUFFICES ASSUME NEW i \in held PROVE Dist(p, nodes[k].pt) <= Dist(p, nodes[i].pt)
      OBVIOUS
    <3>1. Before(<<cell(i), i>>, got)
      BY <1>7, <2>4
    <3>2. \/ Dist(p, nodes[i].pt) > Dist(p, nodes[k].pt)
          \/ Dist(p, nodes[i].pt) = Dist(p, nodes[k].pt)
      <4> HIDE DEF got
      <4>. QED BY <2>6, <3>1
    <3>3. Dist(p, nodes[i].pt) \in Nat /\ Dist(p, nodes[k].pt) \in Nat
      BY <1>4, <1>40, <2>7
    <3>. QED
      BY <3>2, <3>3
  <2>9. ASSUME NEW h \in held, NEW i \in near
        PROVE  Dist(p, nodes[k].pt) <= Dist(p, nodes[i].pt)
    <3>1. PICK x \in Nat, y \in Nat, z \in Nat :
             x = Dist(p, nodes[h].pt) /\ y = Dist(p, nodes[i].pt) /\ z = Dist(p, nodes[k].pt)
      BY <1>4, <1>40, <2>7
    <3>2. z <= x /\ InWindow(x, r)
      BY <2>8, <3>1
    <3>3. CASE i \in held
      BY <2>8, <3>3
    <3>4. CASE i \notin held
      <4>1. ~InWindow(y, r)
        BY <3>1, <3>4
      <4>2. ~(y <= x)
        BY <3>2, <4>1, WindowClosed
      <4>. QED
        BY <3>1, <3>2, <4>2
    <3>. QED
      BY <3>3, <3>4
  <2>10. NearestNode(p, l, r) = k
    BY <2>5, <2>6
  <2>. QED
    BY <2>7, <2>9, <2>10 DEF NodesNear
<1>. QED
  BY <1>10, <1>11

LEMMA EdgeEnds ==
    ASSUME BuildInv
    PROVE  /\ \A i \in EdgeIDs :
                 /\ edges[i] \in EdgeAmong(Len(nodes), Len(features))
                 /\ edges[i].from \in NodeIDs /\ edges[i].to \in NodeIDs
                 /\ edges[i].from \in Nat /\ edges[i].to \in Nat
                 /\ LowEnd(i) \in Nat /\ HighEnd(i) \in Nat /\ LowEnd(i) <= HighEnd(i)
           /\ EdgeIDs = 1..Len(edges) /\ Len(edges) \in Nat
<1>1. edges \in Seq(EdgeAmong(Len(nodes), Len(features)))
  BY DEF BuildInv
<1>2. EdgeIDs = 1..Len(edges) /\ Len(edges) \in Nat
  BY <1>1 DEF EdgeIDs
<1>3. \A i \in EdgeIDs : edges[i] \in EdgeAmong(Len(nodes), Len(features))
  BY <1>1 DEF EdgeIDs
<1>4. ASSUME NEW i \in EdgeIDs
      PROVE  /\ edges[i].from \in NodeIDs /\ edges[i].to \in NodeIDs
             /\ edges[i].from \in Nat /\ edges[i].to \in Nat
             /\ LowEnd(i) \in Nat /\ HighEnd(i) \in Nat /\ LowEnd(i) <= HighEnd(i)
  <2>1. edges[i].from \in 1..Len(nodes) /\ edges[i].to \in 1..Len(nodes)
    BY <1>3 DEF EdgeAmong
  <2>2. NodeIDs = 1..Len(nodes) /\ Len(nodes) \in Nat
    BY NodePlaces
  <2>3. PICK a \in Nat, b \in Nat : a = nodes[edges[i].from].pt /\ b = nodes[edges[i].to].pt
    BY <2>1, <2>2, NodePlaces
  <2>4. LowEnd(i) = Min({a, b}) /\ HighEnd(i) = Max({a, b})
    BY <2>3 DEF LowEnd, HighEnd
  <2>5. LowEnd(i) \in Nat /\ HighEnd(i) \in Nat /\ LowEnd(i) <= HighEnd(i)
    BY <2>4, MinOfTwo
  <2>. QED
    BY <2>1, <2>2, <2>5
<1>. QED
  BY <1>2, <1>3, <1>4

LEMMA ProjectionIsNearest ==
    ASSUME NEW p \in Int, NEW lo \in Int, NEW hi \in Int, lo <= hi
    PROVE  /\ Clamp(p, lo, hi) \in lo..hi
           /\ \A x \in lo..hi : Dist(p, Clamp(p, lo, hi)) <= Dist(p, x)
BY DEF Clamp, Dist

LEMMA NearbyIsNear ==
    ASSUME BuildInv, built = "ready", NEW p \in Points, NEW l, NEW r \in Nat
    PROVE  /\ NearbyEdges(p, l, r) \subseteq EdgesNear(p, l, r)
           /\ \A i \in EdgesNear(p, l, r) :
                 InWindow(LowEnd(i) - p, r) /\ InWindow(p - HighEnd(i), r) => i \in NearbyEdges(p, l, r)
<1>1. p \in Nat /\ p \in Int
  BY GraphAssumption
<1>2. /\ low \in Nat /\ extent \in Nat \ {0}
      /\ edgeCells = [c \in 0..(GridCells - 1) |->
                        {i \in Indexed : c \in Cell(LowEnd(i), low, extent)
                                                ..Cell(HighEnd(i), low, extent)}]
  BY DEF BuildInv, IndexInv
<1>3. PICK g \in Nat : g = GridCells - 1
  BY BuildAssumption
<1>4. /\ \E u, v \in 0..g : Cells(p, r) = u..v
      /\ \A x \in Int : /\ Cell(x, low, extent) \in 0..g
                        /\ \A y \in Int : x <= y => Cell(x, low, extent) <= Cell(y, low, extent)
                        /\ InWindow(p - x, r) /\ InWindow(x - p, r) =>
                              Cell(x, low, extent) \in Cells(p, r)
  BY <1>1, <1>2, <1>3, CellFacts, WindowCells
<1>5. \A i \in Indexed : /\ i \in EdgeIDs /\ LowEnd(i) \in Int /\ HighEnd(i) \in Int
                         /\ LowEnd(i) <= HighEnd(i)
  BY EdgeEnds DEF Indexed
<1>6. ASSUME NEW i \in Indexed
      PROVE  /\ Project(p, i) \in Int /\ LowEnd(i) <= Project(p, i) /\ Project(p, i) <= HighEnd(i)
             /\ Dist(p, Project(p, i)) <= r <=> LowEnd(i) - p <= r /\ p - HighEnd(i) <= r
             /\ InWindow(LowEnd(i) - p, r) /\ InWindow(p - HighEnd(i), r) =>
                  InWindow(p - Project(p, i), r) /\ InWindow(Project(p, i) - p, r)
  <2>1. PICK lo \in Int, hi \in Int : lo = LowEnd(i) /\ hi = HighEnd(i) /\ lo <= hi
    BY <1>5
  <2>2. PICK x \in Int : x = Clamp(p, lo, hi)
    BY <1>1 DEF Clamp
  <2>3. Project(p, i) = x
    BY <2>1, <2>2 DEF Project
  <2>4. lo <= x /\ x <= hi /\ (Dist(p, x) <= r <=> lo - p <= r /\ p - hi <= r)
    BY <1>1, <2>1, <2>2 DEF Clamp, Dist
  <2>5. ASSUME InWindow(lo - p, r), InWindow(p - hi, r)
        PROVE  InWindow(p - x, r) /\ InWindow(x - p, r)
    <3>1. InWindow(0, r)
      BY BuildAssumption DEF InWindow
    <3>2. /\ p - x \in Int /\ x - p \in Int /\ lo - p \in Int /\ p - hi \in Int
          /\ p - x <= 0 \/ p - x <= p - hi
          /\ x - p <= 0 \/ x - p <= lo - p
      BY <1>1, <2>1, <2>2 DEF Clamp
    <3>. QED
      BY <2>5, <3>1, <3>2, WindowClosed
  <2>. QED
    BY <2>1, <2>3, <2>4, <2>5
<1>7. Cells(p, r) \subseteq 0..g
  <2>1. PICK u \in 0..g, v \in 0..g : Cells(p, r) = u..v
    BY <1>4
  <2>. QED
    BY <2>1
<1>8. ASSUME NEW i \in NearbyEdges(p, l, r) PROVE i \in EdgesNear(p, l, r)
  <2>1. PICK c \in Cells(p, r) : i \in edgeCells[c]
    BY DEF NearbyEdges
  <2>2. i \in Indexed
    BY <1>2, <1>3, <1>7, <2>1
  <2>3. /\ nodes[edges[i].from].level = l /\ nodes[edges[i].to].level = l
        /\ Dist(p, Project(p, i)) <= r
    BY DEF NearbyEdges
  <2>. QED
    BY <1>6, <2>2, <2>3 DEF EdgesNear
<1>9. ASSUME NEW i \in EdgesNear(p, l, r), InWindow(LowEnd(i) - p, r), InWindow(p - HighEnd(i), r)
      PROVE  i \in NearbyEdges(p, l, r)
  <2>1. i \in Indexed /\ nodes[edges[i].from].level = l /\ nodes[edges[i].to].level = l
        /\ LowEnd(i) - p <= r /\ p - HighEnd(i) <= r
    BY DEF EdgesNear
  <2>2. PICK y \in Int : /\ y = Project(p, i) /\ LowEnd(i) <= y /\ y <= HighEnd(i)
                         /\ Dist(p, y) <= r /\ InWindow(p - y, r) /\ InWindow(y - p, r)
    BY <1>6, <1>9, <2>1
  <2>3. PICK c \in 0..g : c = Cell(y, low, extent) /\ c \in Cells(p, r)
    BY <1>4, <2>2
  <2>4. c \in Cell(LowEnd(i), low, extent)..Cell(HighEnd(i), low, extent)
    <3>1. /\ Cell(LowEnd(i), low, extent) \in 0..g /\ Cell(HighEnd(i), low, extent) \in 0..g
          /\ Cell(LowEnd(i), low, extent) <= c /\ c <= Cell(HighEnd(i), low, extent)
      BY <1>4, <1>5, <2>1, <2>2, <2>3
    <3>. QED
      BY <3>1
  <2>5. i \in edgeCells[c]
    BY <1>2, <1>3, <2>1, <2>3, <2>4
  <2>. QED
    BY <2>1, <2>2, <2>3, <2>5 DEF NearbyEdges
<1>. QED
  BY <1>8, <1>9

LEMMA GridsFindAll ==
    ASSUME BuildInv
    PROVE  GridsFind
<1> SUFFICES ASSUME built = "ready", NEW p \in Points, NEW l \in Levels, NEW r \in Points
             PROVE
               LET near == NodesNear(p, l, r)
                   held == {i \in near : InWindow(Dist(p, nodes[i].pt), r)}
                   got  == NearestNode(p, l, r)
                   close == EdgesNear(p, l, r)
                   found == NearbyEdges(p, l, r)
               IN /\ got \in near \/ (got = 0 /\ held = {})
                  /\ held # {} => \A i \in near : Dist(p, nodes[got].pt) <= Dist(p, nodes[i].pt)
                  /\ found \subseteq close
                  /\ \A i \in close \ found :
                        ~InWindow(LowEnd(i) - p, r) \/ ~InWindow(p - HighEnd(i), r)
  BY DEF GridsFind
<1>1. r \in Nat
  BY GraphAssumption
<1> DEFINE near == NodesNear(p, l, r)
           held == {i \in near : InWindow(Dist(p, nodes[i].pt), r)}
           got  == NearestNode(p, l, r)
<1>2. /\ got \in near \/ (got = 0 /\ held = {})
      /\ held # {} => \A i \in near : Dist(p, nodes[got].pt) <= Dist(p, nodes[i].pt)
  BY <1>1, NearestIsNearest, Zenon
<1>3. /\ NearbyEdges(p, l, r) \subseteq EdgesNear(p, l, r)
      /\ \A i \in EdgesNear(p, l, r) :
            InWindow(LowEnd(i) - p, r) /\ InWindow(p - HighEnd(i), r) => i \in NearbyEdges(p, l, r)
  BY <1>1, NearbyIsNear
<1>4. \A i \in EdgesNear(p, l, r) \ NearbyEdges(p, l, r) :
         ~InWindow(LowEnd(i) - p, r) \/ ~InWindow(p - HighEnd(i), r)
  BY <1>3, Zenon
<1>. QED
  BY <1>2, <1>3, <1>4, Zenon

\* Of two twins at least the one that leads upwards is in the index.
LEMMA CoveredByIndex ==
    ASSUME BuildInv
    PROVE  IndexCovers
<1> SUFFICES ASSUME NEW i \in EdgeIDs
             PROVE  \E j \in Indexed :
                       /\ edges[j].feat = edges[i].feat
                       /\ {edges[j].from, edges[j].to} = {edges[i].from, edges[i].to}
  BY DEF IndexCovers
<1>1. CASE i \in Indexed
  BY <1>1
<1>2. CASE i \notin Indexed
  <2>1. edges[i].from > edges[i].to /\ HasReverse(i)
    BY <1>2 DEF Indexed
  <2>2. PICK j \in EdgeIDs : /\ edges[j].from = edges[i].to /\ edges[j].to = edges[i].from
                             /\ edges[j].feat = edges[i].feat
    BY <2>1 DEF HasReverse
  <2>3. ~(edges[j].from > edges[j].to)
    BY <2>1, <2>2, EdgeEnds
  <2>4. j \in Indexed
    BY <2>3 DEF Indexed
  <2>. QED
    BY <2>2, <2>4
<1>. QED
  BY <1>1, <1>2

-----------------------------------------------------------------------------
(* Costs, in general.                                                      *)

Cost == Nat \cup {Inf}

LEMMA LeastFacts ==
    ASSUME NEW S, S \subseteq Cost, S # {}
    PROVE  /\ Least(S) \in S
           /\ \A b \in S : b # Inf => Least(S) # Inf /\ Least(S) <= b
<1>1. Inf = -1 /\ \A a \in Nat : a # Inf
  BY DEF Inf
<1>2. CASE S \subseteq {Inf}
  <2>1. Least(S) = Inf
    BY <1>2 DEF Least
  <2>. QED
    BY <1>2, <2>1
<1>3. CASE ~(S \subseteq {Inf})
  <2> DEFINE T == S \ {Inf}
  <2>1. T \subseteq Nat /\ T # {}
    BY <1>3 DEF Cost
  <2>2. PICK m \in T : \A k \in T : m <= k
    <3> HIDE DEF T
    <3>. QED BY <2>1, SmallestNat
  <2>3. m # Inf /\ \A b \in S : ~Less(b, m)
    <3> SUFFICES ASSUME NEW b \in S, b # Inf PROVE ~(b < m)
      BY <2>2 DEF Less
    <3>1. b \in Nat /\ m \in Nat /\ m <= b
      BY <2>1, <2>2
    <3>. QED
      BY <3>1
  <2>4. \E a \in S : a # Inf /\ \A b \in S : ~Less(b, a)
    BY <2>2, <2>3
  <2>5. PICK a : a = CHOOSE x \in S : x # Inf /\ \A b \in S : ~Less(b, x)
    OBVIOUS
  <2>6. a \in S /\ a # Inf /\ \A b \in S : ~Less(b, a)
    BY <2>4, <2>5
  <2>7. Least(S) = a
    BY <1>3, <2>5 DEF Least
  <2>8. ASSUME NEW b \in S, b # Inf PROVE a <= b
    <3>1. a \in T /\ b \in T
      BY <2>6, <2>8
    <3>2. a \in Nat /\ b \in Nat
      BY <2>1, <3>1
    <3>3. ~(b < a)
      BY <2>6, <2>8 DEF Less
    <3>. QED
      BY <3>2, <3>3
  <2>. QED
    BY <2>6, <2>7, <2>8
<1>. QED
  BY <1>2, <1>3

LEMMA LessFacts ==
    ASSUME NEW a \in Cost, NEW b \in Cost
    PROVE  /\ Less(a, b) => a # Inf /\ (b # Inf => a < b)
           /\ ~Less(a, b) => a = Inf \/ (b # Inf /\ b <= a)
BY DEF Less, Cost, Inf

LEMMA PriceType ==
    ASSUME BuildInv, NEW basis, NEW i \in EdgeIDs
    PROVE  Price(basis, edges[i]) \in Nat
<1>1. edges[i] \in EdgeAmong(Len(nodes), Len(features))
  BY EdgeEnds
<1>2. PICK len \in Nat, speed \in Nat \ {0}, dur \in Nat :
         edges[i].len = len /\ edges[i].speed = speed /\ edges[i].dur = dur
  BY <1>1 DEF EdgeAmong
<1>3. PICK s \in Nat : s = Scale
  BY GraphAssumption
<1>4. len * s \in Nat
  BY <1>2, <1>3
<1>5. (len * s) \div speed \in Nat
  BY <1>4, DivNat
<1>. QED
  BY <1>2, <1>3, <1>5 DEF Price, TravelTime

\* The last of a chain of n + 1 functions, of least costs over walks of up to that many
\* edges.
Walks(w, n, seeds, basis) ==
    /\ w \in [0..n -> [NodeIDs -> Cost]]
    /\ w[0] = AtSeeds(seeds)
    /\ \A k \in 0..n : k < n => w[k + 1] = OneEdgeMore(w[k], basis)

LEMMA OneMoreType ==
    ASSUME BuildInv, NEW basis, NEW b \in [NodeIDs -> Cost]
    PROVE  /\ OneEdgeMore(b, basis) \in [NodeIDs -> Cost]
           /\ \A v \in NodeIDs :
                LET c == OneEdgeMore(b, basis)[v] IN
                /\ \/ c = b[v]
                   \/ \E j \in EdgeIDs : /\ edges[j].to = v /\ b[edges[j].from] # Inf
                                         /\ c = b[edges[j].from] + Price(basis, edges[j])
                /\ b[v] # Inf => c # Inf /\ c <= b[v]
                /\ \A j \in EdgeIDs :
                      edges[j].to = v /\ b[edges[j].from] # Inf =>
                         c # Inf /\ c <= b[edges[j].from] + Price(basis, edges[j])
<1> DEFINE into(v) == {m \in EdgeIDs : edges[m].to = v /\ b[edges[m].from] # Inf}
           options(v) == {b[v]} \cup {b[edges[j].from] + Price(basis, edges[j]) : j \in into(v)}
<1>1. ASSUME NEW j \in EdgeIDs, b[edges[j].from] # Inf
      PROVE  b[edges[j].from] + Price(basis, edges[j]) \in Nat
  <2>1. b[edges[j].from] \in Nat
    BY <1>1, EdgeEnds DEF Cost
  <2>2. Price(basis, edges[j]) \in Nat
    BY PriceType
  <2>. QED
    BY <2>1, <2>2
<1>10. \A n \in Nat : n # Inf
  BY DEF Inf
<1>2. ASSUME NEW v \in NodeIDs
      PROVE  options(v) \subseteq Cost /\ options(v) # {}
  BY <1>1 DEF Cost
<1>3. ASSUME NEW v \in NodeIDs
      PROVE  /\ OneEdgeMore(b, basis)[v] = Least(options(v))
             /\ Least(options(v)) \in options(v)
             /\ \A x \in options(v) : x # Inf => Least(options(v)) # Inf /\ Least(options(v)) <= x
  <2>1. OneEdgeMore(b, basis)[v] = Least(options(v))
    BY DEF OneEdgeMore
  <2> HIDE DEF options
  <2>. QED
    BY <1>2, <2>1, LeastFacts
<1>4. OneEdgeMore(b, basis) \in [NodeIDs -> Cost]
  <2>1. OneEdgeMore(b, basis) = [v \in NodeIDs |-> Least(options(v))]
    BY DEF OneEdgeMore
  <2>2. \A v \in NodeIDs : Least(options(v)) \in Cost
    <3> HIDE DEF options
    <3>. QED BY <1>2, <1>3
  <2> HIDE DEF options
  <2>. QED
    BY <2>1, <2>2
<1>5. ASSUME NEW v \in NodeIDs
      PROVE  LET c == OneEdgeMore(b, basis)[v] IN
             /\ \/ c = b[v]
                \/ \E j \in EdgeIDs : /\ edges[j].to = v /\ b[edges[j].from] # Inf
                                      /\ c = b[edges[j].from] + Price(basis, edges[j])
             /\ b[v] # Inf => c # Inf /\ c <= b[v]
             /\ \A j \in EdgeIDs :
                   edges[j].to = v /\ b[edges[j].from] # Inf =>
                      c # Inf /\ c <= b[edges[j].from] + Price(basis, edges[j])
  <2>1. PICK c : c = OneEdgeMore(b, basis)[v] /\ c \in options(v)
                 /\ \A x \in options(v) : x # Inf => c # Inf /\ c <= x
    <3> HIDE DEF options
    <3>. QED BY <1>3
  <2>2. \/ c = b[v]
        \/ \E j \in EdgeIDs : /\ edges[j].to = v /\ b[edges[j].from] # Inf
                              /\ c = b[edges[j].from] + Price(basis, edges[j])
    BY <2>1
  <2>3. b[v] # Inf => c # Inf /\ c <= b[v]
    BY <2>1
  <2>4. ASSUME NEW j \in EdgeIDs, edges[j].to = v, b[edges[j].from] # Inf
        PROVE  c # Inf /\ c <= b[edges[j].from] + Price(basis, edges[j])
    <3>1. b[edges[j].from] + Price(basis, edges[j]) \in options(v)
      BY <2>4
    <3>2. b[edges[j].from] + Price(basis, edges[j]) # Inf
      BY <1>1, <1>10, <2>4
    <3> HIDE DEF options
    <3>. QED
      BY <2>1, <3>1, <3>2
  <2>. QED
    BY <2>1, <2>2, <2>3, <2>4
<1>. QED
  BY <1>4, <1>5

LEMMA WalksExist ==
    ASSUME BuildInv, NEW n \in Nat, NEW seeds, NEW basis,
           \A v \in DOMAIN seeds : seeds[v] \in Nat
    PROVE  \E w : Walks(w, n, seeds, basis) /\ LeastWithin(seeds, basis, n) = w[n]
<1> DEFINE S == [NodeIDs -> Cost]
           F == [b \in S |-> OneEdgeMore(b, basis)]
<1>1. AtSeeds(seeds) \in S
  BY DEF AtSeeds, Cost
<1>2. F \in [S -> S]
  BY OneMoreType
<1>3. PICK g \in [0..n -> S] : Iterates(g, n, AtSeeds(seeds), F)
  <2> HIDE DEF F, S
  <2>. QED BY <1>1, <1>2, IteratesExist
<1> DEFINE Chain(h) == h = [i \in 0..n |-> IF i = 0 THEN AtSeeds(seeds)
                                           ELSE OneEdgeMore(h[i - 1], basis)]
<1>4. Chain(g)
  <2>1. \A i \in 0..n : i # 0 => g[i - 1] \in S /\ F[g[i - 1]] = OneEdgeMore(g[i - 1], basis)
    BY <1>3
  <2>. QED
    BY <1>3, <2>1 DEF Iterates
<1>5. PICK w : Chain(w) /\ w = CHOOSE h : Chain(h)
  <2> HIDE DEF Chain
  <2>. QED BY <1>4
<1>6. LeastWithin(seeds, basis, n) = w[n]
  BY <1>5 DEF LeastWithin
<1>7. w[0] = AtSeeds(seeds) /\ \A k \in 0..n : k < n => w[k + 1] = OneEdgeMore(w[k], basis)
  <2>1. \A i \in 0..n : w[i] = IF i = 0 THEN AtSeeds(seeds) ELSE OneEdgeMore(w[i - 1], basis)
    BY <1>5
  <2>2. 0 \in 0..n
    OBVIOUS
  <2>3. \A k \in 0..n : k < n => k + 1 \in 0..n /\ k + 1 # 0 /\ (k + 1) - 1 = k
    OBVIOUS
  <2> HIDE DEF Chain
  <2>. QED
    BY <2>1, <2>2, <2>3
<1>8. w \in [0..n -> S]
  <2> DEFINE T == {k \in 0..n : w[k] \in S}
  <2>1. 0 \in T
    BY <1>1, <1>7
  <2>2. \A k \in T : k < n => k + 1 \in T
    BY <1>7, OneMoreType
  <2>3. T = 0..n
    <3>1. T \subseteq 0..n
      OBVIOUS
    <3> HIDE DEF T
    <3>. QED
      BY <2>1, <2>2, <3>1, UpTo
  <2>4. w = [i \in 0..n |-> w[i]]
    BY <1>5
  <2> HIDE DEF S, Chain
  <2>. QED
    BY <2>3, <2>4
<1>. QED
  BY <1>6, <1>7, <1>8 DEF Walks

-----------------------------------------------------------------------------
(* The invariant of a search.                                              *)

PriceOf(i) == Price(ask.basis, edges[i])

\* What Ask makes of a request.
GoodRequest(r) ==
    /\ r.algo \in {"dijkstra", "astar"} /\ r.basis \in {"time", "distance"}
    /\ r.cutoff \in Nat /\ r.target \in NodeIDs \cup {0}
    /\ DOMAIN r.seeds \subseteq NodeIDs /\ \A v \in DOMAIN r.seeds : r.seeds[v] \in Nat
    /\ r.algo = "dijkstra" => r.target = 0
    /\ r.algo = "astar" =>
          /\ r.cutoff = 0 /\ r.target \in NodeIDs
          /\ \E s \in NodeIDs : DOMAIN r.seeds = {s} /\ r.seeds[s] = 0
RequestInv == built = "ready" /\ GoodRequest(ask)

ResultType ==
    /\ cost \in [NodeIDs -> Cost] /\ prev \in [NodeIDs -> EdgeIDs \cup {0}]
    /\ queue \subseteq [node : NodeIDs, prio : Nat]
    /\ settled \subseteq NodeIDs
    /\ cur \in NodeIDs \cup {0} /\ left \subseteq Out(cur)
    /\ pops \in 0..(PopInterval - 1)
    /\ \A it \in queue : cost[it.node] # Inf
    /\ \A v \in settled : cost[v] # Inf
    /\ cur # 0 => cost[cur] # Inf

\* A cost is that of a seed or pays for the edge it came over.
CostInv ==
    /\ \A v \in DOMAIN ask.seeds : cost[v] # Inf /\ cost[v] <= ask.seeds[v]
    /\ \A v \in NodeIDs :
          /\ cost[v] = Inf => prev[v] = 0
          /\ cost[v] # Inf /\ prev[v] = 0 => v \in DOMAIN ask.seeds /\ cost[v] = ask.seeds[v]
          /\ prev[v] # 0 =>
                /\ edges[prev[v]].to = v
                /\ cost[edges[prev[v]].from] # Inf
                /\ cost[edges[prev[v]].from] + PriceOf(prev[v]) <= cost[v]
          /\ cost[v] # Inf /\ Beyond(cost[v]) => v \in DOMAIN ask.seeds /\ cost[v] = ask.seeds[v]

\* No set of nodes leads back into itself for ever.
Acyclic ==
    \A T \in SUBSET NodeIDs :
        T # {} => \E v \in T : prev[v] = 0 \/ edges[prev[v]].from \notin T

\* Nothing is gained over an edge any more.
Relaxed(i) ==
    LET c == cost[edges[i].from] + PriceOf(i) IN
    Beyond(c) \/ (cost[edges[i].to] # Inf /\ cost[edges[i].to] <= c)

\* Dijkstra: what is still to be relaxed is in the queue at its cost, or is being relaxed.
DijkstraInv ==
    ask.algo = "dijkstra" =>
        /\ \A u \in NodeIDs : cost[u] # Inf =>
              \/ \E it \in queue : it.node = u /\ it.prio = cost[u]
              \/ \A i \in Out(u) : Relaxed(i) \/ i \in left
        /\ searched = "done" => queue = {}

Estimate(v) == cost[v] + Heuristic(v)

\* A*, whatever its heuristic: no reached node is forgotten.
AStarInv ==
    ask.algo = "astar" /\ searched = "running" =>
        /\ \A u \in NodeIDs : cost[u] # Inf =>
              u \in settled \/ \E it \in queue : it.node = u /\ it.prio <= Estimate(u)
        /\ \A u \in settled : \A i \in Out(u) : cost[edges[i].to] # Inf \/ i \in left
        /\ ask.target \notin settled
        /\ cur # 0 => cur \in settled

\* A* with a consistent heuristic settles nodes in the order of their estimates, so that
\* no settled node becomes cheaper.
OrderInv ==
    ask.algo = "astar" /\ searched = "running" /\ Consistent =>
        /\ settled = {} => queue \subseteq {[node |-> s, prio |-> 0] : s \in DOMAIN ask.seeds}
        /\ settled # {} => \A it \in queue : Estimate(it.node) <= it.prio
        /\ \A v \in settled : \A it \in queue : Estimate(v) <= it.prio
        /\ cur # 0 => \A v \in settled : Estimate(v) <= Estimate(cur)
        /\ \A u \in settled : \A i \in Out(u) :
              i \in left \/ (cost[edges[i].to] # Inf /\ cost[edges[i].to] <= cost[u] + PriceOf(i))

SearchInv ==
    /\ searched \in {"no", "running", "done", "cancelled"}
    /\ searched # "running" => cur = 0
    /\ searched = "no" => settled = {} /\ left = {} /\ pops = 0
    /\ searched # "no" =>
         /\ RequestInv /\ ResultType /\ CostInv /\ Acyclic
         /\ DijkstraInv /\ AStarInv /\ OrderInv
    /\ LeastCosts

LEMMA MaxSpeedType ==
    ASSUME BuildInv
    PROVE  MaxSpeed \in Nat \ {0}
<1>1. CASE edges = <<>>
  BY <1>1 DEF MaxSpeed
<1>2. CASE edges # <<>>
  <2> DEFINE speeds == {edges[i].speed : i \in EdgeIDs}
  <2>1. EdgeIDs = 1..Len(edges) /\ Len(edges) \in Nat /\ EdgeIDs # {}
    <3>1. EdgeIDs = 1..Len(edges) /\ Len(edges) \in Nat
      BY EdgeEnds
    <3>2. edges \in Seq(EdgeAmong(Len(nodes), Len(features)))
      BY DEF BuildInv
    <3>3. Len(edges) # 0
      BY <1>2, <3>2
    <3>. QED
      BY <3>1, <3>3
  <2>2. \A i \in EdgeIDs : edges[i].speed \in Nat \ {0}
    BY EdgeEnds DEF EdgeAmong
  <2>3. speeds \subseteq Nat \ {0} /\ speeds # {} /\ speeds \subseteq Int
    BY <2>1, <2>2
  <2>4. IsFiniteSet(speeds)
    <3> DEFINE f == [i \in EdgeIDs |-> edges[i].speed]
    <3>1. IsFiniteSet(EdgeIDs)
      BY <2>1, FS_Interval
    <3>2. f \in Surjection(EdgeIDs, speeds)
      BY DEF Surjection
    <3> HIDE DEF f, speeds
    <3>. QED
      BY <3>1, <3>2, FS_Surjection
  <2>5. PICK m \in speeds : \A s \in speeds : s <= m
    <3> HIDE DEF speeds
    <3>. QED BY <2>3, <2>4, MaxIsGreatest
  <2>6. \E s \in speeds : \A i \in EdgeIDs : edges[i].speed <= s
    BY <2>5
  <2>7. MaxSpeed \in speeds
    BY <1>2, <2>6 DEF MaxSpeed
  <2>. QED
    BY <2>3, <2>7
<1>. QED
  BY <1>1, <1>2

LEMMA HeuristicType ==
    ASSUME BuildInv, ask.target \in NodeIDs
    PROVE  /\ \A v \in NodeIDs : Heuristic(v) \in Nat
           /\ Heuristic(ask.target) = 0
<1>1. PICK m \in Nat \ {0} : m = MaxSpeed
  BY MaxSpeedType
<1>2. PICK s \in Nat : s = Scale
  BY GraphAssumption
<1>3. PICK t \in Nat : t = nodes[ask.target].pt
  BY NodePlaces
<1>4. ASSUME NEW v \in NodeIDs PROVE Heuristic(v) \in Nat
  <2>1. PICK p \in Nat : p = nodes[v].pt
    BY NodePlaces
  <2>2. PICK d \in Nat : d = Dist(p, t)
    BY DistType
  <2>3. (d * s) \div m \in Nat
    <3>1. d * s \in Nat
      OBVIOUS
    <3>. QED
      BY <3>1, DivNat
  <2>. QED
    BY <1>1, <1>2, <1>3, <2>1, <2>2, <2>3 DEF Heuristic
<1>5. Heuristic(ask.target) = 0
  <2>1. Dist(t, t) = 0
    BY DEF Dist
  <2>2. (0 * s) \div m = 0
    OBVIOUS
  <2>. QED
    BY <1>1, <1>2, <1>3, <2>1, <2>2 DEF Heuristic
<1>. QED
  BY <1>4, <1>5

LEMMA NodesFinite ==
    ASSUME BuildInv
    PROVE  IsFiniteSet(NodeIDs) /\ Cardinality(NodeIDs) = Len(nodes) /\ Len(nodes) \in Nat
<1>1. NodeIDs = 1..Len(nodes) /\ Len(nodes) \in Nat
  BY NodePlaces
<1>2. IsFiniteSet(1..Len(nodes)) /\ Cardinality(1..Len(nodes)) = Len(nodes)
  <2>1. PICK n \in Nat : n = Len(nodes)
    BY <1>1
  <2>2. IsFiniteSet(1..n) /\ Cardinality(1..n) = IF 1 > n THEN 0 ELSE n - 1 + 1
    BY FS_Interval
  <2>. QED
    BY <2>1, <2>2
<1>. QED
  BY <1>1, <1>2

\* What depends on the graph and the request only.
LEMMA SameRequest ==
    ASSUME UNCHANGED <<graph, ask>>
    PROVE  /\ nodes' = nodes /\ edges' = edges /\ ask' = ask
           /\ NodeIDs' = NodeIDs /\ EdgeIDs' = EdgeIDs
           /\ \A u : Out(u)' = Out(u) /\ Heuristic(u)' = Heuristic(u)
           /\ \A i : PriceOf(i)' = PriceOf(i)
           /\ \A c : Beyond(c)' = Beyond(c)
           /\ Consistent' = Consistent
<1>1. nodes' = nodes /\ edges' = edges /\ ask' = ask /\ NodeIDs' = NodeIDs /\ EdgeIDs' = EdgeIDs
  BY DEF graph, NodeIDs, EdgeIDs
<1>2. \A u : Out(u)' = Out(u)
  BY <1>1 DEF Out
<1>3. \A i : PriceOf(i)' = PriceOf(i)
  BY <1>1 DEF PriceOf, Price, TravelTime
<1>4. \A c : Beyond(c)' = Beyond(c)
  BY <1>1 DEF Beyond
<1>5. MaxSpeed' = MaxSpeed
  BY <1>1 DEF MaxSpeed
<1>6. \A u : Heuristic(u)' = Heuristic(u)
  BY <1>1, <1>5 DEF Heuristic
<1>7. Consistent' = Consistent
  BY <1>1, <1>6 DEF Consistent, Price, TravelTime
<1>. QED
  BY <1>1, <1>2, <1>3, <1>4, <1>6, <1>7

-----------------------------------------------------------------------------
(* How far a node is from the seed its predecessors lead to.               *)

Parent(v) == edges[prev[v]].from
ClosedUp(S) == \A x \in S : prev[x] # 0 => Parent(x) \in S
\* The node itself and its predecessors.
Up(v) == {u \in NodeIDs : \A S \in SUBSET NodeIDs : v \in S /\ ClosedUp(S) => u \in S}
Rank(v) == Cardinality(Up(v)) - 1

LEMMA UpFacts ==
    ASSUME BuildInv, ResultType, NEW v \in NodeIDs
    PROVE  /\ Up(v) \subseteq NodeIDs /\ v \in Up(v) /\ ClosedUp(Up(v))
           /\ \A S \in SUBSET NodeIDs : v \in S /\ ClosedUp(S) => Up(v) \subseteq S
           /\ prev[v] # 0 => Parent(v) \in NodeIDs
<1>1. \A x \in NodeIDs : prev[x] # 0 => Parent(x) \in NodeIDs
  BY EdgeEnds DEF ResultType, Parent
<1>2. ClosedUp(Up(v))
  <2> SUFFICES ASSUME NEW x \in Up(v), prev[x] # 0 PROVE Parent(x) \in Up(v)
    BY DEF ClosedUp
  <2>1. x \in NodeIDs /\ Parent(x) \in NodeIDs
    BY <1>1 DEF Up
  <2>2. ASSUME NEW S \in SUBSET NodeIDs, v \in S, ClosedUp(S) PROVE Parent(x) \in S
    <3>1. x \in S
      BY <2>2 DEF Up
    <3>. QED
      BY <2>2, <3>1 DEF ClosedUp
  <2>. QED
    BY <2>1, <2>2 DEF Up
<1>3. v \in Up(v) /\ Up(v) \subseteq NodeIDs
  BY DEF Up
<1>4. \A S \in SUBSET NodeIDs : v \in S /\ ClosedUp(S) => Up(v) \subseteq S
  BY DEF Up
<1>. QED
  BY <1>1, <1>2, <1>3, <1>4

\* A node is not among the predecessors of its predecessor: with those between, it
\* would be a set that leads back into itself.
LEMMA NotBeforeItself ==
    ASSUME BuildInv, ResultType, Acyclic, NEW v \in NodeIDs, prev[v] # 0
    PROVE  v \notin Up(Parent(v))
<1> SUFFICES ASSUME v \in Up(Parent(v)) PROVE FALSE
  OBVIOUS
<1> DEFINE T == {x \in NodeIDs : v \in Up(x)}
<1>1. v \in T
  BY UpFacts
<1>2. ASSUME NEW x \in T PROVE prev[x] # 0 /\ Parent(x) \in T
  <2>1. x \in NodeIDs /\ v \in Up(x)
    OBVIOUS
  <2>2. CASE x = v
    <3>1. Parent(v) \in NodeIDs
      BY UpFacts
    <3>. QED
      BY <2>2, <3>1
  <2>3. CASE x # v
    <3>1. prev[x] # 0
      <4> SUFFICES ASSUME prev[x] = 0 PROVE FALSE
        OBVIOUS
      <4>1. ClosedUp({x}) /\ {x} \in SUBSET NodeIDs /\ x \in {x}
        BY <2>1 DEF ClosedUp
      <4>2. Up(x) \subseteq {x}
        BY <2>1, <4>1, UpFacts
      <4>. QED
        BY <2>1, <2>3, <4>2
    <3>2. Parent(x) \in NodeIDs
      BY <2>1, <3>1, UpFacts
    <3> DEFINE S == {x} \cup Up(Parent(x))
    <3>3. ClosedUp(S) /\ S \in SUBSET NodeIDs /\ x \in S
      <4>1. /\ Up(Parent(x)) \subseteq NodeIDs /\ Parent(x) \in Up(Parent(x))
            /\ ClosedUp(Up(Parent(x)))
        BY <3>2, UpFacts
      <4>. QED
        BY <2>1, <4>1 DEF ClosedUp
    <3>4. Up(x) \subseteq S
      <4> HIDE DEF S
      <4>. QED BY <2>1, <3>3, UpFacts
    <3>. QED
      BY <2>1, <2>3, <3>1, <3>2, <3>4
  <2>. QED
    BY <2>2, <2>3
<1>3. T \in SUBSET NodeIDs /\ T # {}
  BY <1>1
<1> HIDE DEF T
<1>. QED
  BY <1>2, <1>3 DEF Acyclic, Parent

LEMMA RankFacts ==
    ASSUME BuildInv, ResultType, Acyclic, NEW v \in NodeIDs
    PROVE  /\ Rank(v) \in Nat /\ Rank(v) < Len(nodes)
           /\ prev[v] # 0 => Parent(v) \in NodeIDs /\ Rank(Parent(v)) < Rank(v)
<1>1. IsFiniteSet(NodeIDs) /\ Cardinality(NodeIDs) = Len(nodes) /\ Len(nodes) \in Nat
  BY NodesFinite
<1>2. ASSUME NEW u \in NodeIDs
      PROVE  /\ IsFiniteSet(Up(u)) /\ Cardinality(Up(u)) \in Nat /\ Cardinality(Up(u)) > 0
             /\ Cardinality(Up(u)) <= Len(nodes)
  <2>1. Up(u) \in SUBSET NodeIDs /\ u \in Up(u)
    BY UpFacts
  <2>2. IsFiniteSet(Up(u)) /\ Cardinality(Up(u)) <= Len(nodes)
    BY <1>1, <2>1, FS_Subset
  <2>3. Cardinality(Up(u)) \in Nat /\ Cardinality(Up(u)) # 0
    BY <2>1, <2>2, FS_CardinalityType, FS_EmptySet
  <2>. QED
    BY <2>2, <2>3
<1>3. Rank(v) \in Nat /\ Rank(v) < Len(nodes)
  <2>1. PICK c \in Nat : c = Cardinality(Up(v)) /\ c > 0 /\ c <= Len(nodes)
    BY <1>2
  <2>2. c - 1 \in Nat /\ c - 1 < Len(nodes)
    BY <1>1, <2>1
  <2>. QED
    BY <2>1, <2>2 DEF Rank
<1>4. ASSUME prev[v] # 0
      PROVE  Parent(v) \in NodeIDs /\ Rank(Parent(v)) < Rank(v)
  <2>1. Parent(v) \in NodeIDs
    BY <1>4, UpFacts
  <2>2. Up(Parent(v)) \subseteq Up(v)
    <3>1. Parent(v) \in Up(v)
      BY <1>4, UpFacts DEF ClosedUp
    <3>2. Up(v) \in SUBSET NodeIDs /\ ClosedUp(Up(v))
      BY UpFacts
    <3>. QED
      BY <2>1, <3>1, <3>2, UpFacts
  <2>3. v \in Up(v) /\ v \notin Up(Parent(v))
    BY <1>4, UpFacts, NotBeforeItself
  <2>4. Up(Parent(v)) \in SUBSET Up(v) /\ Up(Parent(v)) # Up(v)
    BY <2>2, <2>3
  <2>5. /\ Cardinality(Up(Parent(v))) <= Cardinality(Up(v))
        /\ Cardinality(Up(Parent(v))) # Cardinality(Up(v))
    BY <1>2, <2>4, FS_Subset
  <2>6. PICK a \in Nat, b \in Nat : a = Cardinality(Up(Parent(v))) /\ b = Cardinality(Up(v))
    BY <1>2, <2>1
  <2>. QED
    BY <2>1, <2>5, <2>6 DEF Rank
<1>. QED
  BY <1>3, <1>4

-----------------------------------------------------------------------------
(* The costs of a search against the least costs of all walks.             *)

LEMMA WalkFacts ==
    ASSUME BuildInv, RequestInv, NEW n \in Nat, NEW w, Walks(w, n, ask.seeds, ask.basis)
    PROVE  /\ \A k \in 0..n : \A v \in NodeIDs : w[k][v] \in Cost
           /\ \A v \in NodeIDs :
                w[0][v] = IF v \in DOMAIN ask.seeds THEN ask.seeds[v] ELSE Inf
           /\ \A k \in 0..n : k < n =>
                \A v \in NodeIDs :
                  /\ \/ w[k + 1][v] = w[k][v]
                     \/ \E j \in EdgeIDs : /\ edges[j].to = v /\ w[k][edges[j].from] # Inf
                                           /\ w[k + 1][v] = w[k][edges[j].from] + PriceOf(j)
                  /\ w[k][v] # Inf => w[k + 1][v] # Inf /\ w[k + 1][v] <= w[k][v]
                  /\ \A j \in EdgeIDs :
                        edges[j].to = v /\ w[k][edges[j].from] # Inf =>
                           /\ w[k + 1][v] # Inf
                           /\ w[k + 1][v] <= w[k][edges[j].from] + PriceOf(j)
<1>1. \A k \in 0..n : w[k] \in [NodeIDs -> Cost]
  BY DEF Walks
<1>2. \A v \in NodeIDs : w[0][v] = IF v \in DOMAIN ask.seeds THEN ask.seeds[v] ELSE Inf
  BY DEF Walks, AtSeeds
<1>3. ASSUME NEW k \in 0..n, k < n, NEW v \in NodeIDs
      PROVE  /\ \/ w[k + 1][v] = w[k][v]
                \/ \E j \in EdgeIDs : /\ edges[j].to = v /\ w[k][edges[j].from] # Inf
                                      /\ w[k + 1][v] = w[k][edges[j].from] + PriceOf(j)
             /\ w[k][v] # Inf => w[k + 1][v] # Inf /\ w[k + 1][v] <= w[k][v]
             /\ \A j \in EdgeIDs :
                   edges[j].to = v /\ w[k][edges[j].from] # Inf =>
                      /\ w[k + 1][v] # Inf
                      /\ w[k + 1][v] <= w[k][edges[j].from] + PriceOf(j)
  <2>1. PICK b \in [NodeIDs -> Cost] : b = w[k]
    BY <1>1
  <2>2. w[k + 1] = OneEdgeMore(b, ask.basis)
    BY <1>3, <2>1 DEF Walks
  <2>. QED
    BY <2>1, <2>2, OneMoreType DEF PriceOf
<1>. QED
  BY <1>1, <1>2, <1>3

LEMMA NoCheaperThanWalks ==
    ASSUME BuildInv, RequestInv, ResultType, CostInv, Acyclic,
           NEW n \in Nat, n = Len(nodes), NEW w, Walks(w, n, ask.seeds, ask.basis),
           NEW u \in NodeIDs, cost[u] # Inf
    PROVE  w[n][u] # Inf /\ w[n][u] <= cost[u]
<1> DEFINE T == {k \in 0..n : \A v \in NodeIDs :
                    cost[v] # Inf /\ (prev[v] = 0 \/ Rank(v) <= k) =>
                       w[k][v] # Inf /\ w[k][v] <= cost[v]}
<1>0. \A v \in NodeIDs : cost[v] \in Cost /\ (prev[v] # 0 => prev[v] \in EdgeIDs)
  BY DEF ResultType
<1>00. \A x \in Cost : x # Inf => x \in Nat
  BY DEF Cost
<1>1. 0 \in T
  <2> SUFFICES ASSUME NEW v \in NodeIDs, cost[v] # Inf, prev[v] = 0 \/ Rank(v) <= 0
               PROVE  w[0][v] # Inf /\ w[0][v] <= cost[v]
    OBVIOUS
  <2>1. prev[v] = 0
    <3>1. prev[v] # 0 => Rank(Parent(v)) \in Nat /\ Rank(Parent(v)) < Rank(v) /\ Rank(v) \in Nat
      BY RankFacts
    <3>. QED
      BY <3>1
  <2>2. v \in DOMAIN ask.seeds /\ cost[v] = ask.seeds[v]
    BY <2>1 DEF CostInv
  <2>3. w[0][v] = cost[v]
    BY <2>2, WalkFacts
  <2>. QED
    BY <1>0, <1>00, <2>3
<1>2. ASSUME NEW k \in T, k < n PROVE k + 1 \in T
  <2> SUFFICES ASSUME NEW v \in NodeIDs, cost[v] # Inf, prev[v] = 0 \/ Rank(v) <= k + 1
               PROVE  w[k + 1][v] # Inf /\ w[k + 1][v] <= cost[v]
    BY <1>2
  <2>1. k \in 0..n
    OBVIOUS
  <2>2. CASE prev[v] = 0 \/ Rank(v) <= k
    <3>1. w[k][v] # Inf /\ w[k][v] <= cost[v]
      BY <2>2
    <3>2. w[k + 1][v] # Inf /\ w[k + 1][v] <= w[k][v]
      BY <1>2, <2>1, <3>1, WalkFacts
    <3>3. w[k + 1][v] \in Nat /\ w[k][v] \in Nat /\ cost[v] \in Nat
      <4>1. k + 1 \in 0..n
        BY <1>2, <2>1
      <4>2. w[k + 1][v] \in Cost /\ w[k][v] \in Cost
        BY <2>1, <4>1, WalkFacts
      <4>. QED
        BY <1>0, <1>00, <3>1, <3>2, <4>2
    <3>. QED
      BY <3>1, <3>2, <3>3
  <2>3. CASE prev[v] # 0 /\ ~(Rank(v) <= k)
    <3>1. PICK j \in EdgeIDs : j = prev[v]
      BY <1>0, <2>3
    <3>2. PICK x \in NodeIDs : x = Parent(v) /\ x = edges[j].from
      BY <2>3, <3>1, RankFacts DEF Parent
    <3>3. edges[j].to = v /\ cost[x] # Inf /\ cost[x] + PriceOf(j) <= cost[v]
      BY <2>3, <3>1, <3>2 DEF CostInv
    <3>4. Rank(x) <= k
      <4>1. Rank(x) \in Nat /\ Rank(v) \in Nat /\ k \in Nat
        BY <2>1, RankFacts
      <4>2. Rank(x) < Rank(v)
        BY <2>3, <3>2, RankFacts
      <4>. QED
        BY <2>3, <4>1, <4>2
    <3>5. w[k][x] # Inf /\ w[k][x] <= cost[x]
      BY <3>3, <3>4
    <3>6. w[k + 1][v] # Inf /\ w[k + 1][v] <= w[k][x] + PriceOf(j)
      BY <1>2, <2>1, <3>2, <3>3, <3>5, WalkFacts
    <3>7. /\ w[k + 1][v] \in Nat /\ w[k][x] \in Nat /\ cost[x] \in Nat /\ cost[v] \in Nat
          /\ PriceOf(j) \in Nat
      <4>1. k + 1 \in 0..n
        BY <1>2, <2>1
      <4>2. w[k + 1][v] \in Cost /\ w[k][x] \in Cost
        BY <2>1, <4>1, WalkFacts
      <4>3. PriceOf(j) \in Nat
        BY PriceType DEF PriceOf
      <4>. QED
        BY <1>0, <1>00, <3>3, <3>5, <3>6, <4>2, <4>3
    <3>. QED
      BY <3>3, <3>5, <3>6, <3>7
  <2>. QED
    BY <2>2, <2>3
<1>3. n \in T
  <2>1. T \subseteq 0..n
    OBVIOUS
  <2>2. T = 0..n
    <3> HIDE DEF T
    <3>. QED BY <1>1, <1>2, <2>1, UpTo
  <2>. QED
    BY <2>2
<1>4. Rank(u) <= n
  BY RankFacts
<1>. QED
  BY <1>3, <1>4

LEMMA NoDearerThanWalks ==
    ASSUME BuildInv, RequestInv, ResultType, CostInv, DijkstraInv,
           ask.algo = "dijkstra", queue = {}, left = {},
           NEW n \in Nat, NEW w, Walks(w, n, ask.seeds, ask.basis),
           NEW u \in NodeIDs, w[n][u] # Inf, ~Beyond(w[n][u])
    PROVE  cost[u] # Inf /\ cost[u] <= w[n][u]
<1> DEFINE T == {k \in 0..n : \A v \in NodeIDs :
                    w[k][v] # Inf /\ ~Beyond(w[k][v]) => cost[v] # Inf /\ cost[v] <= w[k][v]}
<1>00. \A x \in Cost : x # Inf => x \in Nat
  BY DEF Cost
<1>1. 0 \in T
  <2> SUFFICES ASSUME NEW v \in NodeIDs, w[0][v] # Inf PROVE cost[v] # Inf /\ cost[v] <= w[0][v]
    OBVIOUS
  <2>1. v \in DOMAIN ask.seeds /\ w[0][v] = ask.seeds[v]
    BY WalkFacts
  <2>. QED
    BY <2>1 DEF CostInv
<1>2. ASSUME NEW k \in T, k < n PROVE k + 1 \in T
  <2>0. k \in 0..n /\ k + 1 \in 0..n
    BY <1>2
  <2> SUFFICES ASSUME NEW v \in NodeIDs, w[k + 1][v] # Inf, ~Beyond(w[k + 1][v])
               PROVE  cost[v] # Inf /\ cost[v] <= w[k + 1][v]
    BY <2>0
  <2>1. CASE w[k + 1][v] = w[k][v]
    BY <2>1
  <2>2. CASE w[k + 1][v] # w[k][v]
    <3>1. PICK j \in EdgeIDs : /\ edges[j].to = v /\ w[k][edges[j].from] # Inf
                               /\ w[k + 1][v] = w[k][edges[j].from] + PriceOf(j)
      BY <1>2, <2>0, <2>2, WalkFacts
    <3>2. PICK x \in NodeIDs : x = edges[j].from
      BY EdgeEnds
    <3>3. w[k][x] \in Nat /\ w[k + 1][v] \in Nat /\ PriceOf(j) \in Nat
      <4>1. w[k + 1][v] \in Cost /\ w[k][x] \in Cost
        BY <2>0, WalkFacts
      <4>2. PriceOf(j) \in Nat
        BY PriceType DEF PriceOf
      <4>. QED
        BY <1>00, <3>1, <3>2, <4>1, <4>2
    <3>4. ~Beyond(w[k][x])
      <4>1. ask.cutoff \in Nat
        BY DEF RequestInv, GoodRequest
      <4>. QED
        BY <3>1, <3>2, <3>3, <4>1 DEF Beyond
    <3>5. cost[x] # Inf /\ cost[x] <= w[k][x]
      BY <3>1, <3>2, <3>4
    <3>6. cost[x] \in Nat
      BY <1>00, <3>5 DEF ResultType
    <3>7. j \in Out(x)
      BY <3>2 DEF Out
    <3>8. Relaxed(j)
      BY <3>5, <3>7 DEF DijkstraInv
    <3>9. cost[x] + PriceOf(j) <= w[k + 1][v] /\ cost[x] + PriceOf(j) \in Nat
      BY <3>1, <3>2, <3>3, <3>5, <3>6
    <3>10. ~Beyond(cost[x] + PriceOf(j))
      <4>1. ask.cutoff \in Nat
        BY DEF RequestInv, GoodRequest
      <4>. QED
        BY <3>3, <3>9, <4>1 DEF Beyond
    <3>11. cost[v] # Inf /\ cost[v] <= cost[x] + PriceOf(j)
      BY <3>1, <3>2, <3>8, <3>10 DEF Relaxed
    <3>12. cost[v] \in Nat
      BY <1>00, <3>11 DEF ResultType
    <3>. QED
      BY <3>3, <3>9, <3>11, <3>12
  <2>. QED
    BY <2>1, <2>2
<1>3. n \in T
  <2>1. T \subseteq 0..n
    OBVIOUS
  <2>2. T = 0..n
    <3> HIDE DEF T
    <3>. QED BY <1>1, <1>2, <2>1, UpTo
  <2>. QED
    BY <2>2
<1>. QED
  BY <1>3

\* A* ran out of nodes: what no walk misses it has reached.
LEMMA NoneMissed ==
    ASSUME BuildInv, RequestInv, ResultType, CostInv, AStarInv,
           ask.algo = "astar", searched = "running", queue = {}, left = {},
           NEW n \in Nat, NEW w, Walks(w, n, ask.seeds, ask.basis),
           NEW u \in NodeIDs, w[n][u] # Inf
    PROVE  cost[u] # Inf
<1> DEFINE T == {k \in 0..n : \A v \in NodeIDs : w[k][v] # Inf => cost[v] # Inf}
<1>1. 0 \in T
  <2> SUFFICES ASSUME NEW v \in NodeIDs, w[0][v] # Inf PROVE cost[v] # Inf
    OBVIOUS
  <2>1. v \in DOMAIN ask.seeds
    BY WalkFacts
  <2>. QED
    BY <2>1 DEF CostInv
<1>2. ASSUME NEW k \in T, k < n PROVE k + 1 \in T
  <2>0. k \in 0..n /\ k + 1 \in 0..n
    BY <1>2
  <2> SUFFICES ASSUME NEW v \in NodeIDs, w[k + 1][v] # Inf PROVE cost[v] # Inf
    BY <2>0
  <2>1. CASE w[k + 1][v] = w[k][v]
    BY <2>1
  <2>2. CASE w[k + 1][v] # w[k][v]
    <3>1. PICK j \in EdgeIDs : edges[j].to = v /\ w[k][edges[j].from] # Inf
      BY <1>2, <2>0, <2>2, WalkFacts
    <3>2. PICK x \in NodeIDs : x = edges[j].from
      BY EdgeEnds
    <3>3. cost[x] # Inf /\ j \in Out(x)
      BY <3>1, <3>2 DEF Out
    <3>4. x \in settled
      BY <3>3 DEF AStarInv
    <3>. QED
      BY <3>1, <3>3, <3>4 DEF AStarInv
  <2>. QED
    BY <2>1, <2>2
<1>3. n \in T
  <2>1. T \subseteq 0..n
    OBVIOUS
  <2>2. T = 0..n
    <3> HIDE DEF T
    <3>. QED BY <1>1, <1>2, <2>1, UpTo
  <2>. QED
    BY <2>2
<1>. QED
  BY <1>3

\* A* comes to its target with an estimate that is no more than any walk to it costs:
\* every walk leaves the settled nodes somewhere, over an entry of the queue.
LEMMA SettledInOrder ==
    ASSUME BuildInv, RequestInv, ResultType, CostInv, AStarInv, OrderInv, Consistent,
           ask.algo = "astar", searched = "running", left = {},
           NEW n \in Nat, NEW w, Walks(w, n, ask.seeds, ask.basis),
           NEW u \in NodeIDs, w[n][u] # Inf
    PROVE  \/ u \in settled /\ cost[u] <= w[n][u]
           \/ \E it \in queue : it.prio <= w[n][u] + Heuristic(u)
<1> DEFINE T == {k \in 0..n : \A v \in NodeIDs : w[k][v] # Inf =>
                    \/ v \in settled /\ cost[v] <= w[k][v]
                    \/ \E it \in queue : it.prio <= w[k][v] + Heuristic(v)}
<1>00. \A x \in Cost : x # Inf => x \in Nat
  BY DEF Cost
<1>0. \A v \in NodeIDs : Heuristic(v) \in Nat /\ cost[v] \in Cost
  BY HeuristicType DEF RequestInv, GoodRequest, ResultType
<1>01. \A it \in queue : it.prio \in Nat
  BY DEF ResultType
\* A reached node, at a cost of no more than d.
<1>02. ASSUME NEW v \in NodeIDs, cost[v] # Inf, NEW d \in Nat, cost[v] <= d
       PROVE  \/ v \in settled /\ cost[v] <= d
              \/ \E it \in queue : it.prio <= d + Heuristic(v)
  <2>1. CASE v \in settled
    BY <1>02, <2>1
  <2>2. CASE v \notin settled
    <3>1. PICK it \in queue : it.node = v /\ it.prio <= cost[v] + Heuristic(v)
      BY <1>02, <2>2 DEF AStarInv, Estimate
    <3>2. cost[v] \in Nat /\ Heuristic(v) \in Nat /\ it.prio \in Nat
      BY <1>0, <1>00, <1>01, <1>02
    <3>3. it.prio <= d + Heuristic(v)
      BY <1>02, <3>1, <3>2
    <3>. QED
      BY <3>3
  <2>. QED
    BY <2>1, <2>2
<1>1. 0 \in T
  <2> SUFFICES ASSUME NEW v \in NodeIDs, w[0][v] # Inf
               PROVE  \/ v \in settled /\ cost[v] <= w[0][v]
                      \/ \E it \in queue : it.prio <= w[0][v] + Heuristic(v)
    OBVIOUS
  <2>1. v \in DOMAIN ask.seeds /\ w[0][v] = ask.seeds[v]
    BY WalkFacts
  <2>2. cost[v] # Inf /\ cost[v] <= w[0][v] /\ w[0][v] \in Nat
    BY <2>1 DEF CostInv, RequestInv, GoodRequest
  <2>. QED
    BY <1>02, <2>2
<1>2. ASSUME NEW k \in T, k < n PROVE k + 1 \in T
  <2>0. k \in 0..n /\ k + 1 \in 0..n
    BY <1>2
  <2> SUFFICES ASSUME NEW v \in NodeIDs, w[k + 1][v] # Inf
               PROVE  \/ v \in settled /\ cost[v] <= w[k + 1][v]
                      \/ \E it \in queue : it.prio <= w[k + 1][v] + Heuristic(v)
    BY <2>0
  <2>1. CASE w[k + 1][v] = w[k][v]
    BY <2>1
  <2>2. CASE w[k + 1][v] # w[k][v]
    <3>1. PICK j \in EdgeIDs : /\ edges[j].to = v /\ w[k][edges[j].from] # Inf
                               /\ w[k + 1][v] = w[k][edges[j].from] + PriceOf(j)
      BY <1>2, <2>0, <2>2, WalkFacts
    <3>2. PICK x \in NodeIDs : x = edges[j].from
      BY EdgeEnds
    <3>3. w[k][x] \in Nat /\ w[k + 1][v] \in Nat /\ PriceOf(j) \in Nat
      <4>1. w[k + 1][v] \in Cost /\ w[k][x] \in Cost
        BY <2>0, WalkFacts
      <4>2. PriceOf(j) \in Nat
        BY PriceType DEF PriceOf
      <4>. QED
        BY <1>00, <3>1, <3>2, <4>1, <4>2
    <3>4. CASE x \in settled /\ cost[x] <= w[k][x]
      <4>1. j \in Out(x)
        BY <3>2 DEF Out
      <4>2. cost[v] # Inf /\ cost[v] <= cost[x] + PriceOf(j)
        BY <3>1, <3>4, <4>1 DEF OrderInv
      <4>3. cost[x] \in Nat /\ cost[v] \in Nat
        BY <1>0, <1>00, <3>4, <4>2 DEF ResultType
      <4>4. cost[v] <= w[k + 1][v]
        BY <3>1, <3>2, <3>3, <3>4, <4>2, <4>3
      <4>. QED
        BY <1>02, <3>3, <4>2, <4>4
    <3>5. CASE \E it \in queue : it.prio <= w[k][x] + Heuristic(x)
      <4>1. PICK it \in queue : it.prio <= w[k][x] + Heuristic(x)
        BY <3>5
      <4>2. Heuristic(x) <= PriceOf(j) + Heuristic(v)
        BY <3>1, <3>2 DEF Consistent, PriceOf
      <4>3. it.prio \in Nat /\ Heuristic(x) \in Nat /\ Heuristic(v) \in Nat
        BY <1>0, <1>01
      <4>4. it.prio <= w[k + 1][v] + Heuristic(v)
        BY <3>1, <3>2, <3>3, <4>1, <4>2, <4>3
      <4>. QED
        BY <4>4
    <3>. QED
      BY <3>1, <3>2, <3>4, <3>5
  <2>. QED
    BY <2>1, <2>2
<1>3. n \in T
  <2>1. T \subseteq 0..n
    OBVIOUS
  <2>2. T = 0..n
    <3> HIDE DEF T
    <3>. QED BY <1>1, <1>2, <2>1, UpTo
  <2>. QED
    BY <2>2
<1>. QED
  BY <1>3

Answer ==
    LET least == LeastUpTo(ask.seeds, ask.basis, ask.cutoff) IN
    IF ask.algo = "dijkstra"
    THEN \A v \in NodeIDs : ask.target \in {0, v} => cost[v] = least[v]
    ELSE /\ (cost[ask.target] = Inf) <=> (least[ask.target] = Inf)
         /\ Consistent => cost[ask.target] = least[ask.target]

LEMMA LeastOfWalks ==
    ASSUME BuildInv, RequestInv
    PROVE  \E w : /\ Walks(w, Len(nodes), ask.seeds, ask.basis)
                  /\ \A v \in NodeIDs :
                        LeastUpTo(ask.seeds, ask.basis, ask.cutoff)[v] =
                          IF ask.cutoff = 0 \/ w[Len(nodes)][v] <= ask.cutoff
                          THEN w[Len(nodes)][v]
                          ELSE IF v \in DOMAIN ask.seeds THEN ask.seeds[v] ELSE Inf
<1>1. Len(nodes) \in Nat
  BY NodesFinite
<1>2. PICK w : /\ Walks(w, Len(nodes), ask.seeds, ask.basis)
               /\ LeastWithin(ask.seeds, ask.basis, Len(nodes)) = w[Len(nodes)]
  BY <1>1, WalksExist DEF RequestInv, GoodRequest
<1>3. LeastCost(ask.seeds, ask.basis) = w[Len(nodes)]
  BY <1>2 DEF LeastCost
<1>4. \A v \in NodeIDs :
         LeastUpTo(ask.seeds, ask.basis, ask.cutoff)[v] =
           IF ask.cutoff = 0 \/ w[Len(nodes)][v] <= ask.cutoff
           THEN w[Len(nodes)][v]
           ELSE IF v \in DOMAIN ask.seeds THEN ask.seeds[v] ELSE Inf
  BY <1>3 DEF LeastUpTo
<1>. QED
  BY <1>2, <1>4

LEMMA DijkstraAnswers ==
    ASSUME BuildInv, RequestInv, ResultType, CostInv, Acyclic, DijkstraInv,
           ask.algo = "dijkstra", queue = {}, left = {}
    PROVE  Answer
<1>1. PICK n \in Nat : n = Len(nodes)
  BY NodesFinite
<1>2. PICK w : /\ Walks(w, n, ask.seeds, ask.basis)
               /\ \A v \in NodeIDs :
                     LeastUpTo(ask.seeds, ask.basis, ask.cutoff)[v] =
                       IF ask.cutoff = 0 \/ w[n][v] <= ask.cutoff THEN w[n][v]
                       ELSE IF v \in DOMAIN ask.seeds THEN ask.seeds[v] ELSE Inf
  BY <1>1, LeastOfWalks
<1>3. ASSUME NEW v \in NodeIDs
      PROVE  cost[v] = LeastUpTo(ask.seeds, ask.basis, ask.cutoff)[v]
  <2>1. PICK l \in Cost : l = w[n][v]
    BY WalkFacts, <1>2
  <2>2. PICK c \in Cost : c = cost[v]
    BY DEF ResultType
  <2>3. c # Inf => l # Inf /\ l <= c
    BY <1>1, <1>2, <2>1, <2>2, NoCheaperThanWalks
  <2>4. l # Inf /\ ~Beyond(l) => c # Inf /\ c <= l
    BY <1>2, <2>1, <2>2, NoDearerThanWalks
  <2>5. c # Inf /\ Beyond(c) => v \in DOMAIN ask.seeds /\ c = ask.seeds[v]
    BY <2>2 DEF CostInv
  <2>6. v \in DOMAIN ask.seeds => c # Inf /\ c <= ask.seeds[v]
    BY <2>2 DEF CostInv
  <2>7. ask.cutoff \in Nat
    BY DEF RequestInv, GoodRequest
  <2>8. Inf = -1 /\ (l = Inf \/ l \in Nat) /\ (c = Inf \/ c \in Nat)
    BY DEF Inf, Cost
  <2>9. CASE ask.cutoff = 0 \/ l <= ask.cutoff
    <3>1. LeastUpTo(ask.seeds, ask.basis, ask.cutoff)[v] = l
      BY <1>2, <2>1, <2>9
    <3>2. ~Beyond(l)
      BY <2>7, <2>8, <2>9 DEF Beyond
    <3>3. c = l
      BY <2>3, <2>4, <2>8, <3>2
    <3>. QED
      BY <2>2, <3>1, <3>3
  <2>10. CASE ~(ask.cutoff = 0 \/ l <= ask.cutoff)
    <3>1. LeastUpTo(ask.seeds, ask.basis, ask.cutoff)[v]
             = IF v \in DOMAIN ask.seeds THEN ask.seeds[v] ELSE Inf
      BY <1>2, <2>1, <2>10
    <3>2. c # Inf => Beyond(c)
      BY <2>3, <2>7, <2>8, <2>10 DEF Beyond
    <3>3. c = IF v \in DOMAIN ask.seeds THEN ask.seeds[v] ELSE Inf
      BY <2>5, <2>6, <3>2
    <3>. QED
      BY <2>2, <3>1, <3>3
  <2>. QED
    BY <2>9, <2>10
<1>. QED
  BY <1>3 DEF Answer

\* What is known of the cost of the target, and what has to be shown of it.
LEMMA AStarAnswersIf ==
    ASSUME BuildInv, RequestInv, ResultType, CostInv, Acyclic, ask.algo = "astar",
           \A w : Walks(w, Len(nodes), ask.seeds, ask.basis) /\ w[Len(nodes)][ask.target] # Inf =>
                     /\ cost[ask.target] # Inf
                     /\ Consistent => cost[ask.target] <= w[Len(nodes)][ask.target]
    PROVE  Answer
<1>1. PICK n \in Nat : n = Len(nodes)
  BY NodesFinite
<1>2. ask.target \in NodeIDs /\ ask.cutoff = 0
  BY DEF RequestInv, GoodRequest
<1>3. PICK w : /\ Walks(w, n, ask.seeds, ask.basis)
               /\ LeastUpTo(ask.seeds, ask.basis, ask.cutoff)[ask.target] = w[n][ask.target]
  BY <1>1, <1>2, LeastOfWalks
<1>4. PICK l \in Cost : l = w[n][ask.target]
  BY <1>2, <1>3, WalkFacts
<1>5. PICK c \in Cost : c = cost[ask.target]
  BY <1>2 DEF ResultType
<1>6. c # Inf => l # Inf /\ l <= c
  BY <1>1, <1>2, <1>3, <1>4, <1>5, NoCheaperThanWalks
<1>7. l # Inf => c # Inf /\ (Consistent => c <= l)
  BY <1>1, <1>3, <1>4, <1>5
<1>8. (c = Inf) <=> (l = Inf)
  BY <1>6, <1>7
<1>9. Consistent => c = l
  BY <1>6, <1>7 DEF Cost
<1>. QED
  BY <1>3, <1>4, <1>5, <1>8, <1>9 DEF Answer

LEMMA AStarExhausted ==
    ASSUME BuildInv, RequestInv, ResultType, CostInv, Acyclic, AStarInv,
           ask.algo = "astar", searched = "running", queue = {}, left = {}
    PROVE  Answer
<1>1. PICK n \in Nat : n = Len(nodes)
  BY NodesFinite
<1>2. ask.target \in NodeIDs
  BY DEF RequestInv, GoodRequest
\* A reached target would be in the queue, or settled.
<1>3. cost[ask.target] = Inf
  BY <1>2 DEF AStarInv
<1>4. ASSUME NEW w, Walks(w, n, ask.seeds, ask.basis), w[n][ask.target] # Inf PROVE FALSE
  BY <1>2, <1>3, <1>4, NoneMissed
<1>. QED
  BY <1>1, <1>4, AStarAnswersIf

LEMMA AStarArrived ==
    ASSUME BuildInv, RequestInv, ResultType, CostInv, Acyclic, AStarInv, OrderInv,
           ask.algo = "astar", searched = "running", left = {},
           NEW it, IsNext(it), it.node = ask.target
    PROVE  Answer
<1>1. PICK n \in Nat : n = Len(nodes)
  BY NodesFinite
<1>2. ask.target \in NodeIDs
  BY DEF RequestInv, GoodRequest
<1>3. it \in queue /\ it.prio \in Nat /\ cost[ask.target] # Inf
  BY DEF IsNext, ResultType
<1>4. cost[ask.target] \in Nat
  BY <1>2, <1>3 DEF ResultType, Cost
<1>5. ASSUME NEW w, Walks(w, n, ask.seeds, ask.basis), w[n][ask.target] # Inf, Consistent
      PROVE  cost[ask.target] <= w[n][ask.target]
  <2>1. w[n][ask.target] \in Nat
    <3>1. \A k \in 0..n : \A v \in NodeIDs : w[k][v] \in Cost
      BY <1>5, WalkFacts
    <3>2. w[n][ask.target] \in Cost
      BY <1>2, <3>1
    <3>. QED
      BY <1>5, <3>2 DEF Cost
  <2>2. PICK other \in queue : other.prio <= w[n][ask.target] + Heuristic(ask.target)
    BY <1>2, <1>5, SettledInOrder DEF AStarInv
  <2>3. Heuristic(ask.target) = 0
    BY <1>2, HeuristicType
  <2>4. other.prio \in Nat /\ it.prio <= other.prio
    BY DEF IsNext, ResultType
  <2>5. it.prio <= w[n][ask.target]
    BY <1>3, <2>1, <2>2, <2>3, <2>4
  <2>6. CASE settled # {}
    <3>1. cost[ask.target] + 0 <= it.prio
      BY <1>3, <1>5, <2>3, <2>6 DEF OrderInv, Estimate
    <3>. QED
      BY <1>3, <1>4, <2>1, <2>5, <3>1
  <2>7. CASE settled = {}
    <3>1. it \in {[node |-> s, prio |-> 0] : s \in DOMAIN ask.seeds}
      BY <1>3, <1>5, <2>7 DEF OrderInv
    <3>2. it.node \in DOMAIN ask.seeds /\ ask.seeds[it.node] = 0
      BY <3>1 DEF RequestInv, GoodRequest
    <3>3. cost[ask.target] <= 0
      BY <3>2 DEF CostInv
    <3>. QED
      BY <1>4, <2>1, <3>3
  <2>. QED
    BY <2>6, <2>7
<1>. QED
  BY <1>1, <1>3, <1>5, AStarAnswersIf

-----------------------------------------------------------------------------
(* What is read from the predecessors.                                     *)

LEMMA PriceGrows ==
    ASSUME BuildInv, NEW p \in Seq(EdgeIDs), NEW e \in EdgeIDs
    PROVE  /\ PathPrice(p) \in Nat /\ PathPrice(<<e>> \o p) \in Nat
           /\ PathPrice(<<e>> \o p) <= PriceOf(e) + PathPrice(p)
<1>0. \A i \in EdgeIDs : PriceOf(i) \in Nat
  BY PriceType DEF PriceOf
<1>1. PICK n \in Nat : n = Len(p) /\ DOMAIN p = 1..n
  OBVIOUS
<1>2. PICK q : q = <<e>> \o p
  OBVIOUS
<1>3. /\ q \in Seq(EdgeIDs) /\ DOMAIN q = 1..(n + 1) /\ q[1] = e
      /\ \A i \in 1..n : q[i + 1] = p[i]
  BY <1>1, <1>2
<1>4. \A i \in 1..n : p[i] \in EdgeIDs
  BY <1>1
<1> DEFINE h == [i \in 1..n |-> PriceOf(p[i])]
           f == [i \in 1..(n + 1) |-> PriceOf(q[i])]
           T == 1..n
           S == 2..(n + 1)
           g == [i \in S |-> i - 1]
<1>5. PathPrice(p) = SumFunctionOnSet(h, T)
  BY <1>1 DEF PathPrice, SumFunction, PriceOf
<1>6. PathPrice(q) = SumFunctionOnSet(f, 1..(n + 1))
  BY <1>3 DEF PathPrice, SumFunction, PriceOf
<1>7. \A i \in T : h[i] \in Nat
  BY <1>0, <1>4
<1>8. \A i \in 1..(n + 1) : f[i] \in Nat
  <2>1. \A i \in 1..(n + 1) : q[i] \in EdgeIDs
    BY <1>3
  <2>. QED
    BY <1>0, <2>1
<1>9. IsFiniteSet(T) /\ IsFiniteSet(S) /\ IsFiniteSet(1..(n + 1))
  BY FS_Interval
<1>10. \A i \in S : g[i] \in T /\ f[i] = h[g[i]]
  <2> SUFFICES ASSUME NEW i \in S PROVE g[i] \in T /\ f[i] = h[g[i]]
    OBVIOUS
  <2>1. PICK k \in 1..n : k = i - 1 /\ i = k + 1
    <3>1. i - 1 \in 1..n /\ i = (i - 1) + 1
      OBVIOUS
    <3>. QED
      BY <3>1
  <2>2. q[i] = p[k]
    BY <1>3, <2>1
  <2>. QED
    BY <2>1, <2>2
<1>11. \A i, j \in S : g[i] = g[j] => i = j
  OBVIOUS
<1>12. 1..(n + 1) = S \cup {1} /\ 1 \notin S
  OBVIOUS
<1>13. \A i \in S : f[i] \in Nat /\ f[i] \in Int
  BY <1>8
<1>14. f[1] = PriceOf(e) /\ f[1] \in Nat
  BY <1>3, <1>8
<1> HIDE DEF f, h, g, T, S
<1>15. SumFunctionOnSet(f, S) <= SumFunctionOnSet(h, T)
  <2>1. \A i \in S : f[i] # 0 => g[i] \in T /\ f[i] <= h[g[i]]
    BY <1>10, <1>13
  <2>2. \A i, j \in S : f[i] # 0 /\ f[j] # 0 /\ g[i] = g[j] => i = j
    BY <1>11
  <2>. QED
    BY <1>7, <1>9, <1>13, <2>1, <2>2, SumInto
<1>16. SumFunctionOnSet(f, S \cup {1}) = f[1] + SumFunctionOnSet(f, S)
  <2>1. \A i \in S \cup {1} : f[i] \in Int
    BY <1>13, <1>14
  <2>. QED
    BY <1>9, <1>12, <2>1, SumAdd
<1>17. SumFunctionOnSet(f, S) \in Nat /\ SumFunctionOnSet(h, T) \in Nat
  BY <1>7, <1>9, <1>13, SumNat
<1>18. PathPrice(q) = f[1] + SumFunctionOnSet(f, S)
  BY <1>6, <1>12, <1>16
<1>19. PathPrice(p) \in Nat /\ PathPrice(q) \in Nat /\ PathPrice(q) <= PriceOf(e) + PathPrice(p)
  BY <1>5, <1>14, <1>15, <1>17, <1>18
<1>. QED
  BY <1>2, <1>19

\* What PathTo has found after i turns of its loop.
TracedBack(path, t, i) ==
    LET o == Origin(path, t) IN
    /\ path \in Seq(EdgeIDs)
    /\ \A k \in 1..(Len(path) - 1) : edges[path[k]].to = edges[path[k + 1]].from
    /\ path # <<>> => edges[path[Len(path)]].to = t
    /\ o \in NodeIDs /\ cost[o] # Inf /\ cost[o] + PathPrice(path) <= cost[t]
    /\ Len(path) + Rank(o) <= Rank(t)
    /\ prev[o] = 0 \/ Len(path) = i

LEMMA EmptyPath ==
    ASSUME BuildInv, ResultType, Acyclic, NEW t \in NodeIDs, cost[t] # Inf
    PROVE  TracedBack(<<>>, t, 0)
<1>1. Origin(<<>>, t) = t
  BY DEF Origin
<1>2. PathPrice(<<>>) = 0
  <2> DEFINE f == [i \in DOMAIN <<>> |-> Price(ask.basis, edges[<<>>[i]])]
  <2>1. DOMAIN f = {}
    OBVIOUS
  <2>2. PathPrice(<<>>) = SumFunctionOnSet(f, DOMAIN f)
    BY DEF PathPrice, SumFunction
  <2> HIDE DEF f
  <2>. QED
    BY <2>1, <2>2, SumEmpty
<1>3. cost[t] + 0 <= cost[t]
  BY DEF ResultType, Cost
<1>4. Len(<<>>) + Rank(t) <= Rank(t)
  BY RankFacts
<1>5. /\ <<>> \in Seq(EdgeIDs) /\ Len(<<>>) = 0
      /\ \A k \in 1..(Len(<<>>) - 1) : edges[<<>>[k]].to = edges[<<>>[k + 1]].from
  OBVIOUS
<1>. QED
  BY <1>1, <1>2, <1>3, <1>4, <1>5 DEF TracedBack

LEMMA OneTurn ==
    ASSUME BuildInv, ResultType, CostInv, Acyclic, NEW t \in NodeIDs, cost[t] # Inf,
           NEW p, NEW i \in Nat, TracedBack(p, t, i)
    PROVE  TracedBack(Longer(p, t), t, i + 1)
<1>1. PICK o \in NodeIDs : o = Origin(p, t)
  BY DEF TracedBack
<1>2. /\ p \in Seq(EdgeIDs)
      /\ \A k \in 1..(Len(p) - 1) : edges[p[k]].to = edges[p[k + 1]].from
      /\ p # <<>> => edges[p[Len(p)]].to = t
      /\ cost[o] # Inf /\ cost[o] + PathPrice(p) <= cost[t]
      /\ Len(p) + Rank(o) <= Rank(t)
      /\ prev[o] = 0 \/ Len(p) = i
  BY <1>1 DEF TracedBack
<1>3. CASE prev[o] = 0
  <2>1. Longer(p, t) = p
    BY <1>1, <1>3 DEF Longer
  <2>. QED
    BY <1>1, <1>2, <1>3, <2>1 DEF TracedBack
<1>4. CASE prev[o] # 0
  <2>1. PICK e \in EdgeIDs : e = prev[o]
    BY <1>4 DEF ResultType
  <2>2. PICK x \in NodeIDs : x = edges[e].from /\ x = Parent(o) /\ Rank(x) < Rank(o)
    BY <1>4, <2>1, RankFacts DEF Parent
  <2>3. edges[e].to = o /\ cost[x] # Inf /\ cost[x] + PriceOf(e) <= cost[o]
    BY <1>4, <2>1, <2>2 DEF CostInv
  <2>4. PICK q : q = <<e>> \o p
    OBVIOUS
  <2>5. Longer(p, t) = q
    BY <1>1, <1>4, <2>1, <2>4 DEF Longer
  <2>6. PICK n \in Nat : n = Len(p) /\ DOMAIN p = 1..n
    BY <1>2
  <2>7. /\ q \in Seq(EdgeIDs) /\ Len(q) = n + 1 /\ q # <<>> /\ q[1] = e /\ Head(q) = e
        /\ \A k \in 1..n : q[k + 1] = p[k]
    BY <1>2, <2>4, <2>6
  <2>8. Origin(q, t) = x
    BY <2>2, <2>7 DEF Origin
  <2>9. \A k \in 1..(Len(q) - 1) : edges[q[k]].to = edges[q[k + 1]].from
    <3> SUFFICES ASSUME NEW k \in 1..n PROVE edges[q[k]].to = edges[q[k + 1]].from
      BY <2>6, <2>7
    <3>1. q[k + 1] = p[k]
      BY <2>7
    <3>2. CASE k = 1
      <4>1. p # <<>> /\ Head(p) = p[1]
        BY <1>2, <2>6
      <4>2. edges[p[1]].from = o
        BY <1>1, <4>1 DEF Origin
      <4>. QED
        BY <2>3, <2>7, <3>1, <3>2, <4>2
    <3>3. CASE k # 1
      <4>1. PICK j \in 1..(n - 1) : k = j + 1 /\ j \in 1..n
        <5>1. k - 1 \in 1..(n - 1) /\ k = (k - 1) + 1 /\ k - 1 \in 1..n
          BY <2>6, <3>3
        <5>. QED
          BY <5>1
      <4>2. q[k] = p[j] /\ edges[p[j]].to = edges[p[j + 1]].from
        BY <1>2, <2>6, <2>7, <4>1
      <4>. QED
        BY <3>1, <4>1, <4>2
    <3>. QED
      BY <3>2, <3>3
  <2>10. edges[q[Len(q)]].to = t
    <3>1. CASE n = 0
      <4>1. p = <<>>
        BY <1>2, <2>6, <3>1
      <4>2. o = t
        BY <1>1, <4>1 DEF Origin
      <4>. QED
        BY <2>3, <2>7, <3>1, <4>2
    <3>2. CASE n # 0
      <4>1. n \in 1..n /\ p # <<>>
        BY <1>2, <2>6, <3>2
      <4>2. q[n + 1] = p[n]
        BY <2>7, <4>1
      <4>. QED
        BY <1>2, <2>6, <2>7, <4>1, <4>2
    <3>. QED
      BY <3>1, <3>2
  <2>11. cost[x] + PathPrice(q) <= cost[t]
    <3>1. /\ PathPrice(p) \in Nat /\ PathPrice(q) \in Nat
          /\ PathPrice(q) <= PriceOf(e) + PathPrice(p)
      BY <1>2, <2>4, PriceGrows
    <3>2. PriceOf(e) \in Nat
      BY PriceType DEF PriceOf
    <3>3. cost[x] \in Nat /\ cost[o] \in Nat /\ cost[t] \in Nat
      BY <1>2, <2>3 DEF ResultType, Cost
    <3>. QED
      BY <1>2, <2>3, <3>1, <3>2, <3>3
  <2>12. Len(q) + Rank(x) <= Rank(t)
    <3>1. Rank(x) \in Nat /\ Rank(o) \in Nat /\ Rank(t) \in Nat
      BY RankFacts
    <3>. QED
      BY <1>2, <2>2, <2>6, <2>7, <3>1
  <2>13. Len(q) = i + 1
    BY <1>2, <1>4, <2>6, <2>7
  <2>. QED
    BY <2>3, <2>5, <2>7, <2>8, <2>9, <2>10, <2>11, <2>12, <2>13 DEF TracedBack
<1>. QED
  BY <1>3, <1>4

LEMMA PathIsTraced ==
    ASSUME BuildInv, ResultType, CostInv, Acyclic, NEW t \in NodeIDs, cost[t] # Inf
    PROVE  TracedBack(PathTo(t), t, Len(nodes))
<1>1. PICK n \in Nat : n = Len(nodes)
  BY NodesFinite
<1> DEFINE S == {p \in Seq(EdgeIDs) : \E i \in Nat : TracedBack(p, t, i)}
           F == [p \in S |-> Longer(p, t)]
           Chain(h) == h = [i \in 0..n |-> IF i = 0 THEN <<>> ELSE Longer(h[i - 1], t)]
<1>2. <<>> \in S
  BY EmptyPath DEF TracedBack
<1>3. F \in [S -> S]
  <2> SUFFICES ASSUME NEW p \in S PROVE Longer(p, t) \in S
    OBVIOUS
  <2>1. PICK i \in Nat : TracedBack(p, t, i)
    OBVIOUS
  <2>2. TracedBack(Longer(p, t), t, i + 1)
    BY <2>1, OneTurn
  <2>3. i + 1 \in Nat
    OBVIOUS
  <2>. QED
    BY <2>2, <2>3 DEF TracedBack
<1>4. PICK g \in [0..n -> S] : Iterates(g, n, <<>>, F)
  <2> HIDE DEF F, S
  <2>. QED BY <1>2, <1>3, IteratesExist
<1>5. Chain(g)
  <2>1. \A i \in 0..n : i # 0 => g[i - 1] \in S /\ F[g[i - 1]] = Longer(g[i - 1], t)
    <3>1. \A i \in 0..n : i # 0 => g[i - 1] \in S
      <4> HIDE DEF S
      <4>. QED BY <1>4
    <3>. QED
      BY <3>1
  <2> HIDE DEF F, S
  <2>. QED
    BY <1>4, <2>1 DEF Iterates
<1>6. PICK b : Chain(b) /\ b = CHOOSE h : Chain(h)
  <2> HIDE DEF Chain
  <2>. QED BY <1>5
<1>7. PathTo(t) = b[n]
  BY <1>1, <1>6 DEF PathTo
<1>8. \A i \in 0..n : b[i] = IF i = 0 THEN <<>> ELSE Longer(b[i - 1], t)
  BY <1>6
<1> DEFINE T == {k \in 0..n : TracedBack(b[k], t, k)}
<1>9. 0 \in T
  BY <1>8, EmptyPath
<1>10. ASSUME NEW k \in T, k < n PROVE k + 1 \in T
  <2>1. k + 1 \in 0..n /\ k + 1 # 0 /\ (k + 1) - 1 = k /\ k \in Nat
    BY <1>10
  <2>2. b[k + 1] = Longer(b[k], t)
    BY <1>8, <2>1
  <2>3. TracedBack(b[k + 1], t, k + 1)
    BY <2>1, <2>2, OneTurn
  <2>. QED
    BY <2>1, <2>3
<1>11. n \in T
  <2>1. T \subseteq 0..n
    OBVIOUS
  <2>2. T = 0..n
    <3> HIDE DEF T
    <3>. QED BY <1>9, <1>10, <2>1, UpTo
  <2>. QED
    BY <2>2
<1>. QED
  BY <1>1, <1>7, <1>11

LEMMA PathsAreSound ==
    ASSUME BuildInv, RequestInv, ResultType, CostInv, Acyclic
    PROVE  PathSound
<1> SUFFICES ASSUME NEW t \in NodeIDs, cost[t] # Inf
             PROVE  LET path   == PathTo(t)
                        origin == Origin(path, t)
                    IN /\ Len(path) < Len(nodes)
                       /\ \A k \in 1..(Len(path) - 1) :
                             edges[path[k]].to = edges[path[k + 1]].from
                       /\ path # <<>> => edges[path[Len(path)]].to = t
                       /\ origin \in DOMAIN ask.seeds
                       /\ ask.seeds[origin] + PathPrice(path) <= cost[t]
  BY DEF PathSound
<1>1. PICK p : p = PathTo(t) /\ TracedBack(p, t, Len(nodes))
  BY PathIsTraced
<1>2. PICK o \in NodeIDs : o = Origin(p, t)
  BY <1>1 DEF TracedBack
<1>3. /\ p \in Seq(EdgeIDs)
      /\ \A k \in 1..(Len(p) - 1) : edges[p[k]].to = edges[p[k + 1]].from
      /\ p # <<>> => edges[p[Len(p)]].to = t
      /\ cost[o] # Inf /\ cost[o] + PathPrice(p) <= cost[t]
      /\ Len(p) + Rank(o) <= Rank(t)
      /\ prev[o] = 0 \/ Len(p) = Len(nodes)
  BY <1>1, <1>2 DEF TracedBack
<1>4. Len(p) < Len(nodes)
  <2>1. Rank(o) \in Nat /\ Rank(t) \in Nat /\ Rank(t) < Len(nodes)
    BY RankFacts
  <2>2. Len(p) \in Nat /\ Len(nodes) \in Nat
    BY <1>3, NodesFinite
  <2>. QED
    BY <1>3, <2>1, <2>2
<1>5. prev[o] = 0
  <2>1. Len(p) \in Nat /\ Len(nodes) \in Nat
    BY <1>3, NodesFinite
  <2>. QED
    BY <1>3, <1>4, <2>1
<1>6. o \in DOMAIN ask.seeds /\ cost[o] = ask.seeds[o]
  BY <1>3, <1>5 DEF CostInv
<1>. QED
  BY <1>1, <1>2, <1>3, <1>4, <1>6

LEMMA CutsAreInside ==
    ASSUME BuildInv, RequestInv, ResultType, CostInv, DijkstraInv, searched = "done" => left = {}
    PROVE  CutsInside
<1> SUFFICES ASSUME searched = "done", ask.algo = "dijkstra", NEW cut \in 1..ask.cutoff,
                    NEW i \in Partial(cut), ~(PartOf(i, cut) < Price(ask.basis, edges[i]))
             PROVE  FALSE
  BY DEF CutsInside
<1>1. PICK c \in Nat, p \in Nat, u \in NodeIDs, v \in NodeIDs :
         /\ u = edges[i].from /\ v = edges[i].to /\ c = cost[u] /\ p = PriceOf(i) /\ c # Inf
         /\ i \in EdgeIDs
  <2>1. i \in EdgeIDs /\ edges[i].from \in ReachedBy(cut)
    BY DEF Partial
  <2>2. edges[i].from \in NodeIDs /\ edges[i].to \in NodeIDs
    BY <2>1, EdgeEnds
  <2>3. cost[edges[i].from] \in Nat /\ cost[edges[i].from] # Inf
    BY <2>1, <2>2 DEF ReachedBy, ResultType, Cost
  <2>4. PriceOf(i) \in Nat
    BY <2>1, PriceType DEF PriceOf
  <2>. QED
    BY <2>1, <2>2, <2>3, <2>4
<1>2. ask.cutoff \in Nat /\ cut \in Nat /\ cut <= ask.cutoff
  BY DEF RequestInv, GoodRequest
<1>3. c + p <= cut
  <2>1. ~(cut - c < p)
    BY <1>1 DEF PartOf, PriceOf
  <2>. QED
    BY <1>1, <1>2, <2>1
<1>4. i \in Out(u)
  BY <1>1 DEF Out
<1>5. Relaxed(i)
  BY <1>1, <1>4 DEF DijkstraInv
<1>6. ~Beyond(c + p)
  BY <1>1, <1>2, <1>3 DEF Beyond
<1>7. cost[v] # Inf /\ cost[v] <= c + p
  BY <1>1, <1>5, <1>6 DEF Relaxed
<1>8. cost[v] \in Nat
  BY <1>7 DEF ResultType, Cost
<1>9. v \in ReachedBy(cut)
  BY <1>1, <1>2, <1>3, <1>7, <1>8 DEF ReachedBy
<1>10. IsFull(i, cut)
  BY <1>1, <1>3, <1>9 DEF IsFull, PriceOf
<1>. QED
  BY <1>10 DEF Partial

LEMMA SameAnswer ==
    ASSUME UNCHANGED <<graph, ask, cost>>
    PROVE  Answer' = Answer
<1>1. nodes' = nodes /\ edges' = edges /\ ask' = ask /\ cost' = cost /\ NodeIDs' = NodeIDs
      /\ Consistent' = Consistent /\ EdgeIDs' = EdgeIDs
  BY SameRequest DEF graph
<1>2. LeastUpTo(ask.seeds, ask.basis, ask.cutoff)' = LeastUpTo(ask.seeds, ask.basis, ask.cutoff)
  BY <1>1 DEF LeastUpTo, LeastCost, LeastWithin, OneEdgeMore, AtSeeds, Price, TravelTime
<1>. QED
  BY <1>1, <1>2 DEF Answer

LEMMA AnswerIsLeast == LeastCosts <=> (searched = "done" => Answer)
BY DEF LeastCosts, Answer

-----------------------------------------------------------------------------
(* The steps of a search: Relax first, then the requests, the pops and the rest. *)

\* What a step finds and leaves that changes neither a cost nor a predecessor.
LEMMA CostsKept ==
    ASSUME RequestInv, CostInv, Acyclic, UNCHANGED <<graph, ask, cost, prev, built>>
    PROVE  RequestInv' /\ CostInv' /\ Acyclic'
<1>1. /\ edges' = edges /\ ask' = ask /\ NodeIDs' = NodeIDs /\ EdgeIDs' = EdgeIDs
      /\ \A i : PriceOf(i)' = PriceOf(i)
      /\ \A c : Beyond(c)' = Beyond(c)
      /\ cost' = cost /\ prev' = prev /\ built' = built
  BY SameRequest
<1>2. RequestInv'
  BY <1>1 DEF RequestInv, GoodRequest
<1>3. CostInv'
  BY <1>1 DEF CostInv
<1>4. Acyclic'
  BY <1>1 DEF Acyclic
<1>. QED
  BY <1>2, <1>3, <1>4

\* One edge i from the node at hand to v, over which v costs c.
Relaxing(i, v, c) ==
    /\ i \in left /\ i \in EdgeIDs /\ v \in NodeIDs /\ c \in Nat
    /\ cur \in NodeIDs /\ cost[cur] \in Nat /\ PriceOf(i) \in Nat
    /\ edges[i].from = cur /\ edges[i].to = v /\ c = cost[cur] + PriceOf(i)
    /\ left' = left \ {i}
    /\ searched = "running"
    /\ UNCHANGED <<graph, ask, settled, cur, pops, searched>>
\* It is of use, or it is not.
Cheaper(i, v, c) ==
    /\ ~Beyond(c) /\ (cost[v] # Inf => c < cost[v]) /\ v # cur
    /\ cost' = [cost EXCEPT ![v] = c] /\ prev' = [prev EXCEPT ![v] = i]
    /\ queue' = queue \cup {[node |-> v, prio |-> Priority(v, c)]}
NotCheaper(v, c) ==
    /\ Beyond(c) \/ (cost[v] # Inf /\ cost[v] <= c)
    /\ UNCHANGED <<cost, prev, queue>>

LEMMA RelaxShape ==
    ASSUME BuildInv, SearchInv, Relax
    PROVE  \E i, v, c : Relaxing(i, v, c) /\ (Cheaper(i, v, c) \/ NotCheaper(v, c))
<1>1. searched = "running" /\ ResultType
  BY DEF SearchInv, Relax
<1>2. cur \in NodeIDs /\ cost[cur] # Inf /\ cost[cur] \in Nat
  BY <1>1 DEF Relax, ResultType, Cost
<1>3. left # {} /\ left \subseteq Out(cur) /\ left \subseteq Nat
  <2>1. left # {} /\ left \subseteq Out(cur)
    BY <1>1 DEF Relax, ResultType
  <2>2. Out(cur) \subseteq EdgeIDs
    BY DEF Out
  <2>3. EdgeIDs \subseteq Nat
    BY EdgeEnds
  <2>. QED
    BY <2>1, <2>2, <2>3
<1>4. PICK i \in left : i = Min(left)
  BY <1>3, MinIsLeast
<1>5. i \in EdgeIDs /\ edges[i].from = cur
  BY <1>3 DEF Out
<1>6. PICK v \in NodeIDs : v = edges[i].to
  BY <1>5, EdgeEnds
<1>7. PriceOf(i) \in Nat
  BY <1>5, PriceType DEF PriceOf
<1>8. PICK c \in Nat : c = cost[cur] + PriceOf(i)
  BY <1>2, <1>7
<1>9. Relaxing(i, v, c)
  BY <1>1, <1>2, <1>4, <1>5, <1>6, <1>7, <1>8 DEF Relaxing, Relax
<1>10. IF Improves(v, c)
       THEN /\ cost' = [cost EXCEPT ![v] = c]
            /\ prev' = [prev EXCEPT ![v] = i]
            /\ queue' = Entries(v, c)
       ELSE UNCHANGED <<cost, prev, queue>>
  BY <1>4, <1>6, <1>8, Zenon DEF Relax, PriceOf
<1>11. cost[v] \in Cost /\ c \in Cost /\ c # Inf
  BY <1>1 DEF ResultType, Cost, Inf
<1>12. CASE Improves(v, c)
  <2>1. ~Beyond(c) /\ (cost[v] # Inf => c < cost[v])
    BY <1>11, <1>12, LessFacts DEF Improves
  <2>2. v # cur
    BY <1>2, <1>7, <1>8, <2>1
  <2>. QED
    BY <1>9, <1>10, <1>12, <2>1, <2>2 DEF Cheaper, Entries
<1>13. CASE ~Improves(v, c)
  <2>1. Beyond(c) \/ (cost[v] # Inf /\ cost[v] <= c)
    BY <1>11, <1>13, LessFacts DEF Improves
  <2>. QED
    BY <1>9, <1>10, <1>13, <2>1 DEF NotCheaper
<1>. QED
  BY <1>12, <1>13

LEMMA RelaxKeepsType ==
    ASSUME BuildInv, RequestInv, ResultType, NEW i, NEW v, NEW c, Relaxing(i, v, c),
           Cheaper(i, v, c) \/ NotCheaper(v, c)
    PROVE  ResultType'
<1>1. /\ NodeIDs' = NodeIDs /\ EdgeIDs' = EdgeIDs /\ \A u : Out(u)' = Out(u)
      /\ settled' = settled /\ cur' = cur /\ pops' = pops /\ left' \subseteq left
  BY SameRequest DEF Relaxing
<1>2. CASE NotCheaper(v, c)
  BY <1>1, <1>2 DEF ResultType, NotCheaper
<1>3. CASE Cheaper(i, v, c)
  <2>1. v \in NodeIDs /\ c \in Cost /\ c # Inf /\ i \in EdgeIDs
    BY DEF Relaxing, Cost, Inf
  <2>2. cost' \in [NodeIDs -> Cost] /\ prev' \in [NodeIDs -> EdgeIDs \cup {0}]
    BY <1>3, <2>1 DEF ResultType, Cheaper
  <2>3. \A u \in NodeIDs : cost'[u] = IF u = v THEN c ELSE cost[u]
    BY <1>3, <2>1 DEF ResultType, Cheaper
  <2>4. Priority(v, c) \in Nat
    <3>1. c \in Nat
      BY DEF Relaxing
    <3>2. CASE ask.algo = "astar"
      <4>1. Heuristic(v) \in Nat
        BY <2>1, <3>2, HeuristicType DEF RequestInv, GoodRequest
      <4>. QED
        BY <3>1, <3>2, <4>1 DEF Priority
    <3>3. CASE ask.algo # "astar"
      BY <3>1, <3>3 DEF Priority
    <3>. QED
      BY <3>2, <3>3
  <2>5. PICK e : e = [node |-> v, prio |-> Priority(v, c)] /\ queue' = queue \cup {e}
    BY <1>3 DEF Cheaper
  <2>6. e \in [node : NodeIDs, prio : Nat] /\ e.node = v
    BY <2>1, <2>4, <2>5
  <2>7. queue' \subseteq [node : NodeIDs, prio : Nat]
    BY <2>5, <2>6 DEF ResultType
  <2>8. \A it \in queue' : cost'[it.node] # Inf
    <3> SUFFICES ASSUME NEW it \in queue' PROVE cost'[it.node] # Inf
      OBVIOUS
    <3>1. it.node \in NodeIDs
      BY <2>7
    <3>2. CASE it.node = v
      BY <2>1, <2>3, <3>2
    <3>3. CASE it.node # v
      <4>1. it \in queue
        BY <2>5, <2>6, <3>3
      <4>. QED
        BY <2>3, <3>1, <3>3, <4>1 DEF ResultType
    <3>. QED
      BY <3>2, <3>3
  <2>9. (\A u \in settled : cost'[u] # Inf) /\ (cur # 0 => cost'[cur] # Inf)
    BY <2>1, <2>3 DEF ResultType
  <2>. QED
    BY <1>1, <2>2, <2>7, <2>8, <2>9 DEF ResultType
<1>. QED
  BY <1>2, <1>3

LEMMA RelaxKeepsCosts ==
    ASSUME BuildInv, RequestInv, ResultType, CostInv, Acyclic,
           NEW i, NEW v, NEW c, Relaxing(i, v, c), Cheaper(i, v, c)
    PROVE  CostInv' /\ Acyclic'
<1>1. /\ edges' = edges /\ ask' = ask /\ NodeIDs' = NodeIDs /\ EdgeIDs' = EdgeIDs
      /\ \A j : PriceOf(j)' = PriceOf(j)
      /\ \A d : Beyond(d)' = Beyond(d)
  BY SameRequest DEF Relaxing
<1>2. /\ v \in NodeIDs /\ c \in Nat /\ i \in EdgeIDs /\ cur \in NodeIDs /\ cost[cur] \in Nat
      /\ edges[i].from = cur /\ edges[i].to = v /\ PriceOf(i) \in Nat
      /\ c = cost[cur] + PriceOf(i) /\ v # cur /\ ~Beyond(c) /\ (cost[v] # Inf => c < cost[v])
  BY DEF Relaxing, Cheaper
<1>3. \A u \in NodeIDs : /\ cost'[u] = (IF u = v THEN c ELSE cost[u])
                         /\ prev'[u] = (IF u = v THEN i ELSE prev[u])
  BY <1>2 DEF ResultType, Cheaper
<1>4. \A n \in Nat : n # Inf
  BY DEF Inf
<1>5. \A u \in NodeIDs : cost[u] # Inf =>
         cost'[u] # Inf /\ cost'[u] <= cost[u] /\ cost[u] \in Nat /\ cost'[u] \in Nat
  <2> SUFFICES ASSUME NEW u \in NodeIDs, cost[u] # Inf
               PROVE  cost'[u] # Inf /\ cost'[u] <= cost[u] /\ cost[u] \in Nat /\ cost'[u] \in Nat
    OBVIOUS
  <2>1. cost[u] \in Nat
    BY DEF ResultType, Cost
  <2>. QED
    BY <1>2, <1>3, <1>4, <2>1
<1>50. \A u \in NodeIDs : prev[u] # 0 =>
          /\ prev[u] \in EdgeIDs /\ edges[prev[u]].from \in NodeIDs /\ cost[u] # Inf
          /\ PriceOf(prev[u]) \in Nat
  <2> SUFFICES ASSUME NEW u \in NodeIDs, prev[u] # 0
               PROVE  /\ prev[u] \in EdgeIDs /\ edges[prev[u]].from \in NodeIDs /\ cost[u] # Inf
                      /\ PriceOf(prev[u]) \in Nat
    OBVIOUS
  <2>1. prev[u] \in EdgeIDs
    BY DEF ResultType
  <2>2. edges[prev[u]].from \in NodeIDs
    BY <2>1, EdgeEnds
  <2>3. PriceOf(prev[u]) \in Nat
    BY <2>1, PriceType DEF PriceOf
  <2>4. cost[u] # Inf
    BY DEF CostInv
  <2>. QED
    BY <2>1, <2>2, <2>3, <2>4
<1>6. ASSUME NEW s \in DOMAIN ask.seeds PROVE cost'[s] # Inf /\ cost'[s] <= ask.seeds[s]
  <2>1. s \in NodeIDs /\ ask.seeds[s] \in Nat
    BY DEF RequestInv, GoodRequest
  <2>2. cost[s] # Inf /\ cost[s] <= ask.seeds[s]
    BY DEF CostInv
  <2>. QED
    BY <1>5, <2>1, <2>2
<1>7. ASSUME NEW u \in NodeIDs
      PROVE  /\ cost'[u] = Inf => prev'[u] = 0
             /\ cost'[u] # Inf /\ prev'[u] = 0 => u \in DOMAIN ask.seeds /\ cost'[u] = ask.seeds[u]
             /\ prev'[u] # 0 =>
                   /\ edges[prev'[u]].to = u
                   /\ cost'[edges[prev'[u]].from] # Inf
                   /\ cost'[edges[prev'[u]].from] + PriceOf(prev'[u]) <= cost'[u]
             /\ cost'[u] # Inf /\ Beyond(cost'[u]) => u \in DOMAIN ask.seeds /\ cost'[u] = ask.seeds[u]
  <2>1. CASE u = v
    <3>1. cost'[u] = c /\ prev'[u] = i /\ i # 0 /\ c # Inf
      <4>1. i # 0
        BY <1>2, EdgeEnds
      <4>. QED
        BY <1>2, <1>3, <1>4, <2>1, <4>1
    <3>2. cost'[cur] = cost[cur] /\ cost[cur] # Inf
      BY <1>2, <1>3, <1>4
    <3>. QED
      BY <1>2, <2>1, <3>1, <3>2
  <2>2. CASE u # v
    <3>1. cost'[u] = cost[u] /\ prev'[u] = prev[u]
      BY <1>3, <2>2
    <3>2. ASSUME prev[u] # 0
          PROVE  /\ edges[prev[u]].to = u /\ cost'[edges[prev[u]].from] # Inf
                 /\ cost'[edges[prev[u]].from] + PriceOf(prev[u]) <= cost[u]
      <4>1. PICK x \in NodeIDs, p \in Nat : x = edges[prev[u]].from /\ p = PriceOf(prev[u])
        BY <1>50, <3>2
      <4>2. edges[prev[u]].to = u /\ cost[x] # Inf /\ cost[x] + p <= cost[u]
        BY <3>2, <4>1 DEF CostInv
      <4>3. cost[u] \in Nat
        BY <1>5, <1>50, <3>2
      <4>4. cost'[x] # Inf /\ cost'[x] <= cost[x] /\ cost[x] \in Nat /\ cost'[x] \in Nat
        BY <1>5, <4>2
      <4>. QED
        BY <4>1, <4>2, <4>3, <4>4
    <3>. QED
      BY <3>1, <3>2 DEF CostInv
  <2>. QED
    BY <2>1, <2>2
<1>8. CostInv'
  BY <1>1, <1>6, <1>7 DEF CostInv
\* A set that leads back into itself would hold v, and then cur and what leads to it
\* without v, for that costs no more than cur did.
<1>9. ASSUME NEW T \in SUBSET NodeIDs, T # {},
             \A u \in T : prev'[u] # 0 /\ edges[prev'[u]].from \in T
      PROVE  FALSE
  <2>1. CASE v \notin T
    <3>1. \A u \in T : prev[u] # 0 /\ edges[prev[u]].from \in T
      BY <1>3, <1>9, <2>1
    <3>. QED
      BY <1>9, <3>1 DEF Acyclic
  <2>2. CASE v \in T
    <3> DEFINE R == {u \in T : u # v /\ cost[u] # Inf /\ cost[u] <= cost[cur]}
    <3>1. cur \in R
      <4>1. cur \in T
        BY <1>2, <1>3, <1>9, <2>2
      <4>2. cost[cur] # Inf /\ cost[cur] <= cost[cur]
        BY <1>2, <1>4
      <4>. QED
        BY <1>2, <4>1, <4>2
    <3>2. ASSUME NEW u \in R PROVE prev[u] # 0 /\ edges[prev[u]].from \in R
      <4>1. u \in NodeIDs /\ u # v /\ cost[u] # Inf /\ cost[u] <= cost[cur]
        OBVIOUS
      <4>2. prev[u] # 0 /\ edges[prev[u]].from \in T
        BY <1>3, <1>9, <4>1
      <4>3. PICK x \in NodeIDs, p \in Nat : x = edges[prev[u]].from /\ p = PriceOf(prev[u])
        BY <1>50, <4>1, <4>2
      <4>4. cost[x] # Inf /\ cost[x] + p <= cost[u]
        BY <4>1, <4>2, <4>3 DEF CostInv
      <4>5. cost[x] \in Nat /\ cost[u] \in Nat
        BY <1>5, <4>1, <4>4
      <4>6. cost[x] <= cost[cur]
        BY <1>2, <4>1, <4>4, <4>5
      <4>7. x # v
        <5> SUFFICES ASSUME x = v PROVE FALSE
          OBVIOUS
        <5>1. c < cost[x]
          BY <1>2, <4>4
        <5>. QED
          BY <1>2, <4>5, <4>6, <5>1
      <4>. QED
        BY <4>2, <4>3, <4>4, <4>6, <4>7
    <3>3. R \in SUBSET NodeIDs /\ R # {}
      BY <3>1
    <3> HIDE DEF R
    <3>. QED
      BY <3>2, <3>3 DEF Acyclic
  <2>. QED
    BY <2>1, <2>2
<1>10. Acyclic'
  BY <1>1, <1>9 DEF Acyclic
<1>. QED
  BY <1>8, <1>10

\* What relaxing changes of costs and entries: they only improve.
LEMMA RelaxImproves ==
    ASSUME BuildInv, RequestInv, ResultType, NEW i, NEW v, NEW c, Relaxing(i, v, c),
           Cheaper(i, v, c) \/ NotCheaper(v, c)
    PROVE  /\ \A u \in NodeIDs : cost[u] # Inf =>
                /\ cost[u] \in Nat /\ cost'[u] \in Nat /\ cost'[u] # Inf /\ cost'[u] <= cost[u]
           /\ \A u \in NodeIDs : u # v => cost'[u] = cost[u]
           /\ cost'[cur] = cost[cur]
           /\ queue \subseteq queue'
           /\ Beyond(c) \/ (cost'[v] # Inf /\ cost'[v] \in Nat /\ cost'[v] <= c)
<1>1. /\ v \in NodeIDs /\ c \in Nat /\ cur \in NodeIDs /\ cost \in [NodeIDs -> Cost]
      /\ \A n \in Nat : n # Inf
      /\ \A u \in NodeIDs : cost[u] # Inf => cost[u] \in Nat
  BY DEF Relaxing, ResultType, Cost, Inf
<1>2. CASE NotCheaper(v, c)
  <2>1. cost' = cost /\ queue' = queue /\ (Beyond(c) \/ (cost[v] # Inf /\ cost[v] <= c))
    BY <1>2 DEF NotCheaper
  <2>. QED
    BY <1>1, <2>1
<1>3. CASE Cheaper(i, v, c)
  <2>1. /\ cost' = [cost EXCEPT ![v] = c] /\ queue \subseteq queue'
        /\ v # cur /\ (cost[v] # Inf => c < cost[v])
    BY <1>3 DEF Cheaper
  <2>2. \A u \in NodeIDs : cost'[u] = IF u = v THEN c ELSE cost[u]
    BY <1>1, <2>1
  <2>3. ASSUME NEW u \in NodeIDs, cost[u] # Inf
        PROVE  cost[u] \in Nat /\ cost'[u] \in Nat /\ cost'[u] # Inf /\ cost'[u] <= cost[u]
    <3>1. cost[u] \in Nat
      BY <1>1, <2>3
    <3>2. CASE u = v
      BY <1>1, <2>1, <2>2, <2>3, <3>1, <3>2
    <3>3. CASE u # v
      BY <2>2, <2>3, <3>1, <3>3
    <3>. QED
      BY <3>2, <3>3
  <2>4. cost'[v] # Inf /\ cost'[v] \in Nat /\ cost'[v] <= c
    BY <1>1, <2>2
  <2>. QED
    BY <1>1, <2>1, <2>2, <2>3, <2>4
<1>. QED
  BY <1>2, <1>3

\* The entry of a node that became cheaper.
LEMMA NewEntry ==
    ASSUME NEW i, NEW v, NEW c, Cheaper(i, v, c)
    PROVE  \E e : /\ e.node = v /\ e.prio = Priority(v, c)
                  /\ queue' = queue \cup {e}
<1>1. PICK e : e = [node |-> v, prio |-> Priority(v, c)]
  OBVIOUS
<1>2. e.node = v /\ e.prio = Priority(v, c)
  BY <1>1
<1>3. queue' = queue \cup {e}
  BY <1>1 DEF Cheaper
<1>. QED
  BY <1>2, <1>3

LEMMA RelaxKeepsDijkstra ==
    ASSUME BuildInv, RequestInv, ResultType, DijkstraInv,
           NEW i, NEW v, NEW c, Relaxing(i, v, c),
           Cheaper(i, v, c) \/ NotCheaper(v, c)
    PROVE  DijkstraInv'
<1> SUFFICES ASSUME ask.algo = "dijkstra" PROVE DijkstraInv'
  BY DEF DijkstraInv, Relaxing
<1>1. /\ edges' = edges /\ ask' = ask /\ NodeIDs' = NodeIDs
      /\ \A u : Out(u)' = Out(u)
      /\ \A j : PriceOf(j)' = PriceOf(j)
      /\ \A d : Beyond(d)' = Beyond(d)
  BY SameRequest DEF Relaxing
<1>2. /\ v \in NodeIDs /\ c \in Nat /\ cur \in NodeIDs /\ searched' = "running"
      /\ edges[i].from = cur /\ edges[i].to = v /\ c = cost[cur] + PriceOf(i)
      /\ left' = left \ {i} /\ i \in left
  BY DEF Relaxing
<1>3. /\ \A u \in NodeIDs : cost[u] # Inf =>
           /\ cost[u] \in Nat /\ cost'[u] \in Nat /\ cost'[u] # Inf /\ cost'[u] <= cost[u]
      /\ \A u \in NodeIDs : u # v => cost'[u] = cost[u]
      /\ cost'[cur] = cost[cur]
      /\ queue \subseteq queue'
      /\ Beyond(c) \/ (cost'[v] # Inf /\ cost'[v] \in Nat /\ cost'[v] <= c)
  BY RelaxImproves
\* What was relaxed stays so, for the far end only becomes cheaper.
<1>4. ASSUME NEW u \in NodeIDs, cost[u] # Inf, cost'[u] = cost[u], NEW j \in Out(u), Relaxed(j)
      PROVE  Relaxed(j)'
  <2>1. j \in EdgeIDs /\ edges[j].from = u
    BY DEF Out
  <2>2. PICK x \in NodeIDs, p \in Nat : x = edges[j].to /\ p = PriceOf(j)
    BY <2>1, EdgeEnds, PriceType DEF PriceOf
  <2>20. PICK d : d = cost[u] + p
    OBVIOUS
  <2>3. Beyond(d) \/ (cost[x] # Inf /\ cost[x] <= d)
    BY <1>4, <2>1, <2>2, <2>20 DEF Relaxed
  <2>30. cost[u] \in Nat /\ d \in Nat
    BY <1>3, <1>4, <2>2, <2>20
  <2>4. Beyond(d) \/ (cost'[x] # Inf /\ cost'[x] <= d)
    BY <1>3, <2>3, <2>30
  <2>5. Relaxed(j)' = (Beyond(d)' \/ (cost'[x] # Inf /\ cost'[x] <= d))
    <3>1. edges'[j].from = u /\ edges'[j].to = x /\ PriceOf(j)' = p
      BY <1>1, <2>1, <2>2
    <3>. QED
      BY <1>4, <2>20, <3>1 DEF Relaxed, Beyond
  <2>6. Beyond(d)' = Beyond(d)
    BY <1>1
  <2>. QED
    BY <2>4, <2>5, <2>6
<1>5. Relaxed(i)'
  <2>1. edges'[i].from = cur /\ edges'[i].to = v /\ PriceOf(i)' = PriceOf(i)
    BY <1>1, <1>2
  <2>2. Beyond(c)' = Beyond(c)
    BY <1>1
  <2>3. cur' = cur
    BY DEF Relaxing
  <2>. QED
    BY <1>2, <1>3, <2>1, <2>2, <2>3 DEF Relaxed, Beyond
<1>6. ASSUME NEW u \in NodeIDs, cost'[u] # Inf
      PROVE  \/ \E it \in queue' : it.node = u /\ it.prio = cost'[u]
             \/ \A j \in Out(u) : Relaxed(j)' \/ j \in left'
  <2>1. CASE u = v /\ Cheaper(i, v, c)
    <3>1. PICK e : e.node = v /\ e.prio = Priority(v, c) /\ queue' = queue \cup {e}
      BY <2>1, NewEntry
    <3>2. Priority(v, c) = c
      BY DEF Priority
    <3>3. cost'[v] = c
      BY <1>2, <2>1 DEF Cheaper, ResultType
    <3>. QED
      BY <2>1, <3>1, <3>2, <3>3
  <2>2. CASE ~(u = v /\ Cheaper(i, v, c))
    <3>1. cost'[u] = cost[u]
      BY <1>3, <2>2 DEF NotCheaper
    <3>2. CASE \E it \in queue : it.node = u /\ it.prio = cost[u]
      BY <1>3, <3>1, <3>2
    <3>3. CASE \A j \in Out(u) : Relaxed(j) \/ j \in left
      <4>1. ASSUME NEW j \in Out(u) PROVE Relaxed(j)' \/ j \in left'
        <5>1. CASE Relaxed(j)
          BY <1>4, <1>6, <3>1, <5>1
        <5>2. CASE j \in left /\ j # i
          BY <1>2, <5>2
        <5>3. CASE j = i
          BY <1>5, <5>3
        <5>. QED
          BY <3>3, <5>1, <5>2, <5>3
      <4>. QED
        BY <4>1
    <3>. QED
      BY <1>6, <3>1, <3>2, <3>3 DEF DijkstraInv
  <2>. QED
    BY <2>1, <2>2
<1>7. \A u \in NodeIDs' : cost'[u] # Inf =>
         \/ \E it \in queue' : it.node = u /\ it.prio = cost'[u]
         \/ \A j \in Out(u)' : Relaxed(j)' \/ j \in left'
  BY <1>1, <1>6
<1>. QED
  BY <1>2, <1>7 DEF DijkstraInv

LEMMA RelaxKeepsAStar ==
    ASSUME BuildInv, RequestInv, ResultType, AStarInv,
           NEW i, NEW v, NEW c, Relaxing(i, v, c),
           Cheaper(i, v, c) \/ NotCheaper(v, c)
    PROVE  AStarInv'
<1> SUFFICES ASSUME ask.algo = "astar" PROVE AStarInv'
  BY DEF AStarInv, Relaxing
<1>1. /\ edges' = edges /\ ask' = ask /\ NodeIDs' = NodeIDs
      /\ \A u : Out(u)' = Out(u) /\ Heuristic(u)' = Heuristic(u)
  BY SameRequest DEF Relaxing
<1>2. /\ v \in NodeIDs /\ c \in Nat /\ cur \in NodeIDs /\ searched = "running"
      /\ edges[i].from = cur /\ edges[i].to = v
      /\ left' = left \ {i} /\ settled' = settled /\ cur' = cur
  BY DEF Relaxing
<1>3. /\ \A u \in NodeIDs : cost[u] # Inf =>
           /\ cost[u] \in Nat /\ cost'[u] \in Nat /\ cost'[u] # Inf /\ cost'[u] <= cost[u]
      /\ \A u \in NodeIDs : u # v => cost'[u] = cost[u]
      /\ queue \subseteq queue'
      /\ Beyond(c) \/ (cost'[v] # Inf /\ cost'[v] \in Nat /\ cost'[v] <= c)
  BY RelaxImproves
<1>4. ~Beyond(c)
  BY DEF RequestInv, GoodRequest, Beyond
<1>40. \A u \in NodeIDs : Heuristic(u) \in Nat
  BY HeuristicType DEF RequestInv, GoodRequest
<1>41. \A it \in queue : it.prio \in Nat
  BY DEF ResultType
<1>5. /\ \A u \in NodeIDs : cost[u] # Inf =>
            u \in settled \/ \E it \in queue : it.node = u /\ it.prio <= cost[u] + Heuristic(u)
      /\ \A u \in settled : \A j \in Out(u) : cost[edges[j].to] # Inf \/ j \in left
      /\ ask.target \notin settled
      /\ cur # 0 => cur \in settled
  BY <1>2 DEF AStarInv, Estimate
<1>6. ASSUME NEW u \in NodeIDs, cost'[u] # Inf
      PROVE  u \in settled \/ \E it \in queue' : it.node = u /\ it.prio <= cost'[u] + Heuristic(u)
  <2>1. CASE u = v /\ Cheaper(i, v, c)
    <3>1. PICK e : e.node = v /\ e.prio = Priority(v, c) /\ queue' = queue \cup {e}
      BY <2>1, NewEntry
    <3>2. Priority(v, c) = c + Heuristic(v)
      BY DEF Priority
    <3>3. cost'[v] = c
      BY <1>2, <2>1 DEF Cheaper, ResultType
    <3>4. e.prio <= cost'[v] + Heuristic(v)
      BY <1>2, <1>40, <3>1, <3>2, <3>3
    <3>. QED
      BY <2>1, <3>1, <3>4
  <2>2. CASE ~(u = v /\ Cheaper(i, v, c))
    <3>1. cost'[u] = cost[u]
      BY <1>3, <2>2 DEF NotCheaper
    <3>. QED
      BY <1>3, <1>5, <1>6, <3>1
  <2>. QED
    BY <2>1, <2>2
<1>7. ASSUME NEW u \in settled, NEW j \in Out(u)
      PROVE  cost'[edges[j].to] # Inf \/ j \in left'
  <2>1. edges[j].to \in NodeIDs
    BY EdgeEnds DEF Out
  <2>2. CASE j = i
    BY <1>2, <1>3, <1>4, <2>2
  <2>3. CASE j # i
    BY <1>2, <1>3, <1>5, <2>1, <2>3
  <2>. QED
    BY <2>2, <2>3
<1>. QED
  BY <1>1, <1>2, <1>5, <1>6, <1>7 DEF AStarInv, Estimate

LEMMA RelaxKeepsOrder ==
    ASSUME BuildInv, RequestInv, ResultType, AStarInv, OrderInv,
           NEW i, NEW v, NEW c, Relaxing(i, v, c),
           Cheaper(i, v, c) \/ NotCheaper(v, c)
    PROVE  OrderInv'
<1>1. /\ edges' = edges /\ ask' = ask /\ NodeIDs' = NodeIDs
      /\ \A u : Out(u)' = Out(u) /\ Heuristic(u)' = Heuristic(u)
      /\ \A j : PriceOf(j)' = PriceOf(j)
      /\ Consistent' = Consistent
  BY SameRequest DEF Relaxing
<1>2. /\ v \in NodeIDs /\ c \in Nat /\ cur \in NodeIDs /\ searched = "running"
      /\ edges[i].from = cur /\ edges[i].to = v /\ i \in EdgeIDs
      /\ c = cost[cur] + PriceOf(i) /\ PriceOf(i) \in Nat /\ cost[cur] \in Nat
      /\ left' = left \ {i} /\ settled' = settled /\ cur' = cur /\ searched' = searched
  BY DEF Relaxing
<1> SUFFICES ASSUME ask.algo = "astar", Consistent PROVE OrderInv'
  BY <1>1 DEF OrderInv
<1>3. /\ \A u \in NodeIDs : cost[u] # Inf =>
           /\ cost[u] \in Nat /\ cost'[u] \in Nat /\ cost'[u] # Inf /\ cost'[u] <= cost[u]
      /\ \A u \in NodeIDs : u # v => cost'[u] = cost[u]
      /\ cost'[cur] = cost[cur]
      /\ queue \subseteq queue'
      /\ Beyond(c) \/ (cost'[v] # Inf /\ cost'[v] \in Nat /\ cost'[v] <= c)
  BY RelaxImproves
<1>4. ~Beyond(c)
  BY DEF RequestInv, GoodRequest, Beyond
<1>5. \A u \in NodeIDs : Heuristic(u) \in Nat
  BY HeuristicType DEF RequestInv, GoodRequest
<1>6. /\ settled # {} => \A it \in queue : cost[it.node] + Heuristic(it.node) <= it.prio
      /\ \A u \in settled : \A it \in queue : cost[u] + Heuristic(u) <= it.prio
      /\ \A u \in settled : cost[u] + Heuristic(u) <= cost[cur] + Heuristic(cur)
      /\ \A u \in settled : \A j \in Out(u) :
            j \in left \/ (cost[edges[j].to] # Inf /\ cost[edges[j].to] <= cost[u] + PriceOf(j))
      /\ cur \in settled /\ settled \subseteq NodeIDs
      /\ \A u \in settled : cost[u] # Inf
      /\ \A it \in queue : it.node \in NodeIDs /\ it.prio \in Nat /\ cost[it.node] # Inf
  <2>1. cur # 0
    BY <1>2, NodePlaces
  <2>2. cur \in settled
    BY <1>2, <2>1 DEF AStarInv
  <2>3. /\ settled \subseteq NodeIDs /\ \A u \in settled : cost[u] # Inf
        /\ \A it \in queue : it.node \in NodeIDs /\ it.prio \in Nat /\ cost[it.node] # Inf
    BY DEF ResultType
  <2>. QED
    BY <1>2, <2>1, <2>2, <2>3 DEF OrderInv, Estimate
<1>7. Heuristic(cur) <= PriceOf(i) + Heuristic(v)
  BY <1>2 DEF Consistent, PriceOf
\* A settled node has an estimate no greater than the node at hand, and so no greater
\* than it would have over this edge.
<1>8. \A u \in settled : cost[u] + Heuristic(u) <= c + Heuristic(v)
  <2> SUFFICES ASSUME NEW u \in settled PROVE cost[u] + Heuristic(u) <= c + Heuristic(v)
    OBVIOUS
  <2>1. cost[u] \in Nat /\ Heuristic(u) \in Nat /\ Heuristic(cur) \in Nat /\ Heuristic(v) \in Nat
    BY <1>2, <1>3, <1>5, <1>6
  <2>2. cost[u] + Heuristic(u) <= cost[cur] + Heuristic(cur)
    BY <1>6
  <2>. QED
    BY <1>2, <1>7, <2>1, <2>2
<1>9. \A u \in settled : cost'[u] = cost[u]
  <2> SUFFICES ASSUME v \in settled, cost'[v] # cost[v] PROVE FALSE
    BY <1>3, <1>6
  <2>1. Cheaper(i, v, c) /\ cost[v] # Inf /\ cost[v] \in Nat
    BY <1>2, <1>3, <1>6 DEF NotCheaper
  <2>2. c < cost[v]
    BY <2>1 DEF Cheaper
  <2>3. cost[v] + Heuristic(v) <= c + Heuristic(v)
    BY <1>8
  <2>. QED
    BY <1>2, <1>5, <2>1, <2>2, <2>3
<1>10. ASSUME NEW it \in queue'
       PROVE  /\ cost'[it.node] + Heuristic(it.node) <= it.prio
              /\ \A u \in settled : cost[u] + Heuristic(u) <= it.prio
  <2>1. CASE it \in queue
    <3>1. cost[it.node] + Heuristic(it.node) <= it.prio
      BY <1>6, <2>1
    <3>2. /\ it.prio \in Nat /\ Heuristic(it.node) \in Nat /\ cost[it.node] \in Nat
          /\ cost'[it.node] \in Nat /\ cost'[it.node] <= cost[it.node]
      BY <1>3, <1>5, <1>6, <2>1
    <3>3. cost'[it.node] + Heuristic(it.node) <= it.prio
      BY <3>1, <3>2
    <3>. QED
      BY <1>6, <2>1, <3>3
  <2>2. CASE it \notin queue
    <3>1. Cheaper(i, v, c)
      BY <2>2 DEF NotCheaper
    <3>2. PICK e : e.node = v /\ e.prio = Priority(v, c) /\ queue' = queue \cup {e}
      BY <3>1, NewEntry
    <3>3. it = e /\ it.node = v /\ it.prio = c + Heuristic(v)
      BY <2>2, <3>2 DEF Priority
    <3>4. cost'[v] = c
      BY <1>2, <3>1 DEF Cheaper, ResultType
    <3>5. cost'[it.node] + Heuristic(it.node) <= it.prio
      <4>1. c + Heuristic(v) <= c + Heuristic(v)
        BY <1>2, <1>5
      <4>. QED
        BY <3>3, <3>4, <4>1
    <3>. QED
      BY <1>8, <3>3, <3>5
  <2>. QED
    BY <2>1, <2>2
<1>11. ASSUME NEW u \in settled, NEW j \in Out(u)
       PROVE  \/ j \in left'
              \/ cost'[edges[j].to] # Inf /\ cost'[edges[j].to] <= cost'[u] + PriceOf(j)
  <2>1. j \in EdgeIDs /\ edges[j].to \in NodeIDs /\ edges[j].from = u
    BY EdgeEnds DEF Out
  <2>2. CASE j = i
    BY <1>2, <1>3, <1>4, <2>1, <2>2
  <2>3. CASE j # i /\ j \in left
    BY <1>2, <2>3
  <2>4. CASE cost[edges[j].to] # Inf /\ cost[edges[j].to] <= cost[u] + PriceOf(j)
    <3>1. PICK x \in NodeIDs, p \in Nat : x = edges[j].to /\ p = PriceOf(j)
      BY <2>1, PriceType DEF PriceOf
    <3>2. cost[x] # Inf /\ cost[x] <= cost[u] + p
      BY <2>4, <3>1
    <3>3. /\ cost[x] \in Nat /\ cost'[x] \in Nat /\ cost'[x] <= cost[x] /\ cost'[x] # Inf
          /\ cost[u] \in Nat /\ cost'[u] = cost[u]
      BY <1>3, <1>6, <1>9, <3>2
    <3>4. cost'[x] <= cost'[u] + p
      BY <3>2, <3>3
    <3>. QED
      BY <3>1, <3>3, <3>4
  <2>. QED
    BY <1>6, <2>2, <2>3, <2>4
<1>12. /\ settled' # {}
       /\ \A it \in queue' : Estimate(it.node)' <= it.prio
       /\ \A u \in settled' : \A it \in queue' : Estimate(u)' <= it.prio
       /\ \A u \in settled' : Estimate(u)' <= Estimate(cur)'
       /\ \A u \in settled' : \A j \in Out(u)' :
             \/ j \in left'
             \/ cost'[edges'[j].to] # Inf /\ cost'[edges'[j].to] <= cost'[u] + PriceOf(j)'
  <2>1. \A u : Estimate(u)' = cost'[u] + Heuristic(u)
    BY <1>1 DEF Estimate
  <2>2. Estimate(cur)' = cost[cur] + Heuristic(cur)
    BY <1>1, <1>2, <1>3 DEF Estimate
  <2>. QED
    BY <1>1, <1>2, <1>6, <1>9, <1>10, <1>11, <2>1, <2>2
<1>. QED
  BY <1>12 DEF OrderInv

LEMMA RequestFields ==
    ASSUME NEW algo, NEW seeds, NEW basis, NEW cutoff, NEW target
    PROVE  LET r == Request(algo, seeds, basis, cutoff, target) IN
           /\ r.algo = algo /\ r.seeds = seeds /\ r.basis = basis /\ r.cutoff = cutoff
           /\ r.target = target
BY DEF Request

LEMMA Snapped ==
    ASSUME BuildInv, built = "ready", NEW p \in Points, NEW l, NearestNode(p, l, Snap) # 0
    PROVE  NearestNode(p, l, Snap) \in NodeIDs
<1>1. Snap \in Nat
  BY RoutingAssumption
<1>2. NearestNode(p, l, Snap) \in NodesNear(p, l, Snap)
  BY <1>1, NearestIsNearest
<1>. QED
  BY <1>2 DEF NodesNear

LEMMA RequestsAreGood ==
    ASSUME BuildInv, built = "ready", Ask
    PROVE  \E r : GoodRequest(r) /\ StartSearch(r)
<1>1. CASE \E p, q \in Points, l, m \in Levels, basis \in {"time", "distance"} :
             ShortestPath(p, l, q, m, basis)
  <2>1. PICK p \in Points, q \in Points, l \in Levels, m \in Levels,
             basis \in {"time", "distance"} : ShortestPath(p, l, q, m, basis)
    BY <1>1
  <2>2. PICK src, dst : src = NearestNode(p, l, Snap) /\ dst = NearestNode(q, m, Snap)
    OBVIOUS
  <2>3. src # 0 /\ dst # 0 /\ StartSearch(Request("astar", SeedAt(src), basis, 0, dst))
    BY <2>1, <2>2 DEF ShortestPath
  <2>4. src \in NodeIDs /\ dst \in NodeIDs
    BY <2>2, <2>3, Snapped
  <2>5. DOMAIN SeedAt(src) = {src} /\ SeedAt(src)[src] = 0
    BY DEF SeedAt
  <2>6. PICK r : r = Request("astar", SeedAt(src), basis, 0, dst)
    OBVIOUS
  <2>7. /\ r.algo = "astar" /\ r.seeds = SeedAt(src) /\ r.basis = basis /\ r.cutoff = 0
        /\ r.target = dst
    BY <2>6, RequestFields
  <2>8. \E s \in NodeIDs : DOMAIN r.seeds = {s} /\ r.seeds[s] = 0
    BY <2>4, <2>5, <2>7
  <2>9. DOMAIN r.seeds \subseteq NodeIDs /\ \A v \in DOMAIN r.seeds : r.seeds[v] \in Nat
    BY <2>8
  <2>10. GoodRequest(r)
    BY <2>4, <2>7, <2>8, <2>9 DEF GoodRequest
  <2>. QED
    BY <2>3, <2>6, <2>10
<1>2. CASE \E p \in Points, l \in Levels, basis \in {"time", "distance"}, cut \in Cutoffs :
             Isochrone(p, l, basis, cut)
  <2>1. PICK p \in Points, l \in Levels, basis \in {"time", "distance"}, cut \in Cutoffs :
          Isochrone(p, l, basis, cut)
    BY <1>2
  <2>2. PICK src : src = NearestNode(p, l, Snap)
    OBVIOUS
  <2>3. src # 0 /\ StartSearch(Request("dijkstra", SeedAt(src), basis, cut, 0))
    BY <2>1, <2>2 DEF Isochrone
  <2>4. src \in NodeIDs /\ cut \in Nat
    BY <2>2, <2>3, Snapped, RoutingAssumption
  <2>5. DOMAIN SeedAt(src) = {src} /\ SeedAt(src)[src] = 0
    BY DEF SeedAt
  <2>6. PICK r : r = Request("dijkstra", SeedAt(src), basis, cut, 0)
    OBVIOUS
  <2>7. /\ r.algo = "dijkstra" /\ r.seeds = SeedAt(src) /\ r.basis = basis /\ r.cutoff = cut
        /\ r.target = 0
    BY <2>6, RequestFields
  <2>8. GoodRequest(r)
    BY <2>4, <2>5, <2>7 DEF GoodRequest
  <2>. QED
    BY <2>3, <2>6, <2>8
<1>3. CASE \E i \in Indexed : \E offset \in 0..edges[i].len, cut \in Cutoffs \cup {0} :
             MatchFrom(i, offset, cut)
  <2>1. PICK i \in Indexed : \E offset \in 0..edges[i].len, cut \in Cutoffs \cup {0} :
                               MatchFrom(i, offset, cut)
    BY <1>3
  <2>2. PICK offset \in 0..edges[i].len, cut \in Cutoffs \cup {0} : MatchFrom(i, offset, cut)
    BY <2>1
  <2>3. /\ i \in EdgeIDs /\ edges[i].from \in NodeIDs /\ edges[i].to \in NodeIDs
        /\ edges[i].len \in Nat
    BY EdgeEnds DEF Indexed, EdgeAmong
  <2>4. PICK seeds : seeds = ExitSeeds(edges[i], offset)
    OBVIOUS
  <2>5. DOMAIN seeds \subseteq NodeIDs /\ \A s \in DOMAIN seeds : seeds[s] \in Nat
    <3>1. offset \in Nat /\ edges[i].len - offset \in Nat
      BY <2>2, <2>3
    <3>. QED
      BY <2>3, <2>4, <3>1 DEF ExitSeeds
  <2>6. PICK r : r = Request("dijkstra", seeds, "distance", cut, 0)
    OBVIOUS
  <2>7. /\ r.algo = "dijkstra" /\ r.seeds = seeds /\ r.basis = "distance" /\ r.cutoff = cut
        /\ r.target = 0
    BY <2>6, RequestFields
  <2>8. GoodRequest(r)
    BY <2>2, <2>5, <2>7, RoutingAssumption DEF GoodRequest
  <2>9. StartSearch(r)
    BY <2>2, <2>4, <2>6 DEF MatchFrom
  <2>. QED
    BY <2>8, <2>9
<1>. QED
  BY <1>1, <1>2, <1>3 DEF Ask

LEMMA NothingLeft ==
    ASSUME BuildInv, ResultType, cur = 0
    PROVE  left = {} /\ 0 \notin NodeIDs /\ Out(0) = {}
<1>1. 0 \notin NodeIDs
  BY NodePlaces
<1>2. Out(0) = {}
  BY <1>1, EdgeEnds DEF Out
<1>. QED
  BY <1>1, <1>2 DEF ResultType

LEMMA PopsCounted ==
    ASSUME pops \in 0..(PopInterval - 1)
    PROVE  (pops + 1) % PopInterval \in 0..(PopInterval - 1)
<1>1. PICK n \in Nat \ {0} : n = PopInterval
  BY SearchAssumption
<1>2. PICK p \in Nat : p = pops + 1
  BY <1>1
<1>3. p % n \in 0..(n - 1)
  OBVIOUS
<1>. QED
  BY <1>1, <1>2, <1>3

\* Before a step of a running search, between two nodes.
LEMMA Running ==
    ASSUME BuildInv, SearchInv, searched = "running"
    PROVE  /\ RequestInv /\ ResultType /\ CostInv /\ Acyclic
           /\ DijkstraInv /\ AStarInv /\ OrderInv
           /\ cur = 0 => left = {}
<1>1. RequestInv /\ ResultType /\ CostInv /\ Acyclic /\ DijkstraInv /\ AStarInv /\ OrderInv
  BY DEF SearchInv
<1>. QED
  BY <1>1, NothingLeft

\* What the queue loses by a pop.
LEMMA Popped ==
    ASSUME BuildInv, SearchInv, NEW it, Popping(it)
    PROVE  /\ searched = "running" /\ cur = 0 /\ left = {}
           /\ it \in queue /\ it.node \in NodeIDs /\ it.node # 0 /\ it.prio \in Nat
           /\ cost[it.node] \in Nat /\ cost[it.node] # Inf
           /\ \A e \in queue : it.prio <= e.prio /\ e.prio \in Nat /\ e.node \in NodeIDs
           /\ queue' = queue \ {it}
           /\ pops' \in 0..(PopInterval - 1)
<1>1. searched = "running" /\ cur = 0 /\ it \in queue /\ \A e \in queue : it.prio <= e.prio
  BY DEF Popping, IsNext
<1>2. ResultType /\ left = {} /\ 0 \notin NodeIDs
  BY <1>1, Running, NothingLeft
<1>3. \A e \in queue : e.prio \in Nat /\ e.node \in NodeIDs
  BY <1>2 DEF ResultType
<1>4. it.node # 0
  BY <1>1, <1>2, <1>3
<1>5. cost[it.node] \in Nat /\ cost[it.node] # Inf
  BY <1>1, <1>2, <1>3 DEF ResultType, Cost
<1>6. pops' \in 0..(PopInterval - 1)
  BY <1>2, PopsCounted DEF ResultType, Popping
<1>. QED
  BY <1>1, <1>2, <1>3, <1>4, <1>5, <1>6 DEF Popping

SameGraph ==
    /\ nodes' = nodes /\ edges' = edges /\ ask' = ask
    /\ NodeIDs' = NodeIDs /\ EdgeIDs' = EdgeIDs
    /\ \A u : Out(u)' = Out(u) /\ Heuristic(u)' = Heuristic(u)
    /\ \A i : PriceOf(i)' = PriceOf(i)
    /\ \A c : Beyond(c)' = Beyond(c)
    /\ Consistent' = Consistent

LEMMA GivesUpKeeps ==
    ASSUME BuildInv, SearchInv, SearchGivesUp, built' = built
    PROVE  SearchInv'
<1>1. searched = "running" /\ searched' = "cancelled" /\ cur = 0
      /\ UNCHANGED <<graph, ask, cost, prev, queue, settled, cur, left, pops>>
  BY DEF SearchGivesUp
<1>2. RequestInv /\ ResultType /\ CostInv /\ Acyclic /\ DijkstraInv /\ AStarInv /\ OrderInv
  BY <1>1, Running
<1>3. RequestInv' /\ CostInv' /\ Acyclic'
  BY <1>1, <1>2, CostsKept
<1>4. SameGraph
  BY <1>1, SameRequest DEF SameGraph
<1>5. ResultType'
  BY <1>1, <1>2, <1>4 DEF ResultType, SameGraph
<1>6. DijkstraInv'
  BY <1>1, <1>2, <1>4 DEF DijkstraInv, Relaxed, SameGraph, Beyond
<1>7. AStarInv' /\ OrderInv' /\ LeastCosts'
  BY <1>1 DEF AStarInv, OrderInv, LeastCosts
<1>. QED
  BY <1>1, <1>3, <1>5, <1>6, <1>7 DEF SearchInv

\* What a pop leaves of the parts that do not look at the queue.
LEMMA PopKeepsCosts ==
    ASSUME BuildInv, SearchInv, searched = "running",
           UNCHANGED <<graph, ask, cost, prev, built>>
    PROVE  RequestInv' /\ CostInv' /\ Acyclic' /\ SameGraph
<1>1. RequestInv /\ CostInv /\ Acyclic
  BY Running
<1>2. RequestInv' /\ CostInv' /\ Acyclic'
  BY <1>1, CostsKept
<1>. QED
  BY <1>2, SameRequest DEF SameGraph

\* Nothing is left to relax: Dijkstra has an entry for a node whose edges gain something.
LEMMA BetweenPops ==
    ASSUME BuildInv, SearchInv, searched = "running", cur = 0, ask.algo = "dijkstra",
           NEW u \in NodeIDs, cost[u] # Inf
    PROVE  \/ \E e \in queue : e.node = u /\ e.prio = cost[u]
           \/ \A i \in Out(u) : Relaxed(i)
<1>1. DijkstraInv /\ left = {}
  BY Running
<1>. QED
  BY <1>1 DEF DijkstraInv

LEMMA StaleKeeps ==
    ASSUME BuildInv, SearchInv, NEW it, PopStale(it), built' = built
    PROVE  SearchInv'
<1>1. Popping(it) /\ Stale(it)
      /\ UNCHANGED <<graph, ask, cost, prev, settled, cur, left, searched>>
  BY DEF PopStale
<1>2. /\ searched = "running" /\ cur = 0 /\ left = {} /\ it \in queue /\ it.node \in NodeIDs
      /\ it.prio \in Nat /\ cost[it.node] \in Nat
      /\ queue' = queue \ {it} /\ pops' \in 0..(PopInterval - 1)
  BY <1>1, Popped
<1>3. RequestInv /\ ResultType /\ AStarInv /\ OrderInv
  BY <1>2, Running
<1>4. RequestInv' /\ CostInv' /\ Acyclic' /\ SameGraph
  BY <1>1, <1>2, PopKeepsCosts
<1>5. ResultType'
  BY <1>1, <1>2, <1>3, <1>4 DEF ResultType, SameGraph
<1>6. DijkstraInv'
  <2> SUFFICES ASSUME ask.algo = "dijkstra" PROVE DijkstraInv'
    BY <1>4 DEF DijkstraInv, SameGraph
  <2>1. it.prio > cost[it.node]
    BY <1>1 DEF Stale
  <2>2. ASSUME NEW u \in NodeIDs, cost[u] # Inf
        PROVE  \/ \E e \in queue' : e.node = u /\ e.prio = cost[u]
               \/ \A i \in Out(u) : Relaxed(i)
    <3>1. \A e \in queue : e.node = u /\ e.prio = cost[u] => e # it
      BY <1>2, <2>1
    <3>. QED
      BY <1>2, <2>2, <3>1, BetweenPops
  <2>3. \A i : Relaxed(i)' = Relaxed(i)
    BY <1>1, <1>4 DEF Relaxed, SameGraph, Beyond
  <2>4. \A u \in NodeIDs' : cost'[u] # Inf =>
           \/ \E e \in queue' : e.node = u /\ e.prio = cost'[u]
           \/ \A i \in Out(u)' : Relaxed(i)'
    BY <1>1, <1>4, <2>2, <2>3 DEF SameGraph
  <2>. QED
    BY <1>1, <1>2, <2>4 DEF DijkstraInv
<1>7. AStarInv'
  <2> SUFFICES ASSUME ask.algo = "astar" PROVE AStarInv'
    BY <1>4 DEF AStarInv, SameGraph
  <2>1. it.node \in settled
    BY <1>1 DEF Stale
  <2>2. \A u \in NodeIDs : cost[u] # Inf =>
           u \in settled \/ \E e \in queue' : e.node = u /\ e.prio <= Estimate(u)
    BY <1>2, <1>3, <2>1 DEF AStarInv
  <2>3. \A u \in NodeIDs : Estimate(u)' = Estimate(u)
    BY <1>1, <1>4 DEF Estimate, SameGraph
  <2>. QED
    BY <1>1, <1>2, <1>3, <1>4, <2>2, <2>3 DEF AStarInv, SameGraph
<1>8. OrderInv'
  <2> SUFFICES ASSUME ask.algo = "astar", Consistent PROVE OrderInv'
    BY <1>4 DEF OrderInv, SameGraph
  <2>1. settled # {}
    BY <1>1 DEF Stale
  <2>2. \A u : Estimate(u)' = Estimate(u)
    BY <1>1, <1>4 DEF Estimate, SameGraph
  <2>. QED
    BY <1>1, <1>2, <1>3, <1>4, <2>1, <2>2 DEF OrderInv, SameGraph
<1>9. LeastCosts'
  BY <1>1, <1>2 DEF LeastCosts
<1>. QED
  BY <1>1, <1>2, <1>4, <1>5, <1>6, <1>7, <1>8, <1>9 DEF SearchInv

LEMMA TargetKeeps ==
    ASSUME BuildInv, SearchInv, NEW it, PopTarget(it), built' = built
    PROVE  SearchInv'
<1>1. Popping(it) /\ it.node = ask.target /\ settled' = NowSettled(it.node)
      /\ searched' = "done" /\ UNCHANGED <<graph, ask, cost, prev, cur, left>>
  BY DEF PopTarget
<1>2. /\ searched = "running" /\ cur = 0 /\ left = {} /\ it \in queue
      /\ it.node \in NodeIDs /\ it.node # 0 /\ cost[it.node] # Inf
      /\ queue' = queue \ {it} /\ pops' \in 0..(PopInterval - 1)
  BY <1>1, Popped
<1>3. RequestInv /\ ResultType /\ CostInv /\ Acyclic /\ AStarInv /\ OrderInv
  BY <1>2, Running
<1>4. RequestInv' /\ CostInv' /\ Acyclic' /\ SameGraph
  BY <1>1, <1>2, PopKeepsCosts
\* Only A* has a target.
<1>5. ask.algo = "astar"
  BY <1>1, <1>2, <1>3 DEF RequestInv, GoodRequest
<1>6. ResultType'
  <2>1. settled' = settled \cup {it.node}
    BY <1>1, <1>5 DEF NowSettled
  <2>. QED
    BY <1>1, <1>2, <1>3, <1>4, <2>1 DEF ResultType, SameGraph
<1>7. DijkstraInv' /\ AStarInv' /\ OrderInv'
  <2>1. ask'.algo # "dijkstra" /\ searched' # "running"
    BY <1>1, <1>5
  <2>. QED
    BY <2>1 DEF DijkstraInv, AStarInv, OrderInv
<1>8. Answer
  <2>1. IsNext(it)
    BY <1>1 DEF Popping
  <2>. QED
    BY <1>1, <1>2, <1>3, <1>5, <2>1, AStarArrived
<1>9. Answer'
  BY <1>1, <1>8, SameAnswer
<1>10. LeastCosts'
  BY <1>9 DEF LeastCosts, Answer
<1>. QED
  BY <1>1, <1>2, <1>4, <1>6, <1>7, <1>10 DEF SearchInv

LEMMA ExhaustedKeeps ==
    ASSUME BuildInv, SearchInv, Exhausted, built' = built
    PROVE  SearchInv'
<1>1. /\ searched = "running" /\ cur = 0 /\ queue = {} /\ searched' = "done"
      /\ UNCHANGED <<graph, ask, cost, prev, queue, settled, cur, left, pops>>
  BY DEF Exhausted
<1>2. RequestInv /\ ResultType /\ CostInv /\ Acyclic /\ DijkstraInv /\ AStarInv /\ left = {}
  BY <1>1, Running
<1>3. RequestInv' /\ CostInv' /\ Acyclic' /\ SameGraph
  BY <1>1, PopKeepsCosts
<1>4. ResultType'
  BY <1>1, <1>2, <1>3 DEF ResultType, SameGraph
<1>5. DijkstraInv'
  BY <1>1, <1>2, <1>3 DEF DijkstraInv, Relaxed, SameGraph, Beyond
<1>6. AStarInv' /\ OrderInv'
  BY <1>1 DEF AStarInv, OrderInv
<1>7. Answer
  <2>1. CASE ask.algo = "dijkstra"
    BY <1>1, <1>2, <2>1, DijkstraAnswers
  <2>2. CASE ask.algo = "astar"
    BY <1>1, <1>2, <2>2, AStarExhausted
  <2>. QED
    BY <1>2, <2>1, <2>2 DEF RequestInv, GoodRequest
<1>8. Answer'
  BY <1>1, <1>7, SameAnswer
<1>9. LeastCosts'
  BY <1>8 DEF LeastCosts, Answer
<1>. QED
  BY <1>1, <1>3, <1>4, <1>5, <1>6, <1>9 DEF SearchInv

LEMMA EndNodeKeeps ==
    ASSUME BuildInv, SearchInv, EndNode, built' = built
    PROVE  SearchInv'
<1>1. /\ cur # 0 /\ left = {} /\ cur' = 0
      /\ UNCHANGED <<graph, ask, cost, prev, queue, settled, left, pops, searched>>
  BY DEF EndNode
<1>2. searched = "running"
  BY <1>1 DEF SearchInv
<1>3. RequestInv /\ ResultType /\ DijkstraInv /\ AStarInv /\ OrderInv
  BY <1>2, Running
<1>4. RequestInv' /\ CostInv' /\ Acyclic' /\ SameGraph
  BY <1>1, <1>2, PopKeepsCosts
<1>5. ResultType'
  BY <1>1, <1>3, <1>4 DEF ResultType, SameGraph
<1>6. DijkstraInv'
  BY <1>1, <1>3, <1>4 DEF DijkstraInv, Relaxed, SameGraph, Beyond
<1>7. \A u : Estimate(u)' = Estimate(u)
  BY <1>1, <1>4 DEF Estimate, SameGraph
<1>8. AStarInv'
  BY <1>1, <1>3, <1>4, <1>7 DEF AStarInv, SameGraph
<1>9. OrderInv'
  BY <1>1, <1>3, <1>4, <1>7 DEF OrderInv, SameGraph
<1>10. LeastCosts'
  BY <1>1, <1>2 DEF LeastCosts
<1>. QED
  BY <1>1, <1>2, <1>4, <1>5, <1>6, <1>8, <1>9, <1>10 DEF SearchInv

LEMMA RelaxKeeps ==
    ASSUME BuildInv, SearchInv, Relax, built' = built
    PROVE  SearchInv'
<1>1. PICK i, v, c : Relaxing(i, v, c) /\ (Cheaper(i, v, c) \/ NotCheaper(v, c))
  BY RelaxShape
<1>2. searched = "running" /\ UNCHANGED <<graph, ask, searched>>
  BY <1>1 DEF Relaxing
<1>3. RequestInv /\ ResultType /\ CostInv /\ Acyclic /\ DijkstraInv /\ AStarInv /\ OrderInv
  BY <1>2, Running
<1>4. ResultType'
  BY <1>1, <1>3, RelaxKeepsType
<1>5. RequestInv'
  <2>1. ask' = ask /\ NodeIDs' = NodeIDs
    BY <1>2, SameRequest
  <2>. QED
    BY <1>3, <2>1 DEF RequestInv, GoodRequest
<1>6. CostInv' /\ Acyclic'
  <2>1. CASE Cheaper(i, v, c)
    BY <1>1, <1>3, <2>1, RelaxKeepsCosts
  <2>2. CASE NotCheaper(v, c)
    <3>1. UNCHANGED <<graph, ask, cost, prev, built>>
      BY <1>2, <2>2 DEF NotCheaper
    <3>. QED
      BY <1>3, <3>1, CostsKept
  <2>. QED
    BY <1>1, <2>1, <2>2
<1>7. DijkstraInv' /\ AStarInv' /\ OrderInv'
  BY <1>1, <1>3, RelaxKeepsDijkstra, RelaxKeepsAStar, RelaxKeepsOrder
<1>8. LeastCosts'
  BY <1>2 DEF LeastCosts
<1>. QED
  BY <1>2, <1>4, <1>5, <1>6, <1>7, <1>8 DEF SearchInv

LEMMA PopNodeKeeps ==
    ASSUME BuildInv, SearchInv, NEW it, PopNode(it), built' = built
    PROVE  SearchInv'
<1>1. Popping(it) /\ ~Stale(it) /\ it.node # ask.target
      /\ settled' = NowSettled(it.node) /\ cur' = it.node /\ left' = Out(it.node)
      /\ UNCHANGED <<graph, ask, cost, prev, searched>>
  BY DEF PopNode
<1>2. /\ searched = "running" /\ cur = 0 /\ left = {} /\ it \in queue
      /\ it.node \in NodeIDs /\ it.node # 0 /\ it.prio \in Nat
      /\ cost[it.node] \in Nat /\ cost[it.node] # Inf
      /\ \A e \in queue : it.prio <= e.prio /\ e.prio \in Nat /\ e.node \in NodeIDs
      /\ queue' = queue \ {it} /\ pops' \in 0..(PopInterval - 1)
  BY <1>1, Popped
<1>3. RequestInv /\ ResultType /\ AStarInv /\ OrderInv
  BY <1>2, Running
<1>4. RequestInv' /\ CostInv' /\ Acyclic' /\ SameGraph
  BY <1>1, <1>2, PopKeepsCosts
<1>5. settled' \subseteq NodeIDs /\ \A v \in settled' : cost[v] # Inf
  BY <1>1, <1>2, <1>3 DEF NowSettled, ResultType
<1>6. ResultType'
  BY <1>1, <1>2, <1>3, <1>4, <1>5 DEF ResultType, SameGraph
\* What the entry was for is being relaxed.
<1>7. DijkstraInv'
  <2> SUFFICES ASSUME ask.algo = "dijkstra" PROVE DijkstraInv'
    BY <1>4 DEF DijkstraInv, SameGraph
  <2>1. ASSUME NEW u \in NodeIDs, cost[u] # Inf
        PROVE  \/ \E e \in queue' : e.node = u /\ e.prio = cost[u]
               \/ \A i \in Out(u) : Relaxed(i) \/ i \in left'
    <3>1. CASE u = it.node
      BY <1>1, <3>1
    <3>2. CASE u # it.node
      BY <1>2, <2>1, <3>2, BetweenPops
    <3>. QED
      BY <3>1, <3>2
  <2>2. \A i : Relaxed(i)' = Relaxed(i)
    BY <1>1, <1>4 DEF Relaxed, SameGraph, Beyond
  <2>3. \A u \in NodeIDs' : cost'[u] # Inf =>
           \/ \E e \in queue' : e.node = u /\ e.prio = cost'[u]
           \/ \A i \in Out(u)' : Relaxed(i)' \/ i \in left'
    BY <1>1, <1>4, <2>1, <2>2 DEF SameGraph
  <2>. QED
    BY <1>1, <1>2, <2>3 DEF DijkstraInv
<1>8. \A u : Estimate(u)' = Estimate(u)
  BY <1>1, <1>4 DEF Estimate, SameGraph
<1>9. ASSUME ask.algo = "astar"
      PROVE  /\ settled' = settled \cup {it.node} /\ it.node \notin settled
             /\ \A u \in NodeIDs : cost[u] # Inf =>
                   u \in settled \/ \E e \in queue : e.node = u /\ e.prio <= Estimate(u)
             /\ \A u \in settled : \A i \in Out(u) : cost[edges[i].to] # Inf
             /\ ask.target \notin settled
  BY <1>1, <1>2, <1>3, <1>9 DEF NowSettled, Stale, AStarInv
<1>10. AStarInv'
  <2> SUFFICES ASSUME ask.algo = "astar" PROVE AStarInv'
    BY <1>4 DEF AStarInv, SameGraph
  <2>1. \A u \in NodeIDs : cost[u] # Inf =>
           u \in settled' \/ \E e \in queue' : e.node = u /\ e.prio <= Estimate(u)
    BY <1>2, <1>9
  <2>2. \A u \in settled' : \A i \in Out(u) : cost[edges[i].to] # Inf \/ i \in left'
    BY <1>1, <1>9
  <2>3. ask.target \notin settled' /\ cur' \in settled'
    BY <1>1, <1>9
  <2>. QED
    BY <1>1, <1>4, <1>8, <2>1, <2>2, <2>3 DEF AStarInv, SameGraph
\* With a consistent heuristic the entry popped is the one for its node's estimate.
<1>11. OrderInv'
  <2> SUFFICES ASSUME ask.algo = "astar", Consistent PROVE OrderInv'
    BY <1>4 DEF OrderInv, SameGraph
  <2>1. settled' = settled \cup {it.node}
    BY <1>9
  <2>2. ASSUME settled = {} PROVE queue' = {}
    <3>1. PICK s : DOMAIN ask.seeds = {s}
      BY <1>3 DEF RequestInv, GoodRequest
    <3>2. queue \subseteq {[node |-> s, prio |-> 0]}
      BY <1>2, <1>3, <2>2, <3>1 DEF OrderInv
    <3>. QED
      BY <1>2, <3>2
  <2>3. ASSUME settled # {}
        PROVE  /\ \A e \in queue : Estimate(e.node) <= e.prio
               /\ \A v \in settled : \A e \in queue : Estimate(v) <= e.prio
    BY <1>2, <1>3, <2>3 DEF OrderInv
  <2>4. \A v \in NodeIDs : cost[v] # Inf => Estimate(v) \in Nat
    <3>1. \A v \in NodeIDs : Heuristic(v) \in Nat
      BY <1>3, HeuristicType DEF RequestInv, GoodRequest
    <3>. QED
      BY <1>3, <3>1 DEF Estimate, ResultType, Cost
  <2>5. \A e \in queue' : Estimate(e.node) <= e.prio
    BY <1>2, <2>2, <2>3
  <2>6. ASSUME NEW v \in settled', NEW e \in queue' PROVE Estimate(v) <= e.prio
    <3>1. settled # {}
      BY <2>2, <2>6
    <3>2. CASE v \in settled
      BY <1>2, <2>3, <3>1, <3>2
    <3>3. CASE v = it.node
      <4>1. PICK x \in Nat, y \in Nat, z \in Nat : x = Estimate(v) /\ y = it.prio /\ z = e.prio
        BY <1>2, <2>4, <3>3
      <4>2. x <= y /\ y <= z
        BY <1>2, <2>3, <3>1, <3>3, <4>1
      <4>. QED
        BY <4>1, <4>2
    <3>. QED
      BY <2>1, <2>6, <3>2, <3>3
  <2>7. ASSUME NEW v \in settled' PROVE Estimate(v) <= Estimate(it.node)
    <3>1. PICK x \in Nat, y \in Nat : x = Estimate(v) /\ y = Estimate(it.node)
      BY <1>2, <1>5, <2>4
    <3>2. CASE v = it.node
      BY <3>1, <3>2
    <3>3. CASE v \in settled
      <4>1. PICK e \in queue : e.node = it.node /\ e.prio <= Estimate(it.node)
        BY <1>2, <1>9
      <4>2. Estimate(v) <= e.prio /\ e.prio \in Nat
        BY <1>2, <2>3, <3>3
      <4>. QED
        BY <3>1, <4>1, <4>2
    <3>. QED
      BY <2>1, <2>7, <3>2, <3>3
  <2>8. \A u \in settled' : \A i \in Out(u) :
           i \in left' \/ (cost[edges[i].to] # Inf /\ cost[edges[i].to] <= cost[u] + PriceOf(i))
    <3>1. \A u \in settled : \A i \in Out(u) :
             cost[edges[i].to] # Inf /\ cost[edges[i].to] <= cost[u] + PriceOf(i)
      BY <1>2, <1>3 DEF OrderInv
    <3>. QED
      BY <1>1, <2>1, <3>1
  <2>9. settled' # {}
    BY <2>1
  <2>. QED
    BY <1>1, <1>4, <1>8, <2>5, <2>6, <2>7, <2>8, <2>9 DEF OrderInv, SameGraph
<1>12. LeastCosts'
  BY <1>1, <1>2 DEF LeastCosts
<1>. QED
  BY <1>1, <1>2, <1>4, <1>6, <1>7, <1>10, <1>11, <1>12 DEF SearchInv

LEMMA StartKeeps ==
    ASSUME BuildInv, SearchInv, built = "ready", NEW r, GoodRequest(r), StartSearch(r),
           built' = built
    PROVE  SearchInv'
<1>1. /\ searched = "no" /\ ask' = r /\ searched' = "running"
      /\ cost' = [v \in NodeIDs |-> IF v \in DOMAIN r.seeds THEN r.seeds[v] ELSE Inf]
      /\ prev' = [v \in NodeIDs |-> 0]
      /\ queue' = {[node |-> v, prio |-> r.seeds[v]] : v \in DOMAIN r.seeds}
      /\ UNCHANGED <<graph, settled, cur, left, pops>>
  BY DEF StartSearch
<1>2. cur = 0 /\ settled = {} /\ left = {} /\ pops = 0
  BY <1>1 DEF SearchInv
<1>3. nodes' = nodes /\ edges' = edges /\ NodeIDs' = NodeIDs /\ EdgeIDs' = EdgeIDs
  BY <1>1 DEF graph, NodeIDs, EdgeIDs
<1>4. RequestInv'
  BY <1>1, <1>3 DEF RequestInv, GoodRequest
<1>5. DOMAIN r.seeds \subseteq NodeIDs /\ \A v \in DOMAIN r.seeds : r.seeds[v] \in Nat
  BY DEF GoodRequest
<1>6. \A v \in NodeIDs : cost'[v] # Inf => v \in DOMAIN r.seeds /\ cost'[v] = r.seeds[v]
  BY <1>1
<1>7. \A v \in DOMAIN r.seeds : cost'[v] = r.seeds[v] /\ cost'[v] \in Nat /\ cost'[v] # Inf
  BY <1>1, <1>5 DEF Inf
<1>8. \A it \in queue' : it.node \in DOMAIN r.seeds /\ it.prio = r.seeds[it.node]
  BY <1>1
<1>80. \A v \in DOMAIN r.seeds : \E it \in queue' : it.node = v /\ it.prio = r.seeds[v]
  <2> SUFFICES ASSUME NEW v \in DOMAIN r.seeds
               PROVE  \E it \in queue' : it.node = v /\ it.prio = r.seeds[v]
    OBVIOUS
  <2>1. [node |-> v, prio |-> r.seeds[v]] \in queue'
    BY <1>1
  <2>. QED
    BY <2>1
<1>9. ResultType'
  <2>1. cost' \in [NodeIDs -> Cost] /\ prev' \in [NodeIDs -> EdgeIDs \cup {0}]
    BY <1>1, <1>5 DEF Cost
  <2>2. queue' \subseteq [node : NodeIDs, prio : Nat]
    BY <1>1, <1>5
  <2>3. \A it \in queue' : cost'[it.node] # Inf
    BY <1>7, <1>8
  <2>4. pops' \in 0..(PopInterval - 1)
    BY <1>1, <1>2, SearchAssumption
  <2>. QED
    BY <1>1, <1>2, <1>3, <2>1, <2>2, <2>3, <2>4 DEF ResultType
<1>10. CostInv'
  BY <1>1, <1>3, <1>5, <1>6, <1>7 DEF CostInv
<1>11. Acyclic'
  BY <1>1, <1>3 DEF Acyclic
<1>12. DijkstraInv'
  <2>1. \A u \in NodeIDs : cost'[u] # Inf => \E it \in queue' : it.node = u /\ it.prio = cost'[u]
    BY <1>6, <1>80
  <2>. QED
    BY <1>1, <1>3, <2>1 DEF DijkstraInv
<1>13. AStarInv'
  <2> SUFFICES ASSUME r.algo = "astar" PROVE AStarInv'
    BY <1>1 DEF AStarInv
  <2>1. PICK s \in NodeIDs : DOMAIN r.seeds = {s} /\ r.seeds[s] = 0
    BY DEF GoodRequest
  <2>2. Heuristic(s)' \in Nat
    <3>1. MaxSpeed' = MaxSpeed
      BY <1>3 DEF MaxSpeed
    <3>2. PICK m \in Nat \ {0}, f \in Nat : m = MaxSpeed /\ f = Scale
      BY MaxSpeedType, GraphAssumption
    <3>3. PICK p \in Nat, t \in Nat : p = nodes[s].pt /\ t = nodes[r.target].pt
      BY NodePlaces DEF GoodRequest
    <3>4. PICK d \in Nat : d = Dist(p, t)
      BY DistType
    <3>5. d * f \in Nat
      OBVIOUS
    <3>6. (d * f) \div m \in Nat
      BY <3>5, DivNat
    <3>. QED
      BY <1>1, <1>3, <3>1, <3>2, <3>3, <3>4, <3>6 DEF Heuristic, Dist
  <2>3. PICK h \in Nat : h = Heuristic(s)'
    BY <2>2
  <2>4. Estimate(s)' = h
    BY <1>7, <2>1, <2>3 DEF Estimate
  <2>5. \E it \in queue' : it.node = s /\ it.prio <= Estimate(s)'
    <3>1. PICK it \in queue' : it.node = s /\ it.prio = 0
      BY <1>80, <2>1
    <3>2. it.prio <= Estimate(s)'
      BY <2>3, <2>4, <3>1
    <3>. QED
      BY <3>1, <3>2
  <2>6. \A u \in NodeIDs' : cost'[u] # Inf => u = s
    BY <1>3, <1>6, <2>1
  <2>. QED
    BY <1>1, <1>2, <2>5, <2>6 DEF AStarInv
<1>14. OrderInv'
  <2> SUFFICES ASSUME r.algo = "astar" PROVE OrderInv'
    BY <1>1 DEF OrderInv
  <2>1. PICK s \in NodeIDs : DOMAIN r.seeds = {s} /\ r.seeds[s] = 0
    BY DEF GoodRequest
  <2>2. queue' \subseteq {[node |-> v, prio |-> 0] : v \in DOMAIN ask'.seeds}
    BY <1>1, <2>1
  <2>. QED
    BY <1>1, <1>2, <2>2 DEF OrderInv
<1>15. LeastCosts'
  BY <1>1 DEF LeastCosts
<1>. QED
  BY <1>1, <1>2, <1>4, <1>9, <1>10, <1>11, <1>12, <1>13, <1>14, <1>15 DEF SearchInv

-----------------------------------------------------------------------------
(* The whole specification.                                                *)

RoutingInv == BuildInv /\ SearchInv

LEMMA SearchStart ==
    ASSUME RoutingInit
    PROVE  SearchInv
BY DEF RoutingInit, SearchIdle, SearchInv, LeastCosts

\* What searches leave of the graph and its indexes.
LEMMA BuildUntouched ==
    ASSUME BuildInv, UNCHANGED <<build, graph>>
    PROVE  BuildInv'
<1>1. UNCHANGED <<features, next, pieces, built, low, extent, nodeCells, edgeCells>>
  BY DEF build, indexes
<1>2. IndexInv'
  BY <1>1, GraphKept
<1>. QED
  BY <1>1, <1>2 DEF BuildInv, Distinct, Twins, graph

LEMMA SearchesLeaveGraph ==
    ASSUME Ask \/ SearchStep
    PROVE  UNCHANGED graph
<1>1. CASE Ask
  BY <1>1 DEF Ask, ShortestPath, Isochrone, MatchFrom, StartSearch
<1>2. CASE SearchStep
  BY <1>2 DEF SearchStep, SearchGivesUp, Pop, PopStale, PopTarget, PopNode, Relax, EndNode,
              Exhausted
<1>. QED
  BY <1>1, <1>2

LEMMA SearchSteps ==
    ASSUME BuildInv, SearchInv, SearchStep, built' = built
    PROVE  SearchInv'
<1>1. CASE SearchGivesUp
  BY <1>1, GivesUpKeeps
<1>2. CASE Pop
  <2>1. PICK it \in queue : PopStale(it) \/ PopTarget(it) \/ PopNode(it)
    BY <1>2 DEF Pop
  <2>. QED
    BY <2>1, StaleKeeps, TargetKeeps, PopNodeKeeps
<1>3. CASE Relax
  BY <1>3, RelaxKeeps
<1>4. CASE EndNode
  BY <1>4, EndNodeKeeps
<1>5. CASE Exhausted
  BY <1>5, ExhaustedKeeps
<1>. QED
  BY <1>1, <1>2, <1>3, <1>4, <1>5 DEF SearchStep

\* Nothing is searched before the graph is ready, and nothing is built afterwards.
LEMMA BuildingKeepsSearch ==
    ASSUME SearchInv, BuildNext, UNCHANGED search
    PROVE  SearchInv'
<1>1. built = "building"
  BY DEF BuildNext, NextFeature, BuildGivesUp, AddPiece, FinishBuild
<1>2. searched = "no"
  BY <1>1 DEF SearchInv, RequestInv, GoodRequest
<1>. QED
  BY <1>2 DEF SearchInv, LeastCosts, search

LEMMA Unmoved ==
    ASSUME BuildInv, SearchInv, UNCHANGED routing
    PROVE  BuildInv' /\ SearchInv'
<1>1. UNCHANGED <<graph, build, search>>
  BY DEF routing
<1>2. BuildInv'
  BY <1>1, BuildUntouched
<1>3. UNCHANGED <<ask, cost, prev, queue, settled, cur, left, pops, searched, built>>
  BY <1>1 DEF search, build
<1>4. CASE searched = "no"
  BY <1>2, <1>3, <1>4 DEF SearchInv, LeastCosts
<1>5. CASE searched # "no"
  <2>1. RequestInv /\ ResultType /\ CostInv /\ Acyclic /\ DijkstraInv /\ AStarInv /\ OrderInv
    BY <1>5 DEF SearchInv
  <2>2. RequestInv' /\ CostInv' /\ Acyclic'
    BY <1>1, <1>3, <2>1, CostsKept
  <2>3. SameGraph
    BY <1>1, <1>3, SameRequest DEF SameGraph
  <2>4. ResultType'
    BY <1>3, <2>1, <2>3 DEF ResultType, SameGraph
  <2>5. DijkstraInv'
    BY <1>3, <2>1, <2>3 DEF DijkstraInv, Relaxed, SameGraph, Beyond
  <2>6. \A u : Estimate(u)' = Estimate(u)
    BY <1>3, <2>3 DEF Estimate, SameGraph
  <2>7. AStarInv'
    BY <1>3, <2>1, <2>3, <2>6 DEF AStarInv, SameGraph
  <2>8. OrderInv'
    BY <1>3, <2>1, <2>3, <2>6 DEF OrderInv, SameGraph
  <2>9. LeastCosts'
    <3>1. Answer' = Answer
      BY <1>1, <1>3, SameAnswer
    <3>2. searched = "done" => Answer
      BY AnswerIsLeast DEF SearchInv
    <3>3. searched' = "done" => Answer'
      BY <1>3, <3>1, <3>2
    <3>. QED
      BY <3>3 DEF LeastCosts, Answer
  <2>. QED
    BY <1>2, <1>3, <1>5, <2>2, <2>4, <2>5, <2>7, <2>8, <2>9 DEF SearchInv
<1>. QED
  BY <1>4, <1>5

\* The inductive invariant.
THEOREM Searching == RoutingSpec => []RoutingInv
<1>1. RoutingInit => RoutingInv
  BY BuildStart, SearchStart DEF RoutingInv
<1>2. RoutingInv /\ [RoutingNext]_routing => RoutingInv'
  <2> SUFFICES ASSUME BuildInv, SearchInv, [RoutingNext]_routing
               PROVE  BuildInv' /\ SearchInv'
    BY DEF RoutingInv
  <2>1. CASE BuildNext /\ UNCHANGED search
    BY <2>1, BuildSteps, BuildingKeepsSearch
  <2>2. CASE built = "ready" /\ searched = "no" /\ Ask /\ UNCHANGED build
    <3>1. BuildInv'
      BY <2>2, SearchesLeaveGraph, BuildUntouched
    <3>2. built' = built
      BY <2>2 DEF build
    <3>3. SearchInv'
      BY <2>2, <3>2, RequestsAreGood, StartKeeps
    <3>. QED
      BY <3>1, <3>3
  <2>3. CASE SearchStep /\ UNCHANGED build
    <3>1. BuildInv'
      BY <2>3, SearchesLeaveGraph, BuildUntouched
    <3>2. built' = built
      BY <2>3 DEF build
    <3>. QED
      BY <2>3, <3>1, <3>2, SearchSteps
  <2>4. CASE UNCHANGED routing
    BY <2>4, Unmoved
  <2>. QED
    BY <2>1, <2>2, <2>3, <2>4 DEF RoutingNext
<1>. QED
  BY <1>1, <1>2, PTL DEF RoutingSpec

\* The state of a build and of a search has its type.
THEOREM NetworkTypes == RoutingSpec => [](BuildTypeOK /\ SearchTypeOK)
<1>1. BuildInv => BuildTypeOK
  <2> SUFFICES ASSUME BuildInv PROVE BuildTypeOK
    OBVIOUS
  <2>1. \A i \in DOMAIN pieces : pieces[i] \in Piece
    BY DEF BuildInv
  <2>2. \A i \in NodeIDs : nodes[i] \in [pt : Points, level : Levels]
    BY NodePlaces DEF Node
  <2>3. NodeIDs = 1..Len(nodes) /\ DOMAIN features = 1..Len(features)
    BY NodePlaces DEF BuildInv
  <2>4. \A i \in EdgeIDs :
           edges[i] \in [from : NodeIDs, to : NodeIDs, len : Nat, speed : Nat \ {0},
                         dur : Nat, feat : DOMAIN features]
    BY <2>3, EdgeEnds DEF EdgeAmong
  <2>. QED
    BY <2>1, <2>2, <2>4 DEF BuildTypeOK, BuildInv
<1>2. SearchInv => SearchTypeOK
  BY DEF SearchInv, SearchTypeOK, RequestInv, GoodRequest, ResultType, Cost, Out
<1>3. RoutingInv => BuildTypeOK /\ SearchTypeOK
  BY <1>1, <1>2 DEF RoutingInv
<1>. QED
  BY <1>3, Searching, PTL

\* Whatever the features and their order, no two nodes of a graph share a key, and every
\* two-way line can be travelled both ways at one price.  (builder.node, addSegment,
\* addConnector)
THEOREM GraphIsSound == RoutingSpec => []GraphSound
<1>1. RoutingInv => GraphSound
  BY DEF RoutingInv, BuildInv, Distinct, Twins, GraphSound, NodesDistinct, TwoWay, NodeIDs, EdgeIDs
<1>. QED
  BY <1>1, Searching, PTL

\* Whatever a query asks for, from any point and with any radius, the grids find what is
\* near and miss nothing that their window holds, and no edge is lost from the segment
\* index.  (pointGrid.nearest, segGrid.nearby, newSegGrid, hasReverse)
THEOREM IndexesFindWhatIsNear == RoutingSpec => []IndexesFind
<1>1. RoutingInv => IndexesFind
  BY GridsFindAll, CoveredByIndex DEF RoutingInv, IndexesFind
<1>. QED
  BY <1>1, Searching, PTL

\* A Dijkstra that has ended has the least cost of every node up to its cutoff; A* has
\* found some path wherever there is one, and a least one wherever no edge beats the
\* straight line at the greatest speed, although it settles every node only once.
\* (Graph.DijkstraSeeded, Graph.AStar)
THEOREM CostsAreLeast == RoutingSpec => []LeastCosts
<1>1. RoutingInv => LeastCosts
  BY DEF RoutingInv, SearchInv
<1>. QED
  BY <1>1, Searching, PTL

\* In every state of a search the recorded edges lead from each reached node back to a
\* seed, also over edges of no cost, by a path no dearer than the node's cost; and no
\* isochrone draws an edge beyond its end.  (SearchResult.PathTo, contourForCutoff)
THEOREM RoutesAreSound == RoutingSpec => []RoutesSound
<1>1. RoutingInv => RoutesSound
  <2> SUFFICES ASSUME BuildInv, SearchInv PROVE RoutesSound
    BY DEF RoutingInv
  <2>1. CASE searched = "no"
    BY <2>1 DEF RoutesSound, PathSound, CutsInside
  <2>2. CASE searched # "no"
    <3>1. RequestInv /\ ResultType /\ CostInv /\ Acyclic /\ DijkstraInv
      BY <2>2 DEF SearchInv
    <3>2. searched = "done" => left = {}
      BY <3>1, NothingLeft DEF SearchInv
    <3>. QED
      BY <3>1, <3>2, PathsAreSound, CutsAreInside DEF RoutesSound
  <2>. QED
    BY <2>1, <2>2
<1>. QED
  BY <1>1, Searching, PTL
=============================================================================
