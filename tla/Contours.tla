------------------------------ MODULE Contours ------------------------------
(***************************************************************************)
(* The outline of what an isochrone reaches (contourForCutoff and          *)
(* marching.go of internal/algo/routing): segments are drawn on a raster,  *)
(* widened, outlined by marching squares, chained to rings and nested to   *)
(* polygons.  Coordinates are metres; simplification of rings is left out. *)
(***************************************************************************)
EXTENDS Integers, Sequences, FiniteSetsExt, SequencesExt

CONSTANTS
    Drawings,      \* what a search may reach: sequences of segments <<a, b>>
    CellSizes,     \* cell_size_m of a request; 0 if it has none
    AutoParts,     \* automatic cells per extent
    MinCell,       \* least automatic cell
    MaxCells       \* maxContourCells

ASSUME ContourAssumption == AutoParts \in Nat \ {0} /\ MinCell \in Nat \ {0} /\ MaxCells \in Nat

VARIABLES
    segs,           \* segments still to draw
    cell, nx, ny, origin,   \* binaryGrid
    marked,         \* its samples that are set
    lines,          \* contourSegs, in order
    used,           \* the ones some ring has
    ring,           \* the ring being chained: vertices
    rings,          \* the rings done
    polygons,       \* [shell, holes]
    stage           \* "no", "drawing", "chaining", "done", "refused"

contour == <<segs, cell, nx, ny, origin, marked, lines, used, ring, rings, polygons, stage>>

ContourIdle ==
    /\ segs = <<>> /\ cell = 1 /\ nx = 0 /\ ny = 0 /\ origin = <<0, 0>> /\ marked = {}
    /\ lines = <<>> /\ used = {} /\ ring = <<>> /\ rings = <<>> /\ polygons = {} /\ stage = "no"

Abs(n) == IF n < 0 THEN -n ELSE n
\* math.Round of a quotient, for what is not negative.
Rounded(n, d) == (2 * n + d) \div (2 * d)

\* The least and greatest coordinate of some segments on an axis.
Bounds(ss, axis) ==
    LET c == UNION {{ss[i][1][axis], ss[i][2][axis]} : i \in DOMAIN ss} IN <<Min(c), Max(c)>>

\* contourGrid: the cell size asked for or an automatic one, two cells around, a limit.
BeginContour(drawing, size) ==
    /\ LET bx == Bounds(drawing, 1)
           by == Bounds(drawing, 2)
           wx == bx[2] - bx[1]
           wy == by[2] - by[1]
           c  == IF size > 0 THEN size ELSE Max({Max({wx, wy}) \div AutoParts, MinCell})
       IN IF (wx + 5 * c) * (wy + 5 * c) > MaxCells * c * c
          THEN stage' = "refused" /\ UNCHANGED <<segs, cell, nx, ny, origin>>
          ELSE /\ stage' = "drawing"
               /\ segs' = drawing /\ cell' = c
               /\ nx' = wx \div c + 5 /\ ny' = wy \div c + 5
               /\ origin' = <<bx[1] - 2 * c, by[1] - 2 * c>>
    /\ UNCHANGED <<marked, lines, used, ring, rings, polygons>>

Grid == (0..(nx - 1)) \X (0..(ny - 1))

\* markSegment: samples at every half cell, and both ends.
Samples(a, b) == (2 * Max({Abs(b[1] - a[1]), Abs(b[2] - a[2])})) \div cell + 1
SampleAt(a, b, i, n, axis) ==
    Rounded((a[axis] - origin[axis]) * n + (b[axis] - a[axis]) * i, n * cell)
OnSegment(a, b) ==
    LET n == Samples(a, b) IN {<<SampleAt(a, b, i, n, 1), SampleAt(a, b, i, n, 2)>> : i \in 0..n}

MarkSegment ==
    /\ stage = "drawing" /\ segs # <<>>
    /\ marked' = marked \cup (OnSegment(Head(segs)[1], Head(segs)[2]) \cap Grid)
    /\ segs' = Tail(segs)
    /\ UNCHANGED <<cell, nx, ny, origin, lines, used, ring, rings, polygons, stage>>

\* dilate.
Dilated(S) == {p \in Grid : \E d \in (-1..1) \X (-1..1) : <<p[1] + d[1], p[2] + d[2]>> \in S}

-----------------------------------------------------------------------------
(* contours: marching squares on a lattice of half cells.                  *)

\* The lines of a block of four samples: which corners differ from the others.  Two
\* opposite corners are parted from each other.
BlockLines(tl, tr, br, bl, T, B, L, R) ==
    CASE tl = br /\ tr = bl /\ tl # tr -> IF tl THEN <<<<L, T>>, <<R, B>>>> ELSE <<<<T, R>>, <<B, L>>>>
      [] tl # tr /\ tr = br /\ br = bl -> <<<<L, T>>>>
      [] tr # tl /\ tl = br /\ br = bl -> <<<<T, R>>>>
      [] br # tl /\ tl = tr /\ tr = bl -> <<<<R, B>>>>
      [] bl # tl /\ tl = tr /\ tr = br -> <<<<B, L>>>>
      [] tl = tr /\ bl = br /\ tl # bl -> <<<<L, R>>>>
      [] tl = bl /\ tr = br /\ tl # tr -> <<<<T, B>>>>
      [] OTHER -> <<>>

Outline(S) ==
    LET at(x, y) == <<x, y>> \in S
        block(x, y) == BlockLines(at(x, y), at(x + 1, y), at(x + 1, y + 1), at(x, y + 1),
                                  <<2 * x + 1, 2 * y>>, <<2 * x + 1, 2 * y + 2>>,
                                  <<2 * x, 2 * y + 1>>, <<2 * x + 2, 2 * y + 1>>)
        row(y) == FlattenSeq([x \in 1..(nx + 1) |-> block(x - 2, y)])
    IN FlattenSeq([y \in 1..(ny + 1) |-> row(y - 2)])

Widen ==
    /\ stage = "drawing" /\ segs = <<>>
    /\ marked' = Dilated(marked)
    /\ lines' = Outline(marked')
    /\ stage' = "chaining"
    /\ UNCHANGED <<segs, cell, nx, ny, origin, used, ring, rings, polygons>>

\* chain: a ring begins with the first line no ring has, ...
StartRing ==
    /\ stage = "chaining" /\ ring = <<>> /\ used # DOMAIN lines
    /\ LET i == Min(DOMAIN lines \ used) IN ring' = lines[i] /\ used' = used \cup {i}
    /\ UNCHANGED <<segs, cell, nx, ny, origin, marked, lines, rings, polygons, stage>>

\* The lines, not used yet, that lead on from the end of the ring, and where to.
Onwards == {i \in DOMAIN lines \ used : Last(ring) \in Range(lines[i])}
Other(i, v) == IF lines[i][1] = v THEN lines[i][2] ELSE lines[i][1]

\* ... goes on along the first line that leads on, ...
FollowRing ==
    /\ stage = "chaining" /\ ring # <<>> /\ Last(ring) # Head(ring) /\ Onwards # {}
    /\ LET i == Min(Onwards) IN
       ring' = Append(ring, Other(i, Last(ring))) /\ used' = used \cup {i}
    /\ UNCHANGED <<segs, cell, nx, ny, origin, marked, lines, rings, polygons, stage>>

\* ... and is kept when it has come back to its first vertex.
EndRing ==
    /\ stage = "chaining" /\ ring # <<>>
    /\ \/ Last(ring) = Head(ring) /\ rings' = IF Len(ring) >= 4 THEN Append(rings, ring) ELSE rings
       \/ Last(ring) # Head(ring) /\ Onwards = {} /\ UNCHANGED rings
    /\ ring' = <<>>
    /\ UNCHANGED <<segs, cell, nx, ny, origin, marked, lines, used, polygons, stage>>

-----------------------------------------------------------------------------
(* assemblePolygons.                                                       *)

\* Twice the area.
Area(r) ==
    Abs(MapThenSumSet(LAMBDA i : r[i][1] * r[i + 1][2] - r[i + 1][1] * r[i][2], 1..(Len(r) - 1)))
\* planar.RingContains: crossings of a ray to the right.
RingContains(r, p) ==
    LET crosses(i) ==
          LET a == r[i]
              b == r[i + 1]
          IN /\ (a[2] > p[2]) # (b[2] > p[2])
             /\ a[1] * (b[2] - a[2]) * (b[2] - a[2]) + (p[2] - a[2]) * (b[1] - a[1]) * (b[2] - a[2])
                  > p[1] * (b[2] - a[2]) * (b[2] - a[2])
    IN Cardinality({i \in 1..(Len(r) - 1) : crosses(i)}) % 2 = 1

\* Mutant: whatever lies in another ring is a hole.
IsHoleInside(around) == around # {}
IsHole(around) == Cardinality(around) % 2 = 1

\* The greatest first; a ring in an odd number of greater ones is a hole of the least.
Nested ==
    LET rs     == SortSeq(rings, LAMBDA r, s : Area(r) > Area(s))
        around == [i \in DOMAIN rs |-> {j \in 1..(i - 1) : RingContains(rs[j], rs[i][1])}]
    IN {[shell |-> rs[i],
         holes |-> {rs[j] : j \in {m \in DOMAIN rs : IsHole(around[m]) /\ Max(around[m]) = i}}] :
           i \in {m \in DOMAIN rs : ~IsHole(around[m])}}

Assemble ==
    /\ stage = "chaining" /\ ring = <<>> /\ used = DOMAIN lines
    /\ polygons' = Nested
    /\ stage' = "done"
    /\ UNCHANGED <<segs, cell, nx, ny, origin, marked, lines, used, ring, rings>>

ContourNext ==
    \/ stage = "no" /\ \E drawing \in Drawings, size \in CellSizes : BeginContour(drawing, size)
    \/ MarkSegment \/ Widen \/ StartRing \/ FollowRing \/ EndRing \/ Assemble

-----------------------------------------------------------------------------
ContourTypeOK ==
    /\ stage \in {"no", "drawing", "chaining", "done", "refused"}
    /\ marked \subseteq Grid /\ used \subseteq DOMAIN lines
    /\ Range(ring) \subseteq Int \X Int

\* The polygons cover exactly the samples that are marked: every line ends up in a ring
\* that closes, also where blobs touch at a corner, and islands in holes are shells
\* again.  (contours, chain, assemblePolygons)
PolygonsCover ==
    stage = "done" =>
        LET inside(p) == \E poly \in polygons :
                            /\ RingContains(poly.shell, p)
                            /\ \A hole \in poly.holes : ~RingContains(hole, p)
        IN /\ \A p \in Grid : p \in marked <=> inside(<<2 * p[1], 2 * p[2]>>)
           /\ Len(lines) = MapThenSumSet(LAMBDA i : Len(rings[i]) - 1, DOMAIN rings)
=============================================================================
