--------------------------- MODULE FeaturePaging ---------------------------
(***************************************************************************)
(* The features of one collection, as a client reads them: page by page    *)
(* (features.go, and query_features of the MCP server), one by id, or      *)
(* those that reach a tile.  The collection is held in memory              *)
(* (memengine.go, for GeoJSON and GeoPackage files) or queried from        *)
(* PostGIS or MySQL, where the table may be edited between two statements. *)
(*                                                                         *)
(* A row is [no, id, box]: its identity, its id, the bounds of its         *)
(* geometry <<west, south, east, north>> (the empty sequence when it has   *)
(* none).  Coordinates are whole numbers.                                  *)
(***************************************************************************)
EXTENDS Listing, Sequences, SequencesExt

CONSTANTS
    Collections,  \* records [kind, keyed, rows]; keyed: the table has an id column
    Texts,        \* bbox parameters: sequences of numbers, empty when absent
    Limits,       \* limit parameters; 0 when absent
    Skips,        \* offset parameters
    Newcomers,    \* rows that may be inserted
    MaxEdits,     \* bound: edits of the table
    GridDim,      \* gridDim
    DefaultLimit, MaxLimit,
    World,        \* 180 degrees
    Ids,          \* ids asked for
    Zooms,        \* zoom levels asked for
    TileCap       \* maxTileFeatures

\* The bounds of a geometry.
Proper(b) == Len(b) = 4 /\ b[1] <= b[3] /\ b[2] <= b[4]
Rows == {r \in [no : Nat, id : Int, box : Seq(Int)] : r.box = <<>> \/ Proper(r.box)}
\* No two rows are one, and no two have one id in an id column.  (The code does not see to
\* the latter: of a composite primary key, introspection picks one column.)
Unlike(keyed, rows) ==
    \A i, j \in DOMAIN rows :
        rows[i].no = rows[j].no \/ (keyed /\ rows[i].id = rows[j].id) => i = j

ASSUME PagingAssumption ==
    /\ GridDim \in Nat \ {0} /\ DefaultLimit \in Nat \ {0} /\ MaxLimit \in Nat \ {0} /\ World \in Nat \ {0}
    /\ MaxEdits \in Nat /\ TileCap \in Nat
    /\ Texts \subseteq Seq(Int) /\ Limits \subseteq Int /\ Skips \subseteq Int
    /\ Ids \subseteq Int /\ Zooms \subseteq Nat /\ Newcomers \subseteq Rows
    /\ \A c \in Collections :
         /\ c \in [kind : {"memory", "postgis", "mysql"}, keyed : BOOLEAN, rows : Seq(Rows)]
         /\ Unlike(c.keyed /\ c.kind # "memory", c.rows)

NoID == -1

VARIABLES
    collection,   \* the collection served; rows change when a table is edited
    engine,       \* the Engine, for a collection in memory
    walk,         \* the paged request under way
    stage,        \* "none", "idle", "count", "select", "done", "refused", "failed" or
                  \* "answered"
    matched,      \* NumberMatched of the page under way
    seen,         \* the rows of the pages received, in order
    edits,        \* edits since the walk began
    steady,       \* the rows that have been there since the walk began
    found         \* the answer to a request for one feature or one tile

pages == <<collection, engine, walk, stage, matched, seen, edits, steady, found>>

NoAnswer == [what |-> "nothing"]
CollectionIdle ==
    /\ collection = [kind |-> "none"] /\ engine = <<>> /\ walk = <<>> /\ stage = "none"
    /\ matched = 0 /\ seen = <<>> /\ edits = 0 /\ steady = {} /\ found = NoAnswer

-----------------------------------------------------------------------------
(* Boxes.                                                                  *)

\* Bound.Intersects: touching counts.
Touch(a, b) == a[1] <= b[3] /\ b[1] <= a[3] /\ a[2] <= b[4] /\ b[2] <= a[4]
Least(a, b) == IF a < b THEN a ELSE b
Most(a, b) == IF a > b THEN a ELSE b
Clamp(v, lo, hi) == Most(lo, Least(hi, v))

-----------------------------------------------------------------------------
(* The engine in memory.                                                   *)

\* cellOf, on one axis.
CellOf(v, lo, hi) == IF hi > lo THEN Clamp(((v - lo) * GridDim) \div (hi - lo), 0, GridDim - 1) ELSE 0
\* Mutant: the last row and column of the range are left out.
CellsOpen(extent, b) ==
    LET x == CellOf(b[3], extent[1], extent[3])
        y == CellOf(b[4], extent[2], extent[4])
    IN (CellOf(b[1], extent[1], extent[3])..Most(0, x - 1))
         \X (CellOf(b[2], extent[2], extent[4])..Most(0, y - 1))
\* The cells that buildGrid and query go through.
CellsIn(extent, b) ==
    (CellOf(b[1], extent[1], extent[3])..CellOf(b[3], extent[1], extent[3]))
      \X (CellOf(b[2], extent[2], extent[4])..CellOf(b[4], extent[2], extent[4]))

\* New: rows without geometry are left out, a row without id takes its position.
Engine(rows) ==
    LET fs     == Picked(rows, {i \in DOMAIN rows : rows[i].box # <<>>})
        fd     == [i \in DOMAIN fs |-> [fs[i] EXCEPT !.id = IF @ = NoID THEN i - 1 ELSE @]]
        side(k) == {fd[i].box[k] : i \in DOMAIN fd}
        extent == <<Min(side(1)), Min(side(2)), Max(side(3)), Max(side(4))>>
    IN IF fs = <<>> THEN <<>>
       ELSE [features |-> fd, extent |-> extent,
             grid |-> [c \in (0..GridDim - 1) \X (0..GridDim - 1) |->
                         {i \in DOMAIN fd : c \in CellsIn(extent, fd[i].box)}]]
\* query: the features the cells list whose bounds intersect b, in order.
Query(e, b) ==
    LET listed == UNION {e.grid[c] : c \in CellsIn(e.extent, b)}
    IN IF ~Touch(b, e.extent) THEN <<>>
       ELSE Picked(e.features, {i \in DOMAIN e.features : i \in listed /\ Touch(e.features[i].box, b)})
\* byID: the first feature of the id.
ByID(e, id) ==
    LET is == {i \in DOMAIN e.features : e.features[i].id = id}
    IN IF is = {} THEN 0 ELSE CHOOSE i \in is : \A j \in is : i <= j

-----------------------------------------------------------------------------
(* The databases.                                                          *)

Wide(b) == b[3] - b[1] >= World
\* MBRIntersects of MySQL: a geographic polygon wider than a hemisphere is read as the
\* other side of the globe (mysql.go:474).
MBRIntersects(box, b) == IF Wide(b) THEN ~Touch(box, b) ELSE Touch(box, b)

\* The rows a statement of Features selects: all of PostGIS, those with a geometry of
\* MySQL.
PostGISRows(rows, w) ==
    Picked(rows, {i \in DOMAIN rows :
                    w.bbox = <<>> \/ (rows[i].box # <<>> /\ Touch(rows[i].box, w.bbox))})
MySQLRows(rows, w) ==
    Picked(rows, {i \in DOMAIN rows :
                    rows[i].box # <<>> /\ (w.bbox = <<>> \/ MBRIntersects(rows[i].box, w.bbox))})
Selected(c, w) == IF c.kind = "postgis" THEN PostGISRows(c.rows, w) ELSE MySQLRows(c.rows, w)

\* Rows by their ids.
ByKey(rows) == {p \in rows \X rows : p[1].id < p[2].id}
\* The orders a statement may return rows in: by the id column if there is one.
Arrangements(keyed, rows) ==
    IF keyed THEN {Listed(ToSet(rows), ByKey(ToSet(rows)))}
    ELSE {[i \in DOMAIN rows |-> rows[p[i]]] :
            p \in {q \in [DOMAIN rows -> DOMAIN rows] : \A i, j \in DOMAIN rows : q[i] = q[j] => i = j}}
Page(rows, w) == SubSeq(rows, w.offset + 1, Least(Len(rows), w.offset + w.limit))

-----------------------------------------------------------------------------
OpenCollection(c) ==
    /\ c.kind = "memory" => Engine(c.rows) # <<>>    \* "no usable features"
    /\ collection' = c
    /\ engine' = IF c.kind = "memory" THEN Engine(c.rows) ELSE <<>>
    /\ stage' = "idle"
    /\ UNCHANGED <<walk, matched, seen, edits, steady, found>>

\* parseBBox: of six numbers, the horizontal ones.
Flat(text) == IF Len(text) = 6 THEN <<text[1], text[2], text[4], text[5]>> ELSE text
Refused(route, text, limit, offset) ==
    \/ Len(text) \notin IF route = "ogc" THEN {0, 4, 6} ELSE {0, 4}
    \/ text # <<>> /\ (Flat(text)[1] > Flat(text)[3] \/ Flat(text)[2] > Flat(text)[4])
    \/ route = "ogc" /\ (limit < 0 \/ offset < 0)

\* Mutant: a limit is passed on whatever its size.
PageSizeUncapped(limit) == IF limit > 0 THEN limit ELSE DefaultLimit
PageSize(limit) == IF limit > 0 THEN Least(limit, MaxLimit) ELSE DefaultLimit

\* handleItems, or queryFeatures of the MCP server, up to the source.
AskItems(route, text, limit, offset) ==
    /\ IF Refused(route, text, limit, offset) THEN stage' = "refused" /\ UNCHANGED <<walk, steady>>
       ELSE /\ stage' = "count"
            /\ steady' = ToSet(IF collection.kind = "memory" THEN engine.features ELSE collection.rows)
            /\ walk' = [bbox |-> Flat(text), start |-> offset, offset |-> offset,
                        limit |-> PageSize(limit)]
    /\ UNCHANGED <<collection, engine, matched, seen, edits, found>>

\* The offset of the next page, from the link, or as an MCP client computes it.
Advance(w, page) == w.offset + Len(page)
TakePage(page, total) ==
    /\ seen' = seen \o page
    /\ walk' = [walk EXCEPT !.offset = Advance(walk, page)]
    /\ stage' = IF total > walk.offset + Len(page) THEN "count" ELSE "done"

\* The features of the engine a request asks for.
Hits(e, w) == IF w.bbox = <<>> THEN e.features ELSE Query(e, w.bbox)
\* Features of the engine; an offset below 0 is none.
ReadMemory ==
    /\ stage = "count" /\ collection.kind = "memory"
    /\ LET hits == Hits(engine, walk) IN
       /\ matched' = Len(hits)
       /\ TakePage(Page(hits, [walk EXCEPT !.offset = Most(0, @)]), Len(hits))
    /\ UNCHANGED <<collection, engine, edits, steady, found>>

\* Features of the databases: the count, and then the page, in two statements.
CountRows ==
    /\ stage = "count" /\ collection.kind # "memory"
    /\ matched' = Len(Selected(collection, walk))
    /\ stage' = "select"
    /\ UNCHANGED <<collection, engine, walk, seen, edits, steady, found>>
SelectRows ==
    /\ stage = "select"
    /\ \E rows \in Arrangements(collection.keyed, Selected(collection, walk)) :
         LET page == Page(rows, [walk EXCEPT !.offset = Most(0, @)])
             bad  == collection.kind = "postgis"
                       /\ (walk.offset < 0 \/ \E i \in DOMAIN page : page[i].box = <<>>)
         IN IF bad THEN stage' = "failed" /\ UNCHANGED <<walk, seen>> ELSE TakePage(page, matched)
    /\ UNCHANGED <<collection, engine, matched, edits, steady, found>>

\* Somebody else edits the table between two statements.
InsertRow(r) ==
    /\ stage \in {"count", "select"} /\ collection.kind # "memory" /\ edits < MaxEdits
    /\ \A i \in DOMAIN collection.rows : collection.rows[i].no # r.no /\ collection.rows[i].id # r.id
    /\ collection' = [collection EXCEPT !.rows = Append(@, r)]
    /\ edits' = edits + 1
    /\ UNCHANGED <<engine, walk, stage, matched, seen, steady, found>>
DeleteRow(i) ==
    /\ stage \in {"count", "select"} /\ collection.kind # "memory" /\ edits < MaxEdits
    /\ steady' = steady \ {collection.rows[i]}
    /\ collection' = [collection EXCEPT !.rows = RemoveAt(@, i)]
    /\ edits' = edits + 1
    /\ UNCHANGED <<engine, walk, stage, matched, seen, found>>

-----------------------------------------------------------------------------
Hit(id, r) == [what |-> "item", id |-> id, status |-> "200", row |-> r]
Miss(id, status) == [what |-> "item", id |-> id, status |-> status]
\* Feature of the engine.
MemoryItem(id) ==
    IF ByID(engine, id) = 0 THEN Miss(id, "404") ELSE Hit(id, engine.features[ByID(engine, id)])
RowsOf(id) == {r \in ToSet(collection.rows) : r.id = id}
\* Feature of PostGIS; a row without geometry cannot be read.
PostGISItem(id) ==
    IF ~collection.keyed THEN Miss(id, "500")
    ELSE IF RowsOf(id) = {} THEN Miss(id, "404")
    ELSE LET r == CHOOSE r \in RowsOf(id) : TRUE
         IN IF r.box = <<>> THEN Miss(id, "500") ELSE Hit(id, r)
\* Feature of MySQL, which asks for rows with a geometry only.
MySQLItem(id) ==
    LET rs == {r \in RowsOf(id) : r.box # <<>>}
    IN IF ~collection.keyed THEN Miss(id, "500")
       ELSE IF rs = {} THEN Miss(id, "404") ELSE Hit(id, CHOOSE r \in rs : TRUE)

\* handleItem, and getFeature of the MCP server.
GetItem(id) ==
    /\ stage' = "answered"
    /\ found' = CASE collection.kind = "memory" -> MemoryItem(id)
                  [] collection.kind = "postgis" -> PostGISItem(id)
                  [] collection.kind = "mysql" -> MySQLItem(id)
    /\ UNCHANGED <<collection, engine, walk, matched, seen, edits, steady>>

\* How many tiles there are on a side.
Columns[z \in Nat] == IF z = 0 THEN 1 ELSE 2 * Columns[z - 1]
\* The bounds of a tile, and a margin around them, on a plane of side 2 * World.
Bounds(z, x, y, margin) ==
    LET w == (2 * World) \div Columns[z]
    IN <<x * w - World - margin, y * w - World - margin,
         (x + 1) * w - World + margin, (y + 1) * w - World + margin>>
Buffered(z, x, y) == Bounds(z, x, y, (2 * World) \div (10 * Columns[z]))
\* clampWGS84Bound; the epsilon is one unit.
ClampWGS84(b) == <<Most(1 - World, b[1]), Most(-World, b[2]), Least(World - 1, b[3]), Least(World, b[4])>>

\* Tile of an engine: the numbers of the rows it draws.
Drawn(e, z, x, y) ==
    {r.no : r \in ToSet(Query(e, Buffered(z, x, y)))}
Shown(nos) == [status |-> "200", nos |-> nos]
\* Tile of MySQL: an engine made of the rows near the tile, unless they are too many; a
\* box wider than a hemisphere is not asked for.
MySQLTile(z, x, y) ==
    LET q    == ClampWGS84(Buffered(z, x, y))
        rows == collection.rows
        near == Picked(rows, {i \in DOMAIN rows :
                                rows[i].box # <<>> /\ (Wide(q) \/ MBRIntersects(rows[i].box, q))})
    IN IF Len(near) > TileCap THEN [status |-> "500", nos |-> {}]
       ELSE Shown(IF near = <<>> THEN {} ELSE Drawn(Engine(near), z, x, y))
\* Tile of PostGIS.
PostGISTile(z, x, y) ==
    LET b == Bounds(z, x, y, (2 * World) \div (32 * Columns[z]))
    IN Shown({r.no : r \in {s \in ToSet(collection.rows) : s.box # <<>> /\ Touch(s.box, b)}})

GetTile(z, x, y) ==
    /\ stage' = "answered"
    /\ found' = [what |-> "tile", at |-> <<z, x, y>>,
                 answer |-> CASE collection.kind = "memory" -> Shown(Drawn(engine, z, x, y))
                              [] collection.kind = "mysql" -> MySQLTile(z, x, y)
                              [] collection.kind = "postgis" -> PostGISTile(z, x, y)]
    /\ UNCHANGED <<collection, engine, walk, matched, seen, edits, steady>>

PagingNext ==
    \/ stage = "none" /\ \E c \in Collections : OpenCollection(c)
    \/ stage = "idle" /\ \E route \in {"ogc", "mcp"}, text \in Texts, l \in Limits, o \in Skips : AskItems(route, text, l, o)
    \/ ReadMemory \/ CountRows \/ SelectRows
    \/ \E r \in Newcomers : InsertRow(r)
    \/ stage \in {"count", "select"} /\ \E i \in DOMAIN collection.rows : DeleteRow(i)
    \/ stage = "idle" /\ \E id \in Ids : GetItem(id)
    \/ /\ stage = "idle"
       /\ \E z \in Zooms : \E x \in 0..Columns[z] - 1, y \in 0..Columns[z] - 1 : GetTile(z, x, y)
PagingSpec == CollectionIdle /\ [][PagingNext]_pages

-----------------------------------------------------------------------------
PagingTypeOK ==
    /\ stage \in {"none", "idle", "count", "select", "done", "refused", "failed", "answered"}
    /\ matched \in Nat /\ edits \in 0..MaxEdits
    /\ walk # <<>> => walk.limit \in 1..Most(MaxLimit, DefaultLimit) /\ walk.offset \in Int

\* Following the next links, a client receives every row it asked for once, in a table
\* nobody edits; each edit meanwhile costs it one row at most, repeated or missed.  Left
\* out are the boxes MySQL reads as their complement, and only the number of rows is
\* right in a table without an id column, whose pages come in no order.
PagesComplete ==
    stage = "done" /\ walk.start >= 0 /\ ~(collection.kind = "mysql" /\ walk.bbox # <<>> /\ Wide(walk.bbox)) =>
        LET due == {r \in steady : IF r.box = <<>> THEN walk.bbox = <<>> /\ collection.kind = "postgis"
                                   ELSE walk.bbox = <<>> \/ Touch(r.box, walk.bbox)}
            skipped == Least(walk.start, Cardinality(due))
            repeats == Len(seen) - Cardinality(ToSet(seen))
            missing == Cardinality(due \ ToSet(seen))
        IN IF ~collection.keyed /\ collection.kind # "memory"
           THEN edits = 0 => Len(seen) = Cardinality(due) - skipped
           ELSE /\ repeats <= edits /\ missing <= skipped + edits
                /\ edits = 0 => missing = skipped /\ ToSet(seen) \subseteq due

\* A page fails only for a row of PostGIS without geometry or an offset it refuses.
PagesFail ==
    stage = "failed" => collection.kind = "postgis"
        /\ (walk.start < 0 \/ \E r \in steady \cup Newcomers : r.box = <<>>)

\* An item carries the id it is asked by, and is missing only where no row carries it.
ItemsFit ==
    found.what = "item" /\ (collection.kind = "memory" \/ collection.keyed) =>
        IF found.status = "200" THEN found.row.id = found.id
        ELSE LET rows == IF collection.kind = "memory" THEN engine.features ELSE collection.rows
             IN \A i \in DOMAIN rows : rows[i].id = found.id => rows[i].box = <<>>

\* A tile shows every row that touches it, but for those MySQL keeps on the
\* antimeridian itself, where its query stops short.
TilesFull ==
    found.what = "tile" /\ found.answer.status = "200" =>
        \A r \in ToSet(collection.rows) :
            \/ r.box = <<>> \/ r.no \in found.answer.nos
            \/ ~Touch(r.box, Bounds(found.at[1], found.at[2], found.at[3], 0))
            \/ collection.kind = "mysql" /\ (r.box[3] <= -World \/ r.box[1] >= World)

\* Whichever way a client reads a collection, in memory or in a database, it is given
\* the features it asked for: the grid and its cells, the two statements of a page and
\* the arithmetic of the next link lose none and repeat none.
CollectionExact == PagesComplete /\ PagesFail /\ ItemsFit /\ TilesFull
=============================================================================
