---------------------------- MODULE TileArchive ----------------------------
(***************************************************************************)
(* A request for a tile of an archive, from the path to the stored bytes:  *)
(* the three routes of the server (tiles.go, tiles_ogc.go, wmts.go), the   *)
(* address arithmetic (tilemath.go), and the two archive formats, PMTiles  *)
(* (pmtiles.go) and MBTiles (mbtiles.go).                                  *)
(*                                                                         *)
(* A tile is addressed as <<z, x, y>>, y counted from the north.  What an  *)
(* archive should hold is a function from tiles to contents (`truth`).     *)
(***************************************************************************)
EXTENDS Integers, Sequences, FiniteSetsExt, SequencesExt

CONSTANTS
    Archives,     \* archives that may be configured: records, see Archive
    MaxZoom,      \* tilemath.MaxZoom
    WordBits      \* bits of a zoom level (32 in the code)

ASSUME ArchiveAssumption == MaxZoom \in Nat /\ WordBits \in Nat /\ MaxZoom < 2 ^ WordBits

VARIABLES
    archive,      \* the archive configured
    opened,       \* "no", "open" or "refused"
    root,         \* Source.root, decoded
    wanted,       \* the tile the client means, and the route it takes
    tileID,
    dir, depth,   \* the directory being searched
    reply,        \* "none", "looking" or a status
    body          \* the content sent with status 200

lookup == <<archive, opened, root, wanted, tileID, dir, depth, reply, body>>

ArchiveIdle ==
    /\ archive = <<>> /\ opened = "no" /\ root = <<>> /\ wanted = <<>> /\ tileID = 0
    /\ dir = <<>> /\ depth = 0 /\ reply = "none" /\ body = 0

-----------------------------------------------------------------------------
(* Tile identifiers.                                                       *)

Side(z) == 2 ^ z
\* zxyToID: the tiles of the levels above, and the position on a Hilbert curve; step s
\* of the loop looks at one bit of each coordinate.
IDOf(z, x, y) ==
    LET n == Side(z)
        walk[k \in 0..z] ==      \* after k steps: <<x, y, d>>
          IF k = 0 THEN <<x, y, 0>>
          ELSE LET p    == walk[k - 1]
                   step == 2 ^ (z - k)
                   rx   == (p[1] \div step) % 2
                   ry   == (p[2] \div step) % 2
                   d    == p[3] + step * step * (IF ry = 0 THEN 3 * rx ELSE IF rx = 1 THEN 2 ELSE 1)
               IN IF ry = 1 THEN <<p[1], p[2], d>>
                  ELSE IF rx = 1 THEN <<n - 1 - p[2], n - 1 - p[1], d>>
                  ELSE <<p[2], p[1], d>>
    IN (4 ^ z - 1) \div 3 + walk[z][3]

\* Valid.
Valid(z, x, y) == z <= MaxZoom /\ x < Side(z) /\ y < Side(z)
\* FlipY.
FlipY(z, y) == Side(z) - 1 - y

-----------------------------------------------------------------------------
(* PMTiles directories.  An encoded one is a record of four columns.       *)

Bad == <<>>

\* Mutant: a contiguous entry begins where the one before begins.
OffsetsStuck(e) ==
    LET f[i \in DOMAIN e.offs] == IF e.offs[i] = 0 THEN f[i - 1] ELSE e.offs[i] - 1 IN f
\* The offsets: one more than the offset, or 0 if the entry follows the one before.
Offsets(e) ==
    LET f[i \in DOMAIN e.offs] ==
          IF e.offs[i] = 0 THEN f[i - 1] + e.lens[i - 1] ELSE e.offs[i] - 1
    IN f
\* decodeDirectory: identifiers are sums of the differences stored.
Decoded(e) ==
    IF \/ e.deltas = <<>>
       \/ \E i \in DOMAIN e.lens : e.lens[i] = 0
       \/ e.offs[1] = 0
    THEN Bad
    ELSE LET id[i \in DOMAIN e.deltas] == e.deltas[i] + IF i = 1 THEN 0 ELSE id[i - 1]
         IN [i \in DOMAIN e.deltas |->
               [id |-> id[i], run |-> e.runs[i], off |-> Offsets(e)[i], len |-> e.lens[i]]]

\* findEntry: the last entry that does not begin after the tile, 0 if there is none or
\* its run ends before.
FoundIn(entries, t) ==
    LET upTo == {i \in DOMAIN entries : entries[i].id <= t}
        e    == entries[Max(upTo)]
    IN IF upTo = {} THEN 0
       ELSE IF e.run = 0 \/ t < e.id + e.run THEN Max(upTo) ELSE 0

-----------------------------------------------------------------------------
\* load of PMTiles, loadMetadata of MBTiles: what cannot be served is refused.
OpenArchive(a) ==
    /\ opened = "no"
    /\ archive' = a
    /\ IF a.kind = "pmtiles"
       THEN LET entries == Decoded(a.root) IN
            /\ root' = entries
            /\ opened' = IF a.minZoom > a.maxZoom \/ a.format = "other" \/ entries = Bad
                         THEN "refused" ELSE "open"
       ELSE /\ UNCHANGED root
            /\ opened' = IF a.format = "other" THEN "refused" ELSE "open"
    /\ UNCHANGED <<wanted, tileID, dir, depth, reply, body>>

\* The paths the documents advertise: /tiles/{layer}/{z}/{x}/{y}, and row before column
\* in the paths of OGC API - Tiles and of WMTS.
PathOf(route, t) == IF route = "xyz" THEN t ELSE <<t[1], t[3], t[2]>>
\* handleTile, handleStandardTile, handleWMTSTile: what parseTile is called with.
Parsed(route, path) == IF route = "xyz" THEN path ELSE <<path[1], path[3], path[2]>>

\* uint32 of a zoom level, which the metadata of an archive may give as negative.
Word(n) == n % 2 ^ WordBits
\* The zoom levels served: min_zoom and max_zoom of the configuration take precedence over
\* the header of a PMTiles archive, only its own metadata count for an MBTiles archive.
Lowest(a)  == IF a.configured.min = <<>> THEN a.minZoom ELSE a.configured.min[1]
Highest(a) == IF a.configured.max = <<>> THEN a.maxZoom ELSE a.configured.max[1]
InZoomRange(z) == ~(z < Word(Lowest(archive)) \/ z > Word(Highest(archive)))

\* serveTile up to the source; the caller of the OGC route does not choose a format.
AskTile(route, t, ext) ==
    /\ wanted' = [route |-> route, tile |-> t]
    /\ LET p == Parsed(route, PathOf(route, t)) IN
       IF ~Valid(p[1], p[2], p[3]) THEN reply' = "400" /\ UNCHANGED <<tileID, dir, depth>>
       ELSE IF route # "ogc" /\ ext # archive.format THEN reply' = "400" /\ UNCHANGED <<tileID, dir, depth>>
       ELSE IF ~InZoomRange(p[1]) THEN reply' = "204" /\ UNCHANGED <<tileID, dir, depth>>
       ELSE /\ reply' = "looking"
            /\ tileID' = IF archive.kind = "pmtiles" THEN IDOf(p[1], p[2], p[3])
                         ELSE <<p[1], p[2], FlipY(p[1], p[3])>>
            /\ dir' = root /\ depth' = 0
    /\ UNCHANGED <<archive, opened, root, body>>

\* Tile of MBTiles: a row of the table.
LookRow ==
    /\ reply = "looking" /\ archive.kind = "mbtiles"
    /\ IF tileID \in DOMAIN archive.table
       THEN reply' = "200" /\ body' = archive.table[tileID]
       ELSE reply' = "204" /\ UNCHANGED body
    /\ UNCHANGED <<archive, opened, root, wanted, tileID, dir, depth>>

\* Tile of PMTiles, one directory at a time.
LookEntry ==
    /\ reply = "looking" /\ archive.kind = "pmtiles" /\ depth < 4
    /\ LET i == FoundIn(dir, tileID) IN
       IF i = 0 THEN reply' = "204" /\ UNCHANGED <<dir, depth, body>>
       ELSE IF dir[i].run > 0 /\ dir[i].off \in DOMAIN archive.data
       THEN reply' = "200" /\ body' = archive.data[dir[i].off] /\ UNCHANGED <<dir, depth>>
       ELSE IF dir[i].run > 0 THEN reply' = "500" /\ UNCHANGED <<dir, depth, body>>
       ELSE /\ depth' = depth + 1
            /\ dir' = IF dir[i].off \in DOMAIN archive.leaves
                      THEN Decoded(archive.leaves[dir[i].off]) ELSE Bad
            /\ reply' = IF dir' = Bad THEN "500" ELSE "looking"
            /\ UNCHANGED body
    /\ UNCHANGED <<archive, opened, root, wanted, tileID>>

TooDeep ==
    /\ reply = "looking" /\ archive.kind = "pmtiles" /\ depth = 4
    /\ reply' = "500"
    /\ UNCHANGED <<archive, opened, root, wanted, tileID, dir, depth, body>>

Tiles == UNION {{z} \X (0..Side(z)) \X (0..Side(z)) : z \in 0..MaxZoom + 1}
ArchiveNext ==
    \/ opened = "no" /\ \E a \in Archives : OpenArchive(a)
    \/ /\ opened = "open" /\ reply = "none"
       /\ \E route \in {"xyz", "ogc", "wmts"}, t \in Tiles, ext \in {"mvt", "png"} : AskTile(route, t, ext)
    \/ LookRow \/ LookEntry \/ TooDeep

-----------------------------------------------------------------------------
(* What a writer of archives makes of a function from tiles to contents.   *)

\* Contents are numbers; each takes two bytes, in that order, in the data section.
Data(truth) == [off \in {2 * (c - 1) : c \in Range(truth)} |-> (off \div 2) + 1]
Content(truth, id) ==
    LET ts == {t \in DOMAIN truth : IDOf(t[1], t[2], t[3]) = id}
    IN IF ts = {} THEN 0 ELSE truth[CHOOSE t \in ts : TRUE]
Unset == [min |-> <<>>, max |-> <<>>]
\* One entry for each run of equal contents.
Entries(truth) ==
    LET ids    == {IDOf(t[1], t[2], t[3]) : t \in DOMAIN truth}
        at     == [i \in UNION {{j - 1, j, j + 1} : j \in ids} |-> Content(truth, i)]
        starts == {i \in ids : at[i - 1] # at[i]}
        ends   == {i \in ids : at[i] # at[i + 1]}
    IN [k \in 1..Cardinality(starts) |->
          LET i == CHOOSE j \in starts : Cardinality({s \in starts : s < j}) = k - 1
          IN [id |-> i, run |-> Min({e \in ends : e >= i}) - i + 1, off |-> 2 * (at[i] - 1), len |-> 2]]
Encoded(es) ==
    [deltas |-> [i \in DOMAIN es |-> es[i].id - IF i = 1 THEN 0 ELSE es[i - 1].id],
     runs   |-> [i \in DOMAIN es |-> es[i].run],
     lens   |-> [i \in DOMAIN es |-> es[i].len],
     offs   |-> [i \in DOMAIN es |->
                   IF i > 1 /\ es[i].off = es[i - 1].off + es[i - 1].len THEN 0 ELSE es[i].off + 1]]
\* The root above some levels of leaves that hold up to `size` entries each.
Layered(truth, levels, size) ==
    LET Chunks(es) == [c \in 1..((Len(es) + size - 1) \div size) |->
                         SubSeq(es, (c - 1) * size + 1, Min({c * size, Len(es)}))]
        top[l \in 0..levels] ==     \* the entries of level l, and the leaves below it
          IF l = 0 THEN [entries |-> Entries(truth), leaves |-> <<>>]
          ELSE LET below == top[l - 1]
                   cs    == Chunks(below.entries)
                   base  == Len(below.leaves)
               IN [entries |-> [c \in DOMAIN cs |->
                                  [id |-> cs[c][1].id, run |-> 0, off |-> base + c - 1, len |-> 1]],
                   leaves  |-> below.leaves \o [c \in DOMAIN cs |-> Encoded(cs[c])]]
    IN top[levels]
PMTiles(truth, levels, size, minZoom, maxZoom, format) ==
    LET top == Layered(truth, levels, size)
    IN [kind |-> "pmtiles", truth |-> truth, sound |-> levels < 4, format |-> format,
        minZoom |-> minZoom, maxZoom |-> maxZoom, configured |-> Unset, data |-> Data(truth),
        root |-> Encoded(top.entries), leaves |-> [off \in 0..(Len(top.leaves) - 1) |-> top.leaves[off + 1]]]
MBTiles(truth, minZoom, maxZoom, format) ==
    [kind |-> "mbtiles", truth |-> truth, sound |-> TRUE, format |-> format,
     minZoom |-> minZoom, maxZoom |-> maxZoom, configured |-> Unset,
     table |-> [r \in {<<t[1], t[2], FlipY(t[1], t[3])>> : t \in DOMAIN truth} |->
                  truth[<<r[1], r[2], FlipY(r[1], r[3])>>]]]

-----------------------------------------------------------------------------
ArchiveTypeOK ==
    /\ opened \in {"no", "open", "refused"} /\ depth \in 0..4
    /\ reply \in {"none", "looking", "200", "204", "400", "500"} /\ body \in Nat
    /\ (reply = "200") = (body > 0)

\* Whichever route a client takes to a tile, it is sent the tile it means or nothing:
\* path order, identifiers, runs, shared and contiguous data, leaves and flipped rows
\* fit together.  An archive that a writer made, nested up to four directories deep, is
\* never missing a tile of the zoom levels served; but an MBTiles archive whose metadata
\* give a minimum below 0 serves none, as that is compared as a uint32 (tiles.go:88).
\* Nor does an archive damaged so that the reader can tell (an empty directory or entry, a
\* first offset of 0, an offset beyond the data) show a wrong tile; one whose offsets are
\* wrong but valid does.  Writer and reader share IDOf: of the curve, only that tiles have
\* different numbers matters here.
ArchiveFinds ==
    reply \notin {"none", "looking"} =>
        LET t == wanted.tile
            here == t \in DOMAIN archive.truth
        IN /\ reply = "200" => here /\ body = archive.truth[t]
           /\ archive.sound /\ reply \in {"204", "500"} =>
                ~here \/ ~(Lowest(archive) <= t[1] /\ t[1] <= Highest(archive)) \/ Lowest(archive) < 0
=============================================================================
