----------------------------- MODULE MCServing -----------------------------
(***************************************************************************)
(* Instances of the components a request passes through, for TLC.  The     *)
(* components do not interact, so a behaviour runs one of them (`setup`)   *)
(* while the others stay in their initial states.                          *)
(***************************************************************************)
EXTENDS RequestPipeline, ServeBench, TileArchive, FeaturePaging, SourceOpen, TLC

CONSTANTS r1, r2, w1, w2

\* Requests and workers are interchangeable.
Symmetry == Permutations({r1, r2}) \cup Permutations({w1, w2})

VARIABLE setup
serving == <<setup, pipeline, bench, lookup, pages, opening>>

-----------------------------------------------------------------------------
(* Archives: every tile with contents of its own, a few tiles, and a map   *)
(* of land and sea whose neighbours share their contents.                  *)

Grid == UNION {{z} \X (0..(Side(z) - 1)) \X (0..(Side(z) - 1)) : z \in 0..MaxZoom}
Own  == [t \in Grid |-> IDOf(t[1], t[2], t[3]) + 1]
Few  == [t \in {<<0,0,0>>, <<1,1,0>>, <<1,0,1>>, <<2,3,0>>, <<2,0,3>>, <<2,1,2>>} |-> 1 + t[3]]
Sea  == [t \in Grid |-> IF t[2] < t[3] THEN 1 ELSE 2]
\* How an archive is made: what it holds, how it is nested, which zoom levels its header
\* and the configuration give, and what is broken about it.
Recipe(truth, levels, size, min, max, format, configured, damage) ==
    [truth |-> truth, levels |-> levels, size |-> size, min |-> min, max |-> max, format |-> format,
     configured |-> configured, damage |-> damage]
Recipes ==
    {Recipe(truth, levels, 3, 0, 2, "png", Unset, "none") : truth \in {Own, Few, Sea}, levels \in {0, 1, 3}}
      \cup {Recipe(Few, 4, 2, 0, 2, "mvt", Unset, "none"), Recipe(Few, 0, 2, 2, 1, "mvt", Unset, "none"),
            Recipe(Few, 0, 2, 1, 1, "other", Unset, "none")}
      \cup {Recipe(Few, 1, 4, 1, 1, "png", [min |-> min, max |-> max], "none") :
              min \in {<<>>, <<0>>}, max \in {<<>>, <<2>>}}
      \cup {Recipe(Own, 1, 4, 0, 2, "png", Unset, "leaves"), Recipe(Own, 0, 4, 0, 2, "png", Unset, "empty"),
            Recipe(Few, 0, 4, 0, 2, "png", Unset, "beyond")}
Broken(a, damage) ==
    CASE damage = "none"   -> a
      [] damage = "leaves" -> [a EXCEPT !.sound = FALSE, !.leaves[1].lens[2] = 0, !.leaves[2].offs[1] = 0]
      [] damage = "empty"  -> [a EXCEPT !.sound = FALSE, !.root.deltas = <<>>]
      [] damage = "beyond" -> [a EXCEPT !.sound = FALSE, !.root.offs[2] = 99]
TheArchives ==
    {Broken([PMTiles(r.truth, r.levels, r.size, r.min, r.max, r.format) EXCEPT !.configured = r.configured],
            r.damage) : r \in Recipes}
      \cup {MBTiles(truth, min, 2, f) : truth \in {Few, Own}, min \in {-1, 0}, f \in {"png", "other"}}

-----------------------------------------------------------------------------
(* Collections, on a plane of side 80.                                     *)

Row(n, id, box) == [no |-> n, id |-> id, box |-> box]
Dot(x, y) == <<x, y, x, y>>
Spread == <<Row(1, 2, Dot(-40, 0)), Row(2, 0, Dot(40, -20)), Row(3, 1, <<-20, -20, 10, 20>>)>>
Holes  == <<Row(1, 0, Dot(0, 0)), Row(2, 1, <<>>), Row(3, 2, Dot(20, 5))>>
Shared == <<Row(1, NoID, Dot(7, 7)), Row(2, 0, Dot(7, 7)), Row(3, NoID, <<>>), Row(4, NoID, <<3, 7, 5, 9>>)>>
Bare   == <<Row(1, NoID, <<>>)>>
Broad  == <<Row(1, 0, Dot(3, 3)), Row(2, 1, Dot(-37, 0)), Row(3, 2, <<-5, -5, 40, 20>>)>>
TheCollections ==
    {[kind |-> k, keyed |-> key, rows |-> r] :
       k \in {"postgis", "mysql"}, key \in BOOLEAN, r \in {Spread, Holes, Broad}}
      \cup {[kind |-> "memory", keyed |-> TRUE, rows |-> r] : r \in {Spread, Holes, Shared, Bare, Broad}}
TheTexts ==
    {<<>>, <<0, 0>>, <<-40, -40, 0, 40>>, <<5, 5, 7, 7>>, <<-20, -20, 9, 0, 10, 9>>, <<3, 0, 2, 2>>, <<-20, -20, 0, 20>>}
TheLimits == {-1, 0, 1, 9}
TheSkips  == {-1, 0, 1}
TheNewcomers == {Row(9, 3, <<>>), Row(8, 4, Dot(-1, 0))}

-----------------------------------------------------------------------------
(* Sources on tables, packages and files.                                  *)

Column(name, geo, int, key) == [name |-> name, geo |-> geo, int |-> int, key |-> key]
geom == Column("geom", TRUE, FALSE, FALSE)
fid  == Column("fid", FALSE, TRUE, TRUE)
uuid == Column("uuid", FALSE, FALSE, TRUE)
name == Column("name", FALSE, FALSE, FALSE)
area == Column("area", TRUE, FALSE, FALSE)
Layouts == {<<>>, <<fid, name>>, <<geom, fid, name>>, <<name, geom, area>>, <<uuid, fid, geom, name, area>>}
Anything == [schemas |-> {}, tables |-> {}]
Tables == {[kind |-> k, columns |-> cs, srid |-> s, mariaDB |-> m, excess |-> {"INSERT"}] :
             k \in {"postgis", "mysql"}, cs \in Layouts, s \in {0, 3857}, m \in BOOLEAN}
OnTables ==
    {[kind |-> k, schema |-> "gis", table |-> "roads", policy |-> p, geom |-> "geom", id |-> id, srid |-> 0,
      fields |-> fs] :
       k \in {"postgis", "mysql"}, id \in {NoName, "fid", "name", "geom"},
       p \in {Anything, [Anything EXCEPT !.schemas = {"tmp"}], [schemas |-> {"gis"}, tables |-> {<<"gis", "roads">>}]},
       fs \in {<<>>, <<"name">>, <<"name", "geom", "fid", "name">>, <<"area">>, <<"lost">>}}

File(path, inode, regular, inRoot, size) ==
    [path |-> path, inode |-> inode, regular |-> regular, inRoot |-> inRoot, size |-> size]
Good  == File("data", 1, TRUE, TRUE, 1)
TheSwaps == {Good, File("data", 1, TRUE, TRUE, 3), File("data", 2, TRUE, TRUE, 2), File("data", 3, FALSE, TRUE, 1),
             File("away", 4, TRUE, FALSE, 1)}
Limited == [max |-> 3, maxMemory |-> 2, enforceRoot |-> TRUE]
Free    == [max |-> 0, maxMemory |-> 0, enforceRoot |-> FALSE]
Layer(table, srid) == [table |-> table, srid |-> srid]
Packages == {[kind |-> "geopackage", file |-> Good, layers |-> ls] :
               ls \in {<<>>, <<Layer("roads", 4326)>>, <<Layer("roads", 25832)>>,
                       <<Layer("rails", 0), Layer("roads", 3857)>>}}
TheSettings ==
    OnTables \cup {[kind |-> "geojson", policy |-> p] : p \in {Limited, Free}}
      \cup {[kind |-> "geopackage", policy |-> p, layer |-> l] : p \in {Limited, Free}, l \in {NoName, "roads", "lost"}}
TheWorlds == Tables \cup Packages \cup {[kind |-> "geojson", file |-> f] : f \in TheSwaps}

-----------------------------------------------------------------------------
ServingInit ==
    /\ setup \in {"requests", "bench", "archive", "collection", "opening"}
    /\ PipelineInit /\ BenchInit /\ ArchiveIdle /\ CollectionIdle /\ OpenIdle
    /\ setup # "bench" => flags = [warmup |-> 0, sendable |-> TRUE]
ServingNext ==
    \/ setup = "requests" /\ PipelineNext /\ UNCHANGED <<setup, bench, lookup, pages, opening>>
    \/ setup = "bench" /\ BenchNext /\ UNCHANGED <<setup, pipeline, lookup, pages, opening>>
    \/ setup = "archive" /\ ArchiveNext /\ UNCHANGED <<setup, pipeline, bench, pages, opening>>
    \/ setup = "collection" /\ PagingNext /\ UNCHANGED <<setup, pipeline, bench, lookup, opening>>
    \/ setup = "opening" /\ OpenNext /\ UNCHANGED <<setup, pipeline, bench, lookup, pages>>
ServingSpec == ServingInit /\ [][ServingNext]_serving

\* The states of every component have their types.
ServingTypeOK == PipelineTypeOK /\ BenchTypeOK /\ ArchiveTypeOK /\ PagingTypeOK /\ OpenTypeOK
=============================================================================
