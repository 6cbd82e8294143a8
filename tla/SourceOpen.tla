----------------------------- MODULE SourceOpen -----------------------------
(***************************************************************************)
(* Opening one configured source, as the doctor does it (diagnostics.go,   *)
(* inspectSource): the file or the table is checked against the policy     *)
(* (assets.go, datasource_policy.go), the source is opened (the            *)
(* introspection of postgis.go and mysql.go, the layer of geopackage.go,   *)
(* the bytes read for geojsonsrc.go), pinged, asked for its privileges,    *)
(* reported and closed.                                                    *)
(*                                                                         *)
(* A column is [name, geo, int, key]: its name, whether it holds           *)
(* geometries or integers, whether it belongs to the primary key.          *)
(***************************************************************************)
EXTENDS Listing, Sequences, SequencesExt

CONSTANTS
    Settings,     \* configured sources: see MCServing for the records
    Worlds,       \* what each finds: tables, packages, files
    Swaps,        \* files that may take the place of the one being opened
    MaxLength,    \* bound: how far a file grows while it is opened
    ReadOnlyRole  \* data_sources.require_readonly_role

NoName == "none"
ColumnInfo == [name : STRING, geo : BOOLEAN, int : BOOLEAN, key : BOOLEAN]
LayerInfo  == [table : STRING, srid : Int]
FileInfo   == [path : STRING, inode : Nat, regular : BOOLEAN, inRoot : BOOLEAN, size : Nat]

\* The files that may be found where a configured path leads.
Files == Swaps \cup {w.file : w \in {v \in Worlds : v.kind = "geojson"}}

\* The columns of a table differ in their names.  A file is an inode: it is regular or not
\* wherever it is found, and none is linked or moved across the border of the root.
ASSUME OpenAssumption ==
    /\ Swaps \subseteq FileInfo /\ MaxLength \in Nat /\ ReadOnlyRole \in BOOLEAN
    /\ \A c \in Settings : c.kind \in {"postgis", "mysql"} =>
         c.id \in STRING /\ c.geom \in STRING /\ c.fields \in Seq(STRING)
    /\ \A w \in Worlds :
         \/ w \in [kind : {"geojson"}, file : FileInfo]
         \/ w \in [kind : {"geopackage"}, file : FileInfo, layers : Seq(LayerInfo)]
         \/ /\ w \in [kind : {"postgis", "mysql"}, columns : Seq(ColumnInfo), srid : Nat, mariaDB : BOOLEAN,
                       excess : SUBSET STRING]
            /\ \A i, j \in DOMAIN w.columns : w.columns[i].name = w.columns[j].name => i = j
            /\ \A i \in DOMAIN w.columns : w.columns[i].name # NoName
    /\ \A f, g \in Files : f.inode = g.inode => f.regular = g.regular /\ f.inRoot = g.inRoot

VARIABLES
    config,       \* the source being opened
    world,        \* the database or package it is opened on; .file is the file that the path
                  \* used next leads to, links followed
    doing,        \* "none", "check", ..., "ping", "describe", "end"
    source,       \* the fields of Source that queries are made of
    pools,        \* connection pools and files open
    before,       \* the file the first inspection of OpenAsset accepted
    report        \* [status, findings]

opening == <<config, world, doing, source, pools, before, report>>

NoReport == [status |-> NoName, findings |-> {}]
OpenIdle ==
    /\ config = <<>> /\ world = <<>> /\ doing = "none" /\ source = <<>> /\ pools = 0
    /\ before = <<>> /\ report = NoReport

-----------------------------------------------------------------------------
(* The policies.                                                           *)

\* CheckTable; an empty list restricts nothing.
TableAllowed(policy, schema, table) ==
    /\ policy.schemas = {} \/ schema \in policy.schemas
    /\ policy.tables = {} \/ <<schema, table>> \in policy.tables

\* limitBytes: the tighter of the two limits for a file read into memory; 0 is none.
LimitOf(policy, memoryBacked) ==
    IF memoryBacked /\ policy.maxMemory > 0 /\ (policy.max = 0 \/ policy.maxMemory < policy.max)
    THEN policy.maxMemory ELSE policy.max
Fits(size, limit) == limit > 0 => size <= limit
\* InspectAsset: the file a path leads to.
AssetAllowed(policy, file, memoryBacked) ==
    /\ file.regular
    /\ policy.enforceRoot => file.inRoot
    /\ Fits(file.size, LimitOf(policy, memoryBacked))

-----------------------------------------------------------------------------
(* Introspection: [ok] and the fields of Source, or [ok |-> FALSE].        *)

Refusal == [ok |-> FALSE]
Names(columns) == {columns[i].name : i \in DOMAIN columns}
Named(columns, n) == columns[CHOOSE i \in DOMAIN columns : columns[i].name = n]
GeometryAt(columns, n) == \E i \in DOMAIN columns : columns[i].name = n /\ columns[i].geo
KeyOf(columns) == {i \in DOMAIN columns : columns[i].key}
NamesOf(cs) == [i \in DOMAIN cs |-> cs[i].name]

\* The columns that are no geometries; the configured fields that are not, each where it
\* is mentioned first.
Plain(c, columns) == {i \in DOMAIN columns : columns[i].name # c.geom /\ ~columns[i].geo}
Mentions(c, columns) ==
    {i \in DOMAIN c.fields : /\ c.fields[i] # c.geom /\ ~Named(columns, c.fields[i]).geo
                             /\ \A j \in 1..(i - 1) : c.fields[j] # c.fields[i]}
\* Mutant: the configured fields alone are selected, without the id column.
FieldsAsConfigured(c, columns, id) ==
    IF c.fields = <<>> THEN Picked(NamesOf(columns), Plain(c, columns))
    ELSE Picked(c.fields, Mentions(c, columns))
\* The fields PostGIS selects: the ones configured, once each, and the id column.
Fields(c, columns, id) ==
    LET chosen == Picked(c.fields, Mentions(c, columns))
    IN IF c.fields = <<>> THEN Picked(NamesOf(columns), Plain(c, columns))
       ELSE IF id # NoName /\ ~Contains(chosen, id) THEN Append(chosen, id) ELSE chosen

\* introspect of PostGIS; of a composite key, LIMIT 1 takes any column.  (The srid of a
\* world is what geometry_columns says of it.)
PostGISFinds(c, table) ==
    LET columns == table.columns
        srid == IF c.srid # 0 THEN c.srid ELSE table.srid
        With(id) ==
          IF id # NoName /\ id \notin Names(columns) THEN Refusal
          ELSE IF \E i \in DOMAIN c.fields : c.fields[i] \notin Names(columns) THEN Refusal
          ELSE [ok |-> TRUE, id |-> id, srid |-> srid, fields |-> Fields(c, columns, id),
                mvtID |-> IF id # NoName /\ Named(columns, id).int THEN id ELSE NoName]
    IN IF ~GeometryAt(columns, c.geom) THEN {Refusal}
       ELSE IF c.id # NoName THEN {With(c.id)}
       ELSE IF KeyOf(columns) = {} THEN {With(NoName)}
       ELSE {With(columns[i].name) : i \in KeyOf(columns)}

\* introspect of MySQL: the first column of the key, and no check that the columns
\* configured exist.
MySQLFinds(c, table) ==
    LET columns == table.columns
        keys == KeyOf(columns)
        id == IF c.id # NoName THEN c.id
              ELSE IF keys = {} THEN NoName
              ELSE columns[CHOOSE i \in keys : \A j \in keys : i <= j].name
        wanted == ToSet(c.fields) \cup (IF id # NoName THEN {id} ELSE {})
        fields == {i \in Plain(c, columns) : c.fields # <<>> => columns[i].name \in wanted}
        srid == IF c.srid # 0 THEN c.srid ELSE table.srid
    IN IF columns = <<>> \/ ~GeometryAt(columns, c.geom) \/ (table.mariaDB /\ srid \notin {0, 4326})
       THEN {Refusal}
       ELSE {[ok |-> TRUE, id |-> id, srid |-> srid, fields |-> Picked(NamesOf(columns), fields),
              mvtID |-> NoName]}

\* pickLayer of a GeoPackage.
LayerFinds(c, package) ==
    LET ls   == package.layers
        want == IF c.layer = NoName /\ ls # <<>> THEN ls[1].table ELSE c.layer
        is   == {i \in DOMAIN ls : ls[i].table = want}
        l    == ls[CHOOSE i \in is : \A j \in is : i <= j]
    IN IF ls = <<>> \/ (c.layer = NoName /\ Len(ls) > 1) \/ is = {} THEN {Refusal}
       ELSE IF l.srid \notin {0, 3857, 4326} THEN {Refusal}
       ELSE {[ok |-> TRUE, id |-> NoName, srid |-> l.srid, fields |-> <<>>, mvtID |-> NoName]}

-----------------------------------------------------------------------------
End(status) == doing' = "end" /\ report' = [report EXCEPT !.status = status]

\* inspectSource takes up a source; a file is inspected before anything is opened.
TakeUp(c, w) ==
    /\ doing = "none" /\ c.kind = w.kind
    /\ config' = c /\ world' = w
    /\ IF c.kind \in {"geopackage", "geojson"} /\ ~AssetAllowed(c.policy, w.file, TRUE)
       THEN End("error") ELSE doing' = "check" /\ UNCHANGED report
    /\ UNCHANGED <<source, pools, before>>

\* New of the databases up to the introspection: the policy, and the connection; MySQL
\* is pinged and asked for its version, the pool of PostGIS connects when it is used.
Connect ==
    /\ doing = "check" /\ config.kind \in {"postgis", "mysql"}
    /\ \/ ~TableAllowed(config.policy, config.schema, config.table) /\ End("error") /\ UNCHANGED pools
       \/ /\ TableAllowed(config.policy, config.schema, config.table)
          /\ \/ doing' = "introspect" /\ pools' = pools + 1 /\ UNCHANGED report
             \/ End("error") /\ UNCHANGED pools
    /\ UNCHANGED <<config, world, source, before>>

\* introspect; New closes the pool when it fails.
Introspect ==
    /\ doing = "introspect"
    /\ \/ \E s \in IF config.kind = "postgis" THEN PostGISFinds(config, world) ELSE MySQLFinds(config, world) :
            IF s.ok THEN doing' = "ping" /\ source' = s /\ UNCHANGED <<pools, report>>
            ELSE End("error") /\ pools' = pools - 1 /\ UNCHANGED source
       \/ End("error") /\ pools' = pools - 1 /\ UNCHANGED source    \* a statement fails
    /\ UNCHANGED <<config, world, before>>

\* New of a GeoPackage: it is inspected, and its resolved path handed to SQLite; ...
InspectPackage ==
    /\ doing = "check" /\ config.kind = "geopackage"
    /\ \/ AssetAllowed(config.policy, world.file, TRUE) /\ doing' = "package" /\ pools' = pools + 1 /\ UNCHANGED report
       \/ End("error") /\ UNCHANGED pools
    /\ UNCHANGED <<config, world, source, before>>
\* ... which opens that path at the first query.  No second look tells whether the file
\* read is the one inspected.
LoadPackage ==
    /\ doing = "package" /\ pools' = pools - 1
    /\ \/ \E s \in LayerFinds(config, world) : s.ok /\ doing' = "ping" /\ source' = s /\ UNCHANGED report
       \/ End("error") /\ UNCHANGED source     \* also when a statement fails, or no feature is usable
    /\ UNCHANGED <<config, world, before>>

\* OpenAsset: the path is resolved and inspected, ...
InspectFirst ==
    /\ doing = "check" /\ config.kind = "geojson"
    /\ IF AssetAllowed(config.policy, world.file, TRUE)
       THEN doing' = "opening" /\ before' = [path |-> world.file.path] /\ UNCHANGED report
       ELSE End("error") /\ UNCHANGED before
    /\ UNCHANGED <<config, world, source, pools>>
\* ... the resolved path is opened, and a link put there meanwhile is followed, ...
OpenFile ==
    /\ doing = "opening"
    /\ \/ /\ doing' = "again" /\ before' = [path |-> before.path, file |-> world.file.inode]
          /\ pools' = pools + 1 /\ UNCHANGED report
       \/ End("error") /\ UNCHANGED <<before, pools>>    \* there is none, or it cannot be opened
    /\ UNCHANGED <<config, world, source>>
\* ... and the resolved path is resolved and inspected again: it must still be its own
\* resolution, and the file there the one that was opened.
\* Mutant: the paths are compared, not the files.
SamePath(b, file) == b.path = file.path
SameFile(b, file) == b.path = file.path /\ b.file = file.inode
InspectAgain ==
    /\ doing = "again"
    /\ IF AssetAllowed(config.policy, world.file, TRUE) /\ SameFile(before, world.file)
       THEN doing' = "read" /\ UNCHANGED <<report, pools>>
       ELSE End("error") /\ pools' = pools - 1
    /\ UNCHANGED <<config, world, source, before>>
\* ReadAsset reads the file it opened, which may have grown, up to the limit.
ReadFile(size) ==
    /\ doing = "read" /\ pools' = pools - 1
    /\ IF Fits(size, LimitOf(config.policy, TRUE))
       THEN /\ source' = [ok |-> TRUE, id |-> NoName, srid |-> 4326, fields |-> <<>>, mvtID |-> NoName,
                          file |-> before.file, size |-> size]
            /\ doing' = "ping" /\ UNCHANGED report
       ELSE End("error") /\ UNCHANGED source
    /\ UNCHANGED <<config, world, before>>

\* Somebody puts another file, or a link to one, where the path used next leads: the path
\* of the configuration, and the resolved one once it is resolved.
Swap(file) ==
    /\ \/ doing \in {"check", "opening", "again", "read"} /\ config.kind = "geojson"
          /\ world' = [world EXCEPT !.file = file]
       \/ doing \in {"check", "package"} /\ config.kind = "geopackage"
          /\ \E w \in {v \in Worlds : v.kind = "geopackage"} : world' = [w EXCEPT !.file = file]
    /\ UNCHANGED <<config, doing, source, pools, before, report>>

\* Ping; only a database can fail it.
PingOpened ==
    /\ doing = "ping"
    /\ \/ doing' = "describe" /\ UNCHANGED <<pools, report>>
       \/ pools = 1 /\ pools' = 0 /\ End("error")
    /\ UNCHANGED <<config, world, source, before>>

\* The report, ExcessPrivileges when a read-only role is required, and the deferred Close.
Describe ==
    /\ doing = "describe"
    /\ doing' = "end" /\ pools' = 0
    /\ \E probed \in BOOLEAN :
         report' = [status |-> "ok",
                    findings |-> IF ReadOnlyRole /\ pools = 1 /\ probed THEN world.excess ELSE {}]
    /\ UNCHANGED <<config, world, source, before>>

OpenNext ==
    \/ doing = "none" /\ \E c \in Settings, w \in Worlds : TakeUp(c, w)
    \/ Connect \/ Introspect \/ InspectPackage \/ LoadPackage
    \/ InspectFirst \/ OpenFile \/ InspectAgain
    \/ \E size \in 0..MaxLength : ReadFile(size)
    \/ \E f \in Swaps : Swap(f)
    \/ PingOpened \/ Describe
OpenSpec == OpenIdle /\ [][OpenNext]_opening

-----------------------------------------------------------------------------
OpenTypeOK ==
    /\ doing \in {"none", "check", "introspect", "package", "opening", "again", "read", "ping", "describe", "end"}
    /\ report.status \in {NoName, "ok", "error"} /\ pools \in 0..1

\* What a source opened on a table asks the database for exists: its fields are columns,
\* each is selected once, none but the id column is a geometry, and the id column is among
\* them, or features would have no id.  Left out are the id column configured for MySQL,
\* which nothing checks, and an id column that is a geometry.
Queryable(s, kind, columns) ==
    /\ \A i \in DOMAIN s.fields :
         /\ s.fields[i] \in Names(columns)
         /\ s.fields[i] = s.id \/ ~Named(columns, s.fields[i]).geo
         /\ \A j \in DOMAIN s.fields : s.fields[i] = s.fields[j] => i = j
    /\ kind = "postgis" /\ s.id # NoName => s.id \in Names(columns)
    /\ s.id \in Names(columns) /\ ~Named(columns, s.id).geo => Contains(s.fields, s.id)
    /\ s.mvtID # NoName => s.mvtID \in Names(columns) /\ Named(columns, s.mvtID).int
QueriesFit ==
    doing \in {"ping", "describe"} /\ config.kind \in {"postgis", "mysql"} =>
        Queryable(source, config.kind, world.columns)
\* What OpenAsset's comment says: whatever files and links take each other's place while a
\* GeoJSON file is opened, an archive that was accepted never turns into a file out of
\* the root, wherever that file is found, nor into one that is not regular; and no more is
\* read than the limit allows.  (Of a GeoPackage this is not so: see LoadPackage.)
FileAllowed ==
    doing \in {"ping", "describe"} /\ config.kind = "geojson" =>
        /\ Fits(source.size, LimitOf(config.policy, TRUE))
        /\ \A f \in Files : f.inode = source.file => f.regular /\ (config.policy.enforceRoot => f.inRoot)
\* When the inspection is over nothing is left open, and a source that could not be
\* opened is reported as an error.
NothingLeftOpen ==
    doing = "end" => pools = 0 /\ (source = <<>> => report.status = "error")
\* A source is opened on what it can serve, or not at all.
SourceFits == QueriesFit /\ NothingLeftOpen
=============================================================================
