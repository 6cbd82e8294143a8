# Verification of the GeoVerse map server

TLA+ models of `geoverse-map-server` (Go), the TLC configurations that check
them, and proofs of their main properties by TLAPS. Paths are relative to the
repository.

## The system

One process (`cmd/geoverse`) serves map tiles and features from configured
*sources*, runs geographic algorithms over them, and lets an operator edit the
sources while it runs. Every request is a goroutine; the shared state is small
and guarded by a handful of mutexes, or not guarded at all where it is a
directory of files.

| Component | State | Operations | What is hard |
|---|---|---|---|
| Source administration (`internal/server/admin_sources.go`) | `s.cfg.Sources`, `configMu` | list, probe, save, delete | an edit opens a candidate, pings it, writes a file, publishes, assigns, invalidates: every step may fail, and the process may die between any two |
| Source registry (`internal/source/registry`) | sources by name, order, retired closers, `reg.mu` | Replace, Remove, lookup, Ping, Close | requests use a source without a lock while it is replaced |
| Configuration file (`internal/config`) | the YAML file | Load, Validate, SaveSources | atomic replacement; a file that the next start accepts |
| Readiness (`internal/server/admin.go`) | cached verdict, `ready.mu` | `/readyz`, invalidation | a verdict collected before an edit and stored after it |
| Memory tier (`internal/cache/cache.go`) | map, LRU list, byte counter, `c.mu` | Get, Set, Purge, Len, Stats | four structures that must agree; counters read without the lock |
| Disk tier (`internal/cache/disk.go`) | a directory | Get, Set, Purge, Sweep | no lock at all: writers, readers, two walks and crashes interleave at every system call |
| Tile requests (`tiered.go`, `tiles.go`) | both tiers | look up, promote, render, store, purge | a rendering that crosses a purge or a replacement |
| Network manager (`internal/algo/network/manager.go`) | graphs, failures, one mutex | Graph | long builds under the mutex, cancelled contexts |
| Network graphs (`graph.go`, `index.go`) | one graph per network and its two grids, immutable once built | Build, NearestNode, NearbyEdges | end points that round to one key, one-way lines, grids at their border |
| Searches (`search.go`, `shortestpath.go`, `isochrone.go`, `mapmatch.go`) | costs, predecessors, a heap | Dijkstra, A*, Viterbi | stale heap entries, edges of no cost, cutoffs, candidates without a route |
| Contours (`isochrone.go`, `marching.go`) | a raster, lines, rings | mark, widen, outline, chain, nest | touching corners, islands in holes, cells too small |
| Clustering (`cluster/dbscan.go`) | labels | DBSCAN | cell numbers of 32 bits, the order of the points |
| Middleware and metrics (`middleware.go`, `metrics.go`, `admin.go`) | counters per status class and bucket | count, scrape | several counters per request, a deadline outside, panics |
| Archives (`pmtiles.go`, `mbtiles.go`, the tile routes) | directories, a table | open, Tile | a compact encoding, three path orders, flipped rows |
| Features (`features.go`, `mcpserver.go`, `memengine.go`, `postgis.go`, `mysql.go`) | an engine in memory, or a table others write to | page, fetch, draw | two statements per page, paging by offset, boxes round the globe |
| Opening sources (`assets.go`, `datasource_policy.go`, introspection, `diagnostics.go`) | pools and files open | inspect, open, introspect, ping, report, close | a path that changes between inspection and reading; columns that are configured and not there |
| Load generator (`bench/servebench`) | one counter, a result per worker | claim, send, merge | numbers claimed twice or never |
| Documents (OpenAPI, capabilities, tile matrix sets, links), server probe | none | | |

Interactions: handlers look a source up in the registry and keep it for the
request; an edit goes file, registry, memory, verdict, in that order; the
manager and the tile handler look sources up by name and keep what they made of
them (graphs, tiles) without ever hearing of an edit; the janitor of the disk
tier is the only background goroutine.

What makes each part correct, in one line: edits are serial and durable and the
file always loads; a published source is open and an abandoned one is owned by
nobody; a verdict describes what is published; a cache returns what was stored
under that key, or nothing; stale tiles are bounded; a graph is built once and
one caller's deadline is not another's failure; everybody who waits for a mutex
gets it; costs are least, chains best, clusters dense, and polygons cover what was
reached; a tile or a feature is the one that was asked for; counters agree with
what happened; nothing that was opened stays open.

## Modules

| Module | Models | Built on |
|---|---|---|
| `SourceAdmin` | admin_sources.go, registry.go, config.go (SaveSources), admin.go (readiness), main.go (start, drain, close) | |
| `SourceAdminProofs` | theorems about `SourceAdmin` | `SourceAdmin`, TLAPS |
| `TileStore` | what one tier of the cache promises (abstract) | |
| `MemCache` | cache.go | implements `TileStore` |
| `MemCacheProofs` | theorems about `MemCache` | `MemCache`, `DataTheorems` |
| `DiskCache` | disk.go | implements `TileStore` |
| `DiskCacheProofs` | theorems about `DiskCache` | `DiskCache`, `DataTheorems` |
| `TileServer` | tiles.go over tiered.go, one tile address | the promise of `TileStore` for both tiers |
| `TileServerProofs` | theorems about `TileServer` | `TileServer`, TLAPS |
| `Listing` | finite sets as sequences: what a sort or a filter leaves | |
| `DataTheorems` | what sums, extremes, listings and recursion over numbers compute, for the proofs | `Listing`, TLAPS |
| `AlgorithmRuns` | network/manager.go under algorithms.go and the Run methods | |
| `NetworkGraph` | the graph itself: lengths, prices, edges out of a node, and least costs as reference | |
| `GraphBuild` | graph.go (Build), index.go | `NetworkGraph` |
| `GraphSearch` | search.go; PathTo; what isochrones read from a search | `NetworkGraph` |
| `Routing` | the Run methods over both: snap, then search | `GraphBuild`, `GraphSearch` |
| `NetworkProofs` | theorems about `Routing` and what it is built on | `Routing`, `DataTheorems` |
| `MapMatch` | mapmatch.go | `Routing`, `Listing` |
| `Clustering` | dbscan.go | `Listing` |
| `Contours` | isochrone.go (contourForCutoff), marching.go | |
| `AlgorithmProofs` | theorems about `AlgorithmRuns`, `MapMatch` and `Clustering` | these, `NetworkProofs` |
| `RequestPipeline` | middleware.go, metrics.go, the scrape in admin.go, under `http.TimeoutHandler` | |
| `ServeBench` | bench/servebench | |
| `TileArchive` | the tile routes, tilemath.go, pmtiles.go, mbtiles.go | |
| `FeaturePaging` | features.go, the feature tools of mcpserver.go, memengine.go, Features/Feature/Tile of postgis.go and mysql.go | `Listing` |
| `SourceOpen` | assets.go, datasource_policy.go, introspection, geopackage.go (New), inspectSource of diagnostics.go | `Listing` |
| `ServingProofs` | theorems about `RequestPipeline`, `ServeBench`, `SourceOpen` and `FeaturePaging` | these, `DataTheorems` |
| `MC<M>` | the instance of module `M` that TLC checks | `<M>` |
| `MCAlgorithms` | an instance of everything that computes on features | `MCAlgorithmRuns`, `MapMatch`, `Clustering`, `Contours` |
| `MCServing` | an instance of everything between a request and its data | the five modules above it |

`MCAlgorithms` and `MCServing` hold several parts that share no state (or only a
graph that does not change any more). The variable `setup`
picks one part for a behaviour; the others keep their initial state. So each
part is explored exactly as it would be alone, and the number of runs stays
small.

Definitions named after a mutation (their comment begins with "Mutant:") are not
part of any specification. Each is a wrong version of the definition that
follows it; replacing the right one by it makes the property it is paired with
in `PROJECT.json` fail, which shows that the property has teeth.

### SourceAdmin

Variables: `file` is the source list on disk, `cfg` is `s.cfg.Sources`,
`sources`/`order`/`retired` are the maps of the registry, `conf` gives each
backend ever opened the configuration it was opened with and `closed` those
that were closed. `configMu`, `readyMu` are the mutexes; `reg.mu` is held for
longer than a step only by `Ping`, for reading (`RegRLocked`). `pc`, `req`,
`cand`, `next` belong to a management request; `ppc`, `todo`, `got` to a
readiness probe; `using` is the backend a data request captured.

A save is `BeginSave` (lock, merge the secret, early refusals), `OpenCandidate`,
`PingAccepts`/`PingRejects`, `WriteTemp`, `RenameFile`, `Publish`,
`AssignConfig`, `InvalidateReadiness`; `SaveFails`, `OpenFails` and the
refusals close the candidate and unlock. A delete skips opening; a probe of a
candidate ends after the ping. `Exit` may happen at any moment and leaves only
the file; `Start` reads it again. `Drain` and `CloseRegistry` are the shutdown
of `run` in main.go.

### MemCache, DiskCache, TileStore

`TileStore` is a store that may forget any entries at any moment but never
answers with anything else than what was stored last under that key. The tiers
implement it (`ImplementsStore`, checked as a property with the refinement
mapping `stored <- contents of the tier`).

`MemCache`: each method is one step because it holds `c.mu`, except that `Set`
inserts before it evicts and `Stats` reads its figures at different moments.
The history variable `recent` orders keys by last use without regard to what
was evicted, which is what makes `KeepsRecent` a statement about LRU instead of
a copy of the list.

`DiskCache`: every system call is a step (`Stat`, `ReadFile`, `CreateTemp`,
`Write`, `Rename`, removals one by one, each file a walk meets). Walks meet
names in any order, which covers names that appear while they run. Files carry
the time since their mtime; a rename keeps it. `Restart` keeps the files and
forgets everything else. Clocks are assumed to go forward.

### TileServer

One address, two tiers as single entries with two ages: since stored, which
expires them, and since rendered (`born`), which is what staleness is about.
Requests keep the backend they looked up. Data changes and replacements are
numbered; `due` is what the purges before a request promise it.

### AlgorithmRuns

`Graph` is `GraphKnown`, `ErrorKnown`, or `Lock`, `Lookup`, `Load`, then `Built`
or `Record` with the mutex held. The context of a run ends by `Cancel` at any
moment; whoever looks at it may or may not have noticed yet.

### NetworkGraph, GraphBuild, GraphSearch, Routing

Places are whole numbers on a line with a level; `Dist` stands for the
great-circle distance, `Quantize` rounds to `Quantum` as the code rounds to a
millionth of a degree, times are in fractions of `Scale`. On a line the triangle
inequality holds, which is all the algorithms ask of a distance.

The line is one of longitude where the grids are concerned. A query looks at the
cells within its radius *in degrees*, and `metersPerDegree` takes a degree for
111320 m (`GridDegree`, times the cosine of the latitude) where `Haversine` with its
radius of 6371008.8 m makes it 111195 m (`ArcDegree`). So the window of a query is
about 0.11% narrower than its radius (`Cells`, `InWindow`), and what lies between the
two is found only if it shares a cell with the window. `GridsFind` says exactly what
is found. That is less than the comment on `NearestNode` says, that false is returned
only if no node is in range: with a snap radius of 500 m a node in the last 56 cm, in
the next cell, is missed, and the run has such queries. In latitude the
constant is 111132 m, which makes the window wider than the radius: that is the same
definition with the two constants the other way round, and the theorem does not
assume an order. That a degree of longitude is narrower away from the latitude of the
query point, and that it is taken for at least a metre near the poles, are not
modelled.

`Build` is `NextFeature` (the look at the context every `CheckInterval`
features, the pieces of its lines), `AddPiece` for each, and `FinishBuild`, which
indexes the edges and fills both grids. A search is `StartSearch`, then `Pop`
(a stale entry, the target, or a node to expand) and `Relax` once per edge, until
the heap is empty or the target is settled; ties in the heap are broken either
way. `LeastUpTo` is the reference: least costs over walks of at most as many edges as
there are nodes. `Routing` starts searches as `ShortestPath.Run`,
`Isochrone.Run` and `exitSeeds` of map matching do.

### MapMatch, Clustering, Contours

`MapMatch` scores one row of candidates per group of steps: one seeded search
per predecessor (`Transition`), then the fallback for candidates no transition
reached (`EndRow`), then `Backtrack`. Emissions and transitions are integers of
the same shape as the code's floats, all at most zero. `Chains` and `Weight`
define what a best explanation is without reference to rows: every candidate of
every point, each step by a route, or by none where no candidate of the point
before has one. Candidates at one distance come in any order (`CandidateLists`),
since `sort.Slice` is not stable: which of them are kept, and the chain among equals,
is open. `MatchSpec` matches traces on a graph being built;
`MCAlgorithms` does so on each of its graphs.

`Clustering` scans points one per step and grows clusters one neighbour per
step. There are `2 * HalfRange` cell numbers, and they overflow as the conversion
does on amd64, so that the wrapped-around neighbours of the grid occur.

`Contours` marks one segment per step, widens, outlines, follows rings one line
per step and nests them. Places are metres on a plane and cells whole numbers.

### RequestPipeline, ServeBench

`RequestPipeline` has one status class per request as data. `rec` is what
`statusRecorder` sees, `buffer` what `http.TimeoutHandler` keeps for the client.
`observe` is split between the counters other code compares (`CountClass`,
then one bucket per step), and so is the scrape. `Deadline` answers the client
and leaves the handler running, as the standard library does.

`ServeBench` is the mode with a fixed number of requests. `flags` is how it is
called: how many warm-up requests, and whether a request can be made at all
(`http.NewRequest` refuses an invalid `-method`). With a warm-up such a program exits
(`WarmUp`); without one every number ends in `NotMade`, an error without a latency.
The history variables `sent`, `unmade` and `read` are what went out, what did not and
what came back, for the report to be compared with.

### TileArchive, FeaturePaging, SourceOpen

`TileArchive` starts from what an archive *should* hold (`truth`), encodes it as
a writer would (runs, shared contents, contiguous offsets, levels of leaves) and
follows a request from its path to the bytes. Some archives are damaged in the three
ways the reader can tell: an empty directory or entry, a first offset of 0, an offset
beyond the data. The zoom levels served are those of the header or the metadata, for
PMTiles unless the configuration has its own (`Lowest`, `Highest`).

`FeaturePaging` follows `next` links until there is none. The rows of a database
table may be edited between any two statements; which order a statement without
an id column returns rows in is left open. The projection is a plane. An id column
is taken to be unique (`Unlike`), and the code does not see to that: a configured
`id_column` is not checked, and of a composite primary key introspection picks one
column (any of them for PostGIS, `postgis.go:148-152`, the first for MySQL,
`mysql.go:203`), whose values may repeat. `ORDER BY` then leaves the order of rows with one
id, and so the pages, to the database; nothing is claimed of such collections.

`SourceOpen` takes one configured source through `inspectSource`: policy,
opening, introspection, ping, privileges, close. `world.file` is what the path used
next leads to; meanwhile other files, or links to files anywhere, may be put there
(`Swap`), and files grow by up to `MaxLength` while they are read. A GeoJSON file is
opened by `OpenAsset`: `InspectFirst`, `OpenFile`, which follows whatever link it
finds at the resolved path, and `InspectAgain`, which alone tells whether the file in
hand is the one allowed. A GeoPackage is inspected (`InspectPackage`), and SQLite
opens its path by name at the first query (`LoadPackage`) with no second look, so
what is read then is whatever lies there. `FileAllowed` is therefore about GeoJSON
files only. `Plain` and `Mentions` are the two loops that choose fields.

## Runs

| Run | Question | Bounds |
|---|---|---|
| `edits` | Do file, memory and registry survive concurrent edits, failures and crashes? (`ConfigConsistent`, `FileLoadable`, `BackendsOwned`, `SerialEdits`) | two requests, two names, two databases and a file type, three backends per process: enough for a replacement, an addition and a removal to overlap |
| `probes` | Do verdicts and captured sources survive edits, and does everybody finish? (`VerdictCurrent`, `InFlightOpen`, `EditsEnd`, `ProbesEnd`, ...) | one editor (edits are serial by `configMu`), two probes, one reader, two backends |
| `shutdown` | violated: does the registry close only when nobody uses a source? | as needed for one reader |
| `lru` | Is the memory tier an LRU cache with right figures that implements `TileStore`? | three keys over a capacity of two, two lengths, two lookups and evictions |
| `disk` | Do files ever show half a tile or another one? (`TypeOK`, `ImplementsStore`) | one key, two tiles of it, two clients, two temporary files, a purge, a crash |
| `disk_sweep` | Does a sweep keep the size bound against writers and purges, and are temporary files of dead processes removed? (`SweepBounds`, `OrphansGo`) | one key and one temporary file of 5 bytes each under a limit of 9, so that both together have to be evicted from; one writer, a purge, expiry, a clock that may move during a sweep, two crashes |
| `stale_tiles` | How old can a tile be, after a purge and without one? | two requests, two revisions, times to live 1 and 2 |
| `purge_promise` | violated: is a purge effective on a live server? | two requests |
| `uncacheable` | violated: do sources that are not cacheable skip the cache? | one request |
| `algorithms` | Is a network built once, never poisoned, and does every run end; is what is computed on it right? (`OneGraph`, `NotPoisoned`, `Settled`, `RunsEnd`; `GraphSound`, `IndexesFind`, `LeastCosts`, `RoutesSound`, `SearchEnds`, `ChainBest`, `ClustersDense`, `PolygonsCover`) | two runs over two networks; 33 lists of up to four features on positions of which two share a key, with one-way lines, stairs, a lift and an express connector faster than any street; every snap point, level, cost and two cutoffs; four cells and both measures of a degree; 125 traces of three points; 128 collections of four; 11 drawings and three cell sizes |
| `serving` | Do counters, archives, pages and opened sources match what was asked? (`CountersAgree`, `RecordedAsSent`, `ReportExact`, `ArchiveFinds`, `CollectionExact`, `SourceFits`, `FileAllowed`) | two requests, two buckets, one scrape; two workers and two requests, with a warm-up and without, with a method that can be sent and one that cannot; zooms 0 to 2 with up to three levels of leaves and one archive nested too deep; three or four rows and one edit (`CollectionsAreExact` has the case of several), five ids, zooms 0 to 2; five table layouts, nine files and packages |
| `cancelled_runs` | violated: is a cancelled run reported as cancelled? | two runs |

What the violated ones show:

* `shutdown`: `reg.Close()` is deferred in `run` and happens when `Shutdown`
  returns, also at its ten-second deadline with requests still running, and
  handlers that `http.TimeoutHandler` abandoned are not waited for at all. The
  comment on `Registry.Remove` promises that no request observes a closed
  backend.
* `purge_promise`: a request that missed the cache before a purge stores its
  tile after it. `FreshAfterLonePurge` in `stale_tiles` shows that this is the
  only way: a purge that no request crosses takes effect.
* `uncacheable`: `serveTile` asks the cache for every source and looks at
  `Cacheable` only before storing; nothing invalidates tiles when a source is
  replaced, so the new source is answered from the tiles of the old one (under
  the content type of the new one).
* `cancelled_runs`: the `Run` methods wrap every error of `Manager.Graph` in a
  `UserError`, so a build that stopped for the caller's context is answered 400
  and logged as rejected.

Why the bounds are enough: every branch of every action is taken in some passing
run, except the end of an open chain in `EndRing`, which the code itself marks as
impossible (`marching.go:168`) and `PolygonsCover` shows to be so here. The graphs
contain what the algorithms distinguish: a node reached twice at different cost,
two routes of equal cost, an edge of no cost, a connector that beats the
heuristic, twins and one-way edges in both node orders, an unreachable part.

Things the models leave out of a property because the code does otherwise, which
a reader should know:

* A* promises the least-cost path (`search.go:139`). With a connector of fixed
  duration over a distance, the heuristic is not admissible, and the run has graphs in
  which the path found is dearer than the least; `LeastCosts` asks for the least cost
  only where the heuristic is consistent, and for some path everywhere.
* `NearestNode` and `NearbyEdges` miss what lies just within the radius but beyond the
  window of the query, in the next cell (`index.go:93-97`, `174-178`); `IndexesFind` asks
  them for what the window holds.
* An MBTiles archive whose metadata give a negative minimum zoom serves no tile,
  because the level is compared as a `uint32` (`tiles.go:88`); `ArchiveFinds` leaves
  it out. A PMTiles archive whose offsets are wrong but valid shows another tile.
  Writer and reader of the model share `IDOf`, so of the Hilbert curve only that
  different tiles have different numbers is checked.
* `FileAllowed` leaves out GeoPackages, which are opened without a second look.
* `Settled` says that what is remembered of a network stays, which is what the code
  documents; that an edit of the source never reaches it is the price
  (`manager.go:62-69`), and no property holds that against it.
* `StaleBound` bounds the age of a tile. That the tile comes from a predecessor of
  another format, if the source was replaced, is not in the model.
* `Features` of MySQL sends `MBRIntersects` a box of any width, although `Tile`
  takes care not to (`mysql.go:466`); `CollectionExact` leaves out boxes wider
  than a hemisphere.
* `http.TimeoutHandler` wraps the metrics: a client that was answered 503 is
  counted under the status its handler ended with. `RecordedAsSent` leaves those
  requests out, and those that panicked with their answer begun, for which the
  recorder has a second status (`middleware.go:116`).
* An id column configured for a MySQL source is not checked to exist, and one that
  is a geometry is selected as a field by `postgis.go:181` if fields are configured
  and not otherwise (`QueriesFit` leaves both out); a row of PostGIS without geometry fails the page
  it is on (`PagesFail`).

### Fairness

`SourceAdmin`: goroutines that can run do; opening a source and pinging it
return (both run under contexts with deadlines); strong fairness on the two
steps that wait for a mutex, because `sync.Mutex` has a starvation mode and a
waiting writer of a `sync.RWMutex` holds new readers back. No fairness on the
arrival of requests, on failures or on shutdown. `DiskCache`: the clock
(strong, since the model stops it during a sweep once `MaxLag` has passed) and
the janitor's steps, never clients. `AlgorithmRuns`: strong on taking the
mutex, weak on the steps of a run; sources answer because every request's
context ends at the server's timeout. `Routing`: weak on the steps of a search,
which is a loop that waits for nothing.

## Proofs

`SourceAdminProofs` proves, for every set of names, requests, probes and
readers and every bound on backends, under the assumption on the constants
named in `SourceAdmin`:

| Theorem | Statement |
|---|---|
| `TypeCorrect` | `Spec => []TypeOK` |
| `Inductive` | `Spec => []IInv` |
| `AlwaysLoadable` | `Spec => []FileLoadable` |
| `EditsSerial` | `Spec => SerialEdits` |
| `Consistent` | `Spec => []ConfigConsistent` |
| `Owned` | `Spec => []BackendsOwned` |
| `NeverClosedUnderRequest` | `Spec => []InFlightOpen` |
| `VerdictNeverStale` | `Spec => []VerdictCurrent` |

None of the invariants is inductive. `ConfigConsistent` speaks of the moments
between edits only; what carries it through an edit is what the holder of
`configMu` has done so far (`HolderInv`): before the rename file and memory
agree and `next` is the requested edit of them, after it the file is `next`;
and that nobody but the holder is past `BeginSave`/`BeginDelete` (`EditInv`).
The registry publishes exactly one list at each point of an edit (`RegInv`,
`Matches`). `BackendsOwned` needs the owners to be disjoint (`OwnInv`: published,
retired, candidate) and a process that is down to own nothing (`DownInv`).
`InFlightOpen` needs that what a request uses is published or retired
(`ReaderInv`). `VerdictCurrent` needs what a probe has collected so far to
describe the names it has asked (`VerdictInv`), and that an edit which has
published has not yet released `configMu` before it has taken `ready.mu`. The
conjunction is `IInv`; its parts are proved in that order, each from the parts
before it, one step per action, with lemmas on the lists (`PutSource`,
`DropSource`, `WithoutIndex`, `NameList`) cited by name.

`AlgorithmProofs` proves, for every set of runs and networks and any number of
revisions, about `AlgorithmRuns`:

| Theorem | Statement |
|---|---|
| `TypeCorrect` | `Spec => []TypeOK` |
| `Inductive` | `Spec => []IInv` |
| `OneGraphForAll` | `Spec => []OneGraph` |
| `NeverPoisoned` | `Spec => []NotPoisoned` |
| `SettledForGood` | `Spec => Settled` |

`OneGraph` and `Settled` rest on the mutex: the steps of a build are taken only
by the run that holds it (`LockInv`), and as long as it builds, nothing is known
of its network (`BuilderInv`), because it looked after it had locked. A run that
searches therefore has a network with a graph (`RunInv`), and a build that ends
cannot replace the graph of a run. `NotPoisoned` needs that a build which failed
as cancelled finds its context ended when it records the failure, since a
context that has ended stays so (`RunInv`). `Settled` also needs that no network
has a graph and a failure (`OneVerdict`).

It also proves, for all features, any radius, any density and any number of cells:

| Theorem | Statement |
|---|---|
| `ClusterTypeCorrect` | `ClusterSpec => []ClusterTypeOK` |
| `ClustersAreDense` | `ClusterSpec => []ClustersDense` |

`ClusterInv` says of the labels given so far (`Labelled`): around a core point of a
cluster everything has a cluster, and core points have the same one, unless they
wait in the queue (`Closed`); what waits is near a core point of the cluster under
way (`QueueNear`); core points of one cluster are connected (`OneComponent`); a
border point has the cluster of a core point near it, noise is not core, and every
number below the next is in use. When the queue is empty, the core points of a
cluster are a set closed under `Spread`, which contains everything connected to
them. That the grid loses no neighbour
holds although cell numbers wrap around: two points within the radius are in the
same or adjoining cells before the conversion, and the conversion and `Wrap` keep
them so, or clamp both into the one least cell. The definition says `Connected` as
the intersection of closed sets, which needs no induction.

And for every graph `Routing` may build, any trace and any number of candidates:

| Theorem | Statement |
|---|---|
| `MatchTypeCorrect` | `MatchSpec => []MatchTypeOK` |
| `ChainsAreBest` | `MatchSpec => []ChainBest` |

`MatchInv` is the argument for Viterbi's recursion: in each row scored, a score is
what its back pointer says and no allowed predecessor would give more
(`ScoredRow`); of the row being scored the same holds for the predecessors
searched so far (`LineInv`), and the fallback of `EndRow` is taken by exactly the
candidates none of them reached. Along any chain the score of the last row is then
at least the sum of its steps, and along the chain of back pointers it is that
sum. `RouteD` is a least cost, known from `NetworkProofs`; a stretch drawn through
either end of an edge is no longer, because it takes the cheaper of the two
entries the cost is the least of.

`MemCacheProofs`, for every set of keys, every finite set of revisions, every
capacity and time to live:

| Theorem | Statement |
|---|---|
| `TypeCorrect` | `Spec => []TypeOK` |
| `Inductive` | `Spec => []IInv` |
| `AccountsExact` | `Spec => []Accounting` |
| `RecentKept` | `Spec => []KeepsRecent` |
| `ReportsBounded` | `Spec => []ReportBounded` |
| `StoreImplemented` | `Spec => ImplementsStore` |

`Accounting` speaks of the moments between calls. `ListInv` carries it through
`Set`: no key is twice in the list, its keys are those of the map, and there is
one entry too many exactly while `Set` evicts. `KeepsRecent` compares the list
with the history of uses, of which the list is a part in the same order
(`OrderInv`); so what eviction takes, the last of the list, was used before
everything else that is there. The refinement is proved step by step, as for
the other tier: a lookup is a `Look` of the store, an insertion a `Put`, and
expiry, eviction and purges are steps in which the store forgets.

`DiskCacheProofs`, for every finite set of keys, clients, temporary names and
revisions, and all sizes, ages and limits:

| Theorem | Statement |
|---|---|
| `TypeCorrect` | `Spec => []TypeOK` |
| `Inductive` | `Spec => []IInv` |
| `StoreImplemented` | `Spec => ImplementsStore` |
| `SweepsBounded` | `Spec => SweepBounds` |

That a lookup finds whole tiles rests on `CallInv` (a temporary file has one
owner, and holds the owner's whole tile from the moment it is written, if
a sweep has not taken it away) and `KeyInv` (a file under a tile's name is that
tile). `SweepBounds` needs an account of the directory in the middle of a sweep
(`SweepInv`): there is a set of names, the fresh ones, which hold no more than
what was written since the sweep began, and every other file is empty, still to
be met, about to be removed, or recorded with its size. An eviction by recorded
name and size keeps this even where the file recorded is not the file removed. The
argument is about sums over the files of a directory; `DataTheorems` has what it needs
of them.

`TileServerProofs`, for every set of requests, any number of revisions and any
times to live:

| Theorem | Statement |
|---|---|
| `TypeCorrect` | `Spec => []TypeOK` |
| `Inductive` | `Spec => []IInv` |
| `StalenessBounded` | `Spec => []StaleBound` |
| `LonePurgeTakesEffect` | `Spec => []FreshAfterLonePurge` |

`StaleBound` follows from the age of a tile in each place it may be: on disk it
is as old as its entry, in memory older than its entry by no more than the disk
keeps tiles, and a request that promotes one has it from the disk (`AgeInv`).
`FreshAfterLonePurge` needs to know of every place a tile may be (both tiers,
requests between rendering and storing) that none holds an older one once a
purge ended that no request crossed.

`ServingProofs`, for every finite set of requests and any number of buckets,
about `PipelineSpec`:

| Theorem | Statement |
|---|---|
| `TypeCorrect` | `PipelineSpec => []PipelineTypeOK` |
| `Inductive` | `PipelineSpec => []IInv` |
| `CountersCorrect` | `PipelineSpec => []CountersAgree` |
| `SentAsRecorded` | `PipelineSpec => []RecordedAsSent` |

`CountersAgree` compares counters with requests when none is being counted, and
a scrape with itself. `CountInv` says which requests each counter has counted at
every moment, as the cardinality of a set; `ScrapeInv` that what a scrape under
way has read of the buckets was counted before what it will read of the count.
`SentInv` ties the three copies of an answer (recorded, buffered, sent) together
as long as neither the deadline nor a panic has come between them.

For every finite set of workers, any number of requests and every zoom level, about
`BenchSpec`:

| Theorem | Statement |
|---|---|
| `BenchTypeCorrect` | `BenchSpec => []BenchTypeOK` |
| `ReportsAreExact` | `BenchSpec => []ReportExact` |

`Claims`: a number below the counter is done or waited for by exactly one worker,
and the counter exceeds the number of requests by no more than one per worker that
ended; sent if a request can be made, and otherwise counted as one that cannot.
`Counts`: what all workers have counted, in sum, is what was sent, read and not made.
`Reports`: a worker that ended has handed in its count, and the report is the sum.
Two requests never ask for the same tile because the multiplier 40503 is odd: it
cancels modulo a power of two, and the grid has a power of four tiles.

For all configurations, tables, layers and files that `OpenAssumption` allows,
about `OpenSpec`:

| Theorem | Statement |
|---|---|
| `OpenTypeCorrect` | `OpenSpec => []OpenTypeOK` |
| `SourcesFit` | `OpenSpec => []SourceFits` |
| `FilesAreAllowed` | `OpenSpec => []FileAllowed` |

The assumption says that the columns of a table differ in their names and have one,
which databases see to; and that a file (an inode) lies within the root or not, and
is regular or not, wherever and whenever it is found: no file is linked or moved
across the border of the root. `OpenInv`
knows which stages have a pool or a file open (`OpenStages`), that what is found is
of the kind configured (`OfItsKind`), and that a GeoJSON file which passed the second
inspection is the one that was opened (`Inspected`): if a link to a file elsewhere was
opened, either it still lies there, and the second inspection sees where it leads, or
something else does, and `SameFile` sees that; a replacement after the inspection
changes the path and not the file in hand.

For all collections, parameters, ids and zooms that `PagingAssumption` allows, any
number of edits, any grid, limits and world, about `PagingSpec`:

| Theorem | Statement |
|---|---|
| `PagingTypeCorrect` | `PagingSpec => []PagingTypeOK` |
| `CollectionsAreExact` | `PagingSpec => []CollectionExact` |

The assumption says that rows have proper boxes and differ, and that ids in an id
column are unique. `PagingInv` has three parts besides the types and `CollectionExact` itself:

* `RowsKnown`: what was there when the walk began and still is, is in the table; the
  rest are newcomers.
* `Undisturbed`: while nobody edits, the pages are a piece of one sequence (`Line`),
  from the offset asked for, and the count of the page under way is its length.
* `Drift`, for a table with an id column: `PassedBy` is the rows below the offset that
  no page showed, `ToCome` the rows at or above it that one did. A page adds to
  neither; an insertion or a deletion moves the place of every later row by one, so it
  pushes at most one row over the offset, and an edit adds at most one to either
  (`RowArrives`, `RowLeaves`). A walk ends by the count that was taken before the page;
  `Uncounted` is how many more rows there are by the time of the page. When the walk
  ends, at most so many are at or above the offset, so what is missing and what is
  repeated is bounded by the edits.

For single features, `ByIDFacts` is what the index by id holds. For tiles, `QueryFacts`
shows that boxes which touch have a cell of the grid in common (`CellsMeet`: cell numbers
grow with the coordinate and are clamped), so no query of the grid loses a feature;
and `WiderTouch` and `ClampedTouch` that the margin of a tile, and the clamp of MySQL
but for the antimeridian, keep what touches the tile.

`NetworkProofs`, for every set of features a source may give (each finite, of any
number), any places, levels, speeds, grid, rounding and measures of a degree, any snap radius
and any cutoffs, about `RoutingSpec`:

| Theorem | Statement |
|---|---|
| `NetworkTypes` | `RoutingSpec => [](BuildTypeOK /\ SearchTypeOK)` |
| `Searching` | `RoutingSpec => []RoutingInv` |
| `GraphIsSound` | `RoutingSpec => []GraphSound` |
| `IndexesFindWhatIsNear` | `RoutingSpec => []IndexesFind` |
| `CostsAreLeast` | `RoutingSpec => []LeastCosts` |
| `RoutesAreSound` | `RoutingSpec => []RoutesSound` |

`RoutingInv` is `BuildInv /\ SearchInv`. `BuildInv` says of every prefix of the
features that its nodes have different keys and its two-way edges their twins
(`Distinct`, `Twins`), and of a ready graph what each cell of the grids holds.
From that alone `NearestIsNearest` and `NearbyIsNear` conclude that the cells a
query looks at hold every node and edge within its window, because cell numbers
are monotonic in the coordinate, and `Clamp` keeps that outside the extent; and that
where the window holds a node, the one returned is a nearest of all within the
radius. That the window is the radius is not so, and not claimed.

`SearchInv` is about a search of any graph that `BuildInv` allows:

* `CostInv`: a cost is that of a seed, or pays for the predecessor's cost and the
  edge between; `Acyclic`: no set of nodes has all its predecessors inside, which
  is what edges of no cost threaten. An improvement keeps it since it is strict.
  `Rank` counts the nodes on the way back, so that `PathTo` ends (`PathIsTraced`),
  and no cost is less than that of some walk (`NoCheaperThanWalks`).
* `DijkstraInv`: a reached node is in the heap at its cost, or no edge out of it
  gains anything except those still `left`. Once the heap is empty, no walk is
  cheaper than a cost (`NoDearerThanWalks`), cutoffs included.
* `AStarInv`: a reached node is settled or in the heap at no more than its
  estimate. So a search that empties the heap has reached all there is.
* `OrderInv`, for a consistent heuristic: every estimate settled is at most every
  priority still in the heap, and settled nodes have nothing to gain from each
  other. So the target, when it is popped, is no dearer than any walk
  (`SettledInOrder`), although a settled node is never opened again.

`LeastWithin` is a recursive function; its values are compared with the search by
smallest counterexample over the length of the walks (`Walks`).

The constants of these modules are assumed to be finite sets where the code
works on finite things (clients, keys, revisions, requests): sums over them are
defined for finite sets only. `DataTheorems` proves what `SumFunctionOnSet`, `Max`
and `Min` of the community modules and the operators of `Listing` compute, by
smallest counterexample: among the subsets for which a claim fails one would have
no smaller one, and removing an element from it contradicts that. Functions that
recurse over numbers are known by their iterates (`IteratesExist`).

Only model-checked:

* `ArchiveFinds` and `PolygonsCover`. The first follows a recursive encoding, the
  other compares a raster with chained and nested rings; each is an induction over the
  data itself, not over the steps.
* `AnalysesTypeOK` and `ServingTypeOK`, the type invariants of the composed
  instances; those of the parts are proved, but for `Contours` and `TileArchive`.
* All liveness (`EditsEnd`, `ProbesEnd`, `OrphansGo`, `RunsEnd`, `SearchEnds`),
  which is out of the prover's reach.

`TypeOK` of `SourceAdmin` and of `MemCache` are proved and not in a run, since the proof
says more.

## What is left out

* Contents: in the models of shared state sources are names with a type and a
  secret, tiles an address and a revision, graphs the revision they were built
  from.
* Floating point: distances, projections and scores are whole numbers. Errors of
  rounding are outside the models, except where the code rounds on purpose.
* Libraries: clipping and MVT encoding, simplification of rings and lines,
  decompression, SQL as the databases run it, decoding of geometries.
* Text: OpenAPI and capabilities documents, tile matrix sets, TileJSON, the
  report of the doctor, DSN parsing, YAML layout, environment overrides. They
  depend on no state.
* The dispatch of MCP messages, which keeps no state, and `bench/serveprobe`,
  which asks a list of questions one after the other.
* `servebench` with a fixed duration, its percentiles and output.
* Power failures (the disk tier and the configuration file are not synced
  everywhere); crashes are those of the process.
* `handleListSources`, `Stats` and other reads that change nothing and promise
  nothing.
* In `TileServer` time stands still while a request runs, so the bound on
  staleness is exact only up to the duration of a request.
* The parts listed as `not_modelled` in `PROJECT.json`, for the reasons there.

## Plan

1. Done: `SourceAdmin` and `AlgorithmRuns`, the caches with `TileStore`,
   `TileServer`, the algorithms (`MCAlgorithms`) and the way from a request to its
   data (`MCServing`).
2. Done: all of `SourceAdmin`, `AlgorithmRuns`, both tiers of the cache,
   `TileServer`, `Routing`, `MapMatch`, `Clustering`, `RequestPipeline`,
   `ServeBench`, `FeaturePaging` and `SourceOpen` is proved but for liveness.
3. Left to TLC: what contours and archives compute (`PolygonsCover`,
   `ArchiveFinds`).
