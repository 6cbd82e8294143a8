---------------------------- MODULE SourceAdmin ----------------------------
(***************************************************************************)
(* Online administration of the data sources of one geoverse process:      *)
(* POST/DELETE /admin/sources and POST /admin/sources/probe                *)
(* (internal/server/admin_sources.go), the registry of opened sources they *)
(* edit (internal/source/registry/registry.go), the configuration file     *)
(* they persist to (config.SaveSources), the readiness verdict they        *)
(* invalidate (internal/server/admin.go), the requests that hold a source  *)
(* meanwhile, and the life of the process: start, crash, shutdown          *)
(* (cmd/geoverse/main.go).                                                 *)
(*                                                                         *)
(* Locks: configMu serialises the edits; reg.mu is a read/write lock whose *)
(* write sections are single steps here and whose only long read section   *)
(* is Registry.Ping; ready.mu is held by the probe that refreshes the      *)
(* verdict.  Opening a source yields a backend, named by its position in   *)
(* `conf', the list of configurations opened so far by this process.       *)
(***************************************************************************)
EXTENDS Naturals, Sequences, FiniteSets

CONSTANTS
    Names,           \* source names an operator may use
    Databases,       \* source types that need a dsn (postgis, mysql)
    DSNs,            \* data source names (credentials) of databases
    Blank,           \* an empty dsn: a file source, or an edit that leaves it out
    NetworkSources,  \* names the configured routing networks refer to
    InitialFile,     \* the sources section of the configuration file at first
    Admins,          \* concurrent management requests
    Probes,          \* concurrent readers of the readiness verdict
    Readers,         \* concurrent data requests (tiles, features)
    MaxOpen,         \* bound: backends one process may open
    None             \* no process

Types  == Databases \cup {"file"}
Source == [name : Names, type : Types, dsn : DSNs \cup {Blank}]

-----------------------------------------------------------------------------
(* Lists of source configurations.                                         *)

NamesOf(list) == {list[i].name : i \in DOMAIN list}
NameList(list) == [i \in DOMAIN list |-> list[i].name]
UniqueNames(list) ==
    \A i, j \in DOMAIN list : list[i].name = list[j].name => i = j

\* validateCandidate: the checks on one source that depend on its own fields.
ValidSource(s) == s.type \in Databases => s.dsn # Blank

\* Config.Validate on a whole configuration whose sources section is `list'.
ValidList(list) ==
    /\ list # <<>>
    /\ UniqueNames(list)
    /\ \A i \in DOMAIN list : ValidSource(list[i])
    /\ NetworkSources \subseteq NamesOf(list)

\* An edited source replaces its namesake in place or goes to the end.
PutSource(list, s) ==
    IF s.name \in NamesOf(list)
    THEN [i \in DOMAIN list |-> IF list[i].name = s.name THEN s ELSE list[i]]
    ELSE Append(list, s)

\* s without its i-th element.
WithoutIndex(s, i) ==
    [j \in 1..(Len(s) - 1) |-> IF j < i THEN s[j] ELSE s[j + 1]]

\* The list without the source of that name (names are unique).
DropSource(list, name) ==
    WithoutIndex(list, CHOOSE i \in DOMAIN list : list[i].name = name)

\* An edit that leaves the dsn of a database out keeps the one stored for the
\* same name and type.
PreserveSecret(list, s) ==
    LET kept == {i \in DOMAIN list : list[i].name = s.name /\ list[i].type = s.type}
    IN  IF s.type \in Databases /\ s.dsn = Blank /\ kept # {}
        THEN [s EXCEPT !.dsn = list[CHOOSE i \in kept : TRUE].dsn]
        ELSE s

ASSUME ConstantsAssumption ==
    /\ Blank \notin DSNs
    /\ None \notin Admins \cup Probes
    /\ MaxOpen \in Nat
    /\ InitialFile \in Seq(Source)
    /\ ValidList(InitialFile)

-----------------------------------------------------------------------------
VARIABLES
    phase,       \* "down", "up", "draining" (Shutdown called), "closed" (registry closed)
    file,        \* sources section of the configuration file: survives the process
    cfg,         \* s.cfg.Sources
    sources,     \* registry.sources: backend published under a name, 0 if none
    order,       \* registry.order
    retired,     \* registry.retired
    conf,        \* conf[b]: the configuration backend b was opened with
    closed,      \* backends that were closed
    configMu,    \* holder of Server.configMu
    pc,          \* what a management request does next
    req,         \* its request: operation, source as sent, source after preserveSecret
    cand,        \* its candidate backend, 0 if none
    next,        \* the list of sources it built
    readyMu,     \* holder of readiness.mu
    ready,       \* [fresh, statuses]; {} stands for the nil map
    ppc,         \* what a readiness probe does next
    todo,        \* names it still has to ping
    got,         \* statuses it collected
    using        \* backend a data request works on, 0 if none

editVars  == <<configMu, pc, req, cand, next>>
regVars   == <<sources, order, retired>>
backVars  == <<conf, closed>>
probeVars == <<readyMu, ppc, todo, got>>
vars == <<phase, file, cfg, regVars, backVars, editVars, ready, probeVars, using>>

Backends == 1..Len(conf)
Open     == Backends \ closed
Ops      == {"none", "save", "delete", "probe"}
Request  == [op : Ops, raw : Source, src : Source]
\* One entry of readiness.statuses; `of' records which backend was pinged.
Status   == [name : Names, of : Nat, ok : BOOLEAN]
NoRequest == [op |-> "none", raw |-> InitialFile[1], src |-> InitialFile[1]]
NoVerdict == [fresh |-> FALSE, statuses |-> {}]

\* Names the registry publishes at the moment.
Published == {n \in Names : sources[n] # 0}
\* Registry.Ping holds reg.mu for reading while it goes through the sources.
RegRLocked == \E p \in Probes : ppc[p] = "ping"

TypeOK ==
    /\ phase \in {"down", "up", "draining", "closed"}
    /\ file \in Seq(Source)
    /\ cfg \in Seq(Source)
    /\ sources \in [Names -> Nat]
    /\ order \in Seq(Names)
    /\ retired \in SUBSET Nat
    /\ conf \in Seq(Source)
    /\ closed \in SUBSET Nat
    /\ configMu \in Admins \cup {None}
    /\ pc \in [Admins -> {"idle", "open", "ping", "write", "rename",
                          "publish", "assign", "invalidate"}]
    /\ req \in [Admins -> Request]
    /\ cand \in [Admins -> Nat]
    /\ next \in [Admins -> Seq(Source)]
    /\ readyMu \in Probes \cup {None}
    /\ ready \in [fresh : BOOLEAN, statuses : SUBSET Status]
    /\ ppc \in [Probes -> {"idle", "rlock", "ping", "store"}]
    /\ todo \in [Probes -> SUBSET Names]
    /\ got \in [Probes -> SUBSET Status]
    /\ using \in [Readers -> Nat]

\* A process that does not run has no memory: only the file is left.
Init ==
    /\ file = InitialFile
    /\ phase = "down"
    /\ cfg = <<>>
    /\ sources = [n \in Names |-> 0]
    /\ order = <<>>
    /\ retired = {}
    /\ conf = <<>>
    /\ closed = {}
    /\ configMu = None
    /\ pc = [a \in Admins |-> "idle"]
    /\ req = [a \in Admins |-> NoRequest]
    /\ cand = [a \in Admins |-> 0]
    /\ next = [a \in Admins |-> <<>>]
    /\ readyMu = None
    /\ ready = NoVerdict
    /\ ppc = [p \in Probes |-> "idle"]
    /\ todo = [p \in Probes |-> {}]
    /\ got = [p \in Probes |-> {}]
    /\ using = [r \in Readers |-> 0]

-----------------------------------------------------------------------------
(* The process.                                                            *)

\* run: Load reads and validates the file, Build opens every source in order.
\* (A source that cannot be opened makes Build close the others and the
\* process exit: nothing changes.)
Start ==
    /\ phase = "down"
    /\ ValidList(file)
    /\ phase' = "up"
    /\ cfg' = file
    /\ conf' = file
    /\ order' = NameList(file)
    /\ sources' = [n \in Names |->
                     IF n \in NamesOf(file)
                     THEN CHOOSE i \in DOMAIN file : file[i].name = n
                     ELSE 0]
    /\ UNCHANGED <<file, retired, closed, editVars, ready, probeVars, using>>

\* A termination signal: httpSrv.Shutdown stops accepting requests.
Drain ==
    /\ phase = "up"
    /\ phase' = "draining"
    /\ UNCHANGED <<file, cfg, regVars, backVars, editVars, ready, probeVars, using>>

\* The deferred reg.Close() of run.  Shutdown returned because every request
\* it tracks has finished, or because its ten seconds were over; a handler
\* http.TimeoutHandler gave up on is not tracked.  So requests may be left.
CloseRegistry ==
    /\ phase = "draining"
    /\ ~RegRLocked
    /\ phase' = "closed"
    /\ closed' = closed \cup retired \cup {sources[n] : n \in Published}
    /\ sources' = [n \in Names |-> 0]
    /\ order' = <<>>
    /\ retired' = {}
    /\ UNCHANGED <<file, cfg, conf, editVars, ready, probeVars, using>>

\* The process ends, at once (a crash) or after reg.Close (a shutdown).
Exit ==
    /\ phase # "down"
    /\ phase' = "down"
    /\ cfg' = <<>>
    /\ sources' = [n \in Names |-> 0]
    /\ order' = <<>>
    /\ retired' = {}
    /\ conf' = <<>>
    /\ closed' = {}
    /\ configMu' = None
    /\ pc' = [a \in Admins |-> "idle"]
    /\ req' = [a \in Admins |-> NoRequest]
    /\ cand' = [a \in Admins |-> 0]
    /\ next' = [a \in Admins |-> <<>>]
    /\ readyMu' = None
    /\ ready' = NoVerdict
    /\ ppc' = [p \in Probes |-> "idle"]
    /\ todo' = [p \in Probes |-> {}]
    /\ got' = [p \in Probes |-> {}]
    /\ using' = [r \in Readers |-> 0]
    /\ UNCHANGED file

-----------------------------------------------------------------------------
(* Management requests.                                                    *)

\* An answer: the request is over and its locals are gone.
Answer(a) ==
    /\ pc' = [pc EXCEPT ![a] = "idle"]
    /\ req' = [req EXCEPT ![a] = NoRequest]
    /\ cand' = [cand EXCEPT ![a] = 0]
    /\ next' = [next EXCEPT ![a] = <<>>]
    /\ configMu' = IF configMu = a THEN None ELSE configMu

\* handleSaveSource up to validateCandidate.  A rejected candidate is answered
\* 400 under the lock and leaves everything as it was.
BeginSave(a, s) ==
    LET kept == PreserveSecret(cfg, s) IN
    /\ phase = "up" /\ pc[a] = "idle" /\ configMu = None
    /\ ValidSource(kept)
    /\ configMu' = a
    /\ pc' = [pc EXCEPT ![a] = "open"]
    /\ req' = [req EXCEPT ![a] = [op |-> "save", raw |-> s, src |-> kept]]
    /\ UNCHANGED <<phase, file, cfg, regVars, backVars, cand, next, ready, probeVars, using>>

\* handleProbeSource up to validateCandidate: configMu is only held while
\* preserveSecret reads the stored configuration.
BeginProbe(a, s) ==
    LET kept == PreserveSecret(cfg, s) IN
    /\ phase = "up" /\ pc[a] = "idle" /\ configMu = None
    /\ ValidSource(kept)
    /\ pc' = [pc EXCEPT ![a] = "open"]
    /\ req' = [req EXCEPT ![a] = [op |-> "probe", raw |-> s, src |-> kept]]
    /\ UNCHANGED <<phase, file, cfg, regVars, backVars, configMu, cand, next, ready, probeVars, using>>

\* Mutant: handleDeleteSource forgets configMu.
BeginDeleteUnlocked(a, s) ==
    /\ phase = "up" /\ pc[a] = "idle"
    /\ \E i \in DOMAIN cfg : cfg[i] = s
    /\ ValidList(DropSource(cfg, s.name))
    /\ pc' = [pc EXCEPT ![a] = "write"]
    /\ req' = [req EXCEPT ![a] = [op |-> "delete", raw |-> s, src |-> s]]
    /\ next' = [next EXCEPT ![a] = DropSource(cfg, s.name)]
    /\ UNCHANGED <<phase, file, cfg, regVars, backVars, configMu, cand, ready, probeVars>>
    /\ UNCHANGED using

\* handleDeleteSource up to Validate.  An unknown name (404) and a list that
\* is not valid without it (400) leave everything as it was.
BeginDelete(a, s) ==
    /\ phase = "up" /\ pc[a] = "idle" /\ configMu = None
    /\ \E i \in DOMAIN cfg : cfg[i] = s
    /\ ValidList(DropSource(cfg, s.name))
    /\ configMu' = a
    /\ pc' = [pc EXCEPT ![a] = "write"]
    /\ req' = [req EXCEPT ![a] = [op |-> "delete", raw |-> s, src |-> s]]
    /\ next' = [next EXCEPT ![a] = DropSource(cfg, s.name)]
    /\ UNCHANGED <<phase, file, cfg, regVars, backVars, cand, ready, probeVars, using>>

\* registry.OpenWithPolicies returns a backend...
OpenCandidate(a) ==
    /\ pc[a] = "open"
    /\ Len(conf) < MaxOpen
    /\ conf' = Append(conf, req[a].src)
    /\ cand' = [cand EXCEPT ![a] = Len(conf) + 1]
    /\ pc' = [pc EXCEPT ![a] = "ping"]
    /\ UNCHANGED <<phase, file, cfg, regVars, closed, configMu, req, next, ready, probeVars, using>>

\* ... or fails, and no backend is left to close.
OpenFails(a) ==
    /\ pc[a] = "open"
    /\ Answer(a)
    /\ UNCHANGED <<phase, file, cfg, regVars, backVars, ready, probeVars, using>>

\* candidate.Close() on every path that gives the candidate up, including the
\* end of a probe.
GiveUp(a) ==
    /\ closed' = IF cand[a] = 0 THEN closed ELSE closed \cup {cand[a]}
    /\ Answer(a)

\* The candidate did not answer Ping, or the merged list is not valid, or the
\* request only was a probe: close it and answer.
PingRejects(a) ==
    /\ pc[a] = "ping"
    /\ GiveUp(a)
    /\ UNCHANGED <<phase, file, cfg, regVars, conf, ready, probeVars, using>>

\* The candidate answered Ping: merge it into a copy of the list, Validate.
PingAccepts(a) ==
    LET merged == PutSource(cfg, req[a].src) IN
    /\ pc[a] = "ping" /\ req[a].op = "save"
    /\ ValidList(merged)
    /\ next' = [next EXCEPT ![a] = merged]
    /\ pc' = [pc EXCEPT ![a] = "write"]
    /\ UNCHANGED <<phase, file, cfg, regVars, backVars, configMu, req, cand, ready, probeVars, using>>

\* Mutant: the new document is written over the old one.
WriteInPlace(a) ==
    /\ pc[a] = "write"
    /\ file' = <<>>
    /\ pc' = [pc EXCEPT ![a] = "rename"]
    /\ UNCHANGED <<phase, cfg, regVars, backVars, configMu, req, cand, next, ready, probeVars, using>>

\* config.SaveSources up to tmp.Close: the new document is in a temporary
\* file next to the configuration.
WriteTemp(a) ==
    /\ pc[a] = "write"
    /\ pc' = [pc EXCEPT ![a] = "rename"]
    /\ UNCHANGED <<phase, file, cfg, regVars, backVars, configMu, req, cand, next, ready, probeVars, using>>

\* os.Rename puts it in the place of the configuration.
RenameFile(a) ==
    /\ pc[a] = "rename"
    /\ file' = next[a]
    /\ pc' = [pc EXCEPT ![a] = "publish"]
    /\ UNCHANGED <<phase, cfg, regVars, backVars, configMu, req, cand, next, ready, probeVars, using>>

\* Mutant: the candidate stays open when the file cannot be saved.
SaveFailsLeaking(a) ==
    /\ pc[a] \in {"write", "rename"}
    /\ Answer(a)
    /\ UNCHANGED <<phase, file, cfg, regVars, backVars, ready, probeVars, using>>

\* SaveSources fails before or at the rename: 500.
SaveFails(a) ==
    /\ pc[a] \in {"write", "rename"}
    /\ GiveUp(a)
    /\ UNCHANGED <<phase, file, cfg, regVars, conf, ready, probeVars, using>>

\* Registry.Replace.
Replace(name, b) ==
    /\ IF sources[name] # 0
       THEN retired' = retired \cup {sources[name]} /\ UNCHANGED order
       ELSE order' = Append(order, name) /\ UNCHANGED retired
    /\ sources' = [sources EXCEPT ![name] = b]

\* Registry.Remove; a name that is not there leaves the registry alone.
Remove(name) ==
    IF sources[name] = 0
    THEN UNCHANGED regVars
    ELSE /\ retired' = retired \cup {sources[name]}
         /\ sources' = [sources EXCEPT ![name] = 0]
         /\ order' = IF \E i \in DOMAIN order : order[i] = name
                     THEN WithoutIndex(order, CHOOSE i \in DOMAIN order : order[i] = name)
                     ELSE order

\* Mutant: the backend taken out of service is closed at once.
PublishClosing(a) ==
    LET name == req[a].src.name IN
    /\ pc[a] = "publish"
    /\ ~RegRLocked
    /\ order' = IF req[a].op = "save"
                THEN IF sources[name] # 0 THEN order ELSE Append(order, name)
                ELSE SelectSeq(order, LAMBDA n : n # name)
    /\ sources' = [sources EXCEPT ![name] = cand[a]]
    /\ closed' = IF sources[name] = 0 THEN closed ELSE closed \cup {sources[name]}
    /\ cand' = [cand EXCEPT ![a] = 0]
    /\ pc' = [pc EXCEPT ![a] = "assign"]
    /\ UNCHANGED <<phase, file, cfg, retired, conf, configMu, req, next, ready, probeVars, using>>

\* reg.Replace or reg.Remove, which wait for the readers of reg.mu.  The
\* registry owns the candidate from here on.
Publish(a) ==
    /\ pc[a] = "publish"
    /\ ~RegRLocked
    /\ IF req[a].op = "save" THEN Replace(req[a].src.name, cand[a])
                             ELSE Remove(req[a].src.name)
    /\ cand' = [cand EXCEPT ![a] = 0]
    /\ pc' = [pc EXCEPT ![a] = "assign"]
    /\ UNCHANGED <<phase, file, cfg, backVars, configMu, req, next, ready, probeVars, using>>

\* Mutant: the configuration in memory keeps the old list.
AssignNothing(a) ==
    /\ pc[a] = "assign"
    /\ pc' = [pc EXCEPT ![a] = "invalidate"]
    /\ UNCHANGED <<phase, file, cfg, regVars, backVars, configMu, req, cand, next, ready, probeVars, using>>

\* s.cfg.Sources = sources
AssignConfig(a) ==
    /\ pc[a] = "assign"
    /\ cfg' = next[a]
    /\ pc' = [pc EXCEPT ![a] = "invalidate"]
    /\ UNCHANGED <<phase, file, regVars, backVars, configMu, req, cand, next, ready, probeVars, using>>

\* Mutant: the verdict is reset without ready.mu, under a running probe.
InvalidateUnlocked(a) ==
    /\ pc[a] = "invalidate"
    /\ ready' = NoVerdict
    /\ Answer(a)
    /\ UNCHANGED <<phase, file, cfg, regVars, backVars, probeVars, using>>

\* invalidateReadiness, then 200 and the deferred unlock of configMu.
InvalidateReadiness(a) ==
    /\ pc[a] = "invalidate"
    /\ readyMu = None
    /\ ready' = NoVerdict
    /\ Answer(a)
    /\ UNCHANGED <<phase, file, cfg, regVars, backVars, probeVars, using>>

-----------------------------------------------------------------------------
(* Readiness probes: Server.snapshot.                                      *)

\* A verdict that is fresh enough is answered as it is (nothing changes);
\* otherwise the probe keeps ready.mu and pings.
ProbeLock(p) ==
    /\ phase = "up" /\ ppc[p] = "idle" /\ readyMu = None
    /\ ~(ready.fresh /\ ready.statuses # {})
    /\ readyMu' = p
    /\ ppc' = [ppc EXCEPT ![p] = "rlock"]
    /\ UNCHANGED <<phase, file, cfg, regVars, backVars, editVars, ready, todo, got, using>>

\* Mutant: the probe needs configMu too, which edits take before ready.mu.
PingLockAfterConfig(p) ==
    /\ ppc[p] = "rlock" /\ configMu = None
    /\ todo' = [todo EXCEPT ![p] = Published]
    /\ ppc' = [ppc EXCEPT ![p] = "ping"]
    /\ UNCHANGED <<phase, file, cfg, regVars, backVars, editVars, ready, readyMu, got, using>>

\* Registry.Ping takes reg.mu for reading.
PingLock(p) ==
    /\ ppc[p] = "rlock"
    /\ todo' = [todo EXCEPT ![p] = Published]
    /\ ppc' = [ppc EXCEPT ![p] = "ping"]
    /\ UNCHANGED <<phase, file, cfg, regVars, backVars, editVars, ready, readyMu, got, using>>

\* The next source answers, or fails, or the context of the probe is over.
PingOne(p, n, ok) ==
    /\ ppc[p] = "ping" /\ n \in todo[p]
    /\ todo' = [todo EXCEPT ![p] = @ \ {n}]
    /\ got' = [got EXCEPT ![p] = @ \cup {[name |-> n, of |-> sources[n], ok |-> ok]}]
    /\ UNCHANGED <<phase, file, cfg, regVars, backVars, editVars, ready, readyMu, ppc, using>>

\* Registry.Ping releases reg.mu; the verdict is not stored yet.
PingUnlock(p) ==
    /\ ppc[p] = "ping" /\ todo[p] = {}
    /\ ppc' = [ppc EXCEPT ![p] = "store"]
    /\ UNCHANGED <<phase, file, cfg, regVars, backVars, editVars, ready, readyMu, todo, got, using>>

\* Mutant: ready.mu is not released after a source failed.
StoreVerdictLocked(p) ==
    /\ ppc[p] = "store"
    /\ ready' = [fresh |-> TRUE, statuses |-> got[p]]
    /\ readyMu' = IF \E st \in got[p] : ~st.ok THEN p ELSE None
    /\ ppc' = [ppc EXCEPT ![p] = "idle"]
    /\ got' = [got EXCEPT ![p] = {}]
    /\ UNCHANGED <<phase, file, cfg, regVars, backVars, editVars, todo, using>>

\* The verdict is stored and ready.mu released.
StoreVerdict(p) ==
    /\ ppc[p] = "store"
    /\ ready' = [fresh |-> TRUE, statuses |-> got[p]]
    /\ readyMu' = None
    /\ ppc' = [ppc EXCEPT ![p] = "idle"]
    /\ got' = [got EXCEPT ![p] = {}]
    /\ UNCHANGED <<phase, file, cfg, regVars, backVars, editVars, todo, using>>

\* readinessTTL passes.
VerdictAges ==
    /\ ready.fresh
    /\ ready' = [ready EXCEPT !.fresh = FALSE]
    /\ UNCHANGED <<phase, file, cfg, regVars, backVars, editVars, probeVars, using>>

-----------------------------------------------------------------------------
(* Data requests: TileSource/FeatureSource hands out the interface value   *)
(* and the request uses it without any lock until it is done.              *)

Capture(r, n) ==
    /\ phase = "up" /\ using[r] = 0 /\ sources[n] # 0
    /\ using' = [using EXCEPT ![r] = sources[n]]
    /\ UNCHANGED <<phase, file, cfg, regVars, backVars, editVars, ready, probeVars>>

Finish(r) ==
    /\ using[r] # 0
    /\ using' = [using EXCEPT ![r] = 0]
    /\ UNCHANGED <<phase, file, cfg, regVars, backVars, editVars, ready, probeVars>>

-----------------------------------------------------------------------------
Edit(a) ==
    \/ \E s \in Source : BeginSave(a, s) \/ BeginProbe(a, s) \/ BeginDelete(a, s)
    \/ OpenCandidate(a) \/ OpenFails(a)
    \/ PingAccepts(a) \/ PingRejects(a)
    \/ WriteTemp(a) \/ RenameFile(a) \/ SaveFails(a)
    \/ Publish(a) \/ AssignConfig(a) \/ InvalidateReadiness(a)

Probe(p) ==
    \/ ProbeLock(p) \/ PingLock(p) \/ PingUnlock(p) \/ StoreVerdict(p)
    \/ \E n \in Names, ok \in BOOLEAN : PingOne(p, n, ok)

Next ==
    \/ Start \/ Drain \/ CloseRegistry \/ Exit
    \/ \E a \in Admins : Edit(a)
    \/ \E p \in Probes : Probe(p)
    \/ VerdictAges
    \/ \E r \in Readers : Finish(r) \/ \E n \in Names : Capture(r, n)

Spec == Init /\ [][Next]_vars

-----------------------------------------------------------------------------
(* What the administration of sources promises.                            *)

Serving == phase \in {"up", "draining"}

\* Whenever no edit is under way, the file, the configuration in memory and
\* the registry agree: the same names in the same order, and every name is
\* served by a backend opened with exactly the configuration on disk.  So a
\* restart at any such moment brings the same service back.
ConfigConsistent ==
    Serving /\ configMu = None =>
        /\ file = cfg
        /\ order = NameList(cfg)
        /\ Published = NamesOf(cfg)
        /\ \A i \in DOMAIN cfg : conf[sources[cfg[i].name]] = cfg[i]

\* At every moment, also in the middle of an edit and after a crash, the file
\* is a configuration the next start accepts: complete, with unique names,
\* with the credentials of every database and every source a network needs.
FileLoadable == ValidList(file)

\* A verdict that is kept describes the backends published now, unless an edit
\* has published and not yet invalidated: a probe that pinged the registry
\* before an edit cannot leave its verdict behind for longer.
VerdictCurrent ==
    /\ Serving
    /\ ready.statuses # {}
    /\ \A a \in Admins : pc[a] \notin {"assign", "invalidate"}
    => {<<st.name, st.of>> : st \in ready.statuses} = {<<n, sources[n]>> : n \in Published}

\* Every open backend has exactly one owner that will close it (the registry
\* under a name, its retired list, or one management request), and what these
\* own is open: nothing leaks and nothing is closed twice.
BackendsOwned ==
    Serving =>
        LET candidates == {cand[a] : a \in Admins} \ {0}
            published  == {sources[n] : n \in Published}
        IN  /\ Open = published \cup retired \cup candidates
            /\ published \cap retired = {}
            /\ candidates \cap (published \cup retired) = {}
            /\ \A m, n \in Published : sources[m] = sources[n] => m = n
            /\ \A a, b \in Admins : cand[a] = cand[b] /\ cand[a] # 0 => a = b

\* Until the registry is closed at shutdown, a request never works on a closed
\* backend, whatever is replaced or removed meanwhile.
InFlightOpen == Serving => \A r \in Readers : using[r] # 0 => using[r] \in Open

\* The comments in registry.go (Registry.retired and Remove) state it without
\* that restriction: in-flight requests cannot observe a closed backend.
NeverObserveClosed == \A r \in Readers : using[r] # 0 => using[r] \notin closed

\* The file only changes by the edit that holds configMu, and changes by
\* exactly what that request asked for, applied to what the file holds at that
\* moment: no concurrent edit is lost, and a blank dsn keeps the stored one of
\* the same name and type.
Requested(list, r) ==
    IF r.op = "save" THEN PutSource(list, PreserveSecret(list, r.raw))
                     ELSE DropSource(list, r.raw.name)
SerialEdits ==
    [][file' # file => \E a \in Admins : configMu = a /\ file' = Requested(file, req[a])]_vars

-----------------------------------------------------------------------------
(* Progress.  Every handler keeps running (a Go routine is scheduled); a    *)
(* mutex is handed to a waiter that keeps waiting (sync.Mutex has a         *)
(* starvation mode, and a waiting writer of a sync.RWMutex keeps new        *)
(* readers out), hence strong fairness on the two steps that wait for one.  *)

Fairness ==
    /\ \A a \in Admins :
        /\ WF_vars(OpenCandidate(a) \/ OpenFails(a))
        /\ WF_vars(PingAccepts(a) \/ PingRejects(a))
        /\ WF_vars(WriteTemp(a) \/ SaveFails(a))
        /\ WF_vars(RenameFile(a) \/ SaveFails(a))
        /\ SF_vars(Publish(a))
        /\ WF_vars(AssignConfig(a))
        /\ SF_vars(InvalidateReadiness(a))
    /\ \A p \in Probes :
        /\ WF_vars(PingLock(p))
        /\ WF_vars(\E n \in Names, ok \in BOOLEAN : PingOne(p, n, ok))
        /\ WF_vars(PingUnlock(p))
        /\ WF_vars(StoreVerdict(p))

FairSpec == Spec /\ Fairness

\* Every management request is answered, whatever probes run meanwhile: the
\* order in which edits and probes take configMu, ready.mu and reg.mu has no
\* deadlock.
EditsEnd == \A a \in Admins : pc[a] # "idle" ~> pc[a] = "idle"

\* Every readiness probe that started comes to a verdict and frees ready.mu.
ProbesEnd == \A p \in Probes : ppc[p] # "idle" ~> ppc[p] = "idle"
=============================================================================
