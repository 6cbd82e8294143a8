--------------------------- MODULE AlgorithmRuns ---------------------------
(***************************************************************************)
(* Runs of the routing algorithms and the manager they take their graph    *)
(* from: Manager.Graph of internal/algo/network/manager.go, called by the  *)
(* Run methods of internal/algo/routing under handleAlgorithmRun of        *)
(* internal/server/algorithms.go.                                          *)
(*                                                                         *)
(* The manager builds each network's graph on first use and keeps it, or   *)
(* the failure, for the life of the process.  It holds its one mutex from  *)
(* the first look into its maps to the end of a build.  Every run has a    *)
(* context that may end at any moment: the client went away, or            *)
(* http.TimeoutHandler gave up on it.                                      *)
(***************************************************************************)
EXTENDS Integers

CONSTANTS
    Runs,          \* concurrent runs
    Networks,      \* configured networks
    Unknown,       \* the name of no network
    None,
    MaxRev         \* bound: revisions of the data

ASSUME ConstantsAssumption ==
    /\ Unknown \notin Networks /\ None \notin Runs
    /\ MaxRev \in Nat \ {0}

VARIABLES
    rev,           \* the data of each network's source; 0 if it has no feature source
    last,          \* the last revision there was
    mu,            \* Manager.mu
    graphs,        \* Manager.graphs: the revision a graph was built from; 0 if none
    errs,          \* Manager.errs: why building failed
    pc, net,       \* where each run is, and the network it wants
    ended,         \* whether its context has ended
    got,           \* what it loaded, or the graph it has
    why,           \* why its build failed
    result         \* the last run that ended: its outcome, and why

manager == <<mu, graphs, errs>>
run  == <<pc, net, ended, got, why>>
vars == <<rev, last, manager, run, result>>

\* "cancelled" is ctx.Err(), the others are errors in their own right.
Whys     == {"none", "missing", "failed", "cancelled", "unknown", "request"}
Outcomes == {"none", "ok", "rejected", "cancelled"}

TypeOK ==
    /\ rev \in [Networks -> 0..MaxRev] /\ last \in 0..MaxRev
    /\ mu \in Runs \cup {None}
    /\ graphs \in [Networks -> 0..MaxRev]
    /\ errs \in [Networks -> Whys]
    /\ pc \in [Runs -> {"idle", "lock", "lookup", "load", "build", "record", "search"}]
    /\ net \in [Runs -> Networks \cup {Unknown}]
    /\ \A q \in Runs : pc[q] = "idle" => mu # q
    /\ ended \in [Runs -> BOOLEAN]
    /\ got \in [Runs -> 0..MaxRev]
    /\ why \in [Runs -> Whys]
    /\ result \in [outcome : Outcomes, why : Whys]

Init ==
    /\ last = 1 /\ rev \in [Networks -> 0..1]
    /\ mu = None
    /\ graphs = [n \in Networks |-> 0]
    /\ errs = [n \in Networks |-> "none"]
    /\ pc = [q \in Runs |-> "idle"] /\ net = [q \in Runs |-> Unknown]
    /\ ended = [q \in Runs |-> FALSE]
    /\ got = [q \in Runs |-> 0] /\ why = [q \in Runs |-> "none"]
    /\ result = [outcome |-> "none", why |-> "none"]

-----------------------------------------------------------------------------
(* The ends of a run, and what surrounds it.                               *)

\* The run ends with this outcome and leaves nothing behind.
End(q, outcome, reason) ==
    /\ result' = [outcome |-> outcome, why |-> reason]
    /\ pc' = [pc EXCEPT ![q] = "idle"]
    /\ net' = [net EXCEPT ![q] = Unknown]
    /\ ended' = [ended EXCEPT ![q] = FALSE]
    /\ got' = [got EXCEPT ![q] = 0]
    /\ why' = [why EXCEPT ![q] = "none"]

\* Run wraps every error of Graph in a UserError, which is answered with 400.
Reject(q, reason) == End(q, "rejected", reason)

Goto(q, where) == pc' = [pc EXCEPT ![q] = where]

Start(q, n) ==
    /\ pc[q] = "idle"
    /\ Goto(q, "lock")
    /\ net' = [net EXCEPT ![q] = n]
    /\ UNCHANGED <<rev, last, manager, ended, got, why, result>>

\* The context ends; nobody is told.
Cancel(q) ==
    /\ pc[q] # "idle" /\ ~ended[q]
    /\ ended' = [ended EXCEPT ![q] = TRUE]
    /\ UNCHANGED <<rev, last, manager, pc, net, got, why, result>>

\* The source of a network is edited, replaced, or replaced by one that has no
\* features.
SourceChanges(n) ==
    /\ last < MaxRev
    /\ last' = last + 1
    /\ rev' \in {[rev EXCEPT ![n] = last'], [rev EXCEPT ![n] = 0]}
    /\ UNCHANGED <<manager, run, result>>

-----------------------------------------------------------------------------
(* Manager.Graph.                                                          *)

\* The mutex is free and the answer is known.  (Lock and Unlock in one step.)
GraphKnown(q) ==
    /\ pc[q] = "lock" /\ mu = None
    /\ net[q] \in Networks /\ graphs[net[q]] # 0
    /\ got' = [got EXCEPT ![q] = graphs[net[q]]]
    /\ Goto(q, "search")
    /\ UNCHANGED <<rev, last, manager, net, ended, why, result>>

ErrorKnown(q) ==
    /\ pc[q] = "lock" /\ mu = None
    /\ \/ net[q] = Unknown /\ Reject(q, "unknown")
       \/ /\ net[q] \in Networks /\ graphs[net[q]] = 0 /\ errs[net[q]] # "none"
          /\ Reject(q, errs[net[q]])
    /\ UNCHANGED <<rev, last, manager>>

\* Mutant: the mutex is released for the build.
LockBriefly(q) ==
    /\ pc[q] = "lock" /\ mu = None
    /\ net[q] \in Networks /\ graphs[net[q]] = 0 /\ errs[net[q]] = "none"
    /\ Goto(q, "lookup")
    /\ UNCHANGED <<rev, last, manager, net, ended, got, why, result>>

\* Mutant: the failures are not looked at.
LockRetrying(q) ==
    /\ pc[q] = "lock" /\ mu = None
    /\ net[q] \in Networks /\ graphs[net[q]] = 0
    /\ mu' = q
    /\ Goto(q, "lookup")
    /\ UNCHANGED <<rev, last, graphs, errs, net, ended, got, why, result>>

\* The network was never built: the mutex is kept.
Lock(q) ==
    /\ pc[q] = "lock" /\ mu = None
    /\ net[q] \in Networks /\ graphs[net[q]] = 0 /\ errs[net[q]] = "none"
    /\ mu' = q
    /\ Goto(q, "lookup")
    /\ UNCHANGED <<rev, last, graphs, errs, net, ended, got, why, result>>

\* The build gives up.
Fail(q, reason) ==
    /\ why' = [why EXCEPT ![q] = reason]
    /\ Goto(q, "record")
    /\ UNCHANGED <<net, ended, got>>

Lookup(q) ==
    /\ pc[q] = "lookup"
    /\ IF rev[net[q]] = 0 THEN Fail(q, "missing")
       ELSE Goto(q, "load") /\ UNCHANGED <<net, ended, got, why>>
    /\ UNCHANGED <<rev, last, manager, result>>

\* FeatureSource.Features: the data, an error of the source, or ctx.Err().  The
\* backend that was looked up works on if it has been replaced.
Load(q) ==
    /\ pc[q] = "load"
    /\ \/ /\ \E r \in 1..last : got' = [got EXCEPT ![q] = r]
          /\ Goto(q, "build") /\ UNCHANGED <<net, ended, why>>
       \/ Fail(q, "failed")
       \/ ended[q] /\ Fail(q, "cancelled")
    /\ UNCHANGED <<rev, last, manager, result>>

\* Build looks at the context now and then, and may find no line to build from.
BuildFails(q) ==
    /\ pc[q] = "build"
    /\ \/ Fail(q, "failed")
       \/ ended[q] /\ Fail(q, "cancelled")
    /\ UNCHANGED <<rev, last, manager, result>>

\* The graph is kept and the mutex given back.
Built(q) ==
    /\ pc[q] = "build"
    /\ graphs' = [graphs EXCEPT ![net[q]] = got[q]]
    /\ mu' = None
    /\ Goto(q, "search")
    /\ UNCHANGED <<rev, last, errs, net, ended, got, why, result>>

\* Mutant: a cancellation is remembered like any other failure.
RecordAll(q) ==
    /\ pc[q] = "record"
    /\ errs' = [errs EXCEPT ![net[q]] = why[q]]
    /\ mu' = None
    /\ Reject(q, why[q])
    /\ UNCHANGED <<rev, last, graphs>>

\* Mutant: the error return forgets the mutex.
RecordLocked(q) ==
    /\ pc[q] = "record"
    /\ errs' = IF ended[q] THEN errs ELSE [errs EXCEPT ![net[q]] = why[q]]
    /\ Reject(q, why[q])
    /\ UNCHANGED <<rev, last, mu, graphs>>

\* The failure is kept unless the caller's context has ended by now.
Record(q) ==
    /\ pc[q] = "record"
    /\ errs' = IF ended[q] THEN errs ELSE [errs EXCEPT ![net[q]] = why[q]]
    /\ mu' = None
    /\ Reject(q, why[q])
    /\ UNCHANGED <<rev, last, graphs>>

-----------------------------------------------------------------------------
\* The search on the graph: a result, an end the graph does not reach, or
\* ctx.Err(), which Run returns as it is.
Search(q) ==
    /\ pc[q] = "search"
    /\ \/ End(q, "ok", "none")
       \/ Reject(q, "request")
       \/ ended[q] /\ End(q, "cancelled", "cancelled")
    /\ UNCHANGED <<rev, last, manager>>

Step(q) ==
    \/ GraphKnown(q) \/ ErrorKnown(q) \/ Lock(q)
    \/ Lookup(q) \/ Load(q) \/ BuildFails(q) \/ Built(q) \/ Record(q)
    \/ Search(q)

Next ==
    \/ \E q \in Runs :
          \/ \E n \in Networks \cup {Unknown} : Start(q, n)
          \/ Cancel(q)
          \/ Step(q)
    \/ \E n \in Networks : SourceChanges(n)

Spec == Init /\ [][Next]_vars

\* A run that can go on does; sync.Mutex serves a waiter in the end; sources
\* answer (the context of every request ends at the server's timeout).
Fairness ==
    \A q \in Runs :
        /\ SF_vars(GraphKnown(q) \/ ErrorKnown(q) \/ Lock(q))
        /\ WF_vars(Lookup(q)) /\ WF_vars(Load(q)) /\ WF_vars(BuildFails(q) \/ Built(q))
        /\ WF_vars(Record(q)) /\ WF_vars(Search(q))

FairSpec == Spec /\ Fairness

-----------------------------------------------------------------------------
\* All runs on a network search one graph, the one that is kept: it is built
\* at most once, whoever asks for it meanwhile.
OneGraph ==
    \A q \in Runs : pc[q] = "search" => got[q] = graphs[net[q]]

\* What is known of a network never changes, neither its graph nor its failure,
\* and a network that has one has not the other.
Settled ==
    [][ \A n \in Networks :
          /\ graphs[n] # 0 => graphs'[n] = graphs[n] /\ errs'[n] = "none"
          /\ errs[n] # "none" => errs'[n] = errs[n] /\ graphs'[n] = 0 ]_vars

\* A network is never given up because one caller did: what is remembered is
\* never a cancellation.
NotPoisoned == \A n \in Networks : errs[n] \in {"none", "missing", "failed"}

\* Every run comes to an end, even if it waits for a network that others build.
RunsEnd == \A q \in Runs : pc[q] # "idle" ~> pc[q] = "idle"

\* What the comment on handleAlgorithmRun says ("A cancelled run is the client
\* (or the server deadline) giving up [...] log it as such"): a run that ended
\* because of its context is reported as cancelled.
CancelledIsCancelled == result.why = "cancelled" => result.outcome = "cancelled"
=============================================================================
