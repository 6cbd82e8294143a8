----------------------------- MODULE ServeBench -----------------------------
(***************************************************************************)
(* The load generator (bench/servebench/main.go) with a fixed number of    *)
(* requests: after a warm-up, workers claim request numbers from one       *)
(* atomic counter, send them and add up what comes back; the main          *)
(* goroutine merges their results into the report.                         *)
(***************************************************************************)
EXTENDS Integers, FiniteSetsExt

CONSTANTS
    Workers,        \* -concurrency
    MaxRequests,    \* -requests
    Warmups,        \* numbers of requests -warmup may ask for
    Zoom,           \* the zoom of -tile-grid
    Count           \* its count

\* The tiles of the grid, 4^Zoom.
Total == LET tiles[z \in 0..22] == IF z = 0 THEN 1 ELSE 4 * tiles[z - 1] IN tiles[Zoom]

ASSUME BenchAssumption ==
    /\ IsFiniteSet(Workers) /\ Workers # {}
    /\ MaxRequests \in Nat \ {0} /\ Warmups \subseteq Nat
    /\ Zoom \in 0..22 /\ Count \in 1..Total

VARIABLES
    flags,        \* [warmup, sendable]: -warmup, and whether a request can be made with -method
    warmed,       \* warm-up requests answered
    phase,        \* of the main goroutine
    sequence,     \* the number claimed next
    working,      \* what each worker does
    index,        \* the number it has claimed
    local,        \* its workerResult: number of latencies, statuses by class, errors
    results,      \* results[worker], set when it ends
    merged,       \* the sum of all
    sent,         \* history: the numbers requested
    unmade,       \* history: the numbers no request could be made for
    read          \* history: how often an answer of each class was read

bench == <<flags, warmed, phase, sequence, working, index, local, results, merged, sent, unmade, read>>

Classes == 1..5
NoResult == [latencies |-> 0, status |-> [c \in Classes |-> 0], transportErr |-> 0]

BenchInit ==
    /\ flags \in [warmup : Warmups, sendable : BOOLEAN]
    /\ warmed = 0 /\ phase = "warmup" /\ sequence = 0
    /\ working = [w \in Workers |-> "claim"] /\ index = [w \in Workers |-> 0]
    /\ local = [w \in Workers |-> NoResult] /\ results = local /\ merged = NoResult
    /\ sent = {} /\ unmade = {} /\ read = [c \in Classes |-> 0]

-----------------------------------------------------------------------------
(* tileGridPaths: the tile of the i-th path.                               *)

TileIndex(i) == (i * 40503 + 7919) % Total
\* makeRequest takes the paths in turn.
TileOf(number) == TileIndex(number % Count)

\* The warm-up requests, one after the other; one that cannot be made or fails ends the
\* program.
WarmUp ==
    /\ phase = "warmup"
    /\ \/ warmed < flags.warmup /\ flags.sendable /\ warmed' = warmed + 1 /\ UNCHANGED phase
       \/ warmed < flags.warmup /\ phase' = "exited" /\ UNCHANGED warmed
       \/ warmed = flags.warmup /\ phase' = "measuring" /\ UNCHANGED warmed
    /\ UNCHANGED <<flags, sequence, working, index, local, results, merged, sent, unmade, read>>

\* Mutant: the counter is read and written back separately.
NextNumberTorn == {sequence, IF sequence = 0 THEN 0 ELSE sequence - 1}
\* sequence.Add(1) - 1.
NextNumber == {sequence}

\* A number beyond the last ends the worker, any other is requested.
Claim(w) ==
    /\ phase = "measuring" /\ working[w] = "claim"
    /\ \E i \in NextNumber :
         /\ sequence' = i + 1
         /\ IF i >= MaxRequests
            THEN /\ working' = [working EXCEPT ![w] = "done"]
                 /\ results' = [results EXCEPT ![w] = local[w]]
                 /\ UNCHANGED index
            ELSE /\ working' = [working EXCEPT ![w] = "waiting"]
                 /\ index' = [index EXCEPT ![w] = i]
                 /\ UNCHANGED results
    /\ UNCHANGED <<flags, warmed, phase, local, merged, sent, unmade, read>>

\* The worker is done with its number and claims the next one.
GoesOn(w) ==
    /\ working[w] = "waiting"
    /\ working' = [working EXCEPT ![w] = "claim"]
    /\ UNCHANGED <<flags, warmed, phase, sequence, index, results, merged>>

\* makeRequest fails: an error, but nothing is sent and no latency measured.
NotMade(w) ==
    /\ GoesOn(w) /\ ~flags.sendable
    /\ local' = [local EXCEPT ![w].transportErr = @ + 1]
    /\ unmade' = unmade \cup {index[w]}
    /\ UNCHANGED <<sent, read>>

Answered(w) == GoesOn(w) /\ flags.sendable /\ sent' = sent \cup {index[w]} /\ UNCHANGED unmade

\* An answer is counted under its status even if its body breaks off, which is an
\* error besides.
Receive(w) ==
    /\ Answered(w)
    /\ \E class \in Classes, broken \in BOOLEAN :
         /\ local' = [local EXCEPT ![w].latencies = @ + 1, ![w].status[class] = @ + 1,
                                   ![w].transportErr = @ + IF broken THEN 1 ELSE 0]
         /\ read' = [read EXCEPT ![class] = @ + 1]

\* No answer: the client's timeout, or a connection that fails.
Fails(w) ==
    /\ Answered(w)
    /\ local' = [local EXCEPT ![w].latencies = @ + 1, ![w].transportErr = @ + 1]
    /\ UNCHANGED read

\* wg.Wait, and the loop over the results.
Merge ==
    /\ phase = "measuring" /\ \A w \in Workers : working[w] = "done"
    /\ phase' = "reported"
    /\ merged' = [latencies |-> SumFunctionOnSet([w \in Workers |-> results[w].latencies], Workers),
                  status |-> [c \in Classes |->
                                 SumFunctionOnSet([w \in Workers |-> results[w].status[c]], Workers)],
                  transportErr |-> SumFunctionOnSet([w \in Workers |-> results[w].transportErr], Workers)]
    /\ UNCHANGED <<flags, warmed, sequence, working, index, local, results, sent, unmade, read>>

BenchNext == WarmUp \/ Merge \/ \E w \in Workers : Claim(w) \/ NotMade(w) \/ Receive(w) \/ Fails(w)
BenchSpec == BenchInit /\ [][BenchNext]_bench

-----------------------------------------------------------------------------
BenchTypeOK ==
    /\ warmed \in 0..flags.warmup /\ phase \in {"warmup", "exited", "measuring", "reported"}
    /\ sequence \in 0..(MaxRequests + Cardinality(Workers))
    /\ working \in [Workers -> {"claim", "waiting", "done"}]
    /\ index \in [Workers -> 0..(MaxRequests - 1)]
    /\ sent \cup unmade \subseteq 0..(MaxRequests - 1)

\* However the workers share them, the report covers exactly the requests asked for:
\* every number was sent, the latencies are as many, the statuses are those that were
\* read, every request without one is an error.  If no request can be made nothing is
\* sent, and the report holds an error for each and no latency.  No tile of the grid is
\* asked for twice before its paths are used up, as the comment in tileGridPaths says of
\* its multiplier.
ReportExact ==
    phase = "reported" =>
        LET statuses == SumFunctionOnSet(merged.status, Classes) IN
        /\ sent = IF flags.sendable THEN 0..(MaxRequests - 1) ELSE {}
        /\ merged.latencies = IF flags.sendable THEN MaxRequests ELSE 0
        /\ merged.status = read
        /\ statuses + merged.transportErr >= MaxRequests
        /\ ~flags.sendable => merged.transportErr = MaxRequests
        /\ Cardinality({TileOf(i) : i \in 0..(Count - 1)}) = Count
=============================================================================
