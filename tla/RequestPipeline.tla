-------------------------- MODULE RequestPipeline --------------------------
(***************************************************************************)
(* A request on its way through the middleware of Server.Handler, under    *)
(* http.TimeoutHandler (cmd/geoverse/main.go), the counters it leaves      *)
(* behind (metrics.go), and a scrape that reads them meanwhile.            *)
(*                                                                         *)
(* TimeoutHandler runs the handler on a goroutine of its own and buffers   *)
(* what it writes.  The client gets the buffer when the handler returned   *)
(* in time, and 503 when it did not; the handler then writes into nothing  *)
(* but goes on.  A status is its class, 1 to 5; 0 means none was written.  *)
(***************************************************************************)
EXTENDS Integers, Sequences, FiniteSetsExt

CONSTANTS
    Requests,     \* requests, one after the other or at the same time
    Statuses,     \* statuses that handlers write themselves
    Buckets,      \* durationBuckets: finite buckets of the histogram
    MaxBody       \* bound: pieces of body a handler writes

ASSUME PipelineAssumption ==
    /\ IsFiniteSet(Requests) /\ Statuses \subseteq 1..5
    /\ Buckets \in Nat \ {0} /\ MaxBody \in Nat

VARIABLES
    at,           \* where the handler of each request is
    rec,          \* statusRecorder: status and bytes
    buffer,       \* TimeoutHandler's: status and bytes
    expired,      \* whether the deadline won
    slow,         \* duration: the first bucket the request falls into
    hit,          \* the bucket observe increments next
    client,       \* what the client got: status and bytes; status 0 if nothing yet
    wrote,        \* history: whether the handler had written before it panicked
    requests,     \* metrics.requests by class
    bytesOut,     \* metrics.bytesOut
    inFlight,     \* metrics.inFlight
    bucketHits,   \* metrics.bucketHits; the last is +Inf
    scrape        \* the exposition being written: buckets read so far, and count

counters == <<requests, bytesOut, inFlight, bucketHits>>
handling == <<at, rec, buffer, expired, slow, hit, client, wrote>>
pipeline == <<handling, counters, scrape>>

Nothing == [status |-> 0, bytes |-> 0]
AllBuckets == 1..(Buckets + 1)
NoScrape == [read |-> <<>>, count |-> -1]

PipelineInit ==
    /\ at = [r \in Requests |-> "sent"]
    /\ rec = [r \in Requests |-> Nothing] /\ buffer = rec /\ client = rec
    /\ expired = [r \in Requests |-> FALSE] /\ wrote = expired
    /\ slow = [r \in Requests |-> 1] /\ hit = [r \in Requests |-> 0]
    /\ requests = [class \in 1..5 |-> 0] /\ bytesOut = 0 /\ inFlight = 0
    /\ bucketHits = [b \in AllBuckets |-> 0]
    /\ scrape = NoScrape

Goto(r, where) == at' = [at EXCEPT ![r] = where]

-----------------------------------------------------------------------------
(* What handlers write.                                                    *)

\* statusRecorder.WriteHeader, then timeoutWriter.WriteHeader, where the first wins.
Header(r, status) ==
    /\ rec' = [rec EXCEPT ![r].status = status]
    /\ buffer' = IF expired[r] \/ buffer[r].status # 0 THEN buffer
                 ELSE [buffer EXCEPT ![r].status = status]

\* A header and a body: writeError.
Respond(r, status) ==
    /\ rec' = [rec EXCEPT ![r] = [status |-> status,
                                  bytes |-> @.bytes + IF expired[r] THEN 0 ELSE 1]]
    /\ buffer' = IF expired[r] THEN buffer
                 ELSE [buffer EXCEPT ![r] = [status |-> IF @.status = 0 THEN status ELSE @.status,
                                             bytes |-> @.bytes + 1]]

\* Metrics, recovery, CORS: the request comes in.
Arrive(r) ==
    /\ at[r] = "sent"
    /\ inFlight' = inFlight + 1
    /\ Goto(r, "handler")
    /\ UNCHANGED <<rec, buffer, expired, slow, hit, client, wrote, requests, bytesOut,
                   bucketHits, scrape>>

\* corsMiddleware answers OPTIONS with 204, authMiddleware a bad key with 401.
Preflight(r) ==
    /\ at[r] = "handler" /\ rec[r] = Nothing
    /\ Header(r, 2)
    /\ Goto(r, "leave")
    /\ UNCHANGED <<expired, slow, hit, client, wrote, counters, scrape>>
Unauthorized(r) ==
    /\ at[r] = "handler" /\ rec[r] = Nothing
    /\ Respond(r, 4)
    /\ Goto(r, "leave")
    /\ UNCHANGED <<expired, slow, hit, client, wrote, counters, scrape>>

\* The handler of the route: a status, at most once and before the body, ...
WriteHeader(r, status) ==
    /\ at[r] = "handler" /\ rec[r].status = 0
    /\ Header(r, status)
    /\ UNCHANGED <<at, expired, slow, hit, client, wrote, counters, scrape>>
\* ... a piece of body, which is a success if no status was written, ...
WriteBody(r) ==
    /\ at[r] = "handler" /\ rec[r].bytes < MaxBody
    /\ rec' = [rec EXCEPT ![r] = [status |-> IF @.status = 0 THEN 2 ELSE @.status,
                                  bytes |-> IF expired[r] THEN @.bytes ELSE @.bytes + 1]]
    /\ buffer' = IF expired[r] THEN buffer
                 ELSE [buffer EXCEPT ![r] = [status |-> IF @.status = 0 THEN 2 ELSE @.status,
                                             bytes |-> @.bytes + 1]]
    /\ UNCHANGED <<at, expired, slow, hit, client, wrote, counters, scrape>>
\* ... and the end, or a panic, which recoverMiddleware answers with 500.
Finish(r) ==
    /\ at[r] = "handler"
    /\ Goto(r, "leave")
    /\ UNCHANGED <<rec, buffer, expired, slow, hit, client, wrote, counters, scrape>>
Panic(r) ==
    /\ at[r] = "handler"
    /\ wrote' = [wrote EXCEPT ![r] = rec[r].status # 0]
    /\ Respond(r, 5)
    /\ Goto(r, "leave")
    /\ UNCHANGED <<expired, slow, hit, client, counters, scrape>>

-----------------------------------------------------------------------------
(* The deferred part of metricsMiddleware, one atomic addition per step.   *)

\* Mutant: a handler that wrote nothing is counted as an error.
RecordedOrFailed(r) == IF rec[r].status = 0 THEN 5 ELSE rec[r].status
\* A handler that wrote nothing succeeded.
Recorded(r) == IF rec[r].status = 0 THEN 2 ELSE rec[r].status

\* The class, and with it the two sums that nothing is compared with while they change.
CountClass(r) ==
    /\ at[r] = "leave"
    /\ inFlight' = inFlight - 1
    /\ requests' = [requests EXCEPT ![Recorded(r)] = @ + 1]
    /\ bytesOut' = bytesOut + rec[r].bytes
    /\ \E b \in AllBuckets : slow' = [slow EXCEPT ![r] = b] /\ hit' = [hit EXCEPT ![r] = b]
    /\ Goto(r, "buckets")
    /\ UNCHANGED <<rec, buffer, expired, client, wrote, bucketHits, scrape>>

\* Every bucket from the first it falls into, in ascending order, and +Inf.
CountBucket(r) ==
    /\ at[r] = "buckets"
    /\ bucketHits' = [bucketHits EXCEPT ![hit[r]] = @ + 1]
    /\ IF hit[r] = Buckets + 1
       THEN Goto(r, "returned") /\ hit' = [hit EXCEPT ![r] = 0]
       ELSE hit' = [hit EXCEPT ![r] = @ + 1] /\ UNCHANGED at
    /\ UNCHANGED <<rec, buffer, expired, slow, client, wrote, requests, bytesOut, inFlight, scrape>>

-----------------------------------------------------------------------------
(* http.TimeoutHandler.                                                    *)

\* The handler returned in time.
Reply(r) ==
    /\ at[r] = "returned" /\ ~expired[r] /\ client[r].status = 0
    /\ client' = [client EXCEPT ![r] = [buffer[r] EXCEPT !.status = IF @ = 0 THEN 2 ELSE @]]
    /\ UNCHANGED <<at, rec, buffer, expired, slow, hit, wrote, counters, scrape>>

\* The deadline comes first; the handler is not told except by its context.
Deadline(r) ==
    /\ at[r] # "sent" /\ ~expired[r] /\ client[r].status = 0
    /\ expired' = [expired EXCEPT ![r] = TRUE]
    /\ client' = [client EXCEPT ![r] = [status |-> 5, bytes |-> 1]]
    /\ UNCHANGED <<at, rec, buffer, slow, hit, wrote, counters, scrape>>

-----------------------------------------------------------------------------
(* handleMetrics: bucket after bucket in ascending order, then the count,  *)
(* each an atomic load.  (The sum over the classes in one step.)           *)

TotalRequests == requests[1] + requests[2] + requests[3] + requests[4] + requests[5]

ScrapeBucket ==
    /\ Len(scrape.read) < Buckets + 1
    /\ scrape' = [scrape EXCEPT !.read = Append(@, bucketHits[Len(@) + 1])]
    /\ UNCHANGED <<handling, counters>>
\* Mutant: the count is read first.
ScrapeCountFirst ==
    /\ scrape.count = -1 /\ scrape.read = <<>>
    /\ scrape' = [scrape EXCEPT !.count = TotalRequests]
    /\ UNCHANGED <<handling, counters>>
ScrapeCount ==
    /\ scrape.count = -1 /\ Len(scrape.read) = Buckets + 1
    /\ scrape' = [scrape EXCEPT !.count = TotalRequests]
    /\ UNCHANGED <<handling, counters>>
Scrape == ScrapeBucket \/ ScrapeCount

Handle(r) ==
    \/ Arrive(r) \/ Preflight(r) \/ Unauthorized(r)
    \/ \E status \in Statuses : WriteHeader(r, status)
    \/ WriteBody(r) \/ Finish(r) \/ Panic(r)
Account(r) == CountClass(r) \/ CountBucket(r)

PipelineNext ==
    \/ \E r \in Requests : Handle(r) \/ Account(r) \/ Reply(r) \/ Deadline(r)
    \/ Scrape

PipelineSpec == PipelineInit /\ [][PipelineNext]_pipeline

-----------------------------------------------------------------------------
PipelineTypeOK ==
    /\ at \in [Requests -> {"sent", "handler", "leave", "buckets", "returned"}]
    /\ {rec, buffer, client} \subseteq [Requests -> [status : 0..5, bytes : 0..(MaxBody + 1)]]
    /\ {expired, wrote} \subseteq [Requests -> BOOLEAN]
    /\ slow \in [Requests -> AllBuckets] /\ hit \in [Requests -> AllBuckets \cup {0}]
    /\ requests \in [1..5 -> Nat] /\ bytesOut \in Nat /\ inFlight \in Nat
    /\ bucketHits \in [AllBuckets -> Nat]
    /\ Len(scrape.read) <= Buckets + 1 /\ scrape.count \in Nat \cup {-1}

\* Requests whose counting is under way: begun by the class, ended by +Inf.
Counting == {r \in Requests : at[r] = "buckets"}
Within(where) == {r \in Requests : at[r] \in where}

\* No request is lost or counted twice, whatever runs at the same time, times out or
\* panics: whenever none is being counted the counters agree with each other and with
\* the requests that went through.  And a scrape is never torn worse than by the requests
\* counted while it was read: its count covers every bucket it read, since observe
\* counts the class first and handleMetrics reads the count last.
CountersAgree ==
    /\ inFlight = Cardinality(Within({"handler", "leave"}))
    /\ Counting = {} =>
         LET through == Within({"returned"}) IN
         /\ TotalRequests = Cardinality(through)
         /\ bytesOut = SumFunctionOnSet([r \in Requests |-> rec[r].bytes], through)
         /\ \A b \in AllBuckets :
              bucketHits[b] = Cardinality({r \in through : slow[r] <= b})
    /\ scrape.count # -1 => \A b \in DOMAIN scrape.read : scrape.read[b] <= scrape.count

\* The recorded status and bytes are what the client got, unless the deadline came
\* first or the handler panicked with its answer begun.
RecordedAsSent ==
    \A r \in Requests :
        at[r] = "returned" /\ ~expired[r] /\ ~wrote[r] /\ client[r].status # 0 =>
            client[r] = [status |-> Recorded(r), bytes |-> rec[r].bytes]
=============================================================================
