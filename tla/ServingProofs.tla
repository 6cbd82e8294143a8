--------------------------- MODULE ServingProofs ----------------------------
(***************************************************************************)
(* Proofs about the way of a request (RequestPipeline), the load generator *)
(* (ServeBench), the opening of sources (SourceOpen) and the features of a *)
(* collection (FeaturePaging), each for every value of its constants.      *)
(***************************************************************************)
EXTENDS RequestPipeline, ServeBench, SourceOpen, FeaturePaging, DataTheorems

-----------------------------------------------------------------------------
(* The way of a request.                                                   *)

\* What was recorded and what is buffered for the client are of one length,
\* and a handler that may still write a piece has room for it.
BodyInv ==
    \A r \in Requests :
       /\ buffer[r].bytes = rec[r].bytes
       /\ at[r] \in {"sent", "handler"} => rec[r].bytes <= MaxBody

\* Up to the deadline, or a panic in the middle of an answer, the buffer has
\* the status that was recorded; and what was sent is the buffer.
SentInv ==
    \A r \in Requests :
       /\ ~expired[r] /\ ~wrote[r] => buffer[r].status = rec[r].status
       /\ ~expired[r] /\ client[r].status # 0 =>
            /\ at[r] = "returned"
            /\ client[r] = [buffer[r] EXCEPT !.status = IF @ = 0 THEN 2 ELSE @]
       /\ wrote[r] => at[r] \notin {"sent", "handler"}

\* Requests that the class counts, and those that bucket b counts.
Classed == Within({"buckets", "returned"})
HitBy(b) == {r \in Requests : /\ at[r] \in {"buckets", "returned"} /\ slow[r] <= b
                              /\ at[r] = "buckets" => b < hit[r]}
BodyBytes == [r \in Requests |-> rec[r].bytes]

\* The counters at every moment, while requests are being counted too.
CountInv ==
    /\ inFlight = Cardinality(Within({"handler", "leave"}))
    /\ TotalRequests = Cardinality(Classed)
    /\ bytesOut = SumFunctionOnSet(BodyBytes, Classed)
    /\ \A b \in AllBuckets : bucketHits[b] = Cardinality(HitBy(b))
    /\ \A r \in Requests : at[r] = "buckets" => hit[r] \in AllBuckets /\ slow[r] <= hit[r]

\* What a scrape has read lags behind the counters, and its count does not lag
\* behind what it read.
ScrapeInv ==
    /\ scrape \in [read : Seq(Nat), count : Nat \cup {-1}]
    /\ Len(scrape.read) <= Buckets + 1
    /\ scrape.count = -1 => \A b \in 1..Len(scrape.read) : scrape.read[b] <= bucketHits[b]
    /\ scrape.count # -1 => /\ Len(scrape.read) = Buckets + 1
                            /\ \A b \in 1..Len(scrape.read) : scrape.read[b] <= scrape.count

IInv == PipelineTypeOK /\ BodyInv /\ SentInv /\ CountInv /\ ScrapeInv

-----------------------------------------------------------------------------
(* Counting requests.                                                      *)

LEMMA SetsOfRequests ==
    ASSUME NEW S, S \subseteq Requests
    PROVE  IsFiniteSet(S) /\ Cardinality(S) \in Nat
BY PipelineAssumption, FS_Subset, FS_CardinalityType

LEMMA OneMore ==
    ASSUME NEW S, S \subseteq Requests, NEW r \in Requests, r \notin S, NEW T, T = S \cup {r}
    PROVE  Cardinality(T) = Cardinality(S) + 1
<1>1. Cardinality(S \cup {r}) = Cardinality(S) + 1
  BY SetsOfRequests, FS_AddElement
<1>. QED
  BY <1>1, Zenon

LEMMA OneLess ==
    ASSUME NEW S, S \subseteq Requests, NEW r \in S, NEW T, T = S \ {r}
    PROVE  Cardinality(T) = Cardinality(S) - 1
<1>1. Cardinality(S \ {r}) = Cardinality(S) - 1
  BY SetsOfRequests, FS_RemoveElement
<1>. QED
  BY <1>1, Zenon

LEMMA Typed ==
    ASSUME PipelineTypeOK
    PROVE  /\ at \in [Requests -> {"sent", "handler", "leave", "buckets", "returned"}]
           /\ rec \in [Requests -> [status : 0..5, bytes : 0..(MaxBody + 1)]]
           /\ buffer \in [Requests -> [status : 0..5, bytes : 0..(MaxBody + 1)]]
           /\ client \in [Requests -> [status : 0..5, bytes : 0..(MaxBody + 1)]]
           /\ expired \in [Requests -> BOOLEAN] /\ wrote \in [Requests -> BOOLEAN]
           /\ slow \in [Requests -> AllBuckets] /\ hit \in [Requests -> AllBuckets \cup {0}]
           /\ requests \in [1..5 -> Nat] /\ bytesOut \in Nat /\ inFlight \in Nat
           /\ bucketHits \in [AllBuckets -> Nat]
BY DEF PipelineTypeOK

Answers == [status : 0..5, bytes : 0..(MaxBody + 1)]

\* The types, each on its own, for the state after a step.
LEMMA TypedAfter ==
    ASSUME at' \in [Requests -> {"sent", "handler", "leave", "buckets", "returned"}],
           rec' \in [Requests -> Answers], buffer' \in [Requests -> Answers],
           client' \in [Requests -> Answers],
           expired' \in [Requests -> BOOLEAN], wrote' \in [Requests -> BOOLEAN],
           slow' \in [Requests -> AllBuckets], hit' \in [Requests -> AllBuckets \cup {0}],
           requests' \in [1..5 -> Nat], bytesOut' \in Nat, inFlight' \in Nat,
           bucketHits' \in [AllBuckets -> Nat],
           ScrapeInv'
    PROVE  PipelineTypeOK'
BY DEF PipelineTypeOK, Answers, ScrapeInv

\* A step of an unfinished handler counts nothing.
LEMMA NothingCounted ==
    ASSUME IInv, NEW r \in Requests, at[r] = "handler",
           at' = at \/ at' = [at EXCEPT ![r] = "leave"],
           \A x \in Requests : x # r => rec'[x] = rec[x],
           UNCHANGED <<slow, hit, counters, scrape>>
    PROVE  CountInv' /\ ScrapeInv'
<1>1. UNCHANGED <<slow, hit, requests, bytesOut, inFlight, bucketHits, scrape>>
  BY DEF counters
<1>2. \A x \in Requests : /\ at'[x] \in {"buckets", "returned"} <=> at[x] \in {"buckets", "returned"}
                          /\ at'[x] = "buckets" <=> at[x] = "buckets"
                          /\ at'[x] \in {"handler", "leave"} <=> at[x] \in {"handler", "leave"}
  BY Typed DEF IInv
<1>3. Within({"handler", "leave"})' = Within({"handler", "leave"}) /\ Classed' = Classed
  BY <1>2 DEF Within, Classed
<1>4. \A b \in AllBuckets : HitBy(b)' = HitBy(b)
  BY <1>1, <1>2 DEF HitBy
<1>5. TotalRequests' = TotalRequests
  BY <1>1 DEF TotalRequests
<1>6. SumFunctionOnSet(BodyBytes', Classed) = SumFunctionOnSet(BodyBytes, Classed)
  <2>1. \A x \in Classed : BodyBytes'[x] = BodyBytes[x]
    BY DEF BodyBytes, Classed, Within
  <2>2. IsFiniteSet(Classed)
    BY SetsOfRequests DEF Classed, Within
  <2>. QED
    BY <2>1, <2>2, SumCongruence
<1>7. CountInv'
  <2>1. inFlight' = Cardinality(Within({"handler", "leave"})')
    BY <1>1, <1>3 DEF IInv, CountInv
  <2>2. TotalRequests' = Cardinality(Classed')
    BY <1>3, <1>5 DEF IInv, CountInv
  <2>3. bytesOut' = SumFunctionOnSet(BodyBytes', Classed')
    BY <1>1, <1>3, <1>6, Zenon DEF IInv, CountInv
  <2>4. \A b \in AllBuckets : bucketHits'[b] = Cardinality(HitBy(b)')
    BY <1>1, <1>4, Zenon DEF IInv, CountInv
  <2>5. \A x \in Requests : at'[x] = "buckets" => hit'[x] \in AllBuckets /\ slow'[x] <= hit'[x]
    BY <1>1, <1>2 DEF IInv, CountInv
  <2>. QED
    BY <2>1, <2>2, <2>3, <2>4, <2>5 DEF CountInv
<1>. QED
  BY <1>1, <1>7 DEF IInv, ScrapeInv

-----------------------------------------------------------------------------
(* The steps of a handler.                                                 *)

\* What a handler's step may do to one request, and what then holds of all.
LEMMA HandlerStep ==
    ASSUME IInv, NEW r \in Requests, at[r] = "handler",
           at' = at \/ at' = [at EXCEPT ![r] = "leave"],
           NEW a \in Answers, NEW b \in Answers, NEW w \in BOOLEAN,
           rec' = [rec EXCEPT ![r] = a], buffer' = [buffer EXCEPT ![r] = b],
           wrote' = [wrote EXCEPT ![r] = w],
           b.bytes = a.bytes,
           ~expired[r] /\ ~w => b.status = a.status,
           at' = at => a.bytes <= MaxBody /\ ~w,
           UNCHANGED <<expired, slow, hit, client, counters, scrape>>
    PROVE  IInv'
<1>1. CountInv' /\ ScrapeInv'
  <2>1. \A x \in Requests : x # r => rec'[x] = rec[x]
    BY Typed DEF IInv
  <2>. QED
    BY <2>1, NothingCounted
<1>2. PipelineTypeOK'
  <2>1. /\ rec' \in [Requests -> Answers] /\ buffer' \in [Requests -> Answers]
        /\ client' \in [Requests -> Answers] /\ wrote' \in [Requests -> BOOLEAN]
        /\ at' \in [Requests -> {"sent", "handler", "leave", "buckets", "returned"}]
    BY Typed DEF IInv, Answers
  <2>2. UNCHANGED <<expired, slow, hit, requests, bytesOut, inFlight, bucketHits>>
    BY DEF counters
  <2>. QED
    BY <1>1, <2>1, <2>2, Typed, TypedAfter DEF IInv
<1>3. at'[r] \in {"handler", "leave"} /\ (at'[r] = "handler" => at' = at)
  BY Typed DEF IInv
<1>4. \A x \in Requests : x # r => /\ at'[x] = at[x] /\ rec'[x] = rec[x] /\ buffer'[x] = buffer[x]
                                 /\ wrote'[x] = wrote[x]
  BY Typed DEF IInv
<1>5. rec'[r] = a /\ buffer'[r] = b /\ wrote'[r] = w
  BY Typed DEF IInv
<1>6. BodyInv'
  BY <1>3, <1>4, <1>5 DEF IInv, BodyInv
<1>7. SentInv'
  <2> DEFINE Sent(x) ==
        /\ ~expired[x] /\ ~wrote[x] => buffer[x].status = rec[x].status
        /\ ~expired[x] /\ client[x].status # 0 =>
             /\ at[x] = "returned"
             /\ client[x] = [buffer[x] EXCEPT !.status = IF @ = 0 THEN 2 ELSE @]
        /\ wrote[x] => at[x] \notin {"sent", "handler"}
  <2>1. ASSUME NEW x \in Requests, x # r
        PROVE  Sent(x)'
    <3>1. Sent(x)
      BY DEF IInv, SentInv
    <3>. QED
      BY <1>4, <2>1, <3>1
  <2>2. Sent(r)'
    <3>1. expired[r] \/ client[r].status = 0
      BY DEF IInv, SentInv
    <3>2. w => at'[r] = "leave"
      BY <1>3
    <3>. QED
      BY <1>5, <3>1, <3>2
  <2>. QED
    BY <2>1, <2>2 DEF SentInv
<1>. QED
  BY <1>1, <1>2, <1>6, <1>7 DEF IInv

\* What a request that is being handled looks like.
LEMMA HandlerFacts ==
    ASSUME IInv, NEW r \in Requests, at[r] = "handler"
    PROVE  /\ rec[r] \in Answers /\ buffer[r] \in Answers /\ expired[r] \in BOOLEAN
           /\ buffer[r].bytes = rec[r].bytes /\ rec[r].bytes <= MaxBody /\ wrote[r] = FALSE
           /\ ~expired[r] => buffer[r].status = rec[r].status
           /\ wrote = [wrote EXCEPT ![r] = FALSE]
           /\ rec = [rec EXCEPT ![r] = rec[r]] /\ buffer = [buffer EXCEPT ![r] = buffer[r]]
<1>1. /\ rec[r] \in Answers /\ buffer[r] \in Answers /\ expired[r] \in BOOLEAN
      /\ wrote[r] \in BOOLEAN
  BY Typed DEF IInv, Answers
<1>2. buffer[r].bytes = rec[r].bytes /\ rec[r].bytes <= MaxBody /\ ~wrote[r]
  BY DEF IInv, BodyInv, SentInv
<1>3. ~expired[r] => buffer[r].status = rec[r].status
  BY <1>2 DEF IInv, SentInv
<1>4. rec = [rec EXCEPT ![r] = rec[r]] /\ buffer = [buffer EXCEPT ![r] = buffer[r]]
  BY Typed DEF IInv
<1>5. wrote[r] = FALSE
  BY <1>1, <1>2
<1>6. wrote = [wrote EXCEPT ![r] = FALSE]
  BY <1>5, Typed DEF IInv
<1>. QED
  BY <1>1, <1>2, <1>3, <1>4, <1>5, <1>6

\* The status of an answer, set once.
Headed(answer, status) == [answer EXCEPT !.status = status]
LEMMA HeadedAnswer ==
    ASSUME NEW answer \in Answers, NEW status \in 1..5
    PROVE  /\ Headed(answer, status) \in Answers /\ Headed(answer, status).status = status
           /\ Headed(answer, status).bytes = answer.bytes
BY DEF Answers, Headed

LEMMA HeaderStep ==
    ASSUME IInv, NEW r \in Requests, at[r] = "handler", rec[r].status = 0, NEW status \in 1..5,
           Header(r, status),
           at' = at \/ at' = [at EXCEPT ![r] = "leave"],
           UNCHANGED <<expired, slow, hit, client, wrote, counters, scrape>>
    PROVE  IInv'
<1> DEFINE a == Headed(rec[r], status)
           b == IF expired[r] \/ buffer[r].status # 0 THEN buffer[r] ELSE Headed(buffer[r], status)
<1>0. /\ rec[r] \in Answers /\ buffer[r] \in Answers /\ buffer[r].bytes = rec[r].bytes
      /\ ~expired[r] => buffer[r].status = 0
  BY HandlerFacts
<1>1. a \in Answers /\ a.bytes = rec[r].bytes /\ a.status = status
  BY <1>0, HeadedAnswer
<1>2. b \in Answers /\ b.bytes = rec[r].bytes /\ (~expired[r] => b.status = status)
  <2>1. CASE expired[r] \/ buffer[r].status # 0
    BY <1>0, <2>1
  <2>2. CASE ~(expired[r] \/ buffer[r].status # 0)
    <3>1. b = Headed(buffer[r], status)
      BY <2>2
    <3>. QED
      BY <1>0, <3>1, HeadedAnswer
  <2>. QED
    BY <2>1, <2>2
<1>3. rec' = [rec EXCEPT ![r] = a]
  BY Typed DEF Header, Headed, IInv
<1>4. buffer' = [buffer EXCEPT ![r] = b]
  BY HandlerFacts, Typed DEF Header, Headed, IInv
<1>5. wrote' = [wrote EXCEPT ![r] = FALSE] /\ a.bytes <= MaxBody
  BY <1>1, HandlerFacts
<1> HIDE DEF a, b
<1>. QED
  BY <1>1, <1>2, <1>3, <1>4, <1>5, HandlerStep

LEMMA RespondStep ==
    ASSUME IInv, NEW r \in Requests, at[r] = "handler", NEW status \in 1..5,
           Respond(r, status), NEW w \in BOOLEAN, w = (rec[r].status # 0),
           at' = [at EXCEPT ![r] = "leave"], wrote' = [wrote EXCEPT ![r] = w],
           UNCHANGED <<expired, slow, hit, client, counters, scrape>>
    PROVE  IInv'
<1> DEFINE n == IF expired[r] THEN 0 ELSE 1
           a == [status |-> status, bytes |-> rec[r].bytes + n]
           b == IF expired[r] THEN buffer[r]
                ELSE [status |-> IF buffer[r].status = 0 THEN status ELSE buffer[r].status,
                      bytes |-> buffer[r].bytes + 1]
<1>1. rec' = [rec EXCEPT ![r] = a]
  BY DEF Respond
<1>2. buffer' = [buffer EXCEPT ![r] = b]
  BY HandlerFacts DEF Respond
<1>3. a \in Answers /\ b \in Answers /\ b.bytes = a.bytes
  <2>0. /\ rec[r] \in Answers /\ buffer[r] \in Answers
        /\ buffer[r].bytes = rec[r].bytes /\ rec[r].bytes <= MaxBody
    BY HandlerFacts
  <2>1. /\ rec[r].bytes \in 0..MaxBody /\ buffer[r].bytes = rec[r].bytes
        /\ buffer[r] \in Answers /\ buffer[r].status \in 0..5
    BY <2>0, PipelineAssumption DEF Answers
  <2>2. /\ rec[r].bytes + n \in 0..(MaxBody + 1) /\ rec[r].bytes + 1 \in 0..(MaxBody + 1)
        /\ status \in 0..5
    BY <2>1, PipelineAssumption
  <2>3. a \in Answers
    BY <2>2 DEF Answers
  <2>4. CASE expired[r]
    BY <2>1, <2>3, <2>4
  <2>5. CASE ~expired[r]
    <3>1. b.bytes = rec[r].bytes + 1 /\ a.bytes = rec[r].bytes + 1
      BY <2>1, <2>5
    <3>2. b \in Answers
      BY <2>1, <2>2, <2>5 DEF Answers
    <3>. QED
      BY <2>3, <3>1, <3>2
  <2>. QED
    BY <2>4, <2>5
<1>4. ~expired[r] /\ ~w => b.status = a.status
  BY HandlerFacts
<1>5. at' # at
  <2>1. at'[r] = "leave"
    BY Typed DEF IInv
  <2>. QED
    BY <2>1
<1> HIDE DEF a, b
<1>. QED
  BY <1>1, <1>2, <1>3, <1>4, <1>5, HandlerStep

LEMMA StepHandle ==
    ASSUME IInv, NEW r \in Requests, Handle(r), ~Arrive(r)
    PROVE  IInv'
<1>1. CASE Preflight(r)
  <2>1. /\ at[r] = "handler" /\ rec[r].status = 0 /\ Header(r, 2) /\ 2 \in 1..5
        /\ at' = [at EXCEPT ![r] = "leave"]
        /\ UNCHANGED <<expired, slow, hit, client, wrote, counters, scrape>>
    BY <1>1 DEF Preflight, Nothing, Goto
  <2>. QED
    BY <2>1, HeaderStep
<1>2. CASE Unauthorized(r)
  <2>1. /\ at[r] = "handler" /\ rec[r].status = 0 /\ Respond(r, 4) /\ 4 \in 1..5
        /\ at' = [at EXCEPT ![r] = "leave"]
        /\ UNCHANGED <<expired, slow, hit, client, wrote, counters, scrape>>
    BY <1>2 DEF Unauthorized, Nothing, Goto
  <2>2. wrote' = [wrote EXCEPT ![r] = FALSE] /\ FALSE = (rec[r].status # 0)
    BY <2>1, HandlerFacts
  <2>. QED
    BY <2>1, <2>2, RespondStep
<1>3. ASSUME NEW status \in Statuses, WriteHeader(r, status)
      PROVE  IInv'
  <2>1. /\ at[r] = "handler" /\ rec[r].status = 0 /\ Header(r, status) /\ status \in 1..5
        /\ UNCHANGED <<at, expired, slow, hit, client, wrote, counters, scrape>>
    BY <1>3, PipelineAssumption DEF WriteHeader
  <2>. QED
    BY <2>1, HeaderStep
<1>4. CASE WriteBody(r)
  <2>1. /\ at[r] = "handler" /\ rec[r].bytes < MaxBody
        /\ UNCHANGED <<at, expired, slow, hit, client, wrote, counters, scrape>>
    BY <1>4 DEF WriteBody
  <2> DEFINE a == [status |-> IF rec[r].status = 0 THEN 2 ELSE rec[r].status,
                   bytes |-> IF expired[r] THEN rec[r].bytes ELSE rec[r].bytes + 1]
             b == IF expired[r] THEN buffer[r]
                  ELSE [status |-> IF buffer[r].status = 0 THEN 2 ELSE buffer[r].status,
                        bytes |-> buffer[r].bytes + 1]
  <2>2. rec' = [rec EXCEPT ![r] = a]
    BY <1>4 DEF WriteBody
  <2>3. buffer' = [buffer EXCEPT ![r] = b]
    BY <1>4, <2>1, HandlerFacts DEF WriteBody
  <2>4. /\ a \in Answers /\ b \in Answers /\ b.bytes = a.bytes /\ a.bytes <= MaxBody
        /\ ~expired[r] => b.status = a.status
    <3>0. /\ rec[r] \in Answers /\ buffer[r] \in Answers
          /\ buffer[r].bytes = rec[r].bytes /\ rec[r].bytes <= MaxBody
          /\ ~expired[r] => buffer[r].status = rec[r].status
      BY <2>1, HandlerFacts
    <3>1. /\ rec[r].bytes \in 0..MaxBody /\ buffer[r].bytes = rec[r].bytes
          /\ buffer[r] \in Answers /\ buffer[r].status \in 0..5 /\ rec[r].status \in 0..5
          /\ ~expired[r] => buffer[r].status = rec[r].status
      BY <3>0, PipelineAssumption DEF Answers
    <3>2. rec[r].bytes \in 0..(MaxBody + 1) /\ rec[r].bytes + 1 \in 0..(MaxBody + 1)
      BY <2>1, <3>1, PipelineAssumption
    <3>3. CASE expired[r]
      BY <3>1, <3>2, <3>3 DEF Answers
    <3>4. CASE ~expired[r]
      <4>1. rec[r].bytes + 1 <= MaxBody
        BY <2>1, <3>1, PipelineAssumption
      <4>2. a \in Answers /\ b \in Answers
        BY <3>1, <3>2, <3>4 DEF Answers
      <4>. QED
        BY <3>1, <3>4, <4>1, <4>2
    <3>. QED
      BY <3>3, <3>4
  <2>5. wrote' = [wrote EXCEPT ![r] = FALSE]
    BY <2>1, HandlerFacts
  <2> HIDE DEF a, b
  <2>. QED
    BY <2>1, <2>2, <2>3, <2>4, <2>5, HandlerStep
<1>5. CASE Finish(r)
  <2>1. /\ at[r] = "handler" /\ at' = [at EXCEPT ![r] = "leave"]
        /\ UNCHANGED <<rec, buffer, expired, slow, hit, client, wrote, counters, scrape>>
    BY <1>5 DEF Finish, Goto
  <2> DEFINE a == rec[r]
             b == buffer[r]
  <2>2. /\ rec' = [rec EXCEPT ![r] = a] /\ buffer' = [buffer EXCEPT ![r] = b]
        /\ wrote' = [wrote EXCEPT ![r] = FALSE]
    BY <2>1, HandlerFacts
  <2>3. /\ a \in Answers /\ b \in Answers /\ b.bytes = a.bytes /\ a.bytes <= MaxBody
        /\ ~expired[r] => b.status = a.status
    BY <2>1, HandlerFacts
  <2> HIDE DEF a, b
  <2>. QED
    BY <2>1, <2>2, <2>3, HandlerStep
<1>6. CASE Panic(r)
  <2> DEFINE w == rec[r].status # 0
  <2>1. /\ at[r] = "handler" /\ at' = [at EXCEPT ![r] = "leave"]
        /\ Respond(r, 5) /\ 5 \in 1..5 /\ wrote' = [wrote EXCEPT ![r] = w] /\ w \in BOOLEAN
        /\ UNCHANGED <<expired, slow, hit, client, counters, scrape>>
    BY <1>6 DEF Panic, Goto
  <2>2. w = (rec[r].status # 0)
    OBVIOUS
  <2> HIDE DEF w
  <2>. QED
    BY <2>1, <2>2, RespondStep
<1>. QED
  BY <1>1, <1>2, <1>3, <1>4, <1>5, <1>6 DEF Handle

-----------------------------------------------------------------------------
(* The steps that count a request, reply and scrape.                       *)

\* What a request on its way keeps while nothing is written for it.
LEMMA AnswersKept ==
    ASSUME IInv, NEW r \in Requests, NEW w, at' = [at EXCEPT ![r] = w],
           at[r] # "returned", at[r] = "sent" \/ w \notin {"sent", "handler"},
           UNCHANGED <<rec, buffer, expired, client, wrote>>
    PROVE  BodyInv' /\ SentInv'
<1>1. at'[r] = w /\ \A x \in Requests : x # r => at'[x] = at[x]
  BY Typed DEF IInv
<1>2. BodyInv'
  BY <1>1 DEF IInv, BodyInv
<1>3. SentInv'
  <2> DEFINE Sent(x) ==
        /\ ~expired[x] /\ ~wrote[x] => buffer[x].status = rec[x].status
        /\ ~expired[x] /\ client[x].status # 0 =>
             /\ at[x] = "returned"
             /\ client[x] = [buffer[x] EXCEPT !.status = IF @ = 0 THEN 2 ELSE @]
        /\ wrote[x] => at[x] \notin {"sent", "handler"}
  <2>1. \A x \in Requests : Sent(x)
    BY DEF IInv, SentInv
  <2>2. \A x \in Requests : x # r => Sent(x)'
    BY <1>1, <2>1
  <2>3. Sent(r)'
    BY <1>1, <2>1
  <2>. QED
    BY <2>2, <2>3 DEF SentInv
<1>. QED
  BY <1>2, <1>3

LEMMA StepArrive ==
    ASSUME IInv, NEW r \in Requests, Arrive(r)
    PROVE  IInv'
<1>1. /\ at[r] = "sent" /\ inFlight' = inFlight + 1 /\ at' = [at EXCEPT ![r] = "handler"]
      /\ UNCHANGED <<rec, buffer, expired, slow, hit, client, wrote, requests, bytesOut,
                     bucketHits, scrape>>
  BY DEF Arrive, Goto
<1>2. at'[r] = "handler" /\ \A x \in Requests : x # r => at'[x] = at[x]
  BY <1>1, Typed DEF IInv
<1>3. BodyInv' /\ SentInv'
  BY <1>1, AnswersKept
<1>4. ScrapeInv'
  BY <1>1 DEF IInv, ScrapeInv
<1>5. PipelineTypeOK'
  <2>1. /\ rec \in [Requests -> Answers] /\ buffer \in [Requests -> Answers]
        /\ client \in [Requests -> Answers] /\ inFlight' \in Nat
        /\ at' \in [Requests -> {"sent", "handler", "leave", "buckets", "returned"}]
    BY <1>1, Typed DEF IInv, Answers
  <2>. QED
    BY <1>1, <1>4, <2>1, Typed, TypedAfter DEF IInv
<1>6. Classed' = Classed
  BY <1>1, <1>2 DEF Classed, Within
<1>7. CountInv'
  <2>1. inFlight' = Cardinality(Within({"handler", "leave"})')
    <3>1. /\ Within({"handler", "leave"})' = Within({"handler", "leave"}) \cup {r}
          /\ Within({"handler", "leave"}) \subseteq Requests /\ r \notin Within({"handler", "leave"})
      BY <1>1, <1>2 DEF Within
    <3>. QED
      BY <1>1, <3>1, OneMore DEF IInv, CountInv
  <2>2. TotalRequests' = Cardinality(Classed')
    <3>1. TotalRequests' = TotalRequests
      BY <1>1 DEF TotalRequests
    <3>. QED
      BY <1>6, <3>1 DEF IInv, CountInv
  <2>3. bytesOut' = SumFunctionOnSet(BodyBytes', Classed')
    <3>1. BodyBytes' = BodyBytes
      BY <1>1 DEF BodyBytes
    <3>. QED
      BY <1>1, <1>6, <3>1, Zenon DEF IInv, CountInv
  <2>4. ASSUME NEW b \in AllBuckets
        PROVE  bucketHits'[b] = Cardinality(HitBy(b)')
    <3>1. HitBy(b)' = HitBy(b)
      BY <1>1, <1>2 DEF HitBy
    <3>. QED
      BY <1>1, <3>1, Zenon DEF IInv, CountInv
  <2>5. \A x \in Requests : at'[x] = "buckets" => hit'[x] \in AllBuckets /\ slow'[x] <= hit'[x]
    BY <1>1, <1>2 DEF IInv, CountInv
  <2>. QED
    BY <2>1, <2>2, <2>3, <2>4, <2>5 DEF CountInv
<1>. QED
  BY <1>3, <1>4, <1>5, <1>7 DEF IInv

\* What is counted for a request is a class and a number of bytes.
LEMMA RecordedTyped ==
    ASSUME PipelineTypeOK
    PROVE  \A r \in Requests : Recorded(r) \in 1..5 /\ BodyBytes[r] \in Nat
<1> SUFFICES ASSUME NEW r \in Requests PROVE Recorded(r) \in 1..5 /\ BodyBytes[r] \in Nat
  OBVIOUS
<1>1. rec[r].status \in 0..5 /\ rec[r].bytes \in Nat
  BY Typed, PipelineAssumption
<1>. QED
  BY <1>1 DEF Recorded, BodyBytes

LEMMA StepCountClass ==
    ASSUME IInv, NEW r \in Requests, CountClass(r)
    PROVE  IInv'
<1>1. PICK n \in AllBuckets : slow' = [slow EXCEPT ![r] = n] /\ hit' = [hit EXCEPT ![r] = n]
  BY DEF CountClass
<1>2. /\ at[r] = "leave" /\ inFlight' = inFlight - 1 /\ at' = [at EXCEPT ![r] = "buckets"]
      /\ requests' = [requests EXCEPT ![Recorded(r)] = @ + 1]
      /\ bytesOut' = bytesOut + rec[r].bytes
      /\ UNCHANGED <<rec, buffer, expired, client, wrote, bucketHits, scrape>>
  BY DEF CountClass, Goto
<1>3. at'[r] = "buckets" /\ \A x \in Requests : x # r => at'[x] = at[x]
  BY <1>2, Typed DEF IInv
<1>4. slow'[r] = n /\ hit'[r] = n /\ \A x \in Requests : x # r => slow'[x] = slow[x] /\ hit'[x] = hit[x]
  BY <1>1, Typed DEF IInv
<1>5. BodyInv' /\ SentInv'
  BY <1>2, AnswersKept
<1>6. ScrapeInv'
  BY <1>2 DEF IInv, ScrapeInv
<1>7. Classed' = Classed \cup {r} /\ Classed \subseteq Requests /\ r \notin Classed
  BY <1>2, <1>3 DEF Classed, Within
<1>8. IsFiniteSet(Classed)
  BY <1>7, SetsOfRequests
<1>9. Recorded(r) \in 1..5 /\ \A x \in Requests : BodyBytes[x] \in Nat
  BY RecordedTyped DEF IInv
<1>10. inFlight' = Cardinality(Within({"handler", "leave"})')
  <2>1. /\ Within({"handler", "leave"})' = Within({"handler", "leave"}) \ {r}
        /\ Within({"handler", "leave"}) \subseteq Requests /\ r \in Within({"handler", "leave"})
    BY <1>2, <1>3 DEF Within
  <2>. QED
    BY <1>2, <2>1, OneLess DEF IInv, CountInv
<1>11. bytesOut' = SumFunctionOnSet(BodyBytes', Classed')
  <2>1. BodyBytes' = BodyBytes /\ BodyBytes[r] = rec[r].bytes
    BY <1>2 DEF BodyBytes
  <2>2. SumFunctionOnSet(BodyBytes, Classed \cup {r}) = BodyBytes[r] + SumFunctionOnSet(BodyBytes, Classed)
    <3>1. \A x \in Classed \cup {r} : BodyBytes[x] \in Int
      BY <1>7, <1>9
    <3>. QED
      BY <1>7, <1>8, <3>1, SumAdd
  <2>3. SumFunctionOnSet(BodyBytes', Classed') = rec[r].bytes + bytesOut
    BY <1>7, <2>1, <2>2, Zenon DEF IInv, CountInv
  <2>4. rec[r].bytes \in Nat /\ bytesOut \in Nat
    BY <1>9, <2>1, Typed DEF IInv
  <2>. QED
    BY <1>2, <2>3, <2>4
<1>12. TotalRequests' = Cardinality(Classed')
  <2>1. TotalRequests' = TotalRequests + 1
    BY <1>2, <1>9, Typed DEF IInv, TotalRequests
  <2>. QED
    BY <1>7, <2>1, OneMore DEF IInv, CountInv
<1>13. ASSUME NEW b \in AllBuckets
       PROVE  bucketHits'[b] = Cardinality(HitBy(b)')
  <2>1. HitBy(b)' = HitBy(b)
    <3>1. b \in Int /\ n \in Int
      BY PipelineAssumption DEF AllBuckets
    <3>2. \A x \in Requests : x \in HitBy(b)' <=> x \in HitBy(b)
      <4>1. r \notin HitBy(b)' /\ r \notin HitBy(b)
        BY <1>2, <1>3, <1>4, <3>1 DEF HitBy
      <4>2. \A x \in Requests : x # r => (x \in HitBy(b)' <=> x \in HitBy(b))
        BY <1>3, <1>4 DEF HitBy
      <4>. QED
        BY <4>1, <4>2
    <3>. QED
      BY <3>2 DEF HitBy
  <2>. QED
    BY <1>2, <2>1, Zenon DEF IInv, CountInv
<1>14. \A x \in Requests : at'[x] = "buckets" => hit'[x] \in AllBuckets /\ slow'[x] <= hit'[x]
  <2>1. n <= n
    BY PipelineAssumption DEF AllBuckets
  <2>. QED
    BY <1>3, <1>4, <2>1 DEF IInv, CountInv
<1>15. CountInv'
  BY <1>10, <1>11, <1>12, <1>13, <1>14 DEF CountInv
<1>16. PipelineTypeOK'
  <2>1. /\ rec \in [Requests -> Answers] /\ buffer \in [Requests -> Answers]
        /\ client \in [Requests -> Answers]
        /\ at' \in [Requests -> {"sent", "handler", "leave", "buckets", "returned"}]
        /\ slow' \in [Requests -> AllBuckets] /\ hit' \in [Requests -> AllBuckets \cup {0}]
    BY <1>1, <1>2, Typed DEF IInv, Answers
  <2>2. inFlight' \in Nat
    <3>1. Within({"handler", "leave"})' \subseteq Requests
      BY DEF Within
    <3>. QED
      BY <1>10, <3>1, SetsOfRequests, Zenon
  <2>3. bytesOut' \in Nat /\ requests' \in [1..5 -> Nat]
    <3>1. rec[r].bytes = BodyBytes[r]
      BY DEF BodyBytes
    <3>2. rec[r].bytes \in Nat
      BY <1>9, <3>1
    <3>. QED
      BY <1>2, <1>9, <3>2, Typed DEF IInv
  <2>. QED
    BY <1>2, <1>6, <2>1, <2>2, <2>3, Typed, TypedAfter DEF IInv
<1>. QED
  BY <1>5, <1>6, <1>15, <1>16 DEF IInv

\* Where counting into a bucket leaves the request.
LEMMA CountBucketFacts ==
    ASSUME IInv, NEW r \in Requests, CountBucket(r)
    PROVE  /\ at[r] = "buckets" /\ hit[r] \in AllBuckets /\ slow[r] \in AllBuckets /\ slow[r] <= hit[r]
           /\ bucketHits' = [bucketHits EXCEPT ![hit[r]] = @ + 1]
           /\ UNCHANGED <<rec, buffer, expired, slow, client, wrote, requests, bytesOut, inFlight,
                          scrape>>
           /\ at' \in [Requests -> {"sent", "handler", "leave", "buckets", "returned"}]
           /\ hit' \in [Requests -> AllBuckets \cup {0}]
           /\ \A x \in Requests : x # r => at'[x] = at[x] /\ hit'[x] = hit[x]
           /\ \/ hit[r] = Buckets + 1 /\ at'[r] = "returned"
              \/ /\ hit[r] # Buckets + 1 /\ at'[r] = "buckets"
                 /\ hit'[r] = hit[r] + 1 /\ hit'[r] \in AllBuckets
           /\ \E w \in {"buckets", "returned"} : at' = [at EXCEPT ![r] = w]
<1>1. at[r] = "buckets" /\ hit[r] \in AllBuckets /\ slow[r] \in AllBuckets /\ slow[r] <= hit[r]
  BY Typed DEF IInv, CountInv, CountBucket
<1>2. /\ bucketHits' = [bucketHits EXCEPT ![hit[r]] = @ + 1]
      /\ UNCHANGED <<rec, buffer, expired, slow, client, wrote, requests, bytesOut, inFlight, scrape>>
  BY DEF CountBucket
<1>3. CASE hit[r] = Buckets + 1
  <2>1. at' = [at EXCEPT ![r] = "returned"] /\ hit' = [hit EXCEPT ![r] = 0]
    BY <1>3 DEF CountBucket, Goto
  <2>2. /\ at' \in [Requests -> {"sent", "handler", "leave", "buckets", "returned"}]
        /\ hit' \in [Requests -> AllBuckets \cup {0}]
        /\ \A x \in Requests : x # r => at'[x] = at[x] /\ hit'[x] = hit[x]
        /\ at'[r] = "returned"
    BY <2>1, Typed DEF IInv
  <2>. QED
    BY <1>1, <1>2, <1>3, <2>1, <2>2
<1>4. CASE hit[r] # Buckets + 1
  <2>1. at' = at /\ hit' = [hit EXCEPT ![r] = hit[r] + 1]
    BY <1>4 DEF CountBucket
  <2>2. hit[r] + 1 \in AllBuckets
    BY <1>1, <1>4, PipelineAssumption DEF AllBuckets
  <2>3. /\ at' \in [Requests -> {"sent", "handler", "leave", "buckets", "returned"}]
        /\ hit' \in [Requests -> AllBuckets \cup {0}] /\ hit'[r] = hit[r] + 1
        /\ \A x \in Requests : x # r => at'[x] = at[x] /\ hit'[x] = hit[x]
    BY <2>1, <2>2, Typed DEF IInv
  <2>4. at' = [at EXCEPT ![r] = "buckets"] /\ at'[r] = "buckets"
    BY <1>1, <2>1, Typed DEF IInv
  <2>. QED
    BY <1>1, <1>2, <1>4, <2>2, <2>3, <2>4
<1>. QED
  BY <1>3, <1>4

LEMMA StepCountBucket ==
    ASSUME IInv, NEW r \in Requests, CountBucket(r)
    PROVE  IInv'
<1>1. /\ at[r] = "buckets" /\ hit[r] \in AllBuckets /\ slow[r] \in AllBuckets /\ slow[r] <= hit[r]
      /\ bucketHits' = [bucketHits EXCEPT ![hit[r]] = @ + 1]
      /\ UNCHANGED <<rec, buffer, expired, slow, client, wrote, requests, bytesOut, inFlight, scrape>>
  BY CountBucketFacts
<1>2. /\ at' \in [Requests -> {"sent", "handler", "leave", "buckets", "returned"}]
      /\ hit' \in [Requests -> AllBuckets \cup {0}]
      /\ \A x \in Requests : x # r => at'[x] = at[x] /\ hit'[x] = hit[x]
  BY CountBucketFacts
<1>3. \/ hit[r] = Buckets + 1 /\ at'[r] = "returned"
      \/ /\ hit[r] # Buckets + 1 /\ at'[r] = "buckets" /\ hit'[r] = hit[r] + 1 /\ hit'[r] \in AllBuckets
  BY CountBucketFacts
<1>4. AllBuckets \subseteq Int /\ \A b \in AllBuckets : b <= Buckets + 1
  BY PipelineAssumption DEF AllBuckets
<1>5. BodyInv' /\ SentInv'
  BY <1>1, CountBucketFacts, AnswersKept
<1>6. bucketHits \in [AllBuckets -> Nat] /\ bucketHits' \in [AllBuckets -> Nat]
  BY <1>1, Typed DEF IInv
<1>7. \A b \in AllBuckets : bucketHits[b] <= bucketHits'[b]
  BY <1>1, <1>6
<1>8. ScrapeInv'
  <2>1. /\ scrape' = scrape /\ scrape.read \in Seq(Nat) /\ Len(scrape.read) <= Buckets + 1
        /\ scrape \in [read : Seq(Nat), count : Nat \cup {-1}]
        /\ scrape.count = -1 => \A b \in 1..Len(scrape.read) : scrape.read[b] <= bucketHits[b]
        /\ scrape.count # -1 => /\ Len(scrape.read) = Buckets + 1
                                /\ \A b \in 1..Len(scrape.read) : scrape.read[b] <= scrape.count
    BY <1>1 DEF IInv, ScrapeInv
  <2>2. \A b \in 1..Len(scrape.read) : b \in AllBuckets /\ scrape.read[b] \in Nat
    BY <2>1, PipelineAssumption DEF AllBuckets
  <2>3. scrape.count = -1 => \A b \in 1..Len(scrape.read) : scrape.read[b] <= bucketHits'[b]
    BY <1>6, <1>7, <2>1, <2>2
  <2>. QED
    BY <2>1, <2>3 DEF ScrapeInv
<1>9. PipelineTypeOK'
  <2>1. /\ rec \in [Requests -> Answers] /\ buffer \in [Requests -> Answers]
        /\ client \in [Requests -> Answers]
    BY Typed DEF IInv, Answers
  <2>. QED
    BY <1>1, <1>2, <1>6, <1>8, <2>1, Typed, TypedAfter DEF IInv
<1>10. Within({"handler", "leave"})' = Within({"handler", "leave"}) /\ Classed' = Classed
  BY <1>1, <1>2, <1>3 DEF Within, Classed
<1>11. inFlight' = Cardinality(Within({"handler", "leave"})')
  BY <1>1, <1>10 DEF IInv, CountInv
<1>12. TotalRequests' = Cardinality(Classed')
  <2>1. TotalRequests' = TotalRequests
    BY <1>1 DEF TotalRequests
  <2>. QED
    BY <1>10, <2>1 DEF IInv, CountInv
<1>13. bytesOut' = SumFunctionOnSet(BodyBytes', Classed')
  <2>1. BodyBytes' = BodyBytes
    BY <1>1 DEF BodyBytes
  <2>. QED
    BY <1>1, <1>10, <2>1, Zenon DEF IInv, CountInv
<1>14. ASSUME NEW b \in AllBuckets
       PROVE  bucketHits'[b] = Cardinality(HitBy(b)')
  <2>1. HitBy(b) \subseteq Requests /\ bucketHits[b] = Cardinality(HitBy(b))
    BY DEF HitBy, IInv, CountInv
  <2>2. \A x \in Requests : x # r => (x \in HitBy(b)' <=> x \in HitBy(b))
    BY <1>1, <1>2 DEF HitBy
  <2>3. HitBy(b)' \subseteq Requests
    BY DEF HitBy
  <2>4. CASE b = hit[r]
    <3>1. r \notin HitBy(b) /\ r \in HitBy(b)'
      BY <1>1, <1>3, <1>4, <2>4 DEF HitBy
    <3>2. HitBy(b)' = HitBy(b) \cup {r}
      BY <2>1, <2>2, <2>3, <3>1
    <3>3. Cardinality(HitBy(b)') = Cardinality(HitBy(b)) + 1
      BY <2>1, <3>1, <3>2, OneMore
    <3>. QED
      BY <1>1, <1>6, <2>1, <2>4, <3>3
  <2>5. CASE b # hit[r]
    <3>1. r \in HitBy(b)' <=> r \in HitBy(b)
      <4>1. b \in Int /\ hit[r] \in Int
        BY <1>1, <1>4
      <4>2. at'[r] = "buckets" => (b < hit'[r] <=> b < hit[r])
        BY <1>3, <2>5, <4>1
      <4>3. at'[r] = "returned" => b < hit[r]
        BY <1>3, <1>4, <2>5, <4>1
      <4>4. at'[r] \in {"buckets", "returned"} /\ slow'[r] = slow[r]
        BY <1>1, <1>3
      <4>. QED
        BY <1>1, <4>2, <4>3, <4>4 DEF HitBy
    <3>2. HitBy(b)' = HitBy(b)
      BY <2>1, <2>2, <2>3, <3>1
    <3>3. bucketHits'[b] = bucketHits[b]
      BY <1>1, <1>6, <2>5
    <3>. QED
      BY <2>1, <3>2, <3>3, Zenon
  <2>. QED
    BY <2>4, <2>5
<1>15. ASSUME NEW x \in Requests, at'[x] = "buckets"
       PROVE  hit'[x] \in AllBuckets /\ slow'[x] <= hit'[x]
  <2>1. CASE x = r
    <3>1. slow[r] \in Int /\ hit[r] \in Int /\ slow'[r] = slow[r]
      BY <1>1, <1>4
    <3>2. hit'[r] = hit[r] + 1 /\ hit'[r] \in AllBuckets
      BY <1>3, <1>15, <2>1
    <3>3. slow'[r] <= hit'[r]
      BY <1>1, <3>1, <3>2
    <3>. QED
      BY <2>1, <3>2, <3>3
  <2>2. CASE x # r
    BY <1>1, <1>2, <1>15, <2>2 DEF IInv, CountInv
  <2>. QED
    BY <2>1, <2>2
<1>16. CountInv'
  BY <1>11, <1>12, <1>13, <1>14, <1>15 DEF CountInv
<1>. QED
  BY <1>5, <1>8, <1>9, <1>16 DEF IInv

\* A step that leaves the requests where they are, and the counters, counts nothing.
LEMMA CountsKept ==
    ASSUME CountInv, UNCHANGED <<at, rec, slow, hit, counters>>
    PROVE  CountInv'
<1>1. UNCHANGED <<at, rec, slow, hit, requests, bytesOut, inFlight, bucketHits>>
  BY DEF counters
<1>2. /\ Within({"handler", "leave"})' = Within({"handler", "leave"}) /\ Classed' = Classed
      /\ BodyBytes' = BodyBytes /\ TotalRequests' = TotalRequests
  BY <1>1 DEF Within, Classed, BodyBytes, TotalRequests
<1>3. \A b \in AllBuckets : HitBy(b)' = HitBy(b)
  BY <1>1 DEF HitBy
<1>4. /\ inFlight' = Cardinality(Within({"handler", "leave"})')
      /\ TotalRequests' = Cardinality(Classed')
  BY <1>1, <1>2 DEF CountInv
<1>5. bytesOut' = SumFunctionOnSet(BodyBytes', Classed')
  BY <1>1, <1>2, Zenon DEF CountInv
<1>6. \A b \in AllBuckets : bucketHits'[b] = Cardinality(HitBy(b)')
  BY <1>1, <1>3, Zenon DEF CountInv
<1>7. \A r \in Requests : at'[r] = "buckets" => hit'[r] \in AllBuckets /\ slow'[r] <= hit'[r]
  BY <1>1 DEF CountInv
<1>. QED
  BY <1>4, <1>5, <1>6, <1>7 DEF CountInv

\* What TimeoutHandler does to the answers of one request.
LEMMA StepClient ==
    ASSUME IInv, NEW r \in Requests, Reply(r) \/ Deadline(r)
    PROVE  IInv'
<1>1. UNCHANGED <<at, rec, buffer, slow, hit, wrote, counters, scrape>>
  BY DEF Reply, Deadline
<1>2. UNCHANGED <<requests, bytesOut, inFlight, bucketHits>>
  BY <1>1 DEF counters
<1>3. CountInv' /\ BodyInv' /\ ScrapeInv'
  <2>1. CountInv'
    BY <1>1, CountsKept DEF IInv
  <2>. QED
    BY <1>1, <1>2, <2>1 DEF IInv, BodyInv, ScrapeInv
<1>4. \/ /\ at[r] = "returned" /\ expired' = expired
         /\ client' = [client EXCEPT ![r] =
                          [buffer[r] EXCEPT !.status = IF @ = 0 THEN 2 ELSE @]]
      \/ /\ expired' = [expired EXCEPT ![r] = TRUE]
         /\ client' = [client EXCEPT ![r] = [status |-> 5, bytes |-> 1]]
  BY DEF Reply, Deadline
<1>5. /\ expired' \in [Requests -> BOOLEAN] /\ client' \in [Requests -> Answers]
      /\ \A x \in Requests : x # r => expired'[x] = expired[x] /\ client'[x] = client[x]
  <2>1. /\ expired \in [Requests -> BOOLEAN] /\ client \in [Requests -> Answers]
        /\ buffer[r] \in Answers
    BY Typed DEF IInv, Answers
  <2>2. /\ [status |-> 5, bytes |-> 1] \in Answers
        /\ [buffer[r] EXCEPT !.status = IF @ = 0 THEN 2 ELSE @] \in Answers
    BY <2>1, PipelineAssumption DEF Answers
  <2>. QED
    BY <1>4, <2>1, <2>2
<1>6. PipelineTypeOK'
  <2>1. rec \in [Requests -> Answers] /\ buffer \in [Requests -> Answers]
    BY Typed DEF IInv, Answers
  <2>. QED
    BY <1>1, <1>2, <1>3, <1>5, <2>1, Typed, TypedAfter DEF IInv
<1>7. SentInv'
  <2> DEFINE Sent(x) ==
        /\ ~expired[x] /\ ~wrote[x] => buffer[x].status = rec[x].status
        /\ ~expired[x] /\ client[x].status # 0 =>
             /\ at[x] = "returned"
             /\ client[x] = [buffer[x] EXCEPT !.status = IF @ = 0 THEN 2 ELSE @]
        /\ wrote[x] => at[x] \notin {"sent", "handler"}
  <2>1. \A x \in Requests : Sent(x)
    BY DEF IInv, SentInv
  <2>2. \A x \in Requests : x # r => Sent(x)'
    BY <1>1, <1>5, <2>1
  <2>3. Sent(r)'
    <3>1. r \in DOMAIN client /\ r \in DOMAIN expired
      BY Typed DEF IInv
    <3>. QED
      BY <1>1, <1>4, <2>1, <3>1
  <2>. QED
    BY <2>2, <2>3 DEF SentInv
<1>. QED
  BY <1>3, <1>6, <1>7 DEF IInv

LEMMA StepScrape ==
    ASSUME IInv, Scrape
    PROVE  IInv'
<1>1. UNCHANGED <<handling, counters>>
  BY DEF Scrape, ScrapeBucket, ScrapeCount
<1>2. UNCHANGED <<at, rec, buffer, expired, slow, hit, client, wrote,
                  requests, bytesOut, inFlight, bucketHits>>
  BY <1>1 DEF handling, counters
<1>3. CountInv' /\ BodyInv' /\ SentInv'
  <2>1. CountInv'
    BY <1>1, <1>2, CountsKept DEF IInv
  <2>. QED
    BY <1>2, <2>1 DEF IInv, BodyInv, SentInv
<1>4. /\ scrape \in [read : Seq(Nat), count : Nat \cup {-1}] /\ Len(scrape.read) <= Buckets + 1
      /\ scrape.count = -1 => \A b \in 1..Len(scrape.read) : scrape.read[b] <= bucketHits[b]
      /\ scrape.count # -1 => /\ Len(scrape.read) = Buckets + 1
                              /\ \A b \in 1..Len(scrape.read) : scrape.read[b] <= scrape.count
  BY DEF IInv, ScrapeInv
<1>5. ScrapeInv'
  <2>1. CASE ScrapeBucket
    <3> DEFINE n == Len(scrape.read)
               v == bucketHits[n + 1]
               s == Append(scrape.read, v)
    <3>1. n \in Nat /\ n + 1 \in AllBuckets /\ v \in Nat
      <4>1. n \in Nat /\ n < Buckets + 1
        BY <1>4, <2>1 DEF ScrapeBucket
      <4>2. n + 1 \in AllBuckets
        BY <4>1, PipelineAssumption DEF AllBuckets
      <4>. QED
        BY <4>1, <4>2, Typed DEF IInv
    <3>2. scrape' = [scrape EXCEPT !.read = s]
      BY <2>1 DEF ScrapeBucket
    <3>3. scrape.count = -1
      BY <1>4, <2>1, <3>1 DEF ScrapeBucket
    <3>4. s \in Seq(Nat) /\ Len(s) = n + 1 /\ s[n + 1] = v /\ \A b \in 1..n : s[b] = scrape.read[b]
      BY <1>4, <3>1
    <3>5. \A b \in 1..Len(s) : s[b] <= bucketHits[b]
      BY <1>4, <3>1, <3>3, <3>4
    <3>6. Len(s) <= Buckets + 1
      BY <3>1, <3>4, PipelineAssumption DEF AllBuckets
    <3>7. scrape'.read = s /\ scrape'.count = -1 /\ scrape' \in [read : Seq(Nat), count : Nat \cup {-1}]
      BY <1>4, <3>2, <3>3, <3>4
    <3> HIDE DEF n, v, s
    <3>. QED
      BY <1>2, <3>5, <3>6, <3>7 DEF ScrapeInv
  <2>2. CASE ScrapeCount
    <3>1. /\ scrape.count = -1 /\ Len(scrape.read) = Buckets + 1
          /\ scrape' = [scrape EXCEPT !.count = TotalRequests]
      BY <2>2 DEF ScrapeCount
    <3>2. Classed \subseteq Requests
      BY DEF Classed, Within
    <3>3. TotalRequests = Cardinality(Classed) /\ TotalRequests \in Nat /\ IsFiniteSet(Classed)
      BY <3>2, SetsOfRequests DEF IInv, CountInv
    <3>4. ASSUME NEW b \in AllBuckets
          PROVE  bucketHits[b] \in Nat /\ bucketHits[b] <= TotalRequests
      <4>1. HitBy(b) \subseteq Classed
        BY DEF HitBy, Classed, Within
      <4>2. Cardinality(HitBy(b)) <= Cardinality(Classed)
        BY <3>3, <4>1, FS_Subset
      <4>3. bucketHits[b] = Cardinality(HitBy(b))
        BY DEF IInv, CountInv
      <4>. QED
        BY <3>3, <4>2, <4>3, Typed DEF IInv
    <3>5. ASSUME NEW b \in 1..Len(scrape.read)
          PROVE  scrape.read[b] <= TotalRequests
      <4>1. b \in AllBuckets
        BY <3>1 DEF AllBuckets
      <4>2. scrape.read[b] \in Nat /\ scrape.read[b] <= bucketHits[b]
        BY <1>4, <3>1
      <4>. QED
        BY <3>3, <3>4, <4>1, <4>2
    <3>6. /\ scrape'.read = scrape.read /\ scrape'.count = TotalRequests
          /\ scrape' \in [read : Seq(Nat), count : Nat \cup {-1}]
      BY <1>4, <3>1, <3>3
    <3>. QED
      BY <3>1, <3>3, <3>5, <3>6, PipelineAssumption DEF ScrapeInv
  <2>. QED
    BY <2>1, <2>2 DEF Scrape
<1>6. PipelineTypeOK'
  <2>1. /\ rec \in [Requests -> Answers] /\ buffer \in [Requests -> Answers]
        /\ client \in [Requests -> Answers]
    BY Typed DEF IInv, Answers
  <2>. QED
    BY <1>2, <1>5, <2>1, Typed, TypedAfter DEF IInv
<1>. QED
  BY <1>3, <1>5, <1>6 DEF IInv

LEMMA Stuttering ==
    ASSUME IInv, UNCHANGED pipeline
    PROVE  IInv'
<1>1. UNCHANGED <<handling, counters, scrape>>
  BY DEF pipeline
<1>2. UNCHANGED <<at, rec, buffer, expired, slow, hit, client, wrote,
                  requests, bytesOut, inFlight, bucketHits, scrape>>
  BY <1>1 DEF handling, counters
<1>3. CountInv'
  BY <1>1, <1>2, CountsKept DEF IInv
<1>4. PipelineTypeOK'
  BY <1>2 DEF IInv, PipelineTypeOK
<1>. QED
  BY <1>2, <1>3, <1>4 DEF IInv, BodyInv, SentInv, ScrapeInv

LEMMA InitEstablishes ==
    ASSUME PipelineInit
    PROVE  IInv
<1>1. /\ at = [r \in Requests |-> "sent"]
      /\ rec = [r \in Requests |-> Nothing] /\ buffer = rec /\ client = rec
      /\ expired = [r \in Requests |-> FALSE] /\ wrote = expired
      /\ slow = [r \in Requests |-> 1] /\ hit = [r \in Requests |-> 0]
      /\ requests = [class \in 1..5 |-> 0] /\ bytesOut = 0 /\ inFlight = 0
      /\ bucketHits = [b \in AllBuckets |-> 0]
      /\ scrape = NoScrape
  BY DEF PipelineInit
<1>2. Nothing \in [status : 0..5, bytes : 0..(MaxBody + 1)] /\ 0 <= MaxBody /\ 1 \in AllBuckets
  BY PipelineAssumption DEF Nothing, AllBuckets
<1>3. scrape.read = <<>> /\ scrape.count = -1 /\ Len(scrape.read) = 0
  BY <1>1 DEF NoScrape
<1>4. ScrapeInv
  <2>1. scrape \in [read : Seq(Nat), count : Nat \cup {-1}]
    BY <1>1 DEF NoScrape
  <2>. QED
    BY <1>3, <2>1, PipelineAssumption DEF ScrapeInv
<1>5. PipelineTypeOK
  <2>1. /\ at \in [Requests -> {"sent", "handler", "leave", "buckets", "returned"}]
        /\ expired \in [Requests -> BOOLEAN] /\ wrote \in [Requests -> BOOLEAN]
        /\ slow \in [Requests -> AllBuckets] /\ hit \in [Requests -> AllBuckets \cup {0}]
        /\ requests \in [1..5 -> Nat] /\ bytesOut \in Nat /\ inFlight \in Nat
        /\ bucketHits \in [AllBuckets -> Nat]
    BY <1>1, <1>2
  <2>2. {rec, buffer, client} \subseteq [Requests -> [status : 0..5, bytes : 0..(MaxBody + 1)]]
    BY <1>1, <1>2
  <2>3. Len(scrape.read) <= Buckets + 1 /\ scrape.count \in Nat \cup {-1}
    BY <1>3, PipelineAssumption
  <2>. QED
    BY <2>1, <2>2, <2>3 DEF PipelineTypeOK
<1>6. BodyInv /\ SentInv
  BY <1>1, <1>2 DEF BodyInv, SentInv, Nothing
<1>7. CountInv
  <2>1. Within({"handler", "leave"}) = {} /\ Classed = {} /\ \A b \in AllBuckets : HitBy(b) = {}
    BY <1>1 DEF Within, Classed, HitBy
  <2>2. Cardinality({}) = 0 /\ SumFunctionOnSet(BodyBytes, {}) = 0
    BY FS_EmptySet, SumEmpty
  <2>3. TotalRequests = 0
    BY <1>1 DEF TotalRequests
  <2>4. bytesOut = SumFunctionOnSet(BodyBytes, Classed)
    BY <1>1, <2>1, <2>2, Zenon
  <2>5. \A b \in AllBuckets : bucketHits[b] = Cardinality(HitBy(b))
    BY <1>1, <2>1, <2>2
  <2>6. \A r \in Requests : at[r] # "buckets"
    BY <1>1
  <2>. QED
    BY <1>1, <2>1, <2>2, <2>3, <2>4, <2>5, <2>6 DEF CountInv
<1>. QED
  BY <1>4, <1>5, <1>6, <1>7 DEF IInv

-----------------------------------------------------------------------------
\* The invariant holds at every moment of every run of the middleware, metrics.go:40-75:
\* however requests, their deadlines, panics and a scrape interleave.
THEOREM Inductive == PipelineSpec => []IInv
<1>1. PipelineInit => IInv
  BY InitEstablishes
<1>2. IInv /\ [PipelineNext]_pipeline => IInv'
  <2> SUFFICES ASSUME IInv, [PipelineNext]_pipeline PROVE IInv'
    OBVIOUS
  <2>1. CASE UNCHANGED pipeline
    BY <2>1, Stuttering
  <2>2. CASE Scrape
    BY <2>2, StepScrape
  <2>3. ASSUME NEW r \in Requests, Handle(r)
        PROVE  IInv'
    BY <2>3, StepHandle, StepArrive
  <2>4. ASSUME NEW r \in Requests, Account(r)
        PROVE  IInv'
    BY <2>4, StepCountClass, StepCountBucket DEF Account
  <2>5. ASSUME NEW r \in Requests, Reply(r) \/ Deadline(r)
        PROVE  IInv'
    BY <2>5, StepClient
  <2>. QED
    BY <2>1, <2>2, <2>3, <2>4, <2>5 DEF PipelineNext
<1>. QED
  BY <1>1, <1>2, PTL DEF PipelineSpec

\* Every variable of the middleware keeps its type.
THEOREM TypeCorrect == PipelineSpec => []PipelineTypeOK
<1>1. IInv => PipelineTypeOK
  BY DEF IInv
<1>. QED
  BY <1>1, Inductive, PTL

\* When no request is being counted, the counters agree with each other and with the
\* requests that went through, and a scrape's count covers every bucket it read.
THEOREM CountersCorrect == PipelineSpec => []CountersAgree
<1>1. IInv => CountersAgree
  <2> SUFFICES ASSUME IInv PROVE CountersAgree
    OBVIOUS
  <2> DEFINE through == Within({"returned"})
  <2>1. ASSUME Counting = {}
        PROVE  /\ TotalRequests = Cardinality(through)
               /\ bytesOut = SumFunctionOnSet([r \in Requests |-> rec[r].bytes], through)
               /\ \A b \in AllBuckets :
                    bucketHits[b] = Cardinality({r \in through : slow[r] <= b})
    <3>1. \A r \in Requests : at[r] # "buckets"
      BY <2>1 DEF Counting
    <3>2. Classed = through
      BY <3>1 DEF Classed, Within
    <3>3. \A b \in AllBuckets : HitBy(b) = {r \in through : slow[r] <= b}
      BY <3>1 DEF HitBy, Within
    <3>4. TotalRequests = Cardinality(through)
      BY <3>2 DEF IInv, CountInv
    <3>5. bytesOut = SumFunctionOnSet([r \in Requests |-> rec[r].bytes], through)
      BY <3>2, Zenon DEF IInv, CountInv, BodyBytes
    <3>6. \A b \in AllBuckets : bucketHits[b] = Cardinality({r \in through : slow[r] <= b})
      BY <3>3, Zenon DEF IInv, CountInv
    <3>. QED
      BY <3>4, <3>5, <3>6
  <2>2. inFlight = Cardinality(Within({"handler", "leave"}))
    BY DEF IInv, CountInv
  <2>3. scrape.count # -1 => \A b \in DOMAIN scrape.read : scrape.read[b] <= scrape.count
    BY DEF IInv, ScrapeInv
  <2>. QED
    BY <2>1, <2>2, <2>3 DEF CountersAgree
<1>. QED
  BY <1>1, Inductive, PTL

\* Up to the deadline, and unless a panic cut an answer short, the status and the bytes
\* that statusRecorder counts are those of the answer the client got.
THEOREM SentAsRecorded == PipelineSpec => []RecordedAsSent
<1>1. IInv => RecordedAsSent
  <2> SUFFICES ASSUME IInv, NEW r \in Requests,
                      at[r] = "returned", ~expired[r], ~wrote[r], client[r].status # 0
               PROVE  client[r] = [status |-> Recorded(r), bytes |-> rec[r].bytes]
    BY DEF RecordedAsSent
  <2>1. /\ buffer[r].status = rec[r].status /\ buffer[r].bytes = rec[r].bytes
        /\ client[r] = [buffer[r] EXCEPT !.status = IF @ = 0 THEN 2 ELSE @]
    BY DEF IInv, BodyInv, SentInv
  <2>2. buffer[r] \in [status : 0..5, bytes : 0..(MaxBody + 1)]
    BY Typed DEF IInv
  <2>. QED
    BY <2>1, <2>2 DEF Recorded
<1>. QED
  BY <1>1, Inductive, PTL

-----------------------------------------------------------------------------
(* The load generator: the tiles of a grid.                                *)

LEMMA Cancels ==
    ASSUME NEW t \in Nat \ {0}, NEW a \in Int, NEW b \in Int, t * a = t * b
    PROVE  a = b
OBVIOUS

\* The numbers of tiles by zoom.
TilesByZoom(t) == t[0] = 1 /\ \A z \in 1..22 : t[z] = 4 * t[z - 1]

LEMMA TotalIsPower ==
    ASSUME BenchAssumption
    PROVE  \E t \in [0..22 -> Nat] : TilesByZoom(t) /\ Total = t[Zoom]
<1> DEFINE tiles == CHOOSE g : g = [z \in 0..22 |-> IF z = 0 THEN 1 ELSE 4 * g[z - 1]]
           F == [n \in Nat |-> 4 * n]
<1>1. PICK g \in [0..22 -> Nat] : Iterates(g, 22, 1, F)
  <2>1. F \in [Nat -> Nat]
    OBVIOUS
  <2> HIDE DEF F
  <2>. QED
    BY <2>1, IteratesExist
<1>2. g = [z \in 0..22 |-> IF z = 0 THEN 1 ELSE 4 * g[z - 1]]
  <2>1. g = [z \in 0..22 |-> IF z = 0 THEN 1 ELSE F[g[z - 1]]]
    BY <1>1 DEF Iterates
  <2>2. \A z \in 0..22 : z # 0 => F[g[z - 1]] = 4 * g[z - 1]
    OBVIOUS
  <2> HIDE DEF F
  <2>. QED
    BY <2>1, <2>2
<1>3. tiles = [z \in 0..22 |-> IF z = 0 THEN 1 ELSE 4 * tiles[z - 1]]
  BY <1>2
<1>4. ASSUME NEW t, t = [z \in 0..22 |-> IF z = 0 THEN 1 ELSE 4 * t[z - 1]]
      PROVE  t \in [0..22 -> Nat] /\ TilesByZoom(t)
  <2> DEFINE T == {z \in 0..22 : t[z] \in Nat}
  <2>1. t[0] = 1
    BY <1>4
  <2>2. \A z \in 1..22 : t[z] = 4 * t[z - 1]
    BY <1>4
  <2>3. T = 0..22
    <3>1. 0 \in T /\ T \subseteq 0..22
      BY <2>1
    <3>2. ASSUME NEW z \in T, z < 22 PROVE z + 1 \in T
      <4>1. z + 1 \in 1..22 /\ (z + 1) - 1 = z /\ t[z] \in Nat
        BY <3>2
      <4>2. t[z + 1] = 4 * t[z]
        BY <2>2, <4>1
      <4>. QED
        BY <4>1, <4>2
    <3> HIDE DEF T
    <3>. QED
      BY <3>1, <3>2, UpTo
  <2>4. t \in [0..22 -> Nat]
    BY <1>4, <2>3
  <2>. QED
    BY <2>1, <2>2, <2>4 DEF TilesByZoom
<1>5. Total = tiles[Zoom]
  BY DEF Total
<1> HIDE DEF tiles
<1>. QED
  BY <1>3, <1>4, <1>5

\* 40503 is odd: a power of four divides 40503 * d only if it divides d.
Divides(p, n) == \E q \in Nat : n = p * q
OddCancels(p) == \A d \in Nat : Divides(p, 40503 * d) => Divides(p, d)

LEMMA PowerDivides ==
    ASSUME NEW t \in [0..22 -> Nat], TilesByZoom(t), NEW zoom \in 0..22
    PROVE  t[zoom] # 0 /\ OddCancels(t[zoom])
<1> DEFINE T == {z \in 0..22 : t[z] # 0 /\ OddCancels(t[z])}
<1>1. 0 \in T
  <2>1. t[0] = 1
    BY DEF TilesByZoom
  <2>2. \A d \in Nat : d = t[0] * d
    BY <2>1
  <2>. QED
    BY <2>1, <2>2 DEF OddCancels, Divides
<1>2. ASSUME NEW z \in T, z < 22 PROVE z + 1 \in T
  <2>1. z + 1 \in 1..22 /\ (z + 1) - 1 = z
    BY <1>2
  <2>2. t[z + 1] = 4 * t[z] /\ t[z] \in Nat \ {0}
    BY <2>1 DEF TilesByZoom
  <2>3. ASSUME NEW d \in Nat, Divides(t[z + 1], 40503 * d)
        PROVE  Divides(t[z + 1], d)
    <3>1. PICK p \in Nat \ {0} : p = t[z]
      BY <2>2
    <3>0. PICK q \in Nat : 40503 * d = t[z + 1] * q
      BY <2>3 DEF Divides
    <3>2. 40503 * d = p * (4 * q) /\ 4 * q \in Nat
      BY <2>2, <3>0, <3>1
    <3>3. PICK r \in Nat : d = p * r
      <4>1. Divides(p, 40503 * d)
        <5>1. PICK n \in Nat, m \in Nat : n = 40503 * d /\ m = 4 * q /\ n = p * m
          BY <3>2
        <5>2. Divides(p, n)
          <6>1. n = p * m
            BY <5>1
          <6>. QED
            BY ONLY m \in Nat, <6>1 DEF Divides
        <5>. QED
          BY <5>1, <5>2
      <4>2. OddCancels(p)
        BY <1>2, <3>1
      <4>3. Divides(p, d)
        BY <4>1, <4>2 DEF OddCancels
      <4>. QED
        BY <4>3 DEF Divides
    <3>4. p * (40503 * r) = p * (4 * q)
      BY <3>2, <3>3
    <3>5. 40503 * r = 4 * q
      <4>1. 40503 * r \in Int /\ 4 * q \in Int
        OBVIOUS
      <4>. QED
        BY <3>4, <4>1, Cancels
    <3> DEFINE k == 10126 * r - q
    <3>6. k \in Int
      OBVIOUS
    <3>7. r = 4 * k
      BY <3>5
    <3> HIDE DEF k
    <3>8. k \in Nat
      BY <3>6, <3>7
    <3>9. d = (4 * p) * k
      BY <3>3, <3>6, <3>7
    <3>. QED
      BY <2>2, <3>1, <3>8, <3>9 DEF Divides
  <2>4. t[z + 1] # 0
    BY <2>2
  <2>. QED
    BY <1>2, <2>3, <2>4 DEF OddCancels
<1>3. T = 0..22
  <2>1. T \subseteq 0..22
    OBVIOUS
  <2> HIDE DEF T
  <2>. QED
    BY <1>1, <1>2, <2>1, UpTo
<1>4. zoom \in T
  <2> HIDE DEF T
  <2>. QED BY <1>3
<1>. QED
  BY <1>4

LEMMA Remainder ==
    ASSUME NEW a \in Nat, NEW t \in Nat \ {0}
    PROVE  a % t \in 0..(t - 1) /\ \E q \in Nat : a = t * q + (a % t)
<1>1. a = t * (a \div t) + (a % t) /\ a % t \in 0..(t - 1)
  OBVIOUS
<1>2. a \div t \in Nat
  OBVIOUS
<1>. QED
  BY <1>1, <1>2
\* Different paths of the grid are different tiles.
LEMMA TilesDiffer ==
    ASSUME BenchAssumption, NEW i \in 0..(Count - 1), NEW j \in 0..(Count - 1), i < j
    PROVE  TileOf(i) # TileOf(j)
<1>1. PICK t \in [0..22 -> Nat] : TilesByZoom(t) /\ Total = t[Zoom]
  BY TotalIsPower
<1>2. PICK p \in Nat \ {0} : p = Total
  BY <1>1, PowerDivides DEF BenchAssumption
<1>3. Count \in 1..p
  BY <1>2 DEF BenchAssumption
<1>4. i % Count = i /\ j % Count = j
  BY <1>3
<1>6. PICK a \in Nat, b \in Nat : /\ a = i * 40503 + 7919 /\ b = j * 40503 + 7919
                                  /\ b - a = 40503 * (j - i)
  <2>1. i * 40503 + 7919 \in Nat /\ j * 40503 + 7919 \in Nat
    OBVIOUS
  <2>2. (j * 40503 + 7919) - (i * 40503 + 7919) = 40503 * (j - i)
    OBVIOUS
  <2>. QED
    BY <2>1, <2>2
<1>5. TileOf(i) = a % p /\ TileOf(j) = b % p
  BY <1>2, <1>4, <1>6 DEF TileOf, TileIndex
<1> SUFFICES ASSUME a % p = b % p PROVE FALSE
  BY <1>5
<1>7. PICK q \in Nat : a = p * q + (a % p)
  BY Remainder
<1>8. PICK r \in Nat : b = p * r + (b % p)
  BY Remainder
<1>9. a % p \in Int /\ b % p \in Int
  <2>1. a % p \in 0..(p - 1) /\ b % p \in 0..(p - 1)
    BY Remainder
  <2>. QED
    BY <2>1
<1>10. PICK x \in Int : x = a % p
  BY <1>9
<1>11. a = p * q + x /\ b = p * r + x
  BY <1>7, <1>8, <1>10
<1>12. 40503 * (j - i) = p * (r - q) /\ j - i \in Nat
  <2>1. b - a = p * r - p * q
    <3>1. p * r \in Int /\ p * q \in Int
      OBVIOUS
    <3>. QED
      BY <1>11, <3>1
  <2>2. p * r - p * q = p * (r - q)
    OBVIOUS
  <2>. QED
    BY <1>6, <2>1, <2>2
<1>13. r - q \in Nat
  <2> SUFFICES ASSUME r < q PROVE FALSE
    OBVIOUS
  <2>1. p * (q - r) > 0
    OBVIOUS
  <2>2. p * (r - q) = -(p * (q - r))
    OBVIOUS
  <2>3. 40503 * (j - i) >= 0 /\ p * (q - r) \in Int
    OBVIOUS
  <2>. QED
    BY <1>12, <2>1, <2>2, <2>3
<1>14. OddCancels(p)
  BY <1>1, <1>2, PowerDivides DEF BenchAssumption
<1>15. PICK k \in Nat : j - i = p * k
  <2>1. PICK d \in Nat, s \in Nat : d = j - i /\ s = r - q
    BY <1>12, <1>13
  <2>2. Divides(p, 40503 * d)
    <3>1. PICK n \in Nat : n = 40503 * d /\ n = p * s
      BY <1>12, <2>1
    <3>2. Divides(p, n)
      <4>1. n = p * s
        BY <3>1
      <4>. QED
        BY ONLY s \in Nat, <4>1 DEF Divides
    <3>. QED
      BY <3>1, <3>2
  <2>3. Divides(p, d)
    BY <1>14, <2>2 DEF OddCancels
  <2>. QED
    BY <2>1, <2>3 DEF Divides
<1>16. k # 0
  BY <1>15
<1>17. p * k >= p
  BY <1>16
<1>18. j - i < p
  BY <1>3
<1>. QED
  BY <1>15, <1>17, <1>18

LEMMA TilesAreDistinct ==
    ASSUME BenchAssumption
    PROVE  Cardinality({TileOf(i) : i \in 0..(Count - 1)}) = Count
<1> DEFINE f == [i \in 0..(Count - 1) |-> TileOf(i)]
           R == {TileOf(i) : i \in 0..(Count - 1)}
<1>1. Count \in Nat /\ Count >= 1
  <2>1. PICK t \in [0..22 -> Nat] : Total = t[Zoom]
    BY TotalIsPower
  <2>. QED
    BY <2>1 DEF BenchAssumption
<1>2. IsFiniteSet(0..(Count - 1)) /\ Cardinality(0..(Count - 1)) = Count
  BY <1>1, FS_Interval
<1>3. f \in Surjection(0..(Count - 1), R)
  BY DEF Surjection
<1>4. \A i, j \in 0..(Count - 1) : f[i] = f[j] => i = j
  <2> SUFFICES ASSUME NEW i \in 0..(Count - 1), NEW j \in 0..(Count - 1), f[i] = f[j], i # j
               PROVE  FALSE
    OBVIOUS
  <2>1. TileOf(i) = TileOf(j)
    OBVIOUS
  <2>2. i < j \/ j < i
    OBVIOUS
  <2>. QED
    BY <2>1, <2>2, TilesDiffer
<1>5. f \in Bijection(0..(Count - 1), R)
  BY <1>3, <1>4 DEF Bijection, Surjection, Injection, IsInjective
<1> HIDE DEF f, R
<1>6. Cardinality(R) = Cardinality(0..(Count - 1))
  BY <1>2, <1>5, FS_Bijection DEF ExistsBijection
<1>. QED
  BY <1>2, <1>6 DEF R
-----------------------------------------------------------------------------
(* The run: which numbers are claimed, and where their answers are counted. *)

Result == [latencies : Nat, status : [Classes -> Nat], transportErr : Nat]

BenchShape ==
    /\ flags \in [warmup : Nat, sendable : BOOLEAN]
    /\ warmed \in 0..flags.warmup /\ phase \in {"warmup", "exited", "measuring", "reported"}
    /\ sequence \in Nat
    /\ working \in [Workers -> {"claim", "waiting", "done"}]
    /\ index \in [Workers -> 0..(MaxRequests - 1)]
    /\ local \in [Workers -> Result] /\ results \in [Workers -> Result] /\ merged \in Result
    /\ sent \subseteq 0..(MaxRequests - 1) /\ unmade \subseteq 0..(MaxRequests - 1)
    /\ flags.sendable => unmade = {}
    /\ ~flags.sendable => sent = {}
    /\ read \in [Classes -> Nat]

Waits(w, n) == working[w] = "waiting" /\ index[w] = n
Ended == {w \in Workers : working[w] = "done"}

\* The numbers dealt with.
Used == sent \cup unmade

\* The numbers claimed so far are dealt with or held by one worker, each only once; a
\* worker ends when they are used up, and takes the counter one further.
Claims ==
    /\ \A n \in 0..(MaxRequests - 1) : n < sequence <=> n \in Used \/ \E w \in Workers : Waits(w, n)
    /\ \A w \in Workers : working[w] = "waiting" => index[w] \notin Used
    /\ \A v, w \in Workers : working[v] = "waiting" /\ working[w] = "waiting" /\ index[v] = index[w] => v = w
    /\ Ended # {} => sequence >= MaxRequests
    /\ sequence <= MaxRequests + Cardinality(Ended)

\* Sums over the workers.
Latencies(of) == SumFunctionOnSet([w \in Workers |-> of[w].latencies], Workers)
Status(of, c) == SumFunctionOnSet([w \in Workers |-> of[w].status[c]], Workers)
Errors(of)    == SumFunctionOnSet([w \in Workers |-> of[w].transportErr], Workers)

\* What the workers have counted is what was sent and read.
Counts ==
    /\ Latencies(local) = Cardinality(sent)
    /\ \A c \in Classes : Status(local, c) = read[c]
    /\ Cardinality(Used) <= SumFunctionOnSet(read, Classes) + Errors(local)
    /\ ~flags.sendable => Errors(local) = Cardinality(unmade)

Reports ==
    /\ \A w \in Ended : results[w] = local[w]
    /\ phase = "reported" =>
         /\ Ended = Workers
         /\ merged = [latencies |-> Latencies(results), status |-> [c \in Classes |-> Status(results, c)],
                      transportErr |-> Errors(results)]

BenchInv == BenchShape /\ Claims /\ Counts /\ Reports

LEMMA FiveClasses == IsFiniteSet(Classes)
<1>1. 1 \in Int /\ 5 \in Int
  OBVIOUS
<1>2. IsFiniteSet(1..5)
  BY <1>1, FS_Interval
<1>. QED
  BY <1>2 DEF Classes

LEMMA CountTypes ==
    ASSUME BenchAssumption, NEW of \in [Workers -> Result]
    PROVE  /\ Latencies(of) \in Nat /\ Errors(of) \in Nat
           /\ \A c \in Classes : Status(of, c) \in Nat
<1>1. ASSUME NEW w \in Workers
      PROVE  of[w].latencies \in Nat /\ of[w].transportErr \in Nat /\ \A c \in Classes : of[w].status[c] \in Nat
  BY DEF Result
<1>2. IsFiniteSet(Workers)
  BY DEF BenchAssumption
<1>3. Latencies(of) \in Nat
  BY <1>1, <1>2, SumNat DEF Latencies
<1>4. Errors(of) \in Nat
  BY <1>1, <1>2, SumNat DEF Errors
<1>5. ASSUME NEW c \in Classes PROVE Status(of, c) \in Nat
  BY <1>1, <1>2, SumNat DEF Status
<1>. QED
  BY <1>3, <1>4, <1>5

\* One worker counts on.
LEMMA OneCounts ==
    ASSUME BenchAssumption, NEW of \in [Workers -> Result], NEW to \in [Workers -> Result],
           NEW w \in Workers, \A v \in Workers \ {w} : to[v] = of[v]
    PROVE  /\ Latencies(to) = Latencies(of) + (to[w].latencies - of[w].latencies)
           /\ Errors(to) = Errors(of) + (to[w].transportErr - of[w].transportErr)
           /\ \A c \in Classes : Status(to, c) = Status(of, c) + (to[w].status[c] - of[w].status[c])
<1>1. ASSUME NEW r \in [Workers -> Result], NEW v \in Workers
      PROVE  r[v].latencies \in Int /\ r[v].transportErr \in Int /\ \A c \in Classes : r[v].status[c] \in Int
  BY DEF Result
<1>2. IsFiniteSet(Workers)
  BY DEF BenchAssumption
<1>3. Latencies(to) = Latencies(of) + (to[w].latencies - of[w].latencies)
  <2> DEFINE f == [v \in Workers |-> of[v].latencies]
             g == [v \in Workers |-> to[v].latencies]
  <2>1. \A v \in Workers : f[v] \in Int /\ g[v] \in Int
    BY <1>1
  <2>2. \A v \in Workers \ {w} : g[v] = f[v]
    OBVIOUS
  <2>3. SumFunctionOnSet(g, Workers) = SumFunctionOnSet(f, Workers) + (g[w] - f[w])
    <3> HIDE DEF f, g
    <3>. QED BY <1>2, <2>1, <2>2, SumChange
  <2>. QED
    BY <2>3 DEF Latencies
<1>4. Errors(to) = Errors(of) + (to[w].transportErr - of[w].transportErr)
  <2> DEFINE f == [v \in Workers |-> of[v].transportErr]
             g == [v \in Workers |-> to[v].transportErr]
  <2>1. \A v \in Workers : f[v] \in Int /\ g[v] \in Int
    BY <1>1
  <2>2. \A v \in Workers \ {w} : g[v] = f[v]
    OBVIOUS
  <2>3. SumFunctionOnSet(g, Workers) = SumFunctionOnSet(f, Workers) + (g[w] - f[w])
    <3> HIDE DEF f, g
    <3>. QED BY <1>2, <2>1, <2>2, SumChange
  <2>. QED
    BY <2>3 DEF Errors
<1>5. ASSUME NEW c \in Classes
      PROVE  Status(to, c) = Status(of, c) + (to[w].status[c] - of[w].status[c])
  <2> DEFINE f == [v \in Workers |-> of[v].status[c]]
             g == [v \in Workers |-> to[v].status[c]]
  <2>1. \A v \in Workers : f[v] \in Int /\ g[v] \in Int
    BY <1>1
  <2>2. \A v \in Workers \ {w} : g[v] = f[v]
    OBVIOUS
  <2>3. SumFunctionOnSet(g, Workers) = SumFunctionOnSet(f, Workers) + (g[w] - f[w])
    <3> HIDE DEF f, g
    <3>. QED BY <1>2, <2>1, <2>2, SumChange
  <2>. QED
    BY <2>3 DEF Status
<1>. QED
  BY <1>3, <1>4, <1>5

LEMMA NoResultCounts ==
    NoResult \in Result /\ NoResult.latencies = 0 /\ NoResult.transportErr = 0
      /\ \A c \in Classes : NoResult.status[c] = 0
BY DEF NoResult, Result

LEMMA BenchInitInv ==
    ASSUME BenchAssumption, BenchInit
    PROVE  BenchInv
<1> USE DEF BenchInit
<1>1. BenchShape
  <2>1. flags \in [warmup : Nat, sendable : BOOLEAN]
    <3>1. flags \in [warmup : Warmups, sendable : BOOLEAN] /\ Warmups \subseteq Nat
      BY DEF BenchAssumption
    <3>2. \A f \in [warmup : Warmups, sendable : BOOLEAN] : f \in [warmup : Nat, sendable : BOOLEAN]
      BY <3>1
    <3>. QED
      BY <3>1, <3>2
  <2>2. warmed \in 0..flags.warmup
    BY <2>1
  <2>. QED
    BY <2>1, <2>2, NoResultCounts DEF BenchShape, BenchAssumption, Classes
<1>2. Claims
  <2>1. Ended = {} /\ Cardinality(Ended) = 0
    BY FS_EmptySet DEF Ended
  <2>. QED
    BY <2>1 DEF Claims, Waits, Used, BenchAssumption
<1>3. IsFiniteSet(Workers) /\ \A w \in Workers : local[w] = NoResult
  BY DEF BenchAssumption
<1>4. Latencies(local) = 0
  BY <1>3, NoResultCounts, SumZero DEF Latencies
<1>5. Errors(local) = 0
  BY <1>3, NoResultCounts, SumZero DEF Errors
<1>6. \A c \in Classes : Status(local, c) = 0
  BY <1>3, NoResultCounts, SumZero DEF Status
<1>7. SumFunctionOnSet(read, Classes) = 0
  <2>1. IsFiniteSet(Classes)
    BY FiveClasses
  <2>. QED
    BY <2>1, SumZero
<1>8. Cardinality(sent) = 0 /\ Cardinality(unmade) = 0 /\ Cardinality(Used) = 0
  BY FS_EmptySet DEF Used
<1>9. Counts
  BY <1>4, <1>5, <1>6, <1>7, <1>8 DEF Counts
<1>10. Reports
  BY DEF Reports, Ended
<1>. QED
  BY <1>1, <1>2, <1>9, <1>10 DEF BenchInv

LEMMA WarmUpKeeps ==
    ASSUME BenchAssumption, BenchInv, WarmUp
    PROVE  BenchInv'
<1> USE DEF WarmUp
<1>1. BenchShape'
  BY DEF BenchInv, BenchShape, BenchAssumption
<1>2. Claims'
  BY DEF BenchInv, Claims, Waits, Used, Ended
<1>3. Counts'
  BY DEF BenchInv, Counts, Used, Latencies, Errors, Status
<1>4. Reports'
  BY DEF BenchInv, Reports, Ended
<1>. QED
  BY <1>1, <1>2, <1>3, <1>4 DEF BenchInv

LEMMA ClaimKeeps ==
    ASSUME BenchAssumption, BenchInv, NEW w \in Workers, Claim(w)
    PROVE  BenchInv'
<1>1. BenchShape /\ Claims /\ Counts /\ Reports
  BY DEF BenchInv
<1>2. /\ phase = "measuring" /\ working[w] = "claim" /\ sequence' = sequence + 1
      /\ UNCHANGED <<flags, warmed, phase, local, merged, sent, unmade, read>> /\ UNCHANGED Used
  BY DEF Claim, NextNumber, Used
<1>3. Counts'
  BY <1>1, <1>2 DEF Counts, Latencies, Errors, Status
<1>4. IsFiniteSet(Ended) /\ w \notin Ended
  BY <1>2, FS_Subset DEF Ended, BenchAssumption
<1>5. CASE sequence >= MaxRequests
  <2>1. /\ working' = [working EXCEPT ![w] = "done"] /\ UNCHANGED index
        /\ results' = [results EXCEPT ![w] = local[w]]
    BY <1>5 DEF Claim, NextNumber
  <2>2. BenchShape'
    BY <1>1, <1>2, <2>1 DEF BenchShape
  <2>3. Ended' = Ended \cup {w}
    BY <1>1, <2>1 DEF Ended, BenchShape
  <2>4. Cardinality(Ended') = Cardinality(Ended) + 1 /\ Cardinality(Ended) \in Nat
    BY <1>4, <2>3, FS_AddElement, FS_CardinalityType
  <2>5. \A v \in Workers, n \in 0..(MaxRequests - 1) : Waits(v, n)' <=> Waits(v, n)
    BY <1>1, <1>2, <2>1 DEF Waits, BenchShape
  <2>6. \A v \in Workers : working'[v] = "waiting" => working[v] = "waiting" /\ index'[v] = index[v]
    BY <1>1, <2>1 DEF BenchShape
  <2>7. Claims'
    <3>1. \A n \in 0..(MaxRequests - 1) : n < sequence' <=> n < sequence
      BY <1>1, <1>2, <1>5 DEF BenchShape, BenchAssumption
    <3>2. sequence' >= MaxRequests /\ sequence' <= MaxRequests + Cardinality(Ended')
      BY <1>1, <1>2, <1>5, <2>4 DEF Claims, BenchShape, BenchAssumption
    <3>3. \A n \in 0..(MaxRequests - 1) :
            (n < sequence <=> n \in Used \/ \E v \in Workers : Waits(v, n))'
      BY <1>1, <1>2, <2>5, <3>1 DEF Claims
    <3>4. \A v \in Workers : working'[v] = "waiting" => index'[v] \notin Used'
      BY <1>1, <1>2, <2>6 DEF Claims
    <3>5. \A u, v \in Workers :
             working'[u] = "waiting" /\ working'[v] = "waiting" /\ index'[u] = index'[v] => u = v
      BY <1>1, <2>6 DEF Claims
    <3>. QED
      BY <3>2, <3>3, <3>4, <3>5 DEF Claims
  <2>8. Reports'
    BY <1>1, <1>2, <2>1, <2>3 DEF Reports, BenchShape
  <2>. QED
    BY <1>3, <2>2, <2>7, <2>8 DEF BenchInv
<1>6. CASE ~(sequence >= MaxRequests)
  <2>1. /\ working' = [working EXCEPT ![w] = "waiting"] /\ index' = [index EXCEPT ![w] = sequence]
        /\ UNCHANGED results
    BY <1>6 DEF Claim, NextNumber
  <2>2. sequence \in 0..(MaxRequests - 1)
    BY <1>1, <1>6 DEF BenchShape, BenchAssumption
  <2>3. BenchShape'
    BY <1>1, <1>2, <2>1, <2>2 DEF BenchShape
  <2>4. Ended = {} /\ Ended' = {}
    BY <1>1, <1>6, <2>1 DEF Ended, Claims, BenchShape
  <2>5. working'[w] = "waiting" /\ index'[w] = sequence
    BY <1>1, <2>1 DEF BenchShape
  <2>6. \A v \in Workers \ {w} : working'[v] = working[v] /\ index'[v] = index[v]
    BY <1>1, <2>1 DEF BenchShape
  <2>7. sequence \notin Used /\ \A v \in Workers : ~Waits(v, sequence)
    BY <1>1, <2>2 DEF Claims, BenchShape
  <2>8. Claims'
    <3>1. ASSUME NEW n \in 0..(MaxRequests - 1)
          PROVE  (n < sequence <=> n \in Used \/ \E v \in Workers : Waits(v, n))'
      <4>1. n < sequence' <=> n < sequence \/ n = sequence
        BY <1>1, <1>2 DEF BenchShape
      <4>2. (\E v \in Workers : Waits(v, n)') <=> n = sequence \/ \E v \in Workers : Waits(v, n)
        BY <1>2, <2>5, <2>6 DEF Waits
      <4>3. n < sequence <=> n \in Used \/ \E v \in Workers : Waits(v, n)
        BY <1>1 DEF Claims
      <4>. QED
        BY <1>2, <4>1, <4>2, <4>3
    <3>2. \A v \in Workers : working'[v] = "waiting" => index'[v] \notin Used'
      BY <1>1, <1>2, <2>5, <2>6, <2>7 DEF Claims
    <3>3. \A u, v \in Workers :
             working'[u] = "waiting" /\ working'[v] = "waiting" /\ index'[u] = index'[v] => u = v
      BY <1>1, <2>5, <2>6, <2>7 DEF Claims, Waits
    <3>4. Cardinality(Ended') = 0 /\ sequence' <= MaxRequests
      BY <1>1, <1>2, <2>2, <2>4, FS_EmptySet DEF BenchShape
    <3>5. sequence' <= MaxRequests + Cardinality(Ended')
      BY <1>1, <3>4 DEF BenchAssumption
    <3>. QED
      BY <2>4, <3>1, <3>2, <3>3, <3>5 DEF Claims
  <2>9. Reports'
    BY <1>1, <1>2, <2>4 DEF Reports
  <2>. QED
    BY <1>3, <2>3, <2>8, <2>9 DEF BenchInv
<1>. QED
  BY <1>5, <1>6

\* A worker goes on: its number is dealt with and no longer held.
LEMMA GoesOnClaims ==
    ASSUME BenchAssumption, BenchInv, NEW w \in Workers, GoesOn(w), Used' = Used \cup {index[w]}
    PROVE  /\ Claims' /\ Ended' = Ended /\ w \notin Ended
           /\ Cardinality(Used') = Cardinality(Used) + 1 /\ Cardinality(Used) \in Nat
           /\ Used' \subseteq 0..(MaxRequests - 1) /\ working' \in [Workers -> {"claim", "waiting", "done"}]
<1>1. BenchShape /\ Claims
  BY DEF BenchInv
<1>2. /\ working[w] = "waiting" /\ working' = [working EXCEPT ![w] = "claim"]
      /\ Used' = Used \cup {index[w]} /\ sequence' = sequence /\ index' = index
  BY DEF GoesOn
<1>3. Ended' = Ended /\ w \notin Ended
  BY <1>1, <1>2 DEF Ended, BenchShape
<1>4. IsFiniteSet(Used)
  <2>1. IsFiniteSet(0..(MaxRequests - 1))
    BY FS_Interval DEF BenchAssumption
  <2>. QED
    BY <1>1, <2>1, FS_Subset DEF BenchShape, Used
<1>5. index[w] \notin Used
  BY <1>1, <1>2 DEF Claims
<1>6. Cardinality(Used') = Cardinality(Used) + 1 /\ Cardinality(Used) \in Nat
  BY <1>2, <1>4, <1>5, FS_AddElement, FS_CardinalityType
<1>7. Used' \subseteq 0..(MaxRequests - 1) /\ working' \in [Workers -> {"claim", "waiting", "done"}]
  BY <1>1, <1>2 DEF BenchShape, Used
<1>8. working'[w] # "waiting" /\ \A v \in Workers \ {w} : working'[v] = working[v]
  BY <1>1, <1>2 DEF BenchShape
<1>9. Claims'
  <2>1. ASSUME NEW n \in 0..(MaxRequests - 1)
        PROVE  (n < sequence <=> n \in Used \/ \E v \in Workers : Waits(v, n))'
    <3>1. n < sequence <=> n \in Used \/ \E v \in Workers : Waits(v, n)
      BY <1>1 DEF Claims
    <3>2. (\E v \in Workers : Waits(v, n)) <=> n = index[w] \/ \E v \in Workers : Waits(v, n)'
      BY <1>2, <1>8 DEF Waits
    <3>. QED
      BY <1>2, <3>1, <3>2
  <2>2. \A v \in Workers : working'[v] = "waiting" => index'[v] \notin Used'
    BY <1>1, <1>2, <1>8 DEF Claims
  <2>3. \A u, v \in Workers :
           working'[u] = "waiting" /\ working'[v] = "waiting" /\ index'[u] = index'[v] => u = v
    BY <1>1, <1>2, <1>8 DEF Claims
  <2>4. (Ended # {} => sequence >= MaxRequests)' /\ (sequence <= MaxRequests + Cardinality(Ended))'
    BY <1>1, <1>2, <1>3 DEF Claims
  <2>. QED
    BY <2>1, <2>2, <2>3, <2>4 DEF Claims
<1>. QED
  BY <1>3, <1>6, <1>7, <1>9

\* An answer, or none: the number is sent.
LEMMA AnswerClaims ==
    ASSUME BenchAssumption, BenchInv, NEW w \in Workers, Answered(w)
    PROVE  /\ GoesOn(w) /\ flags.sendable /\ Claims' /\ Ended' = Ended /\ w \notin Ended
           /\ UNCHANGED <<flags, unmade>> /\ unmade = {} /\ Used = sent /\ Used' = sent'
           /\ Cardinality(sent') = Cardinality(sent) + 1 /\ Cardinality(sent) \in Nat
           /\ sent' \subseteq 0..(MaxRequests - 1) /\ working' \in [Workers -> {"claim", "waiting", "done"}]
<1>1. GoesOn(w) /\ flags.sendable /\ sent' = sent \cup {index[w]} /\ UNCHANGED <<flags, unmade>>
  BY DEF Answered, GoesOn
<1>2. unmade = {} /\ unmade' = {}
  BY <1>1 DEF BenchInv, BenchShape
<1>3. Used = sent /\ Used' = sent'
  BY <1>2 DEF Used
<1>4. Used' = Used \cup {index[w]}
  BY <1>1, <1>3
<1>5. /\ Claims' /\ Ended' = Ended /\ w \notin Ended
      /\ Cardinality(Used') = Cardinality(Used) + 1 /\ Cardinality(Used) \in Nat
      /\ Used' \subseteq 0..(MaxRequests - 1) /\ working' \in [Workers -> {"claim", "waiting", "done"}]
  BY <1>1, <1>4, GoesOnClaims
<1>. QED
  BY <1>1, <1>2, <1>3, <1>5

LEMMA GoesOnReports ==
    ASSUME BenchAssumption, BenchInv, NEW w \in Workers, GoesOn(w), Ended' = Ended, w \notin Ended,
           local' \in [Workers -> Result], \A v \in Workers \ {w} : local'[v] = local[v]
    PROVE  Reports'
<1>1. UNCHANGED <<phase, results, merged>>
  BY DEF GoesOn
<1>2. \A v \in Ended' : results'[v] = local'[v]
  BY <1>1 DEF BenchInv, Reports, Ended
<1>. QED
  BY <1>1, <1>2 DEF BenchInv, Reports, Latencies, Status, Errors

LEMMA ReceiveKeeps ==
    ASSUME BenchAssumption, BenchInv, NEW w \in Workers, Receive(w)
    PROVE  BenchInv'
<1>1. PICK class \in Classes, broken \in BOOLEAN :
         /\ local' = [local EXCEPT ![w].latencies = @ + 1, ![w].status[class] = @ + 1,
                                   ![w].transportErr = @ + IF broken THEN 1 ELSE 0]
         /\ read' = [read EXCEPT ![class] = @ + 1]
  BY DEF Receive
<1>2. Answered(w) /\ BenchShape /\ Counts
  BY DEF Receive, BenchInv
<1>3. PICK e \in {0, 1} : e = IF broken THEN 1 ELSE 0
  OBVIOUS
<1>4. local[w] \in Result /\ DOMAIN local = Workers
  BY <1>2 DEF BenchShape
<1>5. /\ local'[w].latencies = local[w].latencies + 1
      /\ local'[w].transportErr = local[w].transportErr + e
      /\ local'[w].status = [local[w].status EXCEPT ![class] = @ + 1]
      /\ local'[w] \in Result
  BY <1>1, <1>3, <1>4 DEF Result
<1>6. \A v \in Workers \ {w} : local'[v] = local[v]
  BY <1>1, <1>4
<1>7. local' \in [Workers -> Result]
  <2>1. DOMAIN local' = Workers /\ local' = [v \in Workers |-> local'[v]]
    BY <1>1, <1>4
  <2>2. \A v \in Workers : local'[v] \in Result
    BY <1>2, <1>5, <1>6 DEF BenchShape
  <2>. QED
    BY <2>1, <2>2
<1>8. read' \in [Classes -> Nat] /\ read'[class] = read[class] + 1 /\ \A c \in Classes \ {class} : read'[c] = read[c]
  BY <1>1, <1>2 DEF BenchShape
<1>9. BenchShape'
  BY <1>2, <1>7, <1>8, AnswerClaims DEF BenchShape, GoesOn
<1>10. /\ Latencies(local') = Latencies(local) + 1
       /\ Errors(local') = Errors(local) + e
       /\ \A c \in Classes : Status(local', c) = Status(local, c) + (local'[w].status[c] - local[w].status[c])
  <2>1. /\ Latencies(local') = Latencies(local) + (local'[w].latencies - local[w].latencies)
        /\ Errors(local') = Errors(local) + (local'[w].transportErr - local[w].transportErr)
        /\ \A c \in Classes : Status(local', c) = Status(local, c) + (local'[w].status[c] - local[w].status[c])
    BY <1>2, <1>6, <1>7, OneCounts DEF BenchShape
  <2>2. local'[w].latencies - local[w].latencies = 1 /\ local'[w].transportErr - local[w].transportErr = e
    BY <1>4, <1>5 DEF Result
  <2>. QED
    BY <2>1, <2>2
<1>11. Latencies(local) \in Nat /\ Errors(local) \in Nat /\ \A c \in Classes : Status(local, c) \in Nat
  BY <1>2, CountTypes DEF BenchShape
<1>12. \A c \in Classes : Status(local', c) = read'[c]
  <2> TAKE c \in Classes
  <2>1. local[w].status[c] \in Nat /\ local'[w].status[c] = local[w].status[c] + (IF c = class THEN 1 ELSE 0)
    BY <1>4, <1>5 DEF Result
  <2>2. Status(local, c) = read[c] /\ read[c] \in Nat
    BY <1>2 DEF Counts, BenchShape
  <2>3. local'[w].status[c] - local[w].status[c] = IF c = class THEN 1 ELSE 0
    BY <2>1
  <2>4. Status(local', c) = read[c] + (IF c = class THEN 1 ELSE 0)
    BY <1>10, <2>2, <2>3
  <2>. QED
    BY <1>8, <2>2, <2>4
<1>13. /\ SumFunctionOnSet(read', Classes) = SumFunctionOnSet(read, Classes) + 1
       /\ SumFunctionOnSet(read, Classes) \in Nat
  <2>1. IsFiniteSet(Classes)
    BY FiveClasses
  <2>2. \A c \in Classes : read[c] \in Nat /\ read'[c] \in Nat
    BY <1>2, <1>8 DEF BenchShape
  <2>3. SumFunctionOnSet(read', Classes) = SumFunctionOnSet(read, Classes) + (read'[class] - read[class])
    BY <1>8, <2>1, <2>2, SumChange
  <2>4. read'[class] - read[class] = 1
    BY <1>8, <2>2
  <2>5. SumFunctionOnSet(read, Classes) \in Nat
    BY <2>1, <2>2, SumNat
  <2>. QED
    BY <2>3, <2>4, <2>5
<1>14. Counts'
  <2>1. Cardinality(sent') = Cardinality(sent) + 1 /\ Cardinality(sent) \in Nat
    BY <1>2, AnswerClaims
  <2>2. /\ Latencies(local) = Cardinality(sent)
        /\ Cardinality(sent) <= SumFunctionOnSet(read, Classes) + Errors(local)
    BY <1>2, AnswerClaims DEF Counts
  <2>3. Cardinality(sent') <= SumFunctionOnSet(read', Classes) + Errors(local')
    BY <1>10, <1>11, <1>13, <2>1, <2>2
  <2>4. Latencies(local') = Cardinality(sent')
    BY <1>10, <2>1, <2>2
  <2>. QED
    BY <1>2, <1>12, <2>3, <2>4, AnswerClaims DEF Counts, Latencies, Status, Errors
<1>15. Reports'
  BY <1>2, <1>6, <1>7, GoesOnReports, AnswerClaims
<1>. QED
  BY <1>2, <1>9, <1>14, <1>15, AnswerClaims DEF BenchInv

LEMMA FailsKeeps ==
    ASSUME BenchAssumption, BenchInv, NEW w \in Workers, Fails(w)
    PROVE  BenchInv'
<1>1. /\ local' = [local EXCEPT ![w].latencies = @ + 1, ![w].transportErr = @ + 1]
      /\ read' = read
  BY DEF Fails
<1>2. Answered(w) /\ BenchShape /\ Counts
  BY DEF Fails, BenchInv
<1>3. local[w] \in Result /\ DOMAIN local = Workers
  BY <1>2 DEF BenchShape
<1>4. /\ local'[w].latencies = local[w].latencies + 1
      /\ local'[w].transportErr = local[w].transportErr + 1
      /\ local'[w].status = local[w].status
      /\ local'[w] \in Result
  BY <1>1, <1>3 DEF Result
<1>5. \A v \in Workers \ {w} : local'[v] = local[v]
  BY <1>1, <1>3
<1>6. local' \in [Workers -> Result]
  <2>1. DOMAIN local' = Workers /\ local' = [v \in Workers |-> local'[v]]
    BY <1>1, <1>3
  <2>2. \A v \in Workers : local'[v] \in Result
    BY <1>2, <1>4, <1>5 DEF BenchShape
  <2>. QED
    BY <2>1, <2>2
<1>7. BenchShape'
  BY <1>1, <1>2, <1>6, AnswerClaims DEF BenchShape, GoesOn
<1>8. /\ Latencies(local') = Latencies(local) + 1
      /\ Errors(local') = Errors(local) + 1
      /\ \A c \in Classes : Status(local', c) = Status(local, c)
  <2>1. /\ Latencies(local') = Latencies(local) + (local'[w].latencies - local[w].latencies)
        /\ Errors(local') = Errors(local) + (local'[w].transportErr - local[w].transportErr)
        /\ \A c \in Classes : Status(local', c) = Status(local, c) + (local'[w].status[c] - local[w].status[c])
    BY <1>2, <1>5, <1>6, OneCounts DEF BenchShape
  <2>2. /\ local'[w].latencies - local[w].latencies = 1 /\ local'[w].transportErr - local[w].transportErr = 1
        /\ \A c \in Classes : local'[w].status[c] - local[w].status[c] = 0
    BY <1>3, <1>4 DEF Result
  <2>3. \A c \in Classes : Status(local, c) \in Nat
    BY <1>2, CountTypes DEF BenchShape
  <2>. QED
    BY <2>1, <2>2, <2>3
<1>9. Latencies(local) \in Nat /\ Errors(local) \in Nat /\ SumFunctionOnSet(read, Classes) \in Nat
  <2>1. IsFiniteSet(Classes) /\ \A c \in Classes : read[c] \in Nat
    BY <1>2, FiveClasses DEF BenchShape
  <2>2. SumFunctionOnSet(read, Classes) \in Nat
    BY <2>1, SumNat
  <2>. QED
    BY <1>2, <2>2, CountTypes DEF BenchShape
<1>10. Counts'
  <2>1. Cardinality(sent') = Cardinality(sent) + 1 /\ Cardinality(sent) \in Nat
    BY <1>2, AnswerClaims
  <2>2. /\ Latencies(local) = Cardinality(sent)
        /\ Cardinality(sent) <= SumFunctionOnSet(read, Classes) + Errors(local)
    BY <1>2, AnswerClaims DEF Counts
  <2>3. Cardinality(sent') <= SumFunctionOnSet(read', Classes) + Errors(local')
    BY <1>1, <1>8, <1>9, <2>1, <2>2
  <2>4. Latencies(local') = Cardinality(sent')
    BY <1>8, <2>1, <2>2
  <2>5. \A c \in Classes : Status(local', c) = read'[c]
    BY <1>1, <1>2, <1>8 DEF Counts
  <2>. QED
    BY <1>2, <2>3, <2>4, <2>5, AnswerClaims DEF Counts, Latencies, Status, Errors
<1>11. Reports'
  BY <1>2, <1>5, <1>6, GoesOnReports, AnswerClaims
<1>. QED
  BY <1>2, <1>7, <1>10, <1>11, AnswerClaims DEF BenchInv

LEMMA NotMadeKeeps ==
    ASSUME BenchAssumption, BenchInv, NEW w \in Workers, NotMade(w)
    PROVE  BenchInv'
<1>1. /\ GoesOn(w) /\ ~flags.sendable /\ UNCHANGED <<flags, sent, read>>
      /\ local' = [local EXCEPT ![w].transportErr = @ + 1]
      /\ unmade' = unmade \cup {index[w]}
  BY DEF NotMade, GoesOn
<1>2. BenchShape /\ Counts
  BY DEF BenchInv
<1>3. local[w] \in Result /\ DOMAIN local = Workers
  BY <1>2 DEF BenchShape
<1>4. /\ local'[w].latencies = local[w].latencies
      /\ local'[w].transportErr = local[w].transportErr + 1
      /\ local'[w].status = local[w].status
      /\ local'[w] \in Result
  BY <1>1, <1>3 DEF Result
<1>5. \A v \in Workers \ {w} : local'[v] = local[v]
  BY <1>1, <1>3
<1>6. local' \in [Workers -> Result]
  <2>1. DOMAIN local' = Workers /\ local' = [v \in Workers |-> local'[v]]
    BY <1>1, <1>3
  <2>2. \A v \in Workers : local'[v] \in Result
    BY <1>2, <1>4, <1>5 DEF BenchShape
  <2>. QED
    BY <2>1, <2>2
<1>7. sent = {} /\ sent' = {} /\ Used = unmade /\ Used' = unmade'
  BY <1>1, <1>2 DEF BenchShape, Used
<1>8. Used' = Used \cup {index[w]}
  BY <1>1, <1>7
<1>9. /\ Claims' /\ Ended' = Ended /\ w \notin Ended
      /\ Cardinality(Used') = Cardinality(Used) + 1 /\ Cardinality(Used) \in Nat
      /\ Used' \subseteq 0..(MaxRequests - 1) /\ working' \in [Workers -> {"claim", "waiting", "done"}]
  BY <1>1, <1>8, GoesOnClaims
<1>10. BenchShape'
  BY <1>1, <1>2, <1>6, <1>7, <1>9 DEF BenchShape, GoesOn
<1>11. /\ Latencies(local') = Latencies(local)
       /\ Errors(local') = Errors(local) + 1
       /\ \A c \in Classes : Status(local', c) = Status(local, c)
  <2>1. /\ Latencies(local') = Latencies(local) + (local'[w].latencies - local[w].latencies)
        /\ Errors(local') = Errors(local) + (local'[w].transportErr - local[w].transportErr)
        /\ \A c \in Classes : Status(local', c) = Status(local, c) + (local'[w].status[c] - local[w].status[c])
    BY <1>2, <1>5, <1>6, OneCounts DEF BenchShape
  <2>2. /\ local'[w].latencies - local[w].latencies = 0 /\ local'[w].transportErr - local[w].transportErr = 1
        /\ \A c \in Classes : local'[w].status[c] - local[w].status[c] = 0
    BY <1>3, <1>4 DEF Result
  <2>3. Latencies(local) \in Nat /\ \A c \in Classes : Status(local, c) \in Nat
    BY <1>2, CountTypes DEF BenchShape
  <2>. QED
    BY <2>1, <2>2, <2>3
<1>12. Errors(local) \in Nat /\ SumFunctionOnSet(read, Classes) \in Nat
  <2>1. IsFiniteSet(Classes) /\ \A c \in Classes : read[c] \in Nat
    BY <1>2, FiveClasses DEF BenchShape
  <2>2. SumFunctionOnSet(read, Classes) \in Nat
    BY <2>1, SumNat
  <2>. QED
    BY <1>2, <2>2, CountTypes DEF BenchShape
<1>13. Counts'
  <2>1. /\ Latencies(local) = Cardinality(sent) /\ Errors(local) = Cardinality(unmade)
        /\ Cardinality(Used) <= SumFunctionOnSet(read, Classes) + Errors(local)
        /\ \A c \in Classes : Status(local, c) = read[c]
    BY <1>1, <1>2 DEF Counts
  <2>2. Cardinality(Used') <= SumFunctionOnSet(read', Classes) + Errors(local')
    BY <1>1, <1>9, <1>11, <1>12, <2>1
  <2>3. Errors(local') = Cardinality(unmade')
    BY <1>7, <1>9, <1>11, <2>1
  <2>4. Latencies(local') = Cardinality(sent')
    BY <1>1, <1>11, <2>1
  <2>5. \A c \in Classes : Status(local', c) = read'[c]
    BY <1>1, <1>11, <2>1
  <2>. QED
    BY <2>2, <2>3, <2>4, <2>5 DEF Counts, Latencies, Status, Errors
<1>14. Reports'
  BY <1>1, <1>5, <1>6, <1>9, GoesOnReports
<1>. QED
  BY <1>9, <1>10, <1>13, <1>14 DEF BenchInv

LEMMA MergeKeeps ==
    ASSUME BenchAssumption, BenchInv, Merge
    PROVE  BenchInv'
<1>1. /\ phase' = "reported" /\ \A w \in Workers : working[w] = "done"
      /\ UNCHANGED <<flags, warmed, sequence, working, index, local, results, sent, unmade, read>>
      /\ merged' = [latencies |-> Latencies(results), status |-> [c \in Classes |-> Status(results, c)],
                    transportErr |-> Errors(results)]
  BY DEF Merge, Latencies, Status, Errors
<1>2. BenchShape /\ Claims /\ Counts /\ Reports
  BY DEF BenchInv
<1>3. Latencies(results) \in Nat /\ Errors(results) \in Nat /\ \A c \in Classes : Status(results, c) \in Nat
  BY <1>2, CountTypes DEF BenchShape
<1>4. merged' \in Result
  BY <1>1, <1>3 DEF Result
<1>5. BenchShape'
  BY <1>1, <1>2, <1>4 DEF BenchShape
<1>6. Claims' /\ Counts'
  BY <1>1, <1>2 DEF Claims, Waits, Used, Ended, Counts, Latencies, Status, Errors
<1>7. Reports'
  <2>1. Ended' = Workers /\ Ended = Workers
    BY <1>1 DEF Ended
  <2>2. results' = results /\ local' = local
    BY <1>1
  <2>. QED
    BY <1>1, <1>2, <2>1, <2>2 DEF Reports, Latencies, Status, Errors
<1>. QED
  BY <1>5, <1>6, <1>7 DEF BenchInv

LEMMA BenchStutters ==
    ASSUME BenchInv, UNCHANGED bench
    PROVE  BenchInv'
BY DEF BenchInv, bench, BenchShape, Claims, Waits, Used, Ended, Counts, Reports, Latencies, Status, Errors

LEMMA Benching == BenchSpec => []BenchInv
<1> USE BenchAssumption
<1>1. BenchInit => BenchInv
  BY BenchInitInv
<1>2. BenchInv /\ [BenchNext]_bench => BenchInv'
  BY WarmUpKeeps, ClaimKeeps, NotMadeKeeps, ReceiveKeeps, FailsKeeps, MergeKeeps, BenchStutters DEF BenchNext
<1>. QED
  BY <1>1, <1>2, PTL DEF BenchSpec

\* The states of the load generator have their types.
THEOREM BenchTypeCorrect == BenchSpec => []BenchTypeOK
<1>1. BenchInv => BenchTypeOK
  <2> SUFFICES ASSUME BenchInv PROVE BenchTypeOK
    OBVIOUS
  <2>1. Cardinality(Ended) <= Cardinality(Workers) /\ Cardinality(Ended) \in Nat /\ Cardinality(Workers) \in Nat
    BY BenchAssumption, FS_Subset, FS_CardinalityType DEF Ended, BenchAssumption
  <2>2. sequence \in 0..(MaxRequests + Cardinality(Workers))
    BY <2>1, BenchAssumption DEF BenchInv, BenchShape, Claims, BenchAssumption
  <2>. QED
    BY <2>2 DEF BenchInv, BenchShape, BenchTypeOK
<1>. QED
  BY <1>1, Benching, PTL

\* However many workers share however many requests, the report covers exactly the
\* requests asked for, or as many errors if none can be made, and the grid's paths are
\* all different.
THEOREM ReportsAreExact == BenchSpec => []ReportExact
<1>1. BenchInv => ReportExact
  <2> SUFFICES ASSUME BenchInv, phase = "reported"
               PROVE  /\ sent = IF flags.sendable THEN 0..(MaxRequests - 1) ELSE {}
                      /\ merged.latencies = IF flags.sendable THEN MaxRequests ELSE 0
                      /\ merged.status = read
                      /\ SumFunctionOnSet(merged.status, Classes) + merged.transportErr >= MaxRequests
                      /\ ~flags.sendable => merged.transportErr = MaxRequests
                      /\ Cardinality({TileOf(i) : i \in 0..(Count - 1)}) = Count
    BY DEF ReportExact
  <2>1. BenchShape /\ Claims /\ Counts /\ Reports
    BY DEF BenchInv
  <2>2. /\ Ended = Workers
        /\ merged = [latencies |-> Latencies(results), status |-> [c \in Classes |-> Status(results, c)],
                     transportErr |-> Errors(results)]
    BY <2>1 DEF Reports
  <2>3. \A w \in Workers : results[w] = local[w]
    BY <2>1, <2>2 DEF Reports
  <2>4. IsFiniteSet(Workers) /\ Workers # {} /\ MaxRequests \in Nat
    BY BenchAssumption DEF BenchAssumption
  <2>5. results = local
    BY <2>1, <2>3 DEF BenchShape
  <2>6. Used = 0..(MaxRequests - 1)
    <3>1. sequence >= MaxRequests /\ \A w \in Workers : working[w] # "waiting"
      BY <2>1, <2>2, <2>4 DEF Claims, Ended
    <3>2. \A n \in 0..(MaxRequests - 1) : n < sequence
      BY <2>1, <2>4, <3>1 DEF BenchShape
    <3>3. Used \subseteq 0..(MaxRequests - 1)
      BY <2>1 DEF BenchShape, Used
    <3>. QED
      BY <2>1, <3>1, <3>2, <3>3 DEF Claims, Waits
  <2>7. Cardinality(Used) = MaxRequests
    BY <2>4, <2>6, FS_Interval
  <2>8. merged.status = read
    <3>1. \A c \in Classes : merged.status[c] = read[c]
      BY <2>1, <2>2, <2>5 DEF Counts
    <3>. QED
      BY <2>1, <2>2, <3>1 DEF BenchShape
  <2>9. SumFunctionOnSet(merged.status, Classes) + merged.transportErr >= MaxRequests
    <3>1. Latencies(local) \in Nat /\ Errors(local) \in Nat /\ SumFunctionOnSet(read, Classes) \in Nat
      <4>1. IsFiniteSet(Classes) /\ \A c \in Classes : read[c] \in Nat
        BY <2>1, FiveClasses DEF BenchShape
      <4>2. SumFunctionOnSet(read, Classes) \in Nat
        BY <4>1, SumNat
      <4>. QED
        BY <2>1, <4>2, BenchAssumption, CountTypes DEF BenchShape
    <3>2. MaxRequests <= SumFunctionOnSet(read, Classes) + Errors(local)
      BY <2>1, <2>7 DEF Counts
    <3>3. merged.transportErr = Errors(local)
      BY <2>2, <2>5
    <3>. QED
      BY <2>4, <2>8, <3>1, <3>2, <3>3
  <2>10. Cardinality({TileOf(i) : i \in 0..(Count - 1)}) = Count
    BY BenchAssumption, TilesAreDistinct
  <2>11. CASE flags.sendable
    <3>1. sent = 0..(MaxRequests - 1) /\ Cardinality(sent) = MaxRequests
      BY <2>1, <2>6, <2>7, <2>11 DEF BenchShape, Used
    <3>2. merged.latencies = MaxRequests
      BY <2>1, <2>2, <2>5, <3>1 DEF Counts
    <3>. QED
      BY <2>8, <2>9, <2>10, <2>11, <3>1, <3>2
  <2>12. CASE ~flags.sendable
    <3>1. sent = {} /\ Cardinality(sent) = 0
      BY <2>1, <2>12, FS_EmptySet DEF BenchShape
    <3>2. merged.latencies = 0
      BY <2>1, <2>2, <2>5, <3>1 DEF Counts
    <3>3. Used = unmade
      BY <3>1 DEF Used
    <3>4. merged.transportErr = MaxRequests
      BY <2>1, <2>2, <2>5, <2>7, <2>12, <3>3 DEF Counts
    <3>. QED
      BY <2>8, <2>9, <2>10, <2>12, <3>1, <3>2, <3>4
  <2>. QED
    BY <2>11, <2>12
<1>. QED
  BY <1>1, Benching, PTL

-----------------------------------------------------------------------------
(* Opening a source: what each stage knows.                                *)

OnDatabase(c) == c.kind \in {"postgis", "mysql"}

\* What is open when, by stage and kind.
OpenStages ==
    /\ doing \in {"none", "check", "introspect", "package", "opening", "again", "read", "ping", "describe", "end"}
    /\ report = [status |-> report.status, findings |-> report.findings]
    /\ report.status \in {NoName, "ok", "error"}
    /\ doing = "introspect" => OnDatabase(config)
    /\ doing = "package" => config.kind = "geopackage"
    /\ doing \in {"opening", "again", "read"} => config.kind = "geojson"
    /\ pools = IF \/ doing \in {"introspect", "package", "again", "read"}
                  \/ doing \in {"ping", "describe"} /\ OnDatabase(config) THEN 1 ELSE 0

\* The world a source is opened on is of its kind, whatever file took the place of its own.
OfItsKind ==
    doing # "none" =>
        /\ config \in Settings
        /\ \/ OnDatabase(config) /\ world \in Worlds /\ world.kind = config.kind
           \/ config.kind = "geojson" /\ world \in [kind : {"geojson"}, file : Files]
           \/ config.kind = "geopackage" /\ world \in [kind : {"geopackage"}, file : FileInfo, layers : Seq(LayerInfo)]

\* From the second inspection on, the file opened is one the policy allows.
Inspected ==
    doing # "none" /\ config.kind = "geojson" =>
        /\ doing \in {"read", "ping", "describe"} =>
             \A f \in Files : f.inode = before.file =>
                f.regular /\ (config.policy.enforceRoot => f.inRoot)
        /\ doing \in {"ping", "describe"} =>
             source.file = before.file /\ Fits(source.size, LimitOf(config.policy, TRUE))

\* A source is opened before it is pinged, and reported as an error if it never was.
OpenedFirst ==
    /\ doing \in {"ping", "describe"} => source # <<>>
    /\ doing = "end" /\ source = <<>> => report.status = "error"

OpenInv == OpenStages /\ OfItsKind /\ Inspected /\ OpenedFirst /\ QueriesFit

\* The columns of a table.
Tabular(columns) ==
    /\ columns \in Seq(ColumnInfo)
    /\ \A i, j \in DOMAIN columns : columns[i].name = columns[j].name => i = j
    /\ \A i \in DOMAIN columns : columns[i].name # NoName

LEMMA ColumnFacts ==
    ASSUME NEW columns, Tabular(columns)
    PROVE  /\ DOMAIN columns = 1..Len(columns) /\ Len(columns) \in Nat
           /\ IsFiniteSet(DOMAIN columns)
           /\ \A i \in DOMAIN columns : /\ columns[i] \in ColumnInfo
                                        /\ columns[i].name \in Names(columns)
                                        /\ Named(columns, columns[i].name) = columns[i]
           /\ DOMAIN NamesOf(columns) = DOMAIN columns
           /\ \A i \in DOMAIN columns : NamesOf(columns)[i] = columns[i].name
<1>1. DOMAIN columns = 1..Len(columns) /\ Len(columns) \in Nat
  BY DEF Tabular
<1>2. IsFiniteSet(DOMAIN columns)
  BY <1>1, FS_Interval
<1>3. \A i \in DOMAIN columns : columns[i] \in ColumnInfo
  BY DEF Tabular
<1>4. ASSUME NEW i \in DOMAIN columns
      PROVE  columns[i].name \in Names(columns) /\ Named(columns, columns[i].name) = columns[i]
  BY <1>4 DEF Names, Named, Tabular
<1>. QED
  BY <1>1, <1>2, <1>3, <1>4 DEF NamesOf

\* The names of some of the columns.
LEMMA PickedColumns ==
    ASSUME NEW columns, Tabular(columns), NEW indices \in SUBSET DOMAIN columns,
           NEW fs, fs = Picked(NamesOf(columns), indices)
    PROVE  /\ \E n \in Nat : DOMAIN fs = 1..n
           /\ \A k \in DOMAIN fs : \E i \in indices : fs[k] = columns[i].name
           /\ \A i \in indices : \E k \in DOMAIN fs : fs[k] = columns[i].name
           /\ \A k, l \in DOMAIN fs : fs[k] = fs[l] => k = l
<1>1. IsFiniteSet(indices) /\ indices \subseteq Int
  BY ColumnFacts, FS_Subset
<1>2. ElementsAt(NamesOf(columns), indices, fs)
  BY <1>1, PickedElements
<1>3. \A i \in indices : NamesOf(columns)[i] = columns[i].name
  BY ColumnFacts
<1>4. \A k, l \in DOMAIN fs : k # l =>
        \E i, j \in indices : i # j /\ fs[k] = NamesOf(columns)[i] /\ fs[l] = NamesOf(columns)[j]
  BY <1>1, PickedApart
<1>5. ASSUME NEW k \in DOMAIN fs, NEW l \in DOMAIN fs, fs[k] = fs[l] PROVE k = l
  <2> SUFFICES ASSUME k # l PROVE FALSE
    OBVIOUS
  <2>1. PICK i \in indices, j \in indices :
           i # j /\ fs[k] = NamesOf(columns)[i] /\ fs[l] = NamesOf(columns)[j]
    BY <1>4
  <2>2. columns[i].name = columns[j].name
    BY <1>3, <1>5, <2>1
  <2>. QED
    BY <2>1, <2>2 DEF Tabular
<1>. QED
  BY <1>2, <1>3, <1>5 DEF ElementsAt

\* The geometry column is a geometry, so no other column has its name.
LEMMA NotTheGeometry ==
    ASSUME NEW columns, Tabular(columns), NEW g, GeometryAt(columns, g),
           NEW i \in DOMAIN columns, ~columns[i].geo
    PROVE  columns[i].name # g
BY DEF Tabular, GeometryAt

\* The first mention of a field.
LEMMA FirstMention ==
    ASSUME NEW fields \in Seq(STRING), NEW i \in DOMAIN fields
    PROVE  \E m \in DOMAIN fields : fields[m] = fields[i] /\ \A j \in 1..(m - 1) : fields[j] # fields[m]
<1> DEFINE T == {m \in DOMAIN fields : fields[m] = fields[i]}
<1>1. T \subseteq Nat /\ i \in T
  OBVIOUS
<1>2. PICK m \in T : \A k \in T : m <= k
  <2> HIDE DEF T
  <2>. QED BY <1>1, SmallestNat
<1>3. ASSUME NEW j \in 1..(m - 1) PROVE fields[j] # fields[m]
  <2>1. j \in DOMAIN fields /\ ~(m <= j)
    BY <1>2
  <2>. QED
    BY <1>2, <2>1
<1>. QED
  BY <1>2, <1>3

\* A list of columns that are no geometries, each once.
Chosen(columns, fs) ==
    /\ fs \in Seq(STRING)
    /\ \A k \in DOMAIN fs : fs[k] \in Names(columns) /\ ~Named(columns, fs[k]).geo
    /\ \A k, l \in DOMAIN fs : fs[k] = fs[l] => k = l

\* The configured fields that are selected.
LEMMA PickedMentions ==
    ASSUME NEW columns, Tabular(columns), NEW c, c.fields \in Seq(STRING),
           \A i \in DOMAIN c.fields : c.fields[i] \in Names(columns),
           NEW fs, fs = Picked(c.fields, Mentions(c, columns))
    PROVE  Chosen(columns, fs)
<1> DEFINE indices == Mentions(c, columns)
<1>1. IsFiniteSet(indices) /\ indices \subseteq Int /\ indices \subseteq DOMAIN c.fields
  <2>1. DOMAIN c.fields = 1..Len(c.fields) /\ Len(c.fields) \in Nat
    OBVIOUS
  <2>2. IsFiniteSet(DOMAIN c.fields)
    <3>1. PICK k \in Nat : DOMAIN c.fields = 1..k
      BY <2>1
    <3>2. IsFiniteSet(1..k)
      BY FS_Interval
    <3>. QED
      BY <3>1, <3>2
  <2>3. indices \subseteq DOMAIN c.fields
    BY DEF Mentions
  <2>. QED
    BY <2>1, <2>2, <2>3, FS_Subset
<1>2. ElementsAt(c.fields, indices, fs)
  BY <1>1, PickedElements
<1>3. \A i \in indices : /\ c.fields[i] \in STRING /\ c.fields[i] \in Names(columns)
                         /\ ~Named(columns, c.fields[i]).geo
  BY <1>1 DEF Mentions
<1>4. \A k \in DOMAIN fs : \E i \in indices : fs[k] = c.fields[i]
  BY <1>2 DEF ElementsAt
<1>5. \A k \in DOMAIN fs : fs[k] \in STRING /\ fs[k] \in Names(columns) /\ ~Named(columns, fs[k]).geo
  <2> HIDE DEF indices
  <2>. QED BY <1>3, <1>4
<1>6. PICK n \in Nat : DOMAIN fs = 1..n
  BY <1>2 DEF ElementsAt
<1>7. fs \in Seq(STRING)
  <2>1. fs = [k \in DOMAIN fs |-> fs[k]]
    BY DEF Picked
  <2>2. fs \in [1..n -> STRING]
    BY <1>5, <1>6, <2>1
  <2>. QED
    BY <2>2
<1>8. \A k, l \in DOMAIN fs : k # l =>
        \E i, j \in indices : i # j /\ fs[k] = c.fields[i] /\ fs[l] = c.fields[j]
  BY <1>1, PickedApart
<1>9. ASSUME NEW k \in DOMAIN fs, NEW l \in DOMAIN fs, fs[k] = fs[l] PROVE k = l
  <2> SUFFICES ASSUME k # l PROVE FALSE
    OBVIOUS
  <2>1. PICK i \in indices, j \in indices : i # j /\ fs[k] = c.fields[i] /\ fs[l] = c.fields[j]
    BY <1>8
  <2>2. i \in Int /\ j \in Int /\ i \in DOMAIN c.fields /\ j \in DOMAIN c.fields /\ c.fields[i] = c.fields[j]
    BY <1>1, <1>9, <2>1
  <2>3. \A m \in 1..(i - 1) : c.fields[m] # c.fields[i]
    BY DEF Mentions
  <2>4. \A m \in 1..(j - 1) : c.fields[m] # c.fields[j]
    BY DEF Mentions
  <2>5. i \in 1..(j - 1) \/ j \in 1..(i - 1)
    BY <2>1, <2>2
  <2>. QED
    BY <2>2, <2>3, <2>4, <2>5
<1>. QED
  BY <1>5, <1>7, <1>9 DEF Chosen

\* The fields selected by PostGIS for an id column, or for none.
LEMMA FieldsFit ==
    ASSUME NEW columns, Tabular(columns), NEW c, c.fields \in Seq(STRING), GeometryAt(columns, c.geom),
           \A i \in DOMAIN c.fields : c.fields[i] \in Names(columns),
           NEW id, id # NoName => id \in Names(columns), NEW fs, fs = Fields(c, columns, id)
    PROVE  /\ \A i \in DOMAIN fs :
                /\ fs[i] \in Names(columns)
                /\ fs[i] = id \/ ~Named(columns, fs[i]).geo
                /\ \A j \in DOMAIN fs : fs[i] = fs[j] => i = j
           /\ id # NoName /\ ~Named(columns, id).geo => Contains(fs, id)
<1>1. CASE c.fields = <<>>
  <2> DEFINE indices == Plain(c, columns)
  <2>1. fs = Picked(NamesOf(columns), indices)
    BY <1>1 DEF Fields
  <2>2. indices \in SUBSET DOMAIN columns
    BY DEF Plain
  <2>3. /\ \E n \in Nat : DOMAIN fs = 1..n
        /\ \A k \in DOMAIN fs : \E i \in indices : fs[k] = columns[i].name
        /\ \A i \in indices : \E k \in DOMAIN fs : fs[k] = columns[i].name
        /\ \A k, l \in DOMAIN fs : fs[k] = fs[l] => k = l
    <3> HIDE DEF indices
    <3>. QED BY <2>1, <2>2, PickedColumns
  <2>4. ASSUME NEW k \in DOMAIN fs
        PROVE  fs[k] \in Names(columns) /\ ~Named(columns, fs[k]).geo
    <3>1. PICK i \in indices : fs[k] = columns[i].name
      BY <2>3
    <3>2. i \in DOMAIN columns /\ ~columns[i].geo
      BY DEF Plain
    <3>. QED
      BY <3>1, <3>2, ColumnFacts
  <2>5. ASSUME id # NoName, ~Named(columns, id).geo
        PROVE  Contains(fs, id)
    <3>1. PICK i \in DOMAIN columns : id = columns[i].name
      BY <2>5 DEF Names
    <3>2. ~columns[i].geo
      BY <2>5, <3>1, ColumnFacts
    <3>3. i \in indices
      BY <3>1, <3>2, NotTheGeometry DEF Plain
    <3>4. PICK k \in DOMAIN fs : fs[k] = columns[i].name
      BY <2>3, <3>3
    <3>5. DOMAIN fs = 1..Len(fs)
      BY <2>3
    <3>. QED
      BY <3>1, <3>4, <3>5 DEF Contains
  <2>. QED
    BY <2>3, <2>4, <2>5
<1>2. CASE c.fields # <<>>
  <2>1. PICK chosen : chosen = Picked(c.fields, Mentions(c, columns))
    OBVIOUS
  <2>2. /\ chosen \in Seq(STRING)
        /\ \A k \in DOMAIN chosen : chosen[k] \in Names(columns) /\ ~Named(columns, chosen[k]).geo
        /\ \A k, l \in DOMAIN chosen : chosen[k] = chosen[l] => k = l
    <3>1. Chosen(columns, chosen)
      BY <2>1, PickedMentions
    <3>. QED
      BY <3>1 DEF Chosen
  <2>3. CASE id # NoName /\ ~Contains(chosen, id)
    <3>1. fs = Append(chosen, id)
      BY <1>2, <2>1, <2>3 DEF Fields
    <3>2. id \in STRING
      BY <2>3, ColumnFacts DEF Names, ColumnInfo
    <3>3. /\ DOMAIN fs = 1..(Len(chosen) + 1) /\ Len(chosen) \in Nat /\ DOMAIN chosen = 1..Len(chosen)
          /\ fs[Len(chosen) + 1] = id /\ \A k \in DOMAIN chosen : fs[k] = chosen[k]
          /\ Len(fs) = Len(chosen) + 1
      BY <2>2, <3>1, <3>2
    <3>4. \A k \in DOMAIN chosen : chosen[k] # id
      BY <2>3, <3>3 DEF Contains
    <3>5. \A k \in DOMAIN fs : k \in DOMAIN chosen \/ (k = Len(chosen) + 1 /\ fs[k] = id)
      BY <3>3
    <3>6. \A k \in DOMAIN fs : fs[k] \in Names(columns) /\ (fs[k] = id \/ ~Named(columns, fs[k]).geo)
      BY <2>2, <2>3, <3>3, <3>5
    <3>7. \A k, l \in DOMAIN fs : fs[k] = fs[l] => k = l
      BY <2>2, <3>3, <3>4, <3>5
    <3>8. Contains(fs, id)
      BY <3>3 DEF Contains
    <3>. QED
      BY <3>6, <3>7, <3>8
  <2>4. CASE ~(id # NoName /\ ~Contains(chosen, id))
    <3>1. fs = chosen
      BY <1>2, <2>1, <2>4 DEF Fields
    <3>. QED
      BY <2>2, <2>4, <3>1
  <2>. QED
    BY <2>3, <2>4
<1>. QED
  BY <1>1, <1>2

LEMMA PostGISFits ==
    ASSUME NEW c, c.fields \in Seq(STRING), c.kind = "postgis", NEW table, Tabular(table.columns),
           NEW s \in PostGISFinds(c, table), s.ok
    PROVE  s # <<>> /\ Queryable(s, c.kind, table.columns)
<1> DEFINE columns == table.columns
           srid == IF c.srid # 0 THEN c.srid ELSE table.srid
           With(id) ==
             IF id # NoName /\ id \notin Names(columns) THEN Refusal
             ELSE IF \E i \in DOMAIN c.fields : c.fields[i] \notin Names(columns) THEN Refusal
             ELSE [ok |-> TRUE, id |-> id, srid |-> srid, fields |-> Fields(c, columns, id),
                   mvtID |-> IF id # NoName /\ Named(columns, id).int THEN id ELSE NoName]
<1>1. ~Refusal.ok
  BY DEF Refusal
<1>2. PICK id : s = With(id) /\ GeometryAt(columns, c.geom)
  <2>1. PICK finds : finds = PostGISFinds(c, table) /\ s \in finds
    OBVIOUS
  <2>2. finds = IF ~GeometryAt(columns, c.geom) THEN {Refusal}
                ELSE IF c.id # NoName THEN {With(c.id)}
                ELSE IF KeyOf(columns) = {} THEN {With(NoName)}
                ELSE {With(columns[i].name) : i \in KeyOf(columns)}
    BY <2>1 DEF PostGISFinds
  <2> HIDE DEF With
  <2>. QED
    BY <1>1, <2>1, <2>2
<1>3. /\ id # NoName => id \in Names(columns)
      /\ \A i \in DOMAIN c.fields : c.fields[i] \in Names(columns)
      /\ s = [ok |-> TRUE, id |-> id, srid |-> srid, fields |-> Fields(c, columns, id),
              mvtID |-> IF id # NoName /\ Named(columns, id).int THEN id ELSE NoName]
  BY <1>1, <1>2
<1>4. s # <<>> /\ s.id = id /\ s.fields = Fields(c, columns, id)
        /\ s.mvtID = IF id # NoName /\ Named(columns, id).int THEN id ELSE NoName
  BY <1>3
<1>5. /\ \A i \in DOMAIN s.fields :
           /\ s.fields[i] \in Names(columns)
           /\ s.fields[i] = id \/ ~Named(columns, s.fields[i]).geo
           /\ \A j \in DOMAIN s.fields : s.fields[i] = s.fields[j] => i = j
      /\ id # NoName /\ ~Named(columns, id).geo => Contains(s.fields, id)
  BY <1>2, <1>3, <1>4, FieldsFit
<1>6. NoName \notin Names(columns)
  BY DEF Names, Tabular
<1>7. s.mvtID # NoName => s.mvtID \in Names(columns) /\ Named(columns, s.mvtID).int
  BY <1>3, <1>4
<1>. QED
  BY <1>3, <1>4, <1>5, <1>6, <1>7 DEF Queryable

LEMMA MySQLFits ==
    ASSUME NEW c, c.fields \in Seq(STRING), c.kind = "mysql", NEW table, Tabular(table.columns),
           NEW s \in MySQLFinds(c, table), s.ok
    PROVE  s # <<>> /\ Queryable(s, c.kind, table.columns)
<1> DEFINE columns == table.columns
           keys == KeyOf(columns)
           id == IF c.id # NoName THEN c.id
                 ELSE IF keys = {} THEN NoName
                 ELSE columns[CHOOSE i \in keys : \A j \in keys : i <= j].name
           wanted == ToSet(c.fields) \cup (IF id # NoName THEN {id} ELSE {})
           indices == {i \in Plain(c, columns) : c.fields # <<>> => columns[i].name \in wanted}
           srid == IF c.srid # 0 THEN c.srid ELSE table.srid
<1>1. /\ GeometryAt(columns, c.geom)
      /\ s = [ok |-> TRUE, id |-> id, srid |-> srid, fields |-> Picked(NamesOf(columns), indices), mvtID |-> NoName]
  <2>1. ~Refusal.ok
    BY DEF Refusal
  <2>. QED
    BY <2>1 DEF MySQLFinds
<1>2. PICK fs : fs = Picked(NamesOf(columns), indices)
  OBVIOUS
<1>3. s # <<>> /\ s.id = id /\ s.fields = fs /\ s.mvtID = NoName
  <2> HIDE DEF id, indices, srid
  <2>. QED BY <1>1, <1>2
<1>4. indices \in SUBSET DOMAIN columns
  BY DEF Plain
<1>5. /\ \E n \in Nat : DOMAIN fs = 1..n
      /\ \A k \in DOMAIN fs : \E i \in indices : fs[k] = columns[i].name
      /\ \A i \in indices : \E k \in DOMAIN fs : fs[k] = columns[i].name
      /\ \A k, l \in DOMAIN fs : fs[k] = fs[l] => k = l
  <2> HIDE DEF indices
  <2>. QED BY <1>2, <1>4, PickedColumns
<1>6. ASSUME NEW k \in DOMAIN fs
      PROVE  fs[k] \in Names(columns) /\ ~Named(columns, fs[k]).geo
  <2>1. PICK i \in indices : fs[k] = columns[i].name
    BY <1>5
  <2>2. i \in DOMAIN columns /\ ~columns[i].geo
    BY DEF Plain
  <2>. QED
    BY <2>1, <2>2, ColumnFacts
<1>7. NoName \notin Names(columns)
  BY DEF Names, Tabular
<1>8. ASSUME id \in Names(columns), ~Named(columns, id).geo
      PROVE  Contains(fs, id)
  <2>1. PICK i \in DOMAIN columns : id = columns[i].name
    BY <1>8 DEF Names
  <2>2. ~columns[i].geo
    BY <1>8, <2>1, ColumnFacts
  <2>3. id \in wanted
    BY <1>7, <1>8
  <2>4. i \in indices
    <3> HIDE DEF id
    <3>. QED BY <1>1, <2>1, <2>2, <2>3, NotTheGeometry DEF Plain
  <2>5. PICK k \in DOMAIN fs : fs[k] = columns[i].name
    BY <1>5, <2>4
  <2>6. DOMAIN fs = 1..Len(fs)
    BY <1>5
  <2>. QED
    BY <2>1, <2>5, <2>6 DEF Contains
<1>. QED
  <2> HIDE DEF id, indices, wanted
  <2>. QED BY <1>3, <1>5, <1>6, <1>8 DEF Queryable

LEMMA WorldFacts ==
    ASSUME OpenAssumption, NEW c \in Settings, NEW w \in Worlds, c.kind = w.kind
    PROVE  /\ \/ OnDatabase(c)
              \/ c.kind = "geojson" /\ w \in [kind : {"geojson"}, file : Files]
              \/ c.kind = "geopackage" /\ w \in [kind : {"geopackage"}, file : FileInfo, layers : Seq(LayerInfo)]
           /\ OnDatabase(c) => c.fields \in Seq(STRING) /\ Tabular(w.columns)
<1>1. CASE w \in [kind : {"geojson"}, file : FileInfo]
  <2>1. w.kind = "geojson" /\ w.file \in Files /\ w \in [kind : {"geojson"}, file : Files]
    BY <1>1 DEF Files
  <2>. QED
    BY <2>1 DEF OnDatabase
<1>2. CASE w \in [kind : {"geopackage"}, file : FileInfo, layers : Seq(LayerInfo)]
  BY <1>2 DEF OnDatabase
<1>3. CASE /\ w \in [kind : {"postgis", "mysql"}, columns : Seq(ColumnInfo), srid : Nat, mariaDB : BOOLEAN,
                     excess : SUBSET STRING]
           /\ \A i, j \in DOMAIN w.columns : w.columns[i].name = w.columns[j].name => i = j
           /\ \A i \in DOMAIN w.columns : w.columns[i].name # NoName
  <2>1. w.kind \in {"postgis", "mysql"} /\ w.columns \in Seq(ColumnInfo)
    BY <1>3
  <2>2. c.fields \in Seq(STRING)
    BY <2>1 DEF OpenAssumption
  <2>. QED
    BY <1>3, <2>1, <2>2 DEF OnDatabase, Tabular
<1>. QED
  BY <1>1, <1>2, <1>3 DEF OpenAssumption

LEMMA OpenInitInv == OpenIdle => OpenInv
BY DEF OpenIdle, NoReport, OpenInv, OpenStages, OfItsKind, Inspected, OpenedFirst, QueriesFit, OnDatabase

\* A source given up: an error is reported and nothing is left open.
LEMMA GivesUpOpening ==
    ASSUME OpenInv, doing # "none", UNCHANGED <<config, world, source, before>>, End("error"), pools' = 0
    PROVE  OpenInv'
<1>1. /\ doing' = "end" /\ report' = [status |-> "error", findings |-> report.findings]
  BY DEF OpenInv, OpenStages, End
<1>. QED
  BY <1>1 DEF OpenInv, OpenStages, OfItsKind, Inspected, OpenedFirst, QueriesFit, OnDatabase

LEMMA TakeUpKeeps ==
    ASSUME OpenAssumption, OpenInv, doing = "none", NEW c \in Settings, NEW w \in Worlds, TakeUp(c, w)
    PROVE  OpenInv'
<1>1. /\ config' = c /\ world' = w /\ c.kind = w.kind /\ UNCHANGED <<source, pools, before>>
      /\ \/ doing' = "check" /\ UNCHANGED report
         \/ doing' = "end" /\ report' = [status |-> "error", findings |-> report.findings]
  BY DEF TakeUp, End, OpenInv, OpenStages
<1>2. /\ \/ OnDatabase(c)
         \/ c.kind = "geojson" /\ w \in [kind : {"geojson"}, file : Files]
         \/ c.kind = "geopackage" /\ w \in [kind : {"geopackage"}, file : FileInfo, layers : Seq(LayerInfo)]
  BY <1>1, WorldFacts
<1>3. OfItsKind'
  BY <1>1, <1>2 DEF OfItsKind, OnDatabase
<1>4. doing' \in {"check", "end"} /\ pools' = 0
  BY <1>1 DEF OpenInv, OpenStages
<1>5. OpenStages'
  BY <1>1, <1>4 DEF OpenInv, OpenStages
<1>6. OpenedFirst'
  BY <1>1, <1>4 DEF OpenInv, OpenedFirst
<1>7. Inspected' /\ QueriesFit'
  BY <1>4 DEF Inspected, QueriesFit
<1>. QED
  BY <1>3, <1>5, <1>6, <1>7 DEF OpenInv

LEMMA ConnectKeeps ==
    ASSUME OpenInv, Connect
    PROVE  OpenInv'
<1>1. doing = "check" /\ OnDatabase(config) /\ UNCHANGED <<config, world, source, before>> /\ pools = 0
  BY DEF Connect, OpenInv, OpenStages, OnDatabase
<1>2. CASE End("error") /\ UNCHANGED pools
  BY <1>1, <1>2, GivesUpOpening
<1>3. CASE doing' = "introspect" /\ pools' = pools + 1 /\ UNCHANGED report
  BY <1>1, <1>3 DEF OpenInv, OpenStages, OfItsKind, Inspected, OpenedFirst, QueriesFit, OnDatabase
<1>. QED
  BY <1>2, <1>3 DEF Connect

LEMMA IntrospectKeeps ==
    ASSUME OpenAssumption, OpenInv, Introspect
    PROVE  OpenInv'
<1>1. doing = "introspect" /\ OnDatabase(config) /\ UNCHANGED <<config, world, before>> /\ pools = 1
  BY DEF Introspect, OpenInv, OpenStages
<1>2. config \in Settings /\ world \in Worlds /\ config.kind = world.kind
  BY <1>1 DEF OpenInv, OfItsKind, OnDatabase
<1>3. CASE End("error") /\ pools' = pools - 1 /\ UNCHANGED source
  BY <1>1, <1>3, GivesUpOpening
<1>4. ASSUME NEW s, s \in IF config.kind = "postgis" THEN PostGISFinds(config, world) ELSE MySQLFinds(config, world),
             s.ok, doing' = "ping" /\ source' = s /\ UNCHANGED <<pools, report>>
      PROVE  OpenInv'
  <2>1. config.fields \in Seq(STRING) /\ Tabular(world.columns)
    BY <1>1, <1>2, WorldFacts
  <2>2. s # <<>> /\ Queryable(s, config.kind, world.columns)
    <3>1. CASE config.kind = "postgis"
      BY <1>4, <2>1, <3>1, PostGISFits
    <3>2. CASE config.kind = "mysql"
      BY <1>4, <2>1, <3>2, MySQLFits
    <3>. QED
      BY <1>1, <3>1, <3>2 DEF OnDatabase
  <2>3. QueriesFit'
    BY <1>1, <1>4, <2>2 DEF QueriesFit
  <2>. QED
    BY <1>1, <1>4, <2>2, <2>3 DEF OpenInv, OpenStages, OfItsKind, Inspected, OpenedFirst, OnDatabase
<1>. QED
  BY <1>3, <1>4 DEF Introspect

LEMMA InspectPackageKeeps ==
    ASSUME OpenInv, InspectPackage
    PROVE  OpenInv'
<1>1. doing = "check" /\ config.kind = "geopackage" /\ UNCHANGED <<config, world, source, before>> /\ pools = 0
  BY DEF InspectPackage, OpenInv, OpenStages
<1>2. CASE End("error") /\ UNCHANGED pools
  BY <1>1, <1>2, GivesUpOpening
<1>3. CASE doing' = "package" /\ pools' = pools + 1 /\ UNCHANGED report
  BY <1>1, <1>3 DEF OpenInv, OpenStages, OfItsKind, Inspected, OpenedFirst, QueriesFit, OnDatabase
<1>. QED
  BY <1>2, <1>3 DEF InspectPackage

LEMMA LoadPackageKeeps ==
    ASSUME OpenInv, LoadPackage
    PROVE  OpenInv'
<1>1. doing = "package" /\ config.kind = "geopackage" /\ UNCHANGED <<config, world, before>> /\ pools = 1 /\ pools' = 0
  BY DEF LoadPackage, OpenInv, OpenStages
<1>2. CASE End("error") /\ UNCHANGED source
  BY <1>1, <1>2, GivesUpOpening
<1>3. ASSUME NEW s \in LayerFinds(config, world), s.ok, doing' = "ping" /\ source' = s /\ UNCHANGED report
      PROVE  OpenInv'
  <2>1. s # <<>>
    <3>1. ~Refusal.ok
      BY DEF Refusal
    <3> DEFINE ls == world.layers
               want == IF config.layer = NoName /\ ls # <<>> THEN ls[1].table ELSE config.layer
               is == {i \in DOMAIN ls : ls[i].table = want}
               l == ls[CHOOSE i \in is : \A j \in is : i <= j]
    <3>2. s = [ok |-> TRUE, id |-> NoName, srid |-> l.srid, fields |-> <<>>, mvtID |-> NoName]
      BY <1>3, <3>1 DEF LayerFinds
    <3> HIDE DEF l
    <3>. QED
      BY <3>2
  <2>. QED
    BY <1>1, <1>3, <2>1 DEF OpenInv, OpenStages, OfItsKind, Inspected, OpenedFirst, QueriesFit, OnDatabase
<1>. QED
  BY <1>2, <1>3 DEF LoadPackage

LEMMA InspectFirstKeeps ==
    ASSUME OpenInv, InspectFirst
    PROVE  OpenInv'
<1>1. doing = "check" /\ config.kind = "geojson" /\ UNCHANGED <<config, world, source, pools>> /\ pools = 0
  BY DEF InspectFirst, OpenInv, OpenStages
<1>2. CASE End("error") /\ UNCHANGED before
  BY <1>1, <1>2, GivesUpOpening
<1>3. CASE doing' = "opening" /\ UNCHANGED report
  BY <1>1, <1>3 DEF OpenInv, OpenStages, OfItsKind, Inspected, OpenedFirst, QueriesFit, OnDatabase
<1>. QED
  BY <1>2, <1>3 DEF InspectFirst

LEMMA OpenFileKeeps ==
    ASSUME OpenInv, OpenFile
    PROVE  OpenInv'
<1>1. doing = "opening" /\ config.kind = "geojson" /\ UNCHANGED <<config, world, source>> /\ pools = 0
  BY DEF OpenFile, OpenInv, OpenStages
<1>2. CASE End("error") /\ UNCHANGED <<before, pools>>
  BY <1>1, <1>2, GivesUpOpening
<1>3. CASE doing' = "again" /\ pools' = pools + 1 /\ UNCHANGED report
  BY <1>1, <1>3 DEF OpenInv, OpenStages, OfItsKind, Inspected, OpenedFirst, QueriesFit, OnDatabase
<1>. QED
  BY <1>2, <1>3 DEF OpenFile

LEMMA InspectAgainKeeps ==
    ASSUME OpenAssumption, OpenInv, InspectAgain
    PROVE  OpenInv'
<1>1. doing = "again" /\ config.kind = "geojson" /\ UNCHANGED <<config, world, source, before>> /\ pools = 1
  BY DEF InspectAgain, OpenInv, OpenStages
<1>2. CASE End("error") /\ pools' = pools - 1
  BY <1>1, <1>2, GivesUpOpening
<1>3. CASE /\ AssetAllowed(config.policy, world.file, TRUE) /\ SameFile(before, world.file)
           /\ doing' = "read" /\ UNCHANGED <<report, pools>>
  <2>1. world.file \in Files
    BY <1>1 DEF OpenInv, OfItsKind, OnDatabase
  <2>2. \A f \in Files : f.inode = before.file =>
           f.regular = world.file.regular /\ f.inRoot = world.file.inRoot
    BY <1>3, <2>1 DEF OpenAssumption, SameFile
  <2>3. world.file.regular /\ (config.policy.enforceRoot => world.file.inRoot)
    BY <1>3 DEF AssetAllowed
  <2>4. \A f \in Files : f.inode = before.file =>
           f.regular /\ (config.policy.enforceRoot => f.inRoot)
    BY <2>2, <2>3
  <2>5. Inspected'
    BY <1>1, <1>3, <2>4 DEF Inspected
  <2>. QED
    BY <1>1, <1>3, <2>5 DEF OpenInv, OpenStages, OfItsKind, OpenedFirst, QueriesFit, OnDatabase
<1>. QED
  BY <1>2, <1>3 DEF InspectAgain

LEMMA ReadFileKeeps ==
    ASSUME OpenInv, NEW size, ReadFile(size)
    PROVE  OpenInv'
<1>1. doing = "read" /\ config.kind = "geojson" /\ UNCHANGED <<config, world, before>> /\ pools = 1 /\ pools' = 0
  BY DEF ReadFile, OpenInv, OpenStages
<1>2. CASE End("error") /\ UNCHANGED source
  BY <1>1, <1>2, GivesUpOpening
<1>3. CASE Fits(size, LimitOf(config.policy, TRUE))
  <2>1. doing' = "ping" /\ UNCHANGED report
    BY <1>3 DEF ReadFile
  <2>2. source' # <<>> /\ source'.file = before.file /\ source'.size = size
    BY <1>3 DEF ReadFile
  <2>3. Inspected'
    BY <1>1, <1>3, <2>1, <2>2 DEF OpenInv, Inspected, LimitOf, Fits
  <2>. QED
    BY <1>1, <2>1, <2>2, <2>3 DEF OpenInv, OpenStages, OfItsKind, OpenedFirst, QueriesFit, OnDatabase
<1>4. CASE ~Fits(size, LimitOf(config.policy, TRUE))
  BY <1>2, <1>4 DEF ReadFile
<1>. QED
  BY <1>3, <1>4

LEMMA SwapKeeps ==
    ASSUME OpenAssumption, OpenInv, NEW file \in Swaps, Swap(file)
    PROVE  OpenInv'
<1>1. /\ UNCHANGED <<config, doing, source, pools, before, report>>
      /\ doing \in {"check", "package", "opening", "again", "read"}
  BY DEF Swap
<1>2. file \in Files /\ file \in FileInfo
  BY DEF Files, OpenAssumption
<1>3. OfItsKind'
  <2>1. CASE config.kind = "geojson" /\ world' = [world EXCEPT !.file = file]
    <3>1. world \in [kind : {"geojson"}, file : Files]
      BY <1>1, <2>1 DEF OpenInv, OfItsKind, OnDatabase
    <3>2. world' \in [kind : {"geojson"}, file : Files]
      BY <1>2, <2>1, <3>1
    <3>. QED
      BY <1>1, <2>1, <3>2 DEF OpenInv, OfItsKind, OnDatabase
  <2>2. ASSUME config.kind = "geopackage", NEW w \in Worlds, w.kind = "geopackage", world' = [w EXCEPT !.file = file]
        PROVE  OfItsKind'
    <3>1. w \in [kind : {"geopackage"}, file : FileInfo, layers : Seq(LayerInfo)]
      BY <2>2 DEF OpenAssumption
    <3>2. world' \in [kind : {"geopackage"}, file : FileInfo, layers : Seq(LayerInfo)]
      BY <1>2, <2>2, <3>1
    <3>. QED
      BY <1>1, <2>2, <3>2 DEF OpenInv, OfItsKind, OnDatabase
  <2>. QED
    BY <2>1, <2>2 DEF Swap
<1>4. OpenStages' /\ Inspected' /\ OpenedFirst' /\ QueriesFit'
  BY <1>1 DEF OpenInv, OpenStages, Inspected, OpenedFirst, QueriesFit, OnDatabase
<1>. QED
  BY <1>3, <1>4 DEF OpenInv

LEMMA PingOpenedKeeps ==
    ASSUME OpenInv, PingOpened
    PROVE  OpenInv'
<1>1. doing = "ping" /\ UNCHANGED <<config, world, source, before>>
  BY DEF PingOpened
<1>2. CASE pools' = 0 /\ End("error")
  BY <1>1, <1>2, GivesUpOpening
<1>3. CASE doing' = "describe" /\ UNCHANGED <<pools, report>>
  BY <1>1, <1>3 DEF OpenInv, OpenStages, OfItsKind, Inspected, OpenedFirst, QueriesFit, OnDatabase, LimitOf, Fits
<1>. QED
  BY <1>2, <1>3 DEF PingOpened

LEMMA DescribeKeeps ==
    ASSUME OpenInv, Describe
    PROVE  OpenInv'
<1>1. /\ doing = "describe" /\ doing' = "end" /\ pools' = 0 /\ UNCHANGED <<config, world, source, before>>
      /\ \E findings : report' = [status |-> "ok", findings |-> findings]
  BY DEF Describe
<1>2. source # <<>>
  BY <1>1 DEF OpenInv, OpenedFirst
<1>. QED
  BY <1>1, <1>2 DEF OpenInv, OpenStages, OfItsKind, Inspected, OpenedFirst, QueriesFit, OnDatabase

LEMMA OpeningStutters ==
    ASSUME OpenInv, UNCHANGED opening
    PROVE  OpenInv'
BY DEF OpenInv, opening, OpenStages, OfItsKind, Inspected, OpenedFirst, QueriesFit, OnDatabase, LimitOf, Fits

LEMMA Opening == OpenSpec => []OpenInv
<1> USE OpenAssumption
<1>1. OpenInv /\ [OpenNext]_opening => OpenInv'
  <2> SUFFICES ASSUME OpenInv, [OpenNext]_opening PROVE OpenInv'
    OBVIOUS
  <2>1. CASE doing = "none" /\ \E c \in Settings, w \in Worlds : TakeUp(c, w)
    BY <2>1, TakeUpKeeps
  <2>2. CASE Connect
    BY <2>2, ConnectKeeps
  <2>3. CASE Introspect
    BY <2>3, IntrospectKeeps
  <2>4. CASE InspectPackage
    BY <2>4, InspectPackageKeeps
  <2>5. CASE InspectFirst
    BY <2>5, InspectFirstKeeps
  <2>6. CASE OpenFile
    BY <2>6, OpenFileKeeps
  <2>7. CASE InspectAgain
    BY <2>7, InspectAgainKeeps
  <2>8. CASE \E size \in 0..MaxLength : ReadFile(size)
    BY <2>8, ReadFileKeeps
  <2>9. CASE \E f \in Swaps : Swap(f)
    BY <2>9, SwapKeeps
  <2>10. CASE PingOpened
    BY <2>10, PingOpenedKeeps
  <2>11. CASE Describe
    BY <2>11, DescribeKeeps
  <2>12. CASE UNCHANGED opening
    BY <2>12, OpeningStutters
  <2>13. CASE LoadPackage
    BY <2>13, LoadPackageKeeps
  <2>. QED
    BY <2>1, <2>2, <2>3, <2>4, <2>5, <2>6, <2>7, <2>8, <2>9, <2>10, <2>11, <2>12, <2>13 DEF OpenNext
<1>. QED
  BY <1>1, OpenInitInv, PTL DEF OpenSpec

\* The states of opening a source have their types.
THEOREM OpenTypeCorrect == OpenSpec => []OpenTypeOK
<1>1. OpenInv => OpenTypeOK
  BY DEF OpenInv, OpenStages, OpenTypeOK
<1>. QED
  BY <1>1, Opening, PTL

\* Whatever is configured and found, a source is opened on what it can serve or not at
\* all, and nothing is left open.
THEOREM SourcesFit == OpenSpec => []SourceFits
<1>1. OpenInv => SourceFits
  <2> SUFFICES ASSUME OpenInv PROVE SourceFits
    OBVIOUS
  <2>1. QueriesFit
    BY DEF OpenInv
  <2>2. NothingLeftOpen
    BY DEF OpenInv, OpenStages, OpenedFirst, NothingLeftOpen
  <2>. QED
    BY <2>1, <2>2 DEF SourceFits
<1>. QED
  BY <1>1, Opening, PTL

\* Whatever files and links take each other's place between the steps of OpenAsset, the
\* GeoJSON file that is read is one its policy allows.
THEOREM FilesAreAllowed == OpenSpec => []FileAllowed
<1>1. OpenInv => FileAllowed
  BY DEF OpenInv, Inspected, FileAllowed
<1>. QED
  BY <1>1, Opening, PTL

-----------------------------------------------------------------------------
(* Rows by their keys.                                                     *)

\* How many of the rows come before r.
Place(rows, r) == Cardinality({x \in rows : x.id < r.id})
\* Rows of which no two have one id.
Keyed(rows) ==
    /\ IsFiniteSet(rows) /\ rows \subseteq Rows
    /\ \A x, y \in rows : x.id = y.id => x = y

LEMMA IdType == \A r \in Rows : r.id \in Int
BY DEF Rows

LEMMA KeyOrder ==
    ASSUME NEW S, Keyed(S)
    PROVE  /\ Orders(S, ByKey(S))
           /\ \A x, y \in S : <<x, y>> \in ByKey(S) <=> x.id < y.id
<1>1. \A x, y \in S : <<x, y>> \in ByKey(S) <=> x.id < y.id
  BY DEF ByKey
<1>2. \A x \in S : x.id \in Int
  BY IdType DEF Keyed
<1>. QED
  BY <1>1, <1>2 DEF Orders, Keyed

\* Places are numbers from 0, one for each row, in the order of the ids.
LEMMA Places ==
    ASSUME NEW S, Keyed(S)
    PROVE  /\ Cardinality(S) \in Nat
           /\ \A x \in S : Place(S, x) \in 0..(Cardinality(S) - 1)
           /\ \A x, y \in S : x.id < y.id => Place(S, x) < Place(S, y)
           /\ \A x, y \in S : Place(S, x) = Place(S, y) => x = y
           /\ \A k \in 0..(Cardinality(S) - 1) : \E x \in S : Place(S, x) = k
<1> DEFINE rank == Ranks(S, ByKey(S))
<1>1. IsFiniteSet(S) /\ Orders(S, ByKey(S)) /\ \A x, y \in S : <<x, y>> \in ByKey(S) <=> x.id < y.id
  BY KeyOrder DEF Keyed
<1>2. \A x \in S : rank[x] = Place(S, x)
  <2> TAKE x \in S
  <2>1. rank[x] = Cardinality({y \in S : <<y, x>> \in ByKey(S)})
    BY DEF Ranks
  <2>2. {y \in S : <<y, x>> \in ByKey(S)} = {y \in S : y.id < x.id}
    BY <1>1
  <2>. QED
    BY <2>1, <2>2 DEF Place
<1>3. PICK n \in Nat : n = Cardinality(S)
  BY <1>1, FS_CardinalityType
<1>4. /\ rank \in [S -> 0..(n - 1)]
      /\ \A x, y \in S : <<x, y>> \in ByKey(S) => rank[x] < rank[y]
      /\ \A k \in 0..(n - 1) : \E x \in S : rank[x] = k
  <2> HIDE DEF rank
  <2>. QED BY <1>1, <1>3, RanksFill DEF rank
<1> HIDE DEF rank
<1>5. \A x \in S : x.id \in Int
  BY IdType DEF Keyed
<1>6. ASSUME NEW x \in S, NEW y \in S, x.id < y.id PROVE Place(S, x) < Place(S, y)
  BY <1>1, <1>2, <1>4, <1>6
<1>7. ASSUME NEW x \in S, NEW y \in S, Place(S, x) = Place(S, y) PROVE x = y
  <2>1. rank[x] \in Int /\ rank[y] \in Int /\ rank[x] = rank[y]
    BY <1>2, <1>4, <1>7
  <2>2. ~(rank[x] < rank[y]) /\ ~(rank[y] < rank[x])
    BY <2>1
  <2>3. ~(x.id < y.id) /\ ~(y.id < x.id)
    BY <1>1, <1>4, <2>2
  <2>. QED
    BY <1>5, <2>3 DEF Keyed
<1>8. \A x \in S : Place(S, x) \in 0..(n - 1)
  BY <1>2, <1>4
<1>9. \A k \in 0..(n - 1) : \E x \in S : Place(S, x) = k
  BY <1>2, <1>4
<1>. QED
  BY <1>3, <1>6, <1>7, <1>8, <1>9

\* The rows in order: the row at a place.
LEMMA LinedUp ==
    ASSUME NEW S, Keyed(S)
    PROVE  /\ Listed(S, ByKey(S)) \in [1..Cardinality(S) -> S]
           /\ \A k \in 1..Cardinality(S) : Place(S, Listed(S, ByKey(S))[k]) = k - 1
<1>1. PICK n \in Nat : n = Cardinality(S)
  BY Places
<1>2. PICK L : L = Listed(S, ByKey(S))
  OBVIOUS
<1>3. \A x \in S : Place(S, x) = Cardinality({y \in S : <<y, x>> \in ByKey(S)})
  <2> TAKE x \in S
  <2>1. {y \in S : <<y, x>> \in ByKey(S)} = {y \in S : y.id < x.id}
    BY KeyOrder
  <2>. QED
    BY <2>1 DEF Place
<1>4. ASSUME NEW k \in 1..n PROVE L[k] \in S /\ Place(S, L[k]) = k - 1
  <2>1. L[k] = CHOOSE x \in S : Cardinality({y \in S : <<y, x>> \in ByKey(S)}) = k - 1
    BY <1>1, <1>2 DEF Listed
  <2>2. L[k] = CHOOSE x \in S : Place(S, x) = k - 1
    BY <1>3, <2>1
  <2>3. \E x \in S : Place(S, x) = k - 1
    <3>1. k - 1 \in 0..(n - 1)
      OBVIOUS
    <3>. QED
      BY <1>1, <3>1, Places
  <2>. QED
    BY <2>2, <2>3
<1>5. L = [k \in 1..n |-> CHOOSE x \in S : Cardinality({y \in S : <<y, x>> \in ByKey(S)}) = k - 1]
  BY <1>1, <1>2 DEF Listed
<1>6. L \in [1..n -> S]
  BY <1>4, <1>5
<1>. QED
  BY <1>1, <1>2, <1>4, <1>6

\* So many rows are at the places from k to m - 1.
LEMMA CountPlaces ==
    ASSUME NEW S, Keyed(S), NEW k \in Nat, NEW m \in Nat, k <= m, m <= Cardinality(S)
    PROVE  /\ IsFiniteSet({x \in S : Place(S, x) >= k /\ Place(S, x) < m})
           /\ Cardinality({x \in S : Place(S, x) >= k /\ Place(S, x) < m}) = m - k
<1> DEFINE T == {x \in S : Place(S, x) >= k /\ Place(S, x) < m}
           f == [x \in T |-> Place(S, x)]
<1>1. PICK n \in Nat : n = Cardinality(S)
  BY Places
<1>2. IsFiniteSet(k..(m - 1)) /\ Cardinality(k..(m - 1)) = m - k
  <2>1. k \in Int /\ m - 1 \in Int
    OBVIOUS
  <2>2. /\ IsFiniteSet(k..(m - 1))
        /\ Cardinality(k..(m - 1)) = IF k > m - 1 THEN 0 ELSE (m - 1) - k + 1
    BY <2>1, FS_Interval
  <2>. QED
    BY <2>2
<1>3. \A x \in T : f[x] \in k..(m - 1)
  BY <1>1, Places
<1>4. \A x, y \in T : f[x] = f[y] => x = y
  BY Places
<1>5. \A i \in k..(m - 1) : \E x \in T : f[x] = i
  <2> TAKE i \in k..(m - 1)
  <2>1. i \in 0..(n - 1) /\ i >= k /\ i < m
    BY <1>1
  <2>2. PICK x \in S : Place(S, x) = i
    BY <1>1, <2>1, Places
  <2>. QED
    BY <2>1, <2>2
<1>6. f \in Injection(T, k..(m - 1)) /\ f \in Surjection(T, k..(m - 1))
  <2>1. f \in [T -> k..(m - 1)]
    BY <1>3
  <2> HIDE DEF f, T
  <2>. QED
    BY <1>4, <1>5, <2>1 DEF Injection, Surjection, IsInjective
<1> HIDE DEF f, T
<1>7. IsFiniteSet(T) /\ Cardinality(T) = m - k
  BY <1>2, <1>6, FS_Injection
<1>. QED
  BY <1>7 DEF T

\* A row more takes a place, and the rows after it move on by one.
LEMMA OneMoreRow ==
    ASSUME NEW S, NEW r, r \notin S, Keyed(S \cup {r})
    PROVE  /\ Keyed(S)
           /\ \A x \in S \cup {r} :
                Place(S \cup {r}, x) = IF r.id < x.id THEN Place(S, x) + 1 ELSE Place(S, x)
           /\ \A x \in S \cup {r} : Place(S, x) \in Nat
<1>1. IsFiniteSet(S)
  BY FS_Subset DEF Keyed
<1>2. Keyed(S)
  BY <1>1 DEF Keyed
<1>3. ASSUME NEW x \in S \cup {r}
      PROVE  /\ Place(S, x) \in Nat
             /\ Place(S \cup {r}, x) = IF r.id < x.id THEN Place(S, x) + 1 ELSE Place(S, x)
  <2> DEFINE lower == {y \in S : y.id < x.id}
  <2>1. IsFiniteSet(lower) /\ Cardinality(lower) \in Nat
    BY <1>1, FS_Subset, FS_CardinalityType
  <2>2. r \notin lower
    OBVIOUS
  <2>3. {y \in S \cup {r} : y.id < x.id} = IF r.id < x.id THEN lower \cup {r} ELSE lower
    OBVIOUS
  <2> HIDE DEF lower
  <2>4. Cardinality(lower \cup {r}) = Cardinality(lower) + 1
    BY <2>1, <2>2, FS_AddElement
  <2>. QED
    BY <2>1, <2>3, <2>4 DEF Place, lower
<1>. QED
  BY <1>2, <1>3

\* Of some rows those that a walk at a place has gone past although they were not seen, and
\* those seen that are still to come.
PassedBy(rows, due, shown, place) == {x \in rows \cap due : Place(rows, x) < place /\ x \notin shown}
ToCome(rows, shown, place) == {x \in rows \cap shown : Place(rows, x) >= place}

LEMMA OneMoreElement ==
    ASSUME NEW S, NEW T, NEW z, IsFiniteSet(T), S \subseteq T \cup {z}
    PROVE  Cardinality(S) \in Nat /\ Cardinality(T) \in Nat /\ Cardinality(S) <= Cardinality(T) + 1
<1>1. IsFiniteSet(T \cup {z}) /\ Cardinality(T \cup {z}) <= Cardinality(T) + 1 /\ Cardinality(T) \in Nat
  BY FS_AddElement, FS_CardinalityType
<1>2. IsFiniteSet(S) /\ Cardinality(S) <= Cardinality(T \cup {z}) /\ Cardinality(T \cup {z}) \in Nat
  BY <1>1, FS_Subset, FS_CardinalityType
<1>3. Cardinality(S) \in Nat
  BY <1>2, FS_CardinalityType
<1>. QED
  BY <1>1, <1>2, <1>3

\* A row that comes makes nothing missed, and at most one row come again.
LEMMA RowArrives ==
    ASSUME NEW S, NEW r, r \notin S, Keyed(S \cup {r}), NEW D, r \notin D, NEW V, NEW k \in Nat
    PROVE  /\ PassedBy(S \cup {r}, D, V, k) \subseteq PassedBy(S, D, V, k)
           /\ Cardinality(ToCome(S, V, k)) \in Nat /\ Cardinality(ToCome(S \cup {r}, V, k)) \in Nat
           /\ Cardinality(ToCome(S \cup {r}, V, k)) <= Cardinality(ToCome(S, V, k)) + 1
<1> DEFINE U == S \cup {r}
<1>1. /\ Keyed(S)
      /\ \A x \in U : Place(U, x) = IF r.id < x.id THEN Place(S, x) + 1 ELSE Place(S, x)
      /\ \A x \in U : Place(S, x) \in Nat
  BY OneMoreRow
<1>2. \A x, y \in U : x.id < y.id => Place(U, x) < Place(U, y)
  BY Places
<1>3. \A x, y \in S : Place(S, x) = Place(S, y) => x = y
  BY <1>1, Places
<1>4. \A x \in U : x.id \in Int
  BY IdType DEF Keyed
<1>8. ASSUME NEW x \in U
      PROVE  Place(U, x) \in Nat /\ Place(S, x) <= Place(U, x) /\ Place(U, x) <= Place(S, x) + 1
  <2>1. Place(S, x) \in Nat
    BY <1>1, <1>8
  <2>2. Place(U, x) = Place(S, x) + 1 \/ Place(U, x) = Place(S, x)
    BY <1>1, <1>8
  <2>. QED
    BY <2>1, <2>2
<1>5. PassedBy(U, D, V, k) \subseteq PassedBy(S, D, V, k)
  <2> SUFFICES ASSUME NEW x \in PassedBy(U, D, V, k) PROVE x \in PassedBy(S, D, V, k)
    OBVIOUS
  <2>1. x \in U /\ x \in D /\ x \notin V /\ Place(U, x) < k
    BY DEF PassedBy
  <2>2. x \in S /\ Place(S, x) <= Place(U, x)
    BY <1>8, <2>1
  <2>3. Place(S, x) < k
    BY <1>1, <1>8, <2>1, <2>2
  <2>. QED
    BY <2>1, <2>2, <2>3 DEF PassedBy
<1>6. \E z : ToCome(U, V, k) \subseteq ToCome(S, V, k) \cup {z}
  <2>1. CASE Place(U, r) >= k
    <3>1. \A x \in ToCome(U, V, k) : x # r => x \in ToCome(S, V, k)
      <4> SUFFICES ASSUME NEW x \in ToCome(U, V, k), x # r PROVE x \in ToCome(S, V, k)
        OBVIOUS
      <4>1. x \in S /\ x \in U /\ x \in V /\ Place(U, x) >= k
        BY DEF ToCome
      <4>2. CASE r.id < x.id
        <5>1. Place(U, r) < Place(U, x) /\ Place(U, x) = Place(S, x) + 1 /\ Place(S, x) \in Nat /\ Place(S, r) \in Nat
              /\ Place(U, r) = Place(S, r)
          BY <1>1, <1>2, <1>4, <4>1, <4>2
        <5>2. Place(S, x) >= k
          BY <2>1, <5>1
        <5>. QED
          BY <4>1, <5>2 DEF ToCome
      <4>3. CASE ~(r.id < x.id)
        <5>1. Place(U, x) = Place(S, x)
          BY <1>1, <4>1, <4>3
        <5>. QED
          BY <4>1, <5>1 DEF ToCome
      <4>. QED
        BY <4>2, <4>3
    <3>2. ToCome(U, V, k) \subseteq ToCome(S, V, k) \cup {r}
      BY <3>1
    <3>. QED
      BY <3>2
  <2>2. CASE ~(Place(U, r) >= k)
    <3>1. \A x \in ToCome(U, V, k) : x \in S /\ x \in V /\ Place(S, x) + 1 >= k /\ Place(S, x) \in Nat
      <4> TAKE x \in ToCome(U, V, k)
      <4>1. x \in U /\ x \in V /\ Place(U, x) >= k
        BY DEF ToCome
      <4>2. x # r /\ x \in S
        BY <2>2, <4>1
      <4>. QED
        BY <1>1, <4>1, <4>2
    <3>2. PICK z : \A x \in S : Place(S, x) + 1 = k => x = z
      <4>1. CASE \E x \in S : Place(S, x) + 1 = k
        <5>1. PICK z \in S : Place(S, z) + 1 = k
          BY <4>1
        <5>2. \A x \in S : Place(S, x) + 1 = k => x = z
          BY <1>1, <1>3, <5>1
        <5>. QED
          BY <5>2
      <4>2. CASE ~\E x \in S : Place(S, x) + 1 = k
        BY <4>2
      <4>. QED
        BY <4>1, <4>2
    <3>3. \A x \in ToCome(U, V, k) : x # z => x \in ToCome(S, V, k)
      <4> SUFFICES ASSUME NEW x \in ToCome(U, V, k), x # z PROVE x \in ToCome(S, V, k)
        OBVIOUS
      <4>1. x \in S /\ x \in V /\ Place(S, x) + 1 >= k /\ Place(S, x) \in Nat
        BY <3>1
      <4>2. Place(S, x) >= k
        BY <3>2, <4>1
      <4>. QED
        BY <4>1, <4>2 DEF ToCome
    <3>4. ToCome(U, V, k) \subseteq ToCome(S, V, k) \cup {z}
      BY <3>3
    <3>. QED
      BY <3>4
  <2>. QED
    BY <2>1, <2>2
<1>7. IsFiniteSet(ToCome(S, V, k))
  BY <1>1, FS_Subset DEF ToCome, Keyed
<1>. QED
  BY <1>5, <1>6, <1>7, OneMoreElement

\* A row that goes makes nothing come again, and at most one row missed.
LEMMA RowLeaves ==
    ASSUME NEW S, NEW r, r \notin S, Keyed(S \cup {r}), NEW D, NEW V, NEW k \in Nat
    PROVE  /\ ToCome(S, V, k) \subseteq ToCome(S \cup {r}, V, k)
           /\ Cardinality(PassedBy(S, D \ {r}, V, k)) \in Nat
           /\ Cardinality(PassedBy(S \cup {r}, D, V, k)) \in Nat
           /\ Cardinality(PassedBy(S, D \ {r}, V, k)) <= Cardinality(PassedBy(S \cup {r}, D, V, k)) + 1
<1> DEFINE U == S \cup {r}
<1>1. /\ Keyed(S)
      /\ \A x \in U : Place(U, x) = IF r.id < x.id THEN Place(S, x) + 1 ELSE Place(S, x)
      /\ \A x \in U : Place(S, x) \in Nat
  BY OneMoreRow
<1>2. \A x, y \in S : Place(S, x) = Place(S, y) => x = y
  BY <1>1, Places
<1>8. ASSUME NEW x \in U
      PROVE  Place(U, x) \in Nat /\ Place(S, x) <= Place(U, x) /\ Place(U, x) <= Place(S, x) + 1
  <2>1. Place(S, x) \in Nat
    BY <1>1, <1>8
  <2>2. Place(U, x) = Place(S, x) + 1 \/ Place(U, x) = Place(S, x)
    BY <1>1, <1>8
  <2>. QED
    BY <2>1, <2>2
<1>3. ToCome(S, V, k) \subseteq ToCome(U, V, k)
  <2> SUFFICES ASSUME NEW x \in ToCome(S, V, k) PROVE x \in ToCome(U, V, k)
    OBVIOUS
  <2>1. x \in S /\ x \in U /\ x \in V /\ Place(S, x) >= k
    BY DEF ToCome
  <2>2. Place(U, x) >= k
    BY <1>1, <2>1
  <2>. QED
    BY <2>1, <2>2 DEF ToCome
<1>4. PICK z : \A x \in S : Place(S, x) + 1 = k => x = z
  <2>1. CASE \E x \in S : Place(S, x) + 1 = k
    <3>1. PICK z \in S : Place(S, z) + 1 = k
      BY <2>1
    <3>2. \A x \in S : Place(S, x) + 1 = k => x = z
      BY <1>1, <1>2, <3>1
    <3>. QED
      BY <3>2
  <2>2. CASE ~\E x \in S : Place(S, x) + 1 = k
    BY <2>2
  <2>. QED
    BY <2>1, <2>2
<1>5. \A x \in PassedBy(S, D \ {r}, V, k) : x # z => x \in PassedBy(U, D, V, k)
  <2> SUFFICES ASSUME NEW x \in PassedBy(S, D \ {r}, V, k), x # z PROVE x \in PassedBy(U, D, V, k)
    OBVIOUS
  <2>1. x \in S /\ x \in U /\ x \in D /\ x \notin V /\ Place(S, x) < k
    BY DEF PassedBy
  <2>2. Place(S, x) \in Nat /\ Place(S, x) + 1 # k
    BY <1>1, <1>4, <2>1
  <2>3. Place(U, x) <= Place(S, x) + 1 /\ Place(U, x) \in Nat
    BY <1>8, <2>1
  <2>4. Place(U, x) < k
    BY <2>1, <2>2, <2>3
  <2>. QED
    BY <2>1, <2>4 DEF PassedBy
<1>6. IsFiniteSet(PassedBy(U, D, V, k))
  BY FS_Subset DEF PassedBy, Keyed
<1>7. PassedBy(S, D \ {r}, V, k) \subseteq PassedBy(U, D, V, k) \cup {z}
  BY <1>5
<1>. QED
  BY <1>3, <1>6, <1>7, OneMoreElement

-----------------------------------------------------------------------------
(* Pages of a sequence of rows.                                            *)

Apart(s) == \A i, j \in 1..Len(s) : s[i] = s[j] => i = j

LEMMA FiniteToSet ==
    ASSUME NEW T, NEW s \in Seq(T)
    PROVE  /\ IsFiniteSet(ToSet(s)) /\ Cardinality(ToSet(s)) \in Nat /\ ToSet(s) \subseteq T
           /\ Cardinality(ToSet(s)) <= Len(s)
           /\ \A k \in 1..Len(s) : s[k] \in ToSet(s)
           /\ \A x \in ToSet(s) : \E k \in 1..Len(s) : s[k] = x
           /\ Apart(s) => Cardinality(ToSet(s)) = Len(s)
<1>1. PICK n \in Nat : n = Len(s) /\ DOMAIN s = 1..n /\ s \in [1..n -> T]
  OBVIOUS
<1>2. \A x \in ToSet(s) : \E k \in 1..n : s[k] = x
  BY <1>1 DEF ToSet
<1>3. \A k \in 1..n : s[k] \in ToSet(s)
  BY <1>1 DEF ToSet
<1>4. s \in Surjection(1..n, ToSet(s))
  BY <1>1, <1>2, <1>3 DEF Surjection
<1>5. IsFiniteSet(1..n) /\ Cardinality(1..n) = n
  BY FS_Interval
<1>6. /\ IsFiniteSet(ToSet(s)) /\ Cardinality(ToSet(s)) <= n
      /\ Cardinality(ToSet(s)) = n <=> s \in Injection(1..n, ToSet(s))
  BY <1>4, <1>5, FS_Surjection
<1>7. Apart(s) => s \in Injection(1..n, ToSet(s))
  BY <1>1, <1>4 DEF Apart, Injection, Surjection, IsInjective
<1>8. ToSet(s) \subseteq T
  BY <1>1, <1>2
<1>. QED
  BY <1>1, <1>2, <1>3, <1>6, <1>7, <1>8, FS_CardinalityType

\* A page more: the rows of it that were seen before are repeated.
LEMMA SeenMore ==
    ASSUME NEW T, NEW s \in Seq(T), NEW p \in Seq(T), Apart(p)
    PROVE  /\ s \o p \in Seq(T) /\ Len(s \o p) = Len(s) + Len(p)
           /\ ToSet(s \o p) = ToSet(s) \cup ToSet(p)
           /\ Cardinality(ToSet(p) \cap ToSet(s)) \in Nat
           /\ Cardinality(ToSet(s \o p)) =
                Cardinality(ToSet(s)) + Len(p) - Cardinality(ToSet(p) \cap ToSet(s))
<1>1. PICK m \in Nat, n \in Nat : m = Len(s) /\ n = Len(p)
  OBVIOUS
<1>2. /\ s \o p \in Seq(T) /\ Len(s \o p) = m + n
      /\ \A k \in 1..m : (s \o p)[k] = s[k]
      /\ \A k \in 1..n : (s \o p)[m + k] = p[k]
  BY <1>1
<1>3. ToSet(s) \cup ToSet(p) \subseteq ToSet(s \o p)
  <2>1. ASSUME NEW x \in ToSet(s) PROVE x \in ToSet(s \o p)
    <3>1. PICK k \in 1..m : s[k] = x
      BY <1>1, FiniteToSet
    <3>2. k \in 1..Len(s \o p) /\ (s \o p)[k] = x
      BY <1>1, <1>2, <3>1
    <3>. QED
      BY <1>2, <3>2, FiniteToSet
  <2>2. ASSUME NEW x \in ToSet(p) PROVE x \in ToSet(s \o p)
    <3>1. PICK k \in 1..n : p[k] = x
      BY <1>1, FiniteToSet
    <3>2. m + k \in 1..Len(s \o p) /\ (s \o p)[m + k] = x
      BY <1>1, <1>2, <3>1
    <3>. QED
      BY <1>2, <3>2, FiniteToSet
  <2>. QED
    BY <2>1, <2>2
<1>4. ToSet(s \o p) \subseteq ToSet(s) \cup ToSet(p)
  <2> SUFFICES ASSUME NEW x \in ToSet(s \o p) PROVE x \in ToSet(s) \cup ToSet(p)
    OBVIOUS
  <2>1. PICK k \in 1..(m + n) : (s \o p)[k] = x
    BY <1>2, FiniteToSet
  <2>2. CASE k \in 1..m
    <3>1. s[k] = x
      BY <1>2, <2>1, <2>2
    <3>. QED
      BY <1>1, <2>2, <3>1, FiniteToSet
  <2>3. CASE k \notin 1..m
    <3>1. PICK l \in 1..n : k = m + l
      <4>1. k - m \in 1..n /\ k = m + (k - m)
        BY <2>1, <2>3
      <4>. QED
        BY <4>1
    <3>2. p[l] = x
      BY <1>2, <2>1, <3>1
    <3>. QED
      BY <1>1, <3>2, FiniteToSet
  <2>. QED
    BY <2>2, <2>3
<1>5. /\ IsFiniteSet(ToSet(s)) /\ IsFiniteSet(ToSet(p)) /\ Cardinality(ToSet(p)) = n
      /\ Cardinality(ToSet(s)) \in Nat
  BY <1>1, FiniteToSet
<1>6. /\ Cardinality(ToSet(s) \cup ToSet(p)) =
           Cardinality(ToSet(s)) + Cardinality(ToSet(p)) - Cardinality(ToSet(s) \cap ToSet(p))
      /\ IsFiniteSet(ToSet(s) \cap ToSet(p))
  BY <1>5, FS_Union, FS_Intersection
<1>7. ToSet(s) \cap ToSet(p) = ToSet(p) \cap ToSet(s) /\ ToSet(s \o p) = ToSet(s) \cup ToSet(p)
  BY <1>3, <1>4
<1>8. Cardinality(ToSet(p) \cap ToSet(s)) \in Nat
  BY <1>6, <1>7, FS_CardinalityType
<1>. QED
  BY <1>1, <1>2, <1>5, <1>6, <1>7, <1>8

\* What is picked from a sequence without repetitions has none.
LEMMA PickedApartly ==
    ASSUME NEW rows \in Seq(Rows), Apart(rows), NEW I \in SUBSET DOMAIN rows
    PROVE  /\ Picked(rows, I) \in Seq(Rows) /\ Apart(Picked(rows, I))
           /\ ToSet(Picked(rows, I)) = {rows[i] : i \in I}
<1>1. PICK m \in Nat : Len(rows) = m /\ DOMAIN rows = 1..m /\ \A i \in 1..m : rows[i] \in Rows
  OBVIOUS
<1>2. IsFiniteSet(1..m)
  BY FS_Interval
<1>3. IsFiniteSet(I) /\ I \subseteq Int
  BY <1>1, <1>2, FS_Subset
<1>4. PICK p : p = Picked(rows, I)
  OBVIOUS
<1>5. ElementsAt(rows, I, p)
  BY <1>3, <1>4, PickedElements
<1>6. PICK n \in Nat : n = Cardinality(I) /\ DOMAIN p = 1..n
  BY <1>5 DEF ElementsAt
<1>7. \A k \in 1..n : p[k] \in {rows[i] : i \in I}
  BY <1>5, <1>6 DEF ElementsAt
<1>8. \A i \in I : \E k \in 1..n : p[k] = rows[i]
  BY <1>5, <1>6 DEF ElementsAt
<1>9. \A k \in 1..n : p[k] \in Rows
  BY <1>1, <1>7
<1>10. p \in [1..n -> Rows]
  <2>1. p = [k \in DOMAIN p |-> p[k]]
    BY <1>4 DEF Picked
  <2>. QED
    BY <1>6, <1>9, <2>1
<1>11. p \in Seq(Rows) /\ Len(p) = n
  BY <1>10
<1>12. Apart(p)
  <2> SUFFICES ASSUME NEW k \in 1..n, NEW l \in 1..n, p[k] = p[l], k # l PROVE FALSE
    BY <1>11 DEF Apart
  <2>1. PICK i \in I, j \in I : i # j /\ p[k] = rows[i] /\ p[l] = rows[j]
    BY <1>3, <1>4, <1>6, PickedApart
  <2>2. rows[i] = rows[j] /\ i \in 1..m /\ j \in 1..m
    BY <1>1, <2>1
  <2>. QED
    BY <1>1, <2>1, <2>2 DEF Apart
<1>13. ToSet(p) = {rows[i] : i \in I}
  BY <1>6, <1>7, <1>8 DEF ToSet
<1>. QED
  BY <1>4, <1>11, <1>12, <1>13

\* The rows picked from a table.
LEMMA PickedRows ==
    ASSUME NEW keyed \in BOOLEAN, NEW rows \in Seq(Rows), Unlike(keyed, rows),
           NEW I \in SUBSET DOMAIN rows
    PROVE  /\ Picked(rows, I) \in Seq(Rows) /\ Apart(Picked(rows, I))
           /\ ToSet(Picked(rows, I)) = {rows[i] : i \in I}
           /\ keyed => Keyed(ToSet(Picked(rows, I)))
<1>1. Apart(rows)
  BY DEF Apart, Unlike
<1>2. PICK p : p = Picked(rows, I)
  OBVIOUS
<1>3. p \in Seq(Rows) /\ Apart(p) /\ ToSet(p) = {rows[i] : i \in I}
  BY <1>1, <1>2, PickedApartly
<1>4. keyed => Keyed(ToSet(p))
  <2> SUFFICES ASSUME keyed PROVE Keyed(ToSet(p))
    OBVIOUS
  <2>1. IsFiniteSet(ToSet(p)) /\ ToSet(p) \subseteq Rows
    BY <1>3, FiniteToSet
  <2>2. \A i, j \in I : rows[i].id = rows[j].id => i = j
    BY DEF Unlike
  <2>. QED
    BY <1>3, <2>1, <2>2 DEF Keyed
<1>. QED
  BY <1>2, <1>3, <1>4

LEMMA FunctionIsSeq ==
    ASSUME NEW T, NEW n \in Nat, NEW f \in [1..n -> T]
    PROVE  f \in Seq(T) /\ Len(f) = n
OBVIOUS

\* p is a piece of L, after o of its elements.
Follows(p, L, o) == \A k \in 1..Len(p) : o + k \in 1..Len(L) /\ p[k] = L[o + k]
PageAt(L, o, limit) == SubSeq(L, o + 1, Least(Len(L), o + limit))

\* A page has the rows from one place on, so many or as many as there are.
LEMMA PageRows ==
    ASSUME NEW T, NEW L \in Seq(T), NEW o \in Nat, NEW limit \in Nat \ {0}
    PROVE  LET p == PageAt(L, o, limit)
           IN /\ p \in Seq(T)
              /\ Len(p) = IF o >= Len(L) THEN 0 ELSE Least(Len(L), o + limit) - o
              /\ Follows(p, L, o)
              /\ Apart(L) => Apart(p)
<1>10. PICK p : p = PageAt(L, o, limit)
  OBVIOUS
<1>11. p = SubSeq(L, o + 1, Least(Len(L), o + limit))
  BY <1>10 DEF PageAt
<1>1. PICK n \in Nat : n = Len(L) /\ \A k \in 1..n : L[k] \in T
  OBVIOUS
<1>2. PICK m \in Nat : m = Least(n, o + limit) /\ m <= n /\ m <= o + limit
  BY DEF Least
<1>3. p = [k \in 1..(m - o) |-> L[o + k]]
  <2>1. p = [k \in 1..(m - (o + 1) + 1) |-> L[o + 1 + k - 1]]
    BY <1>1, <1>2, <1>11
  <2>2. m - (o + 1) + 1 = m - o
    OBVIOUS
  <2>3. \A k \in 1..(m - o) : o + 1 + k - 1 = o + k
    OBVIOUS
  <2>. QED
    BY <2>1, <2>2, <2>3
<1>4. PICK l \in Nat : l = (IF o >= n THEN 0 ELSE m - o) /\ 1..(m - o) = 1..l
  <2>1. CASE o >= n
    <3>1. m - o <= 0 /\ 1..(m - o) = 1..0
      BY <1>1, <1>2, <2>1
    <3>. QED
      BY <2>1, <3>1
  <2>2. CASE ~(o >= n)
    <3>1. m - o \in Nat
      BY <1>1, <1>2, <2>2 DEF Least
    <3>. QED
      BY <2>2, <3>1
  <2>. QED
    BY <2>1, <2>2
<1>5. \A k \in 1..l : o + k \in 1..n
  BY <1>2, <1>4
<1>6. p \in [1..l -> T]
  BY <1>1, <1>3, <1>4, <1>5
<1>7. p \in Seq(T) /\ Len(p) = l
  BY <1>6, FunctionIsSeq
<1>8. \A k \in 1..l : p[k] = L[o + k]
  BY <1>3, <1>4
<1>9. ASSUME Apart(L), NEW i \in 1..l, NEW j \in 1..l, p[i] = p[j] PROVE i = j
  <2>1. L[o + i] = L[o + j] /\ o + i \in 1..n /\ o + j \in 1..n
    BY <1>5, <1>8, <1>9
  <2>2. o + i = o + j
    BY <1>1, <1>9, <2>1 DEF Apart
  <2>. QED
    BY <2>2
<1>. QED
  BY <1>1, <1>2, <1>4, <1>5, <1>7, <1>8, <1>9, <1>10 DEF Apart, Follows

-----------------------------------------------------------------------------
(* The grid of an engine.                                                  *)

Quad(e) == e[1] \in Int /\ e[2] \in Int /\ e[3] \in Int /\ e[4] \in Int
IsBox(b) == b[1] \in Int /\ b[2] \in Int /\ b[3] \in Int /\ b[4] \in Int /\ b[1] <= b[3] /\ b[2] <= b[4]

LEMMA ProperIsBox == \A b \in Seq(Int) : Proper(b) => IsBox(b) /\ b # <<>>
<1> TAKE b \in Seq(Int)
<1> HAVE Proper(b)
<1>1. Len(b) = 4 /\ b[1] <= b[3] /\ b[2] <= b[4]
  BY DEF Proper
<1>2. \A k \in 1..Len(b) : b[k] \in Int
  OBVIOUS
<1>3. b[1] \in Int /\ b[2] \in Int /\ b[3] \in Int /\ b[4] \in Int
  BY <1>1, <1>2
<1>4. Len(<<>>) = 0
  OBVIOUS
<1>5. b # <<>>
  <2>1. ASSUME b = <<>> PROVE FALSE
    <3>1. Len(b) = 0
      BY <1>4, <2>1
    <3>. QED
      BY <1>1, <3>1
  <2>. QED
    BY <2>1
<1>. QED
  BY <1>1, <1>3, <1>5 DEF IsBox

LEMMA RowFacts ==
    \A r \in Rows : r.no \in Nat /\ r.id \in Int /\ r.box \in Seq(Int) /\ (r.box # <<>> => IsBox(r.box))
BY ProperIsBox DEF Rows

LEMMA GrowingProduct ==
    ASSUME NEW a \in Int, NEW b \in Int, a <= b, NEW g \in Nat
    PROVE  a * g \in Int /\ b * g \in Int /\ a * g <= b * g
OBVIOUS

LEMMA GrowingQuotient ==
    ASSUME NEW a \in Int, NEW b \in Int, a <= b, NEW w \in Nat \ {0}
    PROVE  a \div w \in Int /\ b \div w \in Int /\ a \div w <= b \div w
OBVIOUS

\* Cell numbers are on the grid and grow with the coordinate.
LEMMA CellsGrow ==
    ASSUME NEW lo \in Int, NEW hi \in Int, NEW v \in Int, NEW w \in Int, v <= w
    PROVE  /\ CellOf(v, lo, hi) \in 0..(GridDim - 1) /\ CellOf(w, lo, hi) \in 0..(GridDim - 1)
           /\ CellOf(v, lo, hi) <= CellOf(w, lo, hi)
<1>1. GridDim \in Nat \ {0}
  BY PagingAssumption
<1>2. CASE hi > lo
  <2>1. PICK d \in Nat \ {0} : d = hi - lo
    BY <1>2
  <2>2. PICK a \in Int, b \in Int : a = (v - lo) * GridDim /\ b = (w - lo) * GridDim /\ a <= b
    <3>1. v - lo \in Int /\ w - lo \in Int /\ v - lo <= w - lo /\ GridDim \in Nat
      BY <1>1
    <3>2. (v - lo) * GridDim \in Int /\ (w - lo) * GridDim \in Int /\ (v - lo) * GridDim <= (w - lo) * GridDim
      BY <3>1, GrowingProduct
    <3>. QED
      BY <3>2
  <2>3. PICK p \in Int, q \in Int : p = a \div d /\ q = b \div d /\ p <= q
    BY <2>1, <2>2, GrowingQuotient
  <2>4. CellOf(v, lo, hi) = Clamp(p, 0, GridDim - 1) /\ CellOf(w, lo, hi) = Clamp(q, 0, GridDim - 1)
    BY <1>2, <2>1, <2>2, <2>3 DEF CellOf
  <2>. QED
    BY <1>1, <2>3, <2>4 DEF Clamp, Most, Least
<1>3. CASE ~(hi > lo)
  BY <1>1, <1>3 DEF CellOf
<1>. QED
  BY <1>2, <1>3

GridCells == (0..(GridDim - 1)) \X (0..(GridDim - 1))

\* Boxes that touch have a cell in common.
LEMMA CellsMeet ==
    ASSUME NEW e, Quad(e),
           NEW a, NEW b, IsBox(a), IsBox(b), Touch(a, b)
    PROVE  \E c \in GridCells : c \in CellsIn(e, a) /\ c \in CellsIn(e, b)
<1>1. /\ a[1] <= a[3] /\ b[1] <= b[3] /\ a[1] <= b[3] /\ b[1] <= a[3]
      /\ a[2] <= a[4] /\ b[2] <= b[4] /\ a[2] <= b[4] /\ b[2] <= a[4]
  BY DEF IsBox, Touch
<1>2. /\ a[1] \in Int /\ a[2] \in Int /\ a[3] \in Int /\ a[4] \in Int
      /\ b[1] \in Int /\ b[2] \in Int /\ b[3] \in Int /\ b[4] \in Int
      /\ e[1] \in Int /\ e[2] \in Int /\ e[3] \in Int /\ e[4] \in Int
  BY DEF IsBox, Quad
<1>0. GridDim \in Nat \ {0} /\ \A x \in 0..(GridDim - 1) : x \in Int
  BY PagingAssumption
<1>3. PICK x \in 0..(GridDim - 1) :
         /\ x \in CellOf(a[1], e[1], e[3])..CellOf(a[3], e[1], e[3])
         /\ x \in CellOf(b[1], e[1], e[3])..CellOf(b[3], e[1], e[3])
  <2>1. PICK p \in 0..(GridDim - 1), q \in 0..(GridDim - 1), r \in 0..(GridDim - 1), s \in 0..(GridDim - 1) :
           /\ p = CellOf(a[1], e[1], e[3]) /\ q = CellOf(a[3], e[1], e[3])
           /\ r = CellOf(b[1], e[1], e[3]) /\ s = CellOf(b[3], e[1], e[3])
    BY <1>1, <1>2, CellsGrow
  <2>2. p <= q /\ r <= s /\ p <= s /\ r <= q
    BY <1>1, <1>2, <2>1, CellsGrow
  <2>3. PICK x \in 0..(GridDim - 1) : x >= p /\ x >= r /\ x <= q /\ x <= s
    <3>0. p \in Int /\ q \in Int /\ r \in Int /\ s \in Int
      BY <1>0
    <3>1. CASE p <= r
      <4>1. r >= p /\ r >= r /\ r <= q /\ r <= s
        BY <2>2, <3>0, <3>1
      <4>. QED
        BY <4>1
    <3>2. CASE r <= p
      <4>1. p >= p /\ p >= r /\ p <= q /\ p <= s
        BY <2>2, <3>0, <3>2
      <4>. QED
        BY <4>1
    <3>. QED
      BY <3>0, <3>1, <3>2
  <2>. QED
    BY <2>1, <2>3
<1>4. PICK y \in 0..(GridDim - 1) :
         /\ y \in CellOf(a[2], e[2], e[4])..CellOf(a[4], e[2], e[4])
         /\ y \in CellOf(b[2], e[2], e[4])..CellOf(b[4], e[2], e[4])
  <2>1. PICK p \in 0..(GridDim - 1), q \in 0..(GridDim - 1), r \in 0..(GridDim - 1), s \in 0..(GridDim - 1) :
           /\ p = CellOf(a[2], e[2], e[4]) /\ q = CellOf(a[4], e[2], e[4])
           /\ r = CellOf(b[2], e[2], e[4]) /\ s = CellOf(b[4], e[2], e[4])
    BY <1>1, <1>2, CellsGrow
  <2>2. p <= q /\ r <= s /\ p <= s /\ r <= q
    BY <1>1, <1>2, <2>1, CellsGrow
  <2>3. PICK y \in 0..(GridDim - 1) : y >= p /\ y >= r /\ y <= q /\ y <= s
    <3>0. p \in Int /\ q \in Int /\ r \in Int /\ s \in Int
      BY <1>0
    <3>1. CASE p <= r
      <4>1. r >= p /\ r >= r /\ r <= q /\ r <= s
        BY <2>2, <3>0, <3>1
      <4>. QED
        BY <4>1
    <3>2. CASE r <= p
      <4>1. p >= p /\ p >= r /\ p <= q /\ p <= s
        BY <2>2, <3>0, <3>2
      <4>. QED
        BY <4>1
    <3>. QED
      BY <3>0, <3>1, <3>2
  <2>. QED
    BY <2>1, <2>3
<1>5. <<x, y>> \in GridCells /\ <<x, y>> \in CellsIn(e, a) /\ <<x, y>> \in CellsIn(e, b)
  BY <1>3, <1>4 DEF GridCells, CellsIn
<1>. QED
  BY <1>5

\* The features of an engine, their bounds, and the cells that list them.
EngineOf(e, rows) ==
    /\ e.features \in Seq(Rows) /\ Apart(e.features)
    /\ \A i \in 1..Len(e.features) : e.features[i].box # <<>> /\ IsBox(e.features[i].box)
    /\ Quad(e.extent)
    /\ \A i \in 1..Len(e.features) :
         /\ e.extent[1] <= e.features[i].box[1] /\ e.extent[2] <= e.features[i].box[2]
         /\ e.features[i].box[3] <= e.extent[3] /\ e.features[i].box[4] <= e.extent[4]
    /\ e.grid = [c \in GridCells |-> {i \in 1..Len(e.features) : c \in CellsIn(e.extent, e.features[i].box)}]
    /\ \A j \in 1..Len(rows) : rows[j].box # <<>> =>
          \E i \in 1..Len(e.features) : e.features[i].no = rows[j].no /\ e.features[i].box = rows[j].box

LEMMA EngineFacts ==
    ASSUME NEW rows \in Seq(Rows), NEW keyed \in BOOLEAN, Unlike(keyed, rows),
           \/ Engine(rows) # <<>> \/ \E i \in DOMAIN rows : rows[i].box # <<>>
    PROVE  Engine(rows) # <<>> /\ EngineOf(Engine(rows), rows)
<1> DEFINE solid == {i \in DOMAIN rows : rows[i].box # <<>>}
<1>1. PICK fs : fs = Picked(rows, solid)
  OBVIOUS
<1>2. fs \in Seq(Rows) /\ Apart(fs) /\ ToSet(fs) = {rows[i] : i \in solid}
  <2>1. solid \in SUBSET DOMAIN rows
    OBVIOUS
  <2> HIDE DEF solid
  <2>. QED BY <1>1, <2>1, PickedRows
<1>3. PICK n \in Nat : n = Len(fs) /\ DOMAIN fs = 1..n /\ \A i \in 1..n : fs[i] \in Rows
  BY <1>2
<1>4. \A i \in 1..n : fs[i].box # <<>> /\ fs[i] \in Rows
  <2> TAKE i \in 1..n
  <2>1. fs[i] \in {rows[j] : j \in solid}
    BY <1>2, <1>3, FiniteToSet
  <2>. QED
    BY <1>3, <2>1
<1>5. PICK fd : fd = [i \in 1..n |-> [fs[i] EXCEPT !.id = IF @ = NoID THEN i - 1 ELSE @]]
  OBVIOUS
<1>6. \A i \in 1..n : fd[i] \in Rows /\ fd[i].no = fs[i].no /\ fd[i].box = fs[i].box
  <2> TAKE i \in 1..n
  <2>1. fs[i] \in [no : Nat, id : Int, box : Seq(Int)] /\ (fs[i].box = <<>> \/ Proper(fs[i].box))
    BY <1>4 DEF Rows
  <2>2. PICK k \in Int : fd[i] = [fs[i] EXCEPT !.id = k]
    <3>1. (IF fs[i].id = NoID THEN i - 1 ELSE fs[i].id) \in Int
      BY <2>1
    <3>. QED
      BY <1>5, <3>1
  <2>3. fd[i] \in [no : Nat, id : Int, box : Seq(Int)] /\ fd[i].no = fs[i].no /\ fd[i].box = fs[i].box
    BY <2>1, <2>2
  <2>. QED
    BY <2>1, <2>3 DEF Rows
<1>7. fd \in Seq(Rows) /\ Len(fd) = n /\ DOMAIN fd = 1..n
  <2>1. fd \in [1..n -> Rows]
    BY <1>5, <1>6
  <2>. QED
    BY <2>1, FunctionIsSeq
<1>8. \A j \in solid : \E i \in 1..n : fd[i].no = rows[j].no /\ fd[i].box = rows[j].box
  <2> TAKE j \in solid
  <2>1. rows[j] \in ToSet(fs)
    BY <1>2
  <2>2. PICK i \in 1..n : fs[i] = rows[j]
    BY <1>2, <1>3, <2>1, FiniteToSet
  <2>. QED
    BY <1>6, <2>2
<1>9. Apart(fd)
  <2> SUFFICES ASSUME NEW i \in 1..n, NEW j \in 1..n, fd[i] = fd[j], i # j PROVE FALSE
    BY <1>7 DEF Apart
  <2>1. fs[i].no = fs[j].no /\ fs[i] # fs[j]
    BY <1>2, <1>3, <1>6 DEF Apart
  <2>2. fs[i] \in ToSet(fs) /\ fs[j] \in ToSet(fs)
    BY <1>2, <1>3, FiniteToSet
  <2>3. PICK k \in DOMAIN rows, l \in DOMAIN rows : fs[i] = rows[k] /\ fs[j] = rows[l]
    BY <1>2, <2>2
  <2>. QED
    BY <2>1, <2>3 DEF Unlike
<1>10. n >= 1
  <2>1. CASE \E i \in DOMAIN rows : rows[i].box # <<>>
    <3>1. PICK j : j \in solid
      BY <2>1
    <3>. QED
      BY <1>8, <3>1
  <2>2. CASE Engine(rows) # <<>>
    <3>1. fs # <<>>
      BY <1>1, <2>2 DEF Engine
    <3>. QED
      BY <1>2, <1>3, <3>1
  <2>. QED
    BY <2>1, <2>2
<1> DEFINE side(k) == {fd[i].box[k] : i \in DOMAIN fd}
           extent == <<Min(side(1)), Min(side(2)), Max(side(3)), Max(side(4))>>
<1>11. Engine(rows) =
         [features |-> fd, extent |-> extent,
          grid |-> [c \in GridCells |-> {i \in DOMAIN fd : c \in CellsIn(extent, fd[i].box)}]]
  <2>1. fs # <<>>
    BY <1>3, <1>10
  <2>2. fd = [i \in DOMAIN fs |-> [fs[i] EXCEPT !.id = IF @ = NoID THEN i - 1 ELSE @]]
    BY <1>3, <1>5
  <2>3. Engine(rows) =
          IF fs = <<>> THEN <<>>
          ELSE [features |-> fd, extent |-> extent,
                grid |-> [c \in (0..GridDim - 1) \X (0..GridDim - 1) |->
                            {i \in DOMAIN fd : c \in CellsIn(extent, fd[i].box)}]]
    BY ONLY <1>1, <2>2 DEF Engine
  <2>. QED
    BY <2>1, <2>3 DEF GridCells
<1>12. ASSUME NEW k \in 1..4
       PROVE  /\ IsFiniteSet(side(k)) /\ side(k) # {} /\ side(k) \subseteq Int
              /\ \A i \in 1..n : fd[i].box[k] \in side(k)
  <2> DEFINE sides == [i \in 1..n |-> fd[i].box[k]]
  <2>1. \A i \in 1..n : fd[i].box[k] \in Int
    <3> TAKE i \in 1..n
    <3>1. IsBox(fd[i].box)
      BY <1>4, <1>6, RowFacts
    <3>. QED
      BY <1>12, <3>1 DEF IsBox
  <2>2. sides \in Surjection(1..n, side(k))
    BY <1>7 DEF Surjection
  <2>3. IsFiniteSet(1..n)
    BY ONLY n \in Nat, FS_Interval
  <2>4. IsFiniteSet(side(k))
    <3> HIDE DEF sides, side
    <3>. QED BY <2>2, <2>3, FS_Surjection
  <2>5. fd[1].box[k] \in side(k)
    BY <1>7, <1>10
  <2>. QED
    BY <1>7, <2>1, <2>4, <2>5
<1> HIDE DEF side
<1>13. /\ Min(side(1)) \in Int /\ Min(side(2)) \in Int /\ Max(side(3)) \in Int /\ Max(side(4)) \in Int
       /\ \A i \in 1..n : Min(side(1)) <= fd[i].box[1] /\ Min(side(2)) <= fd[i].box[2]
                          /\ fd[i].box[3] <= Max(side(3)) /\ fd[i].box[4] <= Max(side(4))
  <2>1. Min(side(1)) \in side(1) /\ \A x \in side(1) : Min(side(1)) <= x
    BY <1>12, MinOfFinite
  <2>2. Min(side(2)) \in side(2) /\ \A x \in side(2) : Min(side(2)) <= x
    BY <1>12, MinOfFinite
  <2>3. Max(side(3)) \in side(3) /\ \A x \in side(3) : Max(side(3)) >= x
    BY <1>12, MaxIsGreatest
  <2>4. Max(side(4)) \in side(4) /\ \A x \in side(4) : Max(side(4)) >= x
    BY <1>12, MaxIsGreatest
  <2>5. side(1) \subseteq Int /\ side(2) \subseteq Int /\ side(3) \subseteq Int /\ side(4) \subseteq Int
    BY <1>12
  <2>6. \A i \in 1..n : fd[i].box[1] \in side(1) /\ fd[i].box[2] \in side(2)
                        /\ fd[i].box[3] \in side(3) /\ fd[i].box[4] \in side(4)
    BY <1>12
  <2>7. Min(side(1)) \in Int /\ Min(side(2)) \in Int /\ Max(side(3)) \in Int /\ Max(side(4)) \in Int
    BY <2>1, <2>2, <2>3, <2>4, <2>5
  <2>8. \A i \in 1..n : /\ Min(side(1)) <= fd[i].box[1] /\ Min(side(2)) <= fd[i].box[2]
                        /\ Max(side(3)) >= fd[i].box[3] /\ Max(side(4)) >= fd[i].box[4]
    BY <2>1, <2>2, <2>3, <2>4, <2>6
  <2>9. \A i \in 1..n : fd[i].box[3] \in Int /\ fd[i].box[4] \in Int
    BY <2>5, <2>6
  <2>. QED
    BY <2>7, <2>8, <2>9
<1>14. PICK e : e = extent
  OBVIOUS
<1>20. e[1] = Min(side(1)) /\ e[2] = Min(side(2)) /\ e[3] = Max(side(3)) /\ e[4] = Max(side(4))
  BY <1>14
<1> HIDE DEF extent
<1>15. /\ Engine(rows).features = fd /\ Engine(rows).extent = e
       /\ Engine(rows).grid = [c \in GridCells |-> {i \in 1..n : c \in CellsIn(e, fd[i].box)}]
       /\ Engine(rows) # <<>>
  BY <1>7, <1>11, <1>14
<1>16. \A i \in 1..n : fd[i].box # <<>> /\ IsBox(fd[i].box)
  BY <1>4, <1>6, RowFacts
<1>17. Quad(e)
  BY <1>13, <1>20 DEF Quad
<1>18. \A i \in 1..n : e[1] <= fd[i].box[1] /\ e[2] <= fd[i].box[2] /\ fd[i].box[3] <= e[3] /\ fd[i].box[4] <= e[4]
  BY <1>13, <1>20
<1>19. \A j \in 1..Len(rows) : rows[j].box # <<>> =>
          \E i \in 1..n : fd[i].no = rows[j].no /\ fd[i].box = rows[j].box
  BY <1>8
<1>. QED
  BY <1>7, <1>9, <1>15, <1>16, <1>17, <1>18, <1>19 DEF EngineOf

\* A query finds the features that touch the box, each once, and no others.
LEMMA QueryFacts ==
    ASSUME NEW rows, NEW e, EngineOf(e, rows), NEW b, IsBox(b)
    PROVE  /\ Query(e, b) \in Seq(Rows) /\ Apart(Query(e, b))
           /\ ToSet(Query(e, b)) = {r \in ToSet(e.features) : Touch(r.box, b)}
<1>1. PICK fd \in Seq(Rows), n \in Nat : fd = e.features /\ n = Len(fd) /\ DOMAIN fd = 1..n
  BY DEF EngineOf
<1>2. \A i \in 1..n : IsBox(fd[i].box)
  BY <1>1 DEF EngineOf
<1>3. ASSUME NEW i \in 1..n, Touch(fd[i].box, b)
      PROVE  Touch(b, e.extent) /\ i \in UNION {e.grid[c] : c \in CellsIn(e.extent, b)}
  <2>1. Touch(b, e.extent)
    <3>1. /\ e.extent[1] <= fd[i].box[1] /\ e.extent[2] <= fd[i].box[2]
          /\ fd[i].box[3] <= e.extent[3] /\ fd[i].box[4] <= e.extent[4]
      BY <1>1 DEF EngineOf
    <3>2. IsBox(fd[i].box) /\ Quad(e.extent) /\ IsBox(b)
      BY <1>2 DEF EngineOf
    <3>3. fd[i].box[1] <= b[3] /\ b[1] <= fd[i].box[3] /\ fd[i].box[2] <= b[4] /\ b[2] <= fd[i].box[4]
      BY <1>3 DEF Touch
    <3>4. PICK f1 \in Int, f2 \in Int, f3 \in Int, f4 \in Int :
             f1 = fd[i].box[1] /\ f2 = fd[i].box[2] /\ f3 = fd[i].box[3] /\ f4 = fd[i].box[4]
      BY <3>2 DEF IsBox
    <3>5. PICK e1 \in Int, e2 \in Int, e3 \in Int, e4 \in Int :
             e1 = e.extent[1] /\ e2 = e.extent[2] /\ e3 = e.extent[3] /\ e4 = e.extent[4]
      BY <3>2 DEF Quad
    <3>6. b[1] \in Int /\ b[2] \in Int /\ b[3] \in Int /\ b[4] \in Int
      BY <3>2 DEF IsBox
    <3>7. b[1] <= e3 /\ e1 <= b[3] /\ b[2] <= e4 /\ e2 <= b[4]
      <4>1. e1 <= f1 /\ e2 <= f2 /\ f3 <= e3 /\ f4 <= e4
        BY <3>1, <3>4, <3>5
      <4>2. f1 <= b[3] /\ b[1] <= f3 /\ f2 <= b[4] /\ b[2] <= f4
        BY <3>3, <3>4
      <4>3. PICK b1 \in Int, b2 \in Int, b3 \in Int, b4 \in Int :
               b1 = b[1] /\ b2 = b[2] /\ b3 = b[3] /\ b4 = b[4]
        BY <3>6
      <4>4. f1 <= b3 /\ b1 <= f3 /\ f2 <= b4 /\ b2 <= f4
        BY <4>2, <4>3
      <4>5. \A j, k, l \in Int : j <= k /\ k <= l => j <= l
        OBVIOUS
      <4>6. b1 <= e3 /\ e1 <= b3 /\ b2 <= e4 /\ e2 <= b4
        BY ONLY <4>1, <4>4, <4>5, f1 \in Int, f2 \in Int, f3 \in Int, f4 \in Int,
           e1 \in Int, e2 \in Int, e3 \in Int, e4 \in Int, b1 \in Int, b2 \in Int, b3 \in Int, b4 \in Int
      <4>. QED
        BY ONLY <4>3, <4>6
    <3>. QED
      BY <3>5, <3>7 DEF Touch
  <2>2. PICK c \in GridCells : c \in CellsIn(e.extent, fd[i].box) /\ c \in CellsIn(e.extent, b)
    BY <1>2, <1>3, CellsMeet DEF EngineOf
  <2>3. i \in e.grid[c]
    BY <1>1, <2>2 DEF EngineOf
  <2>. QED
    BY <2>1, <2>2, <2>3
<1> DEFINE listed == UNION {e.grid[c] : c \in CellsIn(e.extent, b)}
           I == {i \in 1..n : i \in listed /\ Touch(fd[i].box, b)}
<1>4. Query(e, b) = IF Touch(b, e.extent) THEN Picked(fd, I) ELSE <<>>
  BY <1>1 DEF Query
<1>5. I = {i \in 1..n : Touch(fd[i].box, b)}
  BY <1>3
<1> HIDE DEF I, listed
<1>7. /\ Picked(fd, I) \in Seq(Rows) /\ Apart(Picked(fd, I))
      /\ ToSet(Picked(fd, I)) = {fd[i] : i \in I}
  <2>1. I \in SUBSET DOMAIN fd
    BY <1>1, <1>5
  <2>. QED
    BY <1>1, <2>1, PickedApartly DEF EngineOf
<1>8. {fd[i] : i \in I} = {r \in ToSet(fd) : Touch(r.box, b)}
  BY <1>1, <1>5 DEF ToSet
<1>9. CASE Touch(b, e.extent)
  BY <1>1, <1>4, <1>7, <1>8, <1>9
<1>10. CASE ~Touch(b, e.extent)
  <2>1. Query(e, b) = <<>> /\ <<>> \in Seq(Rows) /\ Len(<<>>) = 0 /\ ToSet(<<>>) = {}
    BY <1>4, <1>10 DEF ToSet
  <2>2. I = {}
    BY <1>3, <1>5, <1>10
  <2>. QED
    BY <1>1, <1>8, <2>1, <2>2 DEF Apart
<1>. QED
  BY <1>9, <1>10

-----------------------------------------------------------------------------
(* Tiles.                                                                  *)

\* The recursion that Columns writes down has a solution.
LEMMA ColumnsRecursion ==
    Columns = [z \in Nat |-> IF z = 0 THEN 1 ELSE 2 * Columns[z - 1]]
<1>1. PICK D : D = [n \in Nat |-> 2 * n]
  OBVIOUS
<1>2. D \in [Nat -> Nat] /\ 1 \in Nat
  BY <1>1
<1>3. PICK G : G = [z \in Nat |-> CHOOSE g \in [0..z -> Nat] : Iterates(g, z, 1, D)]
  OBVIOUS
<1>4. ASSUME NEW z \in Nat
      PROVE  /\ G[z] \in [0..z -> Nat]
             /\ \A i \in 0..z : G[z][i] = IF i = 0 THEN 1 ELSE D[G[z][i - 1]]
  <2>1. \E g \in [0..z -> Nat] : Iterates(g, z, 1, D)
    BY <1>2, IteratesExist
  <2>2. G[z] \in [0..z -> Nat] /\ Iterates(G[z], z, 1, D)
    BY <1>3, <2>1
  <2>3. PICK g \in [0..z -> Nat] : g = G[z]
    BY <2>2
  <2>4. g = [i \in 0..z |-> IF i = 0 THEN 1 ELSE D[g[i - 1]]]
    BY <2>2, <2>3 DEF Iterates
  <2>5. \A i \in 0..z : g[i] = IF i = 0 THEN 1 ELSE D[g[i - 1]]
    BY <2>4
  <2>. QED
    BY <2>2, <2>3, <2>5
<1>5. ASSUME NEW z \in Nat PROVE G[z + 1][z] = G[z][z]
  <2>1. PICK g \in [0..z -> Nat], h \in [0..(z + 1) -> Nat] : g = G[z] /\ h = G[z + 1]
    <3>1. z + 1 \in Nat
      OBVIOUS
    <3>. QED
      BY <1>4, <3>1
  <2>2. \A i \in 0..z : g[i] = IF i = 0 THEN 1 ELSE D[g[i - 1]]
    BY <1>4, <2>1
  <2>3. \A i \in 0..(z + 1) : h[i] = IF i = 0 THEN 1 ELSE D[h[i - 1]]
    <3>1. z + 1 \in Nat
      OBVIOUS
    <3>. QED
      BY <1>4, <2>1, <3>1
  <2>4. PICK T : T = {i \in 0..z : h[i] = g[i]}
    OBVIOUS
  <2>5. 0 \in T
    <3>1. 0 \in 0..z /\ 0 \in 0..(z + 1)
      OBVIOUS
    <3>. QED
      BY <2>2, <2>3, <2>4, <3>1
  <2>6. ASSUME NEW k \in T, k < z PROVE k + 1 \in T
    <3>1. k \in 0..z /\ k + 1 \in 0..z /\ k + 1 \in 0..(z + 1) /\ k + 1 # 0 /\ (k + 1) - 1 = k
      BY <2>4, <2>6
    <3>2. h[k + 1] = D[h[k]] /\ g[k + 1] = D[g[k]] /\ h[k] = g[k]
      BY <2>2, <2>3, <2>4, <3>1
    <3>. QED
      BY <2>4, <3>1, <3>2
  <2>7. T = 0..z
    <3>1. T \subseteq 0..z
      BY <2>4
    <3>. QED
      BY <2>5, <2>6, <3>1, UpTo
  <2>8. z \in T
    BY <2>7
  <2>9. h[z] = g[z]
    BY <2>4, <2>8
  <2>. QED
    BY <2>1, <2>9
<1>6. PICK f : f = [z \in Nat |-> G[z][z]]
  OBVIOUS
<1>7. ASSUME NEW z \in Nat PROVE f[z] = IF z = 0 THEN 1 ELSE 2 * f[z - 1]
  <2>1. CASE z = 0
    BY <1>4, <1>6, <2>1
  <2>2. CASE z # 0
    <3>1. PICK y \in Nat : z = y + 1 /\ z - 1 = y
      <4>1. z - 1 \in Nat /\ z = (z - 1) + 1
        BY <2>2
      <4>. QED
        BY <4>1
    <3>2. y \in 0..z /\ z \in 0..z
      BY <3>1
    <3>3. G[z][z] = D[G[z][y]]
      <4>1. G[z][z] = D[G[z][z - 1]]
        BY <1>4, <2>2, <3>2
      <4>. QED
        BY <3>1, <4>1
    <3>4. G[z][y] = G[y][y]
      BY <1>5, <3>1
    <3>5. G[y][y] \in Nat
      <4>1. y \in 0..y /\ G[y] \in [0..y -> Nat]
        BY <1>4
      <4>. QED
        BY <4>1
    <3>. QED
      BY <1>1, <1>6, <2>2, <3>1, <3>3, <3>4, <3>5
  <2>. QED
    BY <2>1, <2>2
<1>8. f = [z \in Nat |-> IF z = 0 THEN 1 ELSE 2 * f[z - 1]]
  BY <1>6, <1>7
<1>. QED
  BY <1>8 DEF Columns

\* There is a tile on every level.
LEMMA ColumnsPositive == \A z \in Nat : Columns[z] \in Nat \ {0}
<1>1. PICK C : C = Columns
  OBVIOUS
<1>2. \A z \in Nat : C[z] = IF z = 0 THEN 1 ELSE 2 * C[z - 1]
  BY <1>1, ColumnsRecursion
<1>3. PICK Bad : Bad = {z \in Nat : C[z] \notin Nat \ {0}}
  OBVIOUS
<1>4. ASSUME Bad # {} PROVE FALSE
  <2>1. PICK m \in Bad : \A k \in Bad : m <= k
    BY <1>3, <1>4, SmallestNat
  <2>2. m # 0
    BY <1>2, <1>3, <2>1
  <2>3. m - 1 \in Nat /\ ~(m <= m - 1)
    BY <1>3, <2>1, <2>2
  <2>4. C[m - 1] \in Nat \ {0}
    BY <1>3, <2>1, <2>3
  <2>5. C[m] = 2 * C[m - 1]
    BY <1>2, <1>3, <2>1, <2>2
  <2>. QED
    BY <1>3, <2>1, <2>4, <2>5
<1>. QED
  BY <1>1, <1>3, <1>4

LEMMA ProductStep ==
    ASSUME NEW x \in Int, NEW w \in Int
    PROVE  x * w \in Int /\ (x + 1) * w = x * w + w
OBVIOUS

LEMMA QuotientTimes ==
    ASSUME NEW a \in Nat, NEW c \in Nat \ {0}
    PROVE  a \div c \in Nat /\ c * (a \div c) \in Int /\ c * (a \div c) <= a
OBVIOUS

LEMMA LaterProduct ==
    ASSUME NEW x \in Nat, NEW c \in Nat, x + 1 <= c, NEW w \in Nat
    PROVE  x * w >= 0 /\ (x + 1) * w <= c * w
<1>1. c - (x + 1) \in Nat
  OBVIOUS
<1>2. (c - (x + 1)) * w \in Nat
  BY <1>1
<1>3. (c - (x + 1)) * w = c * w - (x + 1) * w
  OBVIOUS
<1>4. c * w \in Int /\ (x + 1) * w \in Int
  OBVIOUS
<1>5. x * w \in Nat
  OBVIOUS
<1>. QED
  BY <1>2, <1>3, <1>4, <1>5

\* The bounds of a tile are a box of the plane, and a margin widens them.
LEMMA TileBounds ==
    ASSUME NEW z \in Nat, NEW x \in 0..(Columns[z] - 1), NEW y \in 0..(Columns[z] - 1), NEW m \in Nat
    PROVE  LET t == Bounds(z, x, y, 0)
               b == Bounds(z, x, y, m)
           IN /\ IsBox(t) /\ IsBox(b)
              /\ b[1] <= t[1] /\ b[2] <= t[2] /\ t[3] <= b[3] /\ t[4] <= b[4]
              /\ t[2] >= -World /\ t[4] <= World
<1>1. PICK c \in Nat \ {0} : c = Columns[z]
  BY ColumnsPositive
<1>2. World \in Nat \ {0}
  BY PagingAssumption
<1>3. PICK w \in Nat : w = (2 * World) \div c /\ c * w \in Int /\ c * w <= 2 * World
  <2>1. 2 * World \in Nat
    BY <1>2
  <2>. QED
    BY <2>1, QuotientTimes
<1>4. x \in Nat /\ x + 1 <= c /\ y \in Nat /\ y + 1 <= c
  BY <1>1
<1>5. PICK p \in Int, q \in Int : p = x * w /\ q = y * w
  BY <1>4
<1>6. (x + 1) * w = p + w /\ (y + 1) * w = q + w
  BY <1>4, <1>5, ProductStep
<1>7. q >= 0 /\ q + w <= 2 * World
  <2>1. y * w >= 0 /\ (y + 1) * w <= c * w
    BY <1>4, LaterProduct
  <2>2. q >= 0 /\ q + w <= c * w
    BY <1>5, <1>6, <2>1
  <2>. QED
    BY <1>2, <1>3, <1>5, <2>2
<1>8. ASSUME NEW k \in Nat
      PROVE  Bounds(z, x, y, k) = <<p - World - k, q - World - k, (p + w) - World + k, (q + w) - World + k>>
  <2>1. (2 * World) \div Columns[z] = w
    BY <1>1, <1>3
  <2>2. Bounds(z, x, y, k) = <<x * w - World - k, y * w - World - k,
                               (x + 1) * w - World + k, (y + 1) * w - World + k>>
    BY ONLY <2>1 DEF Bounds
  <2>3. x * w - World - k = p - World - k /\ y * w - World - k = q - World - k
    BY ONLY <1>5, Zenon
  <2>4. (x + 1) * w - World + k = (p + w) - World + k /\ (y + 1) * w - World + k = (q + w) - World + k
    BY ONLY <1>6, Zenon
  <2>. QED
    BY ONLY <2>2, <2>3, <2>4, Zenon
<1>9. 0 \in Nat
  OBVIOUS
<1>10. Bounds(z, x, y, 0) = <<p - World - 0, q - World - 0, (p + w) - World + 0, (q + w) - World + 0>>
  BY <1>8, <1>9
<1>11. Bounds(z, x, y, m) = <<p - World - m, q - World - m, (p + w) - World + m, (q + w) - World + m>>
  BY <1>8
<1>. QED
  BY <1>2, <1>5, <1>7, <1>10, <1>11 DEF IsBox

\* What touches a tile touches the tile with its margin.
LEMMA WiderTouch ==
    ASSUME NEW t, NEW b, IsBox(t), IsBox(b),
           b[1] <= t[1], b[2] <= t[2], t[3] <= b[3], t[4] <= b[4],
           NEW r, IsBox(r), Touch(r, t)
    PROVE  Touch(r, b)
<1>1. PICK t1 \in Int, t2 \in Int, t3 \in Int, t4 \in Int : t1 = t[1] /\ t2 = t[2] /\ t3 = t[3] /\ t4 = t[4]
  BY DEF IsBox
<1>2. PICK b1 \in Int, b2 \in Int, b3 \in Int, b4 \in Int : b1 = b[1] /\ b2 = b[2] /\ b3 = b[3] /\ b4 = b[4]
  BY DEF IsBox
<1>3. PICK r1 \in Int, r2 \in Int, r3 \in Int, r4 \in Int : r1 = r[1] /\ r2 = r[2] /\ r3 = r[3] /\ r4 = r[4]
  BY DEF IsBox
<1>4. r1 <= t3 /\ t1 <= r3 /\ r2 <= t4 /\ t2 <= r4
  BY <1>1, <1>3 DEF Touch
<1>5. b1 <= t1 /\ b2 <= t2 /\ t3 <= b3 /\ t4 <= b4
  BY <1>1, <1>2
<1>6. r1 <= b3 /\ b1 <= r3 /\ r2 <= b4 /\ b2 <= r4
  BY ONLY <1>4, <1>5, t1 \in Int, t2 \in Int, t3 \in Int, t4 \in Int, b1 \in Int, b2 \in Int, b3 \in Int,
     b4 \in Int, r1 \in Int, r2 \in Int, r3 \in Int, r4 \in Int
<1>. QED
  BY <1>2, <1>3, <1>6 DEF Touch

\* Clamped to the globe, the box misses only what lies on the antimeridian.
LEMMA ClampedTouch ==
    ASSUME NEW t, NEW b, IsBox(t), IsBox(b),
           b[1] <= t[1], b[2] <= t[2], t[3] <= b[3], t[4] <= b[4], t[2] >= -World, t[4] <= World,
           NEW r, IsBox(r), Touch(r, t), ~(r[3] <= -World), ~(r[1] >= World)
    PROVE  Touch(r, ClampWGS84(b))
<1>1. PICK t1 \in Int, t2 \in Int, t3 \in Int, t4 \in Int : t1 = t[1] /\ t2 = t[2] /\ t3 = t[3] /\ t4 = t[4]
  BY DEF IsBox
<1>2. PICK b1 \in Int, b2 \in Int, b3 \in Int, b4 \in Int : b1 = b[1] /\ b2 = b[2] /\ b3 = b[3] /\ b4 = b[4]
  BY DEF IsBox
<1>3. PICK r1 \in Int, r2 \in Int, r3 \in Int, r4 \in Int : r1 = r[1] /\ r2 = r[2] /\ r3 = r[3] /\ r4 = r[4]
  BY DEF IsBox
<1>4. r1 <= t3 /\ t1 <= r3 /\ r2 <= t4 /\ t2 <= r4
  BY <1>1, <1>3 DEF Touch
<1>5. b1 <= t1 /\ b2 <= t2 /\ t3 <= b3 /\ t4 <= b4 /\ t2 >= -World /\ t4 <= World
  BY <1>1, <1>2
<1>6. ~(r3 <= -World) /\ ~(r1 >= World)
  BY <1>3
<1>7. World \in Nat \ {0}
  BY PagingAssumption
<1>8. PICK q1 \in Int, q2 \in Int, q3 \in Int, q4 \in Int :
         /\ q1 = Most(1 - World, b1) /\ q2 = Most(-World, b2) /\ q3 = Least(World - 1, b3) /\ q4 = Least(World, b4)
         /\ r1 <= q3 /\ q1 <= r3 /\ r2 <= q4 /\ q2 <= r4
  <2>1. Most(1 - World, b1) \in Int /\ Most(1 - World, b1) <= r3
    BY ONLY <1>4, <1>5, <1>6, <1>7, t1 \in Int, b1 \in Int, r3 \in Int DEF Most
  <2>2. Most(-World, b2) \in Int /\ Most(-World, b2) <= r4
    BY ONLY <1>4, <1>5, <1>7, t2 \in Int, b2 \in Int, r4 \in Int DEF Most
  <2>3. Least(World - 1, b3) \in Int /\ r1 <= Least(World - 1, b3)
    BY ONLY <1>4, <1>5, <1>6, <1>7, t3 \in Int, b3 \in Int, r1 \in Int DEF Least
  <2>4. Least(World, b4) \in Int /\ r2 <= Least(World, b4)
    BY ONLY <1>4, <1>5, <1>7, t4 \in Int, b4 \in Int, r2 \in Int DEF Least
  <2>. QED
    BY <2>1, <2>2, <2>3, <2>4
<1>9. ClampWGS84(b) = <<q1, q2, q3, q4>>
  BY <1>2, <1>8 DEF ClampWGS84
<1>. QED
  BY <1>3, <1>8, <1>9 DEF Touch

LEMMA Margins ==
    ASSUME NEW z \in Nat
    PROVE  /\ (2 * World) \div (10 * Columns[z]) \in Nat
           /\ (2 * World) \div (32 * Columns[z]) \in Nat
<1>1. PICK c \in Nat \ {0} : c = Columns[z]
  BY ColumnsPositive
<1>2. 2 * World \in Nat
  BY PagingAssumption
<1>3. 10 * c \in Nat \ {0} /\ 32 * c \in Nat \ {0}
  OBVIOUS
<1>. QED
  BY <1>1, <1>2, <1>3, QuotientTimes

\* The engine of a collection draws every row that touches the tile.
LEMMA DrawnFully ==
    ASSUME NEW rows \in Seq(Rows), NEW keyed \in BOOLEAN, Unlike(keyed, rows),
           NEW i \in DOMAIN rows, rows[i].box # <<>>,
           NEW z \in Nat, NEW x \in 0..(Columns[z] - 1), NEW y \in 0..(Columns[z] - 1),
           Touch(rows[i].box, Bounds(z, x, y, 0))
    PROVE  rows[i].no \in Drawn(Engine(rows), z, x, y)
<1>1. PICK e : e = Engine(rows)
  OBVIOUS
<1>2. EngineOf(e, rows)
  BY <1>1, EngineFacts
<1>3. PICK b : b = Buffered(z, x, y)
  OBVIOUS
<1>4. PICK m \in Nat : b = Bounds(z, x, y, m)
  BY <1>3, Margins DEF Buffered
<1>5. IsBox(rows[i].box)
  BY RowFacts
<1>6. IsBox(b) /\ Touch(rows[i].box, b)
  <2>1. PICK t : t = Bounds(z, x, y, 0)
    OBVIOUS
  <2>2. /\ IsBox(t) /\ IsBox(b)
        /\ b[1] <= t[1] /\ b[2] <= t[2] /\ t[3] <= b[3] /\ t[4] <= b[4]
    BY <1>4, <2>1, TileBounds
  <2>. QED
    BY <1>5, <2>1, <2>2, WiderTouch
<1>7. PICK k \in 1..Len(e.features) : e.features[k].no = rows[i].no /\ e.features[k].box = rows[i].box
  <2>1. i \in 1..Len(rows)
    OBVIOUS
  <2>. QED
    BY <1>2, <2>1 DEF EngineOf
<1>8. e.features[k] \in ToSet(e.features)
  BY <1>2, <1>7, FiniteToSet DEF EngineOf
<1>9. e.features[k] \in ToSet(Query(e, b))
  BY <1>2, <1>6, <1>7, <1>8, QueryFacts
<1>. QED
  BY <1>1, <1>3, <1>7, <1>9 DEF Drawn

\* Rows that differ in their numbers still do when some of them are picked.
LEMMA PickedUnlike ==
    ASSUME NEW rows \in Seq(Rows), NEW keyed \in BOOLEAN, Unlike(keyed, rows), NEW I \in SUBSET DOMAIN rows
    PROVE  Picked(rows, I) \in Seq(Rows) /\ Unlike(FALSE, Picked(rows, I))
<1>1. PICK p : p = Picked(rows, I)
  OBVIOUS
<1>2. p \in Seq(Rows) /\ Apart(p) /\ ToSet(p) = {rows[i] : i \in I}
  BY <1>1, PickedRows
<1>3. \A i, j \in I : rows[i].no = rows[j].no => i = j
  BY DEF Unlike
<1>4. ASSUME NEW k \in 1..Len(p), NEW l \in 1..Len(p), p[k].no = p[l].no PROVE k = l
  <2>1. p[k] \in ToSet(p) /\ p[l] \in ToSet(p)
    BY <1>2, FiniteToSet
  <2>2. PICK i \in I, j \in I : p[k] = rows[i] /\ p[l] = rows[j]
    BY <1>2, <2>1
  <2>3. p[k] = p[l]
    BY <1>3, <1>4, <2>2
  <2>. QED
    BY <1>2, <2>3 DEF Apart
<1>5. DOMAIN p = 1..Len(p)
  BY <1>2
<1>6. Unlike(FALSE, p)
  BY <1>4, <1>5 DEF Unlike
<1>. QED
  BY <1>1, <1>2, <1>6

-----------------------------------------------------------------------------
(* What a statement selects.                                               *)

Table(c) ==
    /\ c \in [kind : {"memory", "postgis", "mysql"}, keyed : BOOLEAN, rows : Seq(Rows)]
    /\ Unlike(c.keyed /\ c.kind # "memory", c.rows)

\* The rows a statement of a database asks for.
Asks(kind, bbox, r) ==
    IF kind = "postgis" THEN bbox = <<>> \/ (r.box # <<>> /\ Touch(r.box, bbox))
    ELSE r.box # <<>> /\ (bbox = <<>> \/ MBRIntersects(r.box, bbox))

LEMMA SelectedFacts ==
    ASSUME NEW c, Table(c), c.kind # "memory", NEW w
    PROVE  /\ Selected(c, w) \in Seq(Rows) /\ Apart(Selected(c, w))
           /\ ToSet(Selected(c, w)) = {r \in ToSet(c.rows) : Asks(c.kind, w.bbox, r)}
           /\ Cardinality(ToSet(Selected(c, w))) = Len(Selected(c, w))
           /\ Len(Selected(c, w)) \in Nat
           /\ c.keyed => Keyed(ToSet(Selected(c, w)))
<1>1. /\ c.kind \in {"postgis", "mysql"} /\ c.keyed \in BOOLEAN /\ c.rows \in Seq(Rows)
      /\ Unlike(c.keyed, c.rows)
  BY DEF Table
<1>2. PICK rows \in Seq(Rows) : rows = c.rows
  BY <1>1
<1>3. PICK I : I = {i \in DOMAIN rows : Asks(c.kind, w.bbox, rows[i])}
  OBVIOUS
<1>4. Selected(c, w) = Picked(rows, I)
  <2>1. CASE c.kind = "postgis"
    <3>1. I = {i \in DOMAIN rows : w.bbox = <<>> \/ (rows[i].box # <<>> /\ Touch(rows[i].box, w.bbox))}
      BY <1>3, <2>1 DEF Asks
    <3>. QED
      BY <1>2, <2>1, <3>1 DEF Selected, PostGISRows
  <2>2. CASE c.kind = "mysql"
    <3>1. I = {i \in DOMAIN rows : rows[i].box # <<>> /\ (w.bbox = <<>> \/ MBRIntersects(rows[i].box, w.bbox))}
      BY <1>3, <2>2 DEF Asks
    <3>. QED
      BY <1>2, <2>2, <3>1 DEF Selected, MySQLRows
  <2>. QED
    BY <1>1, <2>1, <2>2
<1>5. I \in SUBSET DOMAIN rows
  BY <1>3
<1>6. PICK p : p = Picked(rows, I)
  OBVIOUS
<1>7. /\ p \in Seq(Rows) /\ Apart(p) /\ ToSet(p) = {rows[i] : i \in I}
      /\ c.keyed => Keyed(ToSet(p))
  BY <1>1, <1>2, <1>5, <1>6, PickedRows
<1>8. Cardinality(ToSet(p)) = Len(p) /\ Len(p) \in Nat
  BY <1>7, FiniteToSet
<1>9. ToSet(p) = {r \in ToSet(rows) : Asks(c.kind, w.bbox, r)}
  BY <1>3, <1>7 DEF ToSet
<1>. QED
  BY <1>2, <1>4, <1>6, <1>7, <1>8, <1>9

\* Only the box of a request matters.
LEMMA SameBox ==
    ASSUME NEW w, NEW v, w.bbox = v.bbox
    PROVE  (\A c : Selected(c, w) = Selected(c, v)) /\ (\A e : Hits(e, w) = Hits(e, v))
BY DEF Selected, PostGISRows, MySQLRows, Hits

\* A piece of a sequence of rows, to its end: those before it are missing.
LEMMA PieceOfLine ==
    ASSUME NEW L \in Seq(Rows), Apart(L), NEW s \in Seq(Rows), NEW start \in Nat,
           start + Len(s) <= Most(start, Len(L)),
           Follows(s, L, start)
    PROVE  /\ Cardinality(ToSet(s)) = Len(s) /\ ToSet(s) \subseteq ToSet(L)
           /\ Cardinality(ToSet(L)) = Len(L)
           /\ Cardinality(ToSet(L) \ ToSet(s)) = Len(L) - Len(s)
           /\ Len(L) <= start + Len(s) => Len(L) - Len(s) = Least(start, Len(L))
<1>1. PICK n \in Nat, m \in Nat : n = Len(L) /\ m = Len(s)
  OBVIOUS
<1>2. \A k \in 1..m : start + k \in 1..n /\ s[k] = L[start + k]
  BY <1>1 DEF Follows
<1>3. Apart(s)
  <2> SUFFICES ASSUME NEW i \in 1..m, NEW j \in 1..m, s[i] = s[j] PROVE i = j
    BY <1>1 DEF Apart
  <2>1. L[start + i] = L[start + j] /\ start + i \in 1..n /\ start + j \in 1..n
    BY <1>1, <1>2
  <2>2. start + i = start + j
    BY <1>1, <2>1 DEF Apart
  <2>. QED
    BY <2>2
<1>4. /\ IsFiniteSet(ToSet(s)) /\ IsFiniteSet(ToSet(L))
      /\ Cardinality(ToSet(s)) = m /\ Cardinality(ToSet(L)) = n
  BY <1>1, <1>3, FiniteToSet
<1>5. ASSUME NEW x \in ToSet(s) PROVE x \in ToSet(L)
  <2>1. PICK k \in 1..m : s[k] = x
    BY <1>1, FiniteToSet
  <2>2. L[start + k] = x /\ start + k \in 1..Len(L)
    BY <1>1, <1>2, <2>1
  <2>. QED
    BY <2>2, FiniteToSet
<1>6. ToSet(L) \cap ToSet(s) = ToSet(s)
  BY <1>5
<1>7. Cardinality(ToSet(L) \ ToSet(s)) = Cardinality(ToSet(L)) - Cardinality(ToSet(L) \cap ToSet(s))
  BY <1>4, FS_Difference
<1>8. n <= start + m => n - m = Least(start, n)
  <2> SUFFICES ASSUME n <= start + m PROVE n - m = Least(start, n)
    OBVIOUS
  <2>1. start + m <= Most(start, n)
    BY <1>1
  <2>2. CASE start > n
    BY <2>1, <2>2 DEF Least, Most
  <2>3. CASE ~(start > n)
    BY <2>1, <2>3 DEF Least, Most
  <2>. QED
    BY <2>2, <2>3
<1>. QED
  BY <1>1, <1>4, <1>5, <1>6, <1>7, <1>8

-----------------------------------------------------------------------------
(* A page of a table that has an id column.                                *)

LEMMA InLine ==
    ASSUME NEW S, Keyed(S)
    PROVE  LET L == Listed(S, ByKey(S))
           IN /\ L \in Seq(Rows) /\ Len(L) = Cardinality(S) /\ Cardinality(S) \in Nat
              /\ Apart(L) /\ ToSet(L) = S
              /\ \A k \in 1..Len(L) : L[k] \in S /\ Place(S, L[k]) = k - 1
<1>1. PICK L : L = Listed(S, ByKey(S))
  OBVIOUS
<1>2. PICK n \in Nat : n = Cardinality(S)
  BY FS_CardinalityType DEF Keyed
<1>3. L \in [1..n -> S] /\ \A k \in 1..n : Place(S, L[k]) = k - 1
  BY <1>1, <1>2, LinedUp
<1>4. L \in Seq(Rows) /\ Len(L) = n
  <2>1. S \subseteq Rows
    BY DEF Keyed
  <2>2. L \in [1..n -> Rows]
    BY <1>3, <2>1
  <2>. QED
    BY <2>2, FunctionIsSeq
<1>5. Apart(L)
  <2> SUFFICES ASSUME NEW i \in 1..n, NEW j \in 1..n, L[i] = L[j] PROVE i = j
    BY <1>4 DEF Apart
  <2>1. i - 1 = j - 1
    BY <1>3
  <2>. QED
    BY <2>1
<1>6. ToSet(L) \subseteq S
  BY <1>3, <1>4, FiniteToSet
<1>7. ASSUME NEW x \in S PROVE x \in ToSet(L)
  <2>1. Place(S, x) \in 0..(n - 1)
    BY <1>2, Places
  <2>2. PICK k \in 1..n : k = Place(S, x) + 1
    BY <2>1
  <2>3. Place(S, L[k]) = Place(S, x) /\ L[k] \in S
    BY <1>3, <2>1, <2>2
  <2>4. L[k] = x
    BY <2>3, Places
  <2>. QED
    BY <1>4, <2>4, FiniteToSet
<1>. QED
  BY <1>1, <1>2, <1>3, <1>4, <1>5, <1>6, <1>7

\* How many rows are still to come.
LEMMA RowsLeft ==
    ASSUME NEW S, Keyed(S), NEW k \in Nat
    PROVE  /\ Cardinality({x \in S : Place(S, x) >= k}) = Most(0, Cardinality(S) - k)
           /\ IsFiniteSet({x \in S : Place(S, x) >= k})
<1>1. PICK n \in Nat : n = Cardinality(S)
  BY Places
<1>2. \A x \in S : Place(S, x) \in 0..(n - 1)
  BY <1>1, Places
<1>3. CASE k <= n
  <2>1. {x \in S : Place(S, x) >= k} = {x \in S : Place(S, x) >= k /\ Place(S, x) < n}
    BY <1>2
  <2>2. Cardinality({x \in S : Place(S, x) >= k}) = n - k /\ IsFiniteSet({x \in S : Place(S, x) >= k})
    BY <1>1, <1>3, <2>1, CountPlaces
  <2>3. n - k = Most(0, n - k)
    BY <1>3 DEF Most
  <2>. QED
    BY <1>1, <2>2, <2>3
<1>4. CASE ~(k <= n)
  <2>1. {x \in S : Place(S, x) >= k} = {}
    BY <1>2, <1>4
  <2>2. Most(0, n - k) = 0
    BY <1>4 DEF Most
  <2>. QED
    BY <1>1, <2>1, <2>2, FS_EmptySet
<1>. QED
  BY <1>3, <1>4

\* A page takes what comes at the places it covers: nothing more is missed, and what it
\* repeats was to come again.
LEMMA PageDrift ==
    ASSUME NEW S, Keyed(S), NEW D, NEW s \in Seq(Rows), NEW o \in Nat,
           NEW L \in Seq(Rows), \A k \in 1..Len(L) : L[k] \in S /\ Place(S, L[k]) = k - 1,
           NEW p \in Seq(Rows), Apart(p), Follows(p, L, o)
    PROVE  /\ PassedBy(S, D, ToSet(s \o p), o + Len(p)) \subseteq PassedBy(S, D, ToSet(s), o)
           /\ Cardinality(ToCome(S, ToSet(s \o p), o + Len(p))) \in Nat
           /\ Cardinality(ToCome(S, ToSet(s), o)) \in Nat
           /\ (Len(s \o p) - Cardinality(ToSet(s \o p))) + Cardinality(ToCome(S, ToSet(s \o p), o + Len(p)))
                <= (Len(s) - Cardinality(ToSet(s))) + Cardinality(ToCome(S, ToSet(s), o))
<1>3. PICK l \in Nat : l = Len(p)
  OBVIOUS
<1>1. \A k \in 1..Len(L) : L[k] \in S /\ Place(S, L[k]) = k - 1
  OBVIOUS
<1>2. p \in Seq(Rows) /\ Apart(p) /\ \A k \in 1..Len(p) : o + k \in 1..Len(L) /\ p[k] = L[o + k]
  BY DEF Follows
<1>4. PICK V, T : V = ToSet(s) /\ T = ToSet(p)
  OBVIOUS
<1>5. /\ s \o p \in Seq(Rows) /\ Len(s \o p) = Len(s) + l
      /\ ToSet(s \o p) = V \cup T /\ Cardinality(T \cap V) \in Nat
      /\ Cardinality(V \cup T) = Cardinality(V) + l - Cardinality(T \cap V)
  <2>1. /\ s \o p \in Seq(Rows) /\ Len(s \o p) = Len(s) + Len(p)
        /\ ToSet(s \o p) = ToSet(s) \cup ToSet(p)
        /\ Cardinality(ToSet(p) \cap ToSet(s)) \in Nat
        /\ Cardinality(ToSet(s \o p)) =
                Cardinality(ToSet(s)) + Len(p) - Cardinality(ToSet(p) \cap ToSet(s))
    BY <1>2, SeenMore
  <2>. QED
    BY <1>3, <1>4, <2>1
<1>6. \A x \in S : Place(S, x) \in Nat
  BY Places
<1>7. ASSUME NEW x \in T PROVE x \in S /\ Place(S, x) >= o /\ Place(S, x) < o + l
  <2>1. PICK k \in 1..l : p[k] = x
    BY <1>2, <1>3, <1>4, FiniteToSet
  <2>2. o + k \in 1..Len(L) /\ L[o + k] = x
    BY <1>2, <1>3, <2>1
  <2>3. x \in S /\ Place(S, x) = (o + k) - 1
    BY <1>1, <2>2
  <2>. QED
    BY <2>1, <2>3
<1>8. ASSUME NEW x \in S, Place(S, x) >= o, Place(S, x) < o + l PROVE x \in T
  <2>1. PICK k \in 1..l : o + k = Place(S, x) + 1
    <3>1. (Place(S, x) + 1) - o \in 1..l /\ o + ((Place(S, x) + 1) - o) = Place(S, x) + 1
      BY <1>6, <1>8
    <3>. QED
      BY <3>1
  <2>2. o + k \in 1..Len(L) /\ p[k] = L[o + k]
    BY <1>2, <1>3, <2>1
  <2>3. L[o + k] \in S /\ Place(S, L[o + k]) = (o + k) - 1
    BY <1>1, <2>2
  <2>4. Place(S, L[o + k]) = Place(S, x)
    BY <1>6, <2>1, <2>3
  <2>5. L[o + k] = x
    BY <2>3, <2>4, Places
  <2>. QED
    BY <1>2, <1>3, <1>4, <2>1, <2>2, <2>5, FiniteToSet
<1>9. PassedBy(S, D, V \cup T, o + l) \subseteq PassedBy(S, D, V, o)
  <2> SUFFICES ASSUME NEW x \in S \cap D, Place(S, x) < o + l, x \notin V, x \notin T
               PROVE  Place(S, x) < o
    BY DEF PassedBy
  <2>1. ~(Place(S, x) >= o)
    BY <1>8
  <2>. QED
    BY <1>6, <2>1
<1>10. PICK A, B, R : A = ToCome(S, V, o) /\ B = ToCome(S, V \cup T, o + l) /\ R = T \cap V
  OBVIOUS
<1>11. B \subseteq A
  <2> SUFFICES ASSUME NEW x \in S \cap (V \cup T), Place(S, x) >= o + l PROVE x \in V /\ Place(S, x) >= o
    BY <1>10 DEF ToCome
  <2>1. x \notin T
    BY <1>6, <1>7
  <2>. QED
    BY <1>6, <2>1
<1>12. R \subseteq A
  BY <1>7, <1>10 DEF ToCome
<1>13. B \cap R = {}
  <2> SUFFICES ASSUME NEW x \in B, x \in R PROVE FALSE
    OBVIOUS
  <2>1. x \in S /\ Place(S, x) >= o + l /\ Place(S, x) < o + l
    BY <1>7, <1>10 DEF ToCome
  <2>. QED
    BY <1>6, <2>1
<1>14. IsFiniteSet(A)
  <2>1. A \subseteq S /\ IsFiniteSet(S)
    BY <1>10 DEF ToCome, Keyed
  <2>. QED
    BY <2>1, FS_Subset
<1>15. IsFiniteSet(B) /\ IsFiniteSet(R) /\ B \cup R \subseteq A
  BY <1>11, <1>12, <1>14, FS_Subset
<1>16. /\ Cardinality(A) \in Nat /\ Cardinality(B) \in Nat /\ Cardinality(R) \in Nat
       /\ Cardinality(B \cup R) = Cardinality(B) + Cardinality(R) - Cardinality(B \cap R)
       /\ Cardinality(B \cup R) <= Cardinality(A)
  BY <1>14, <1>15, FS_CardinalityType, FS_Union, FS_Subset
<1>17. Cardinality(B \cap R) = 0
  BY <1>13, FS_EmptySet
<1>18. Cardinality(V) \in Nat /\ Len(s) \in Nat
  BY <1>4, FiniteToSet
<1>19. (Len(s \o p) - Cardinality(V \cup T)) + Cardinality(B) <= (Len(s) - Cardinality(V)) + Cardinality(A)
  <2>1. PICK a \in Nat, b \in Nat, r \in Nat, v \in Nat, m \in Nat :
          a = Cardinality(A) /\ b = Cardinality(B) /\ r = Cardinality(R) /\ v = Cardinality(V) /\ m = Len(s)
    BY <1>16, <1>18
  <2>2. Len(s \o p) = m + l /\ Cardinality(V \cup T) = v + l - r
    BY <1>5, <1>10, <2>1
  <2>3. b + r <= a
    BY <1>16, <1>17, <2>1
  <2>4. ((m + l) - (v + l - r)) + b <= (m - v) + a
    BY <2>3
  <2>. QED
    BY <2>1, <2>2, <2>4
<1>. QED
  BY <1>3, <1>4, <1>5, <1>9, <1>10, <1>16, <1>19

LEMMA FirstPlaces ==
    ASSUME NEW S, Keyed(S), NEW k \in Nat
    PROVE  /\ IsFiniteSet({x \in S : Place(S, x) < k})
           /\ Cardinality({x \in S : Place(S, x) < k}) \in Nat
           /\ Cardinality({x \in S : Place(S, x) < k}) <= k
<1>1. PICK n \in Nat : n = Cardinality(S)
  BY Places
<1>2. \A x \in S : Place(S, x) \in 0..(n - 1)
  BY <1>1, Places
<1>3. PICK m \in Nat : m <= n /\ m <= k /\ (m = n \/ m = k)
  <2>1. CASE k <= n
    BY <2>1
  <2>2. CASE ~(k <= n)
    BY <2>2
  <2>. QED
    BY <2>1, <2>2
<1>4. {x \in S : Place(S, x) < k} = {x \in S : Place(S, x) >= 0 /\ Place(S, x) < m}
  BY <1>2, <1>3
<1>5. /\ IsFiniteSet({x \in S : Place(S, x) >= 0 /\ Place(S, x) < m})
      /\ Cardinality({x \in S : Place(S, x) >= 0 /\ Place(S, x) < m}) = m - 0
  <2>1. 0 \in Nat /\ 0 <= m /\ m <= Cardinality(S)
    BY <1>1, <1>3
  <2>. QED
    BY <2>1, CountPlaces
<1>. QED
  BY <1>3, <1>4, <1>5

\* The features of an engine that a request asks for.
LEMMA HitsFacts ==
    ASSUME NEW c, Table(c), NEW e, e = Engine(c.rows), e # <<>>, NEW w, w.bbox = <<>> \/ IsBox(w.bbox)
    PROVE  /\ Hits(e, w) \in Seq(Rows) /\ Apart(Hits(e, w)) /\ Len(Hits(e, w)) \in Nat
           /\ ToSet(Hits(e, w)) = {r \in ToSet(e.features) : w.bbox = <<>> \/ Touch(r.box, w.bbox)}
           /\ \A r \in ToSet(e.features) : r.box # <<>>
<1>1. EngineOf(e, c.rows)
  <2>1. PICK keyed \in BOOLEAN : Unlike(keyed, c.rows)
    BY DEF Table
  <2>2. c.rows \in Seq(Rows)
    BY DEF Table
  <2>. QED
    BY <2>1, <2>2, EngineFacts
<1>2. PICK fd \in Seq(Rows) : fd = e.features
  BY <1>1 DEF EngineOf
<1>3. Apart(fd) /\ \A i \in 1..Len(fd) : fd[i].box # <<>>
  BY <1>1, <1>2 DEF EngineOf
<1>4. \A r \in ToSet(fd) : r.box # <<>>
  BY <1>3, FiniteToSet
<1>5. CASE w.bbox = <<>>
  <2>1. Hits(e, w) = fd
    BY <1>2, <1>5 DEF Hits
  <2>. QED
    BY <1>2, <1>3, <1>4, <1>5, <2>1
<1>6. CASE w.bbox # <<>>
  <2>1. Hits(e, w) = Query(e, w.bbox) /\ IsBox(w.bbox)
    BY <1>6 DEF Hits
  <2>2. PICK q : q = Query(e, w.bbox)
    OBVIOUS
  <2>3. q \in Seq(Rows) /\ Apart(q) /\ ToSet(q) = {r \in ToSet(fd) : Touch(r.box, w.bbox)}
    BY <1>1, <1>2, <2>1, <2>2, QueryFacts
  <2>4. Len(q) \in Nat
    BY <2>3
  <2>. QED
    BY <1>2, <1>4, <1>6, <2>1, <2>2, <2>3, <2>4
<1>. QED
  BY <1>5, <1>6

-----------------------------------------------------------------------------
(* Pages of features: what each stage knows.                               *)

Walking == stage \in {"count", "select"}
InMemory == collection.kind = "memory"

IsWalk(w) ==
    /\ w \in [bbox : Seq(Int), start : Int, offset : Int, limit : 1..Most(MaxLimit, DefaultLimit)]
    /\ w.bbox = <<>> \/ Proper(w.bbox)
    /\ w.start <= w.offset

PagingShape ==
    /\ stage \in {"none", "idle", "count", "select", "done", "refused", "failed", "answered"}
    /\ matched \in Nat /\ edits \in 0..MaxEdits /\ seen \in Seq(Rows)
    /\ stage # "none" => Table(collection) /\ (InMemory => engine = Engine(collection.rows) /\ engine # <<>>)
    /\ stage \in {"none", "idle", "refused", "answered"} => walk = <<>>
    /\ stage \in {"count", "select", "done", "failed"} => IsWalk(walk)
    /\ stage # "answered" => found = NoAnswer
    /\ stage \in {"none", "idle"} => edits = 0 /\ seen = <<>>

\* The rows that were there before are among those there are; the others are newcomers.
RowsKnown ==
    Walking =>
        IF InMemory THEN stage = "count" /\ edits = 0 /\ steady = ToSet(engine.features)
        ELSE /\ steady \subseteq ToSet(collection.rows)
             /\ ToSet(collection.rows) \subseteq steady \cup Newcomers
             /\ edits = 0 => steady = ToSet(collection.rows)

\* The rows a statement would select now, all of them in the order they are served in,
\* and how many the request is told of.
Now == ToSet(Selected(collection, walk))
Line == IF InMemory THEN Hits(engine, walk) ELSE Listed(Now, ByKey(Now))
Hitting == IF InMemory THEN Len(Hits(engine, walk)) ELSE Len(Selected(collection, walk))

\* As long as nobody edits the table, the pages are a piece of that sequence.
Piece(line, hits, w, s) ==
    /\ w.offset = w.start + Len(s) /\ w.offset <= Most(w.start, hits)
    /\ InMemory \/ collection.keyed => Follows(s, line, w.start)
Undisturbed ==
    Walking /\ edits = 0 /\ walk.start >= 0 =>
        Piece(Line, Hitting, walk, seen) /\ (stage = "select" => matched = Hitting)

\* Rows the pages s have gone past without showing them, and rows shown that will come
\* again: each edit shifts one row over the border between what was shown and what is
\* to come.
Drifted(now, due, s, w, n, left) ==
    /\ Cardinality(PassedBy(now, due, ToSet(s), w.offset)) + left <= w.start + n
    /\ (Len(s) - Cardinality(ToSet(s))) + Cardinality(ToCome(now, ToSet(s), w.offset)) <= n
\* Rows that have come since they were counted.
Uncounted(now) == IF stage = "select" THEN Most(0, Cardinality(now) - matched) ELSE 0
Drift ==
    Walking /\ ~InMemory /\ collection.keyed /\ walk.start >= 0 =>
        Drifted(Now, steady, seen, walk, edits, Uncounted(Now))

PagingInv == PagingShape /\ RowsKnown /\ Undisturbed /\ Drift /\ CollectionExact

\* A state that has not finished or answered promises nothing yet.
LEMMA Promising ==
    ASSUME stage \notin {"done", "failed"}, found = NoAnswer
    PROVE  CollectionExact
BY DEF CollectionExact, PagesComplete, PagesFail, ItemsFit, TilesFull, NoAnswer

LEMMA PromisingNext ==
    ASSUME stage' \notin {"done", "failed"}, found' = NoAnswer
    PROVE  CollectionExact'
BY DEF CollectionExact, PagesComplete, PagesFail, ItemsFit, TilesFull, NoAnswer

LEMMA StartsExact == CollectionIdle => PagingInv
<1> SUFFICES ASSUME CollectionIdle PROVE PagingInv
  OBVIOUS
<1>1. stage = "none" /\ found = NoAnswer /\ matched = 0 /\ edits = 0 /\ seen = <<>> /\ walk = <<>>
  BY DEF CollectionIdle
<1>2. CollectionExact
  BY <1>1, Promising
<1>3. edits \in 0..MaxEdits
  BY <1>1, PagingAssumption
<1>4. PagingShape
  BY <1>1, <1>3 DEF PagingShape
<1>5. RowsKnown /\ Undisturbed /\ Drift
  BY <1>1 DEF RowsKnown, Undisturbed, Drift, Walking
<1>. QED
  BY <1>2, <1>4, <1>5 DEF PagingInv

LEMMA Opens ==
    ASSUME PagingInv, NEW c \in Collections, stage = "none", OpenCollection(c)
    PROVE  PagingInv'
<1>1. /\ collection' = c /\ stage' = "idle" /\ walk' = walk /\ matched' = matched /\ seen' = seen
      /\ edits' = edits /\ found' = found
      /\ c.kind = "memory" => engine' = Engine(c.rows) /\ engine' # <<>>
  BY DEF OpenCollection
<1>2. PagingShape
  BY DEF PagingInv
<1>3. Table(c)
  BY PagingAssumption DEF Table
<1>4. matched \in Nat /\ edits \in 0..MaxEdits /\ seen = <<>> /\ edits = 0 /\ walk = <<>> /\ found = NoAnswer
  BY <1>2 DEF PagingShape
<1>5. collection'.kind = "memory" => engine' = Engine(collection'.rows) /\ engine' # <<>>
  BY <1>1
<1>6. PagingShape'
  BY <1>1, <1>3, <1>4, <1>5 DEF PagingShape, InMemory
<1>7. RowsKnown' /\ Undisturbed' /\ Drift'
  BY <1>1 DEF RowsKnown, Undisturbed, Drift, Walking
<1>8. CollectionExact'
  BY <1>1, <1>4, PromisingNext
<1>. QED
  BY <1>6, <1>7, <1>8 DEF PagingInv

\* The number of rows a request is told of.
LEMMA Told ==
    ASSUME NEW c, Table(c), NEW e, c.kind = "memory" => e = Engine(c.rows) /\ e # <<>>, NEW w, IsWalk(w)
    PROVE  (IF c.kind = "memory" THEN Len(Hits(e, w)) ELSE Len(Selected(c, w))) \in Nat
<1>1. w.bbox = <<>> \/ IsBox(w.bbox)
  BY ProperIsBox DEF IsWalk
<1>2. CASE c.kind = "memory"
  BY <1>1, <1>2, HitsFacts
<1>3. CASE c.kind # "memory"
  BY <1>3, SelectedFacts
<1>. QED
  BY <1>2, <1>3

-----------------------------------------------------------------------------
(* A request begins.                                                       *)

LEMMA EmptyLength == Len(<<>>) = 0 /\ \A s \in Seq(Int) : Len(s) = 0 => s = <<>>
OBVIOUS

LEMMA FlatBox ==
    ASSUME NEW text \in Seq(Int), NEW route, NEW l, NEW o, ~Refused(route, text, l, o)
    PROVE  Flat(text) \in Seq(Int) /\ (Flat(text) = <<>> \/ Proper(Flat(text)))
<1>1. PICK n \in Nat : n = Len(text) /\ \A k \in 1..n : text[k] \in Int
  OBVIOUS
<1>2. n \in {0, 4, 6}
  BY <1>1 DEF Refused
<1>3. text # <<>> => ~(Flat(text)[1] > Flat(text)[3]) /\ ~(Flat(text)[2] > Flat(text)[4])
  BY DEF Refused
<1>4. CASE n = 0
  <2>1. text = <<>>
    BY <1>1, <1>4, EmptyLength
  <2>2. Flat(text) = text
    BY <1>1, <1>4 DEF Flat
  <2>. QED
    BY <2>1, <2>2
<1>5. CASE n = 4
  <2>1. Flat(text) = text /\ text # <<>>
    <3>1. Len(text) # 6 /\ Len(text) # 0
      BY <1>1, <1>5
    <3>2. Flat(text) = text
      BY <3>1 DEF Flat
    <3>. QED
      BY <3>1, <3>2, EmptyLength
  <2>2. text[1] \in Int /\ text[2] \in Int /\ text[3] \in Int /\ text[4] \in Int
    BY <1>1, <1>5
  <2>3. text[1] <= text[3] /\ text[2] <= text[4]
    BY <1>3, <2>1, <2>2
  <2>. QED
    BY <1>1, <1>5, <2>1, <2>3 DEF Proper
<1>6. CASE n = 6
  <2>1. text[1] \in Int /\ text[2] \in Int /\ text[4] \in Int /\ text[5] \in Int
    BY <1>1, <1>6
  <2>2. PICK a \in Int, b \in Int, c \in Int, d \in Int : a = text[1] /\ b = text[2] /\ c = text[4] /\ d = text[5]
    BY <2>1
  <2>3. Flat(text) = <<a, b, c, d>> /\ text # <<>>
    <3>1. Len(text) = 6 /\ Len(text) # 0
      BY <1>1, <1>6
    <3>2. Flat(text) = <<a, b, c, d>>
      BY <2>2, <3>1 DEF Flat
    <3>. QED
      BY <3>1, <3>2, EmptyLength
  <2>4. a <= c /\ b <= d
    BY <1>3, <2>3
  <2>. QED
    BY <2>3, <2>4 DEF Proper
<1>. QED
  BY <1>2, <1>4, <1>5, <1>6

LEMMA PageSizeBound == \A l \in Int : PageSize(l) \in 1..Most(MaxLimit, DefaultLimit)
BY PagingAssumption DEF PageSize, Least, Most

LEMMA DriftStarts ==
    ASSUME NEW S, Keyed(S), NEW D, NEW w, w.start \in Nat, w.offset = w.start
    PROVE  Drifted(S, D, <<>>, w, 0, 0)
<1>1. PICK o \in Nat : w.start = o /\ w.offset = o
  OBVIOUS
<1>2. ToSet(<<>>) = {} /\ Cardinality({}) = 0 /\ Len(<<>>) = 0
  BY FS_EmptySet DEF ToSet
<1>3. PICK M : M = PassedBy(S, D, {}, o)
  OBVIOUS
<1>4. PICK A : A = {x \in S : Place(S, x) < o}
  OBVIOUS
<1>5. IsFiniteSet(A) /\ Cardinality(A) \in Nat /\ Cardinality(A) <= o
  BY <1>4, FirstPlaces
<1>6. M \subseteq A
  BY <1>3, <1>4 DEF PassedBy
<1>7. IsFiniteSet(M) /\ Cardinality(M) <= Cardinality(A)
  BY <1>5, <1>6, FS_Subset
<1>8. Cardinality(M) \in Nat /\ Cardinality(M) <= o
  BY <1>5, <1>7, FS_CardinalityType
<1>9. ToCome(S, {}, o) = {}
  BY DEF ToCome
<1>10. Cardinality(M) + 0 <= o + 0 /\ (0 - 0) + 0 <= 0
  BY <1>8
<1>. QED
  BY <1>1, <1>2, <1>3, <1>9, <1>10 DEF Drifted

LEMMA Asked ==
    ASSUME PagingInv, stage = "idle", NEW route \in {"ogc", "mcp"}, NEW text \in Texts, NEW l \in Limits,
           NEW o \in Skips, AskItems(route, text, l, o)
    PROVE  PagingInv'
<1>1. /\ collection' = collection /\ engine' = engine /\ matched' = matched /\ seen' = seen
      /\ edits' = edits /\ found' = found
  BY DEF AskItems
<1>2. /\ matched \in Nat /\ edits \in 0..MaxEdits /\ seen = <<>> /\ edits = 0 /\ walk = <<>> /\ found = NoAnswer
      /\ Table(collection) /\ (InMemory => engine = Engine(collection.rows) /\ engine # <<>>)
  BY DEF PagingInv, PagingShape
<1>3. text \in Seq(Int) /\ l \in Int /\ o \in Int
  BY PagingAssumption
<1>4. CASE Refused(route, text, l, o)
  <2>1. stage' = "refused" /\ walk' = walk
    BY <1>4 DEF AskItems
  <2>2. PagingShape'
    BY <1>1, <1>2, <2>1 DEF PagingShape, InMemory
  <2>3. RowsKnown' /\ Undisturbed' /\ Drift'
    BY <2>1 DEF RowsKnown, Undisturbed, Drift, Walking
  <2>4. CollectionExact'
    BY <1>1, <1>2, <2>1, PromisingNext
  <2>. QED
    BY <2>2, <2>3, <2>4 DEF PagingInv
<1>5. CASE ~Refused(route, text, l, o)
  <2>1. /\ stage' = "count"
        /\ steady' = ToSet(IF collection.kind = "memory" THEN engine.features ELSE collection.rows)
        /\ walk' = [bbox |-> Flat(text), start |-> o, offset |-> o, limit |-> PageSize(l)]
    BY <1>5 DEF AskItems
  <2>2. Flat(text) \in Seq(Int) /\ (Flat(text) = <<>> \/ Proper(Flat(text)))
    BY <1>3, <1>5, FlatBox
  <2>3. PageSize(l) \in 1..Most(MaxLimit, DefaultLimit)
    BY <1>3, PageSizeBound
  <2>4. IsWalk(walk')
    BY <1>3, <2>1, <2>2, <2>3 DEF IsWalk
  <2>5. PagingShape'
    BY <1>1, <1>2, <2>1, <2>4 DEF PagingShape, InMemory
  <2>6. RowsKnown'
    BY <1>1, <1>2, <2>1 DEF RowsKnown, InMemory
  <2>7. Undisturbed'
    <3>1. PICK h \in Nat : Hitting' = h
      BY <1>1, <1>2, <2>4, Told DEF Hitting, InMemory
    <3>2. walk'.offset = o /\ walk'.start = o /\ seen' = <<>> /\ stage' # "select"
      BY <1>1, <1>2, <2>1
    <3>3. o >= 0 => o <= Most(o, h)
      BY <1>3 DEF Most
    <3>4. Len(<<>>) = 0 /\ 1..0 = {}
      OBVIOUS
    <3>. QED
      BY <1>3, <3>1, <3>2, <3>3, <3>4 DEF Undisturbed, Piece, Follows
  <2>8. Drift'
    <3> SUFFICES ASSUME Walking', ~InMemory', collection'.keyed, walk'.start >= 0
                 PROVE  Drifted(Now', steady', seen', walk', edits', Uncounted(Now)')
      BY DEF Drift
    <3>1. PICK S : S = Now'
      OBVIOUS
    <3>2. Keyed(S)
      <4>1. Table(collection') /\ collection'.kind # "memory"
        BY <1>1, <1>2 DEF InMemory
      <4>. QED
        BY <3>1, <4>1, SelectedFacts DEF Now
    <3>3. Uncounted(Now)' = 0
      BY <2>1 DEF Uncounted
    <3>4. seen' = <<>> /\ edits' = 0 /\ walk'.start \in Nat /\ walk'.offset = walk'.start
      BY <1>1, <1>2, <1>3, <2>1
    <3>5. Drifted(S, steady', <<>>, walk', 0, 0)
      BY <3>2, <3>4, DriftStarts
    <3>. QED
      BY <3>1, <3>3, <3>4, <3>5
  <2>9. CollectionExact'
    BY <1>1, <1>2, <2>1, PromisingNext
  <2>. QED
    BY <2>5, <2>6, <2>7, <2>8, <2>9 DEF PagingInv
<1>. QED
  BY <1>4, <1>5

-----------------------------------------------------------------------------
(* A page arrives.                                                         *)

\* The rows a walk is due, and what it has to have seen of them.
Due(c, w, D) ==
    {r \in D : IF r.box = <<>> THEN w.bbox = <<>> /\ c.kind = "postgis"
               ELSE w.bbox = <<>> \/ Touch(r.box, w.bbox)}
Finished(c, w, due, s, n) ==
    IF ~c.keyed /\ c.kind # "memory" THEN n = 0 => Len(s) = Cardinality(due) - Least(w.start, Cardinality(due))
    ELSE /\ Len(s) - Cardinality(ToSet(s)) <= n
         /\ Cardinality(due \ ToSet(s)) <= Least(w.start, Cardinality(due)) + n
         /\ n = 0 => Cardinality(due \ ToSet(s)) = Least(w.start, Cardinality(due)) /\ ToSet(s) \subseteq due
Regular(c, w) == w.start >= 0 /\ ~(c.kind = "mysql" /\ w.bbox # <<>> /\ Wide(w.bbox))

LEMMA CompleteNext ==
    ASSUME stage' = "done" /\ Regular(collection', walk') =>
             Finished(collection', walk', Due(collection', walk', steady'), seen', edits')
    PROVE  PagesComplete'
BY DEF PagesComplete, Finished, Regular, Due

LEMMA FoundNothing ==
    ASSUME found' = NoAnswer
    PROVE  ItemsFit' /\ TilesFull'
BY DEF ItemsFit, TilesFull, NoAnswer

\* A walk that went through all the rows in line, undisturbed, has seen what it is due.
LEMMA FinishedInLine ==
    ASSUME NEW L \in Seq(Rows), Apart(L), NEW s \in Seq(Rows), NEW w, w.start \in Nat,
           w.start + Len(s) <= Most(w.start, Len(L)), Len(L) <= w.start + Len(s),
           Follows(s, L, w.start),
           NEW c
    PROVE  Finished(c, w, ToSet(L), s, 0)
<1>1. PICK start \in Nat : start = w.start
  OBVIOUS
<1>2. PICK n \in Nat, m \in Nat : n = Len(L) /\ m = Len(s)
  OBVIOUS
<1>3. /\ Cardinality(ToSet(s)) = Len(s) /\ ToSet(s) \subseteq ToSet(L)
      /\ Cardinality(ToSet(L)) = Len(L)
      /\ Cardinality(ToSet(L) \ ToSet(s)) = Len(L) - Len(s)
      /\ Len(L) - Len(s) = Least(start, Len(L))
  <2>1. start + Len(s) <= Most(start, Len(L)) /\ Follows(s, L, start) /\ Len(L) <= start + Len(s)
    BY <1>1
  <2>. QED
    BY <2>1, PieceOfLine
<1>4. PICK k \in Int : k = Least(start, n) /\ n - m = k
  BY <1>2, <1>3
<1>5. /\ m - m <= 0 /\ k <= k + 0 /\ m = n - k
  BY <1>4
<1>. QED
  BY <1>1, <1>2, <1>3, <1>4, <1>5 DEF Finished

\* Of rows in no order, as many.
LEMMA FinishedAnyhow ==
    ASSUME NEW n \in Nat, NEW D, Cardinality(D) = n, NEW s \in Seq(Rows), NEW w, w.start \in Nat,
           w.start + Len(s) <= Most(w.start, n), n <= w.start + Len(s),
           NEW c, ~c.keyed, c.kind # "memory"
    PROVE  Finished(c, w, D, s, 0)
<1>1. PICK start \in Nat, m \in Nat : start = w.start /\ m = Len(s)
  OBVIOUS
<1>2. m = n - Least(start, n)
  <2>1. start + m <= Most(start, n) /\ n <= start + m
    BY <1>1
  <2>2. CASE start > n
    BY <2>1, <2>2 DEF Least, Most
  <2>3. CASE ~(start > n)
    BY <2>1, <2>3 DEF Least, Most
  <2>. QED
    BY <2>2, <2>3
<1>. QED
  BY <1>1, <1>2 DEF Finished

\* A page does not reach past the rows there are.
LEMMA PageEnd ==
    ASSUME NEW n \in Nat, NEW start \in Nat, NEW o \in Nat, start <= o, o <= Most(start, n),
           NEW limit \in Nat \ {0}, NEW l, l = IF o >= n THEN 0 ELSE Least(n, o + limit) - o
    PROVE  l \in Nat /\ o + l <= Most(start, n)
BY DEF Least, Most

\* What a walk becomes when it takes a page.
LEMMA Stepped ==
    ASSUME NEW got \in Seq(Rows), NEW total \in Nat, TakePage(got, total), IsWalk(walk), seen \in Seq(Rows)
    PROVE  /\ seen' = seen \o got /\ seen' \in Seq(Rows)
           /\ IsWalk(walk') /\ walk'.bbox = walk.bbox /\ walk'.start = walk.start
           /\ walk'.offset = walk.offset + Len(got)
           /\ stage' = IF total > walk.offset + Len(got) THEN "count" ELSE "done"
<1>1. /\ walk \in [bbox : Seq(Int), start : Int, offset : Int, limit : 1..Most(MaxLimit, DefaultLimit)]
      /\ (walk.bbox = <<>> \/ Proper(walk.bbox)) /\ walk.start <= walk.offset
  BY DEF IsWalk
<1>2. PICK l \in Nat : l = Len(got)
  OBVIOUS
<1>3. walk' = [walk EXCEPT !.offset = walk.offset + l]
  BY <1>2 DEF TakePage, Advance
<1>4. /\ walk' \in [bbox : Seq(Int), start : Int, offset : Int, limit : 1..Most(MaxLimit, DefaultLimit)]
      /\ walk'.bbox = walk.bbox /\ walk'.start = walk.start /\ walk'.offset = walk.offset + l
  BY <1>1, <1>3
<1>5. walk'.start <= walk'.offset
  BY <1>1, <1>4
<1>6. seen \o got \in Seq(Rows)
  OBVIOUS
<1>. QED
  BY <1>1, <1>2, <1>4, <1>5, <1>6 DEF IsWalk, TakePage

\* A page goes on where the last one ended.
LEMMA PieceGrows ==
    ASSUME NEW L \in Seq(Rows), NEW start \in Nat, NEW s \in Seq(Rows), Follows(s, L, start),
           NEW o \in Nat, o = start + Len(s), NEW p \in Seq(Rows), Follows(p, L, o)
    PROVE  Follows(s \o p, L, start)
<1>1. PICK m \in Nat, l \in Nat : m = Len(s) /\ l = Len(p)
  OBVIOUS
<1>4. /\ \A k \in 1..m : start + k \in 1..Len(L) /\ s[k] = L[start + k]
      /\ \A k \in 1..l : o + k \in 1..Len(L) /\ p[k] = L[o + k]
  BY <1>1 DEF Follows
<1>2. /\ Len(s \o p) = m + l
      /\ \A k \in 1..m : (s \o p)[k] = s[k]
      /\ \A k \in 1..l : (s \o p)[m + k] = p[k]
  BY <1>1
<1>3. ASSUME NEW k \in 1..(m + l) PROVE start + k \in 1..Len(L) /\ (s \o p)[k] = L[start + k]
  <2>1. CASE k \in 1..m
    BY <1>2, <1>4, <2>1
  <2>2. CASE k \notin 1..m
    <3>1. PICK j \in 1..l : k = m + j
      <4>1. k - m \in 1..l /\ k = m + (k - m)
        BY <2>2
      <4>. QED
        BY <4>1
    <3>2. (s \o p)[k] = p[j] /\ p[j] = L[o + j] /\ o + j \in 1..Len(L)
      BY <1>2, <1>4, <3>1
    <3>3. o + j = start + k
      BY <1>1, <3>1
    <3>. QED
      BY <3>2, <3>3
  <2>. QED
    BY <2>1, <2>2
<1>. QED
  BY <1>1, <1>2, <1>3 DEF Follows

\* What a state with a request under way holds.
LEMMA UnderWay ==
    ASSUME PagingInv, Walking
    PROVE  /\ matched \in Nat /\ edits \in 0..MaxEdits /\ seen \in Seq(Rows) /\ found = NoAnswer
           /\ Table(collection) /\ IsWalk(walk) /\ (walk.bbox = <<>> \/ IsBox(walk.bbox))
           /\ (InMemory => engine = Engine(collection.rows) /\ engine # <<>>)
           /\ walk.start \in Int /\ walk.offset \in Int /\ walk.start <= walk.offset
           /\ walk.limit \in Nat \ {0}
<1>1. stage \in {"count", "select"}
  BY DEF Walking
<1>2. /\ matched \in Nat /\ edits \in 0..MaxEdits /\ seen \in Seq(Rows) /\ found = NoAnswer
      /\ Table(collection) /\ IsWalk(walk)
      /\ (InMemory => engine = Engine(collection.rows) /\ engine # <<>>)
  BY <1>1 DEF PagingInv, PagingShape
<1>3. walk.bbox = <<>> \/ IsBox(walk.bbox)
  BY <1>2, ProperIsBox DEF IsWalk
<1>4. walk.start \in Int /\ walk.offset \in Int /\ walk.start <= walk.offset /\ walk.limit \in Nat \ {0}
  BY <1>2 DEF IsWalk
<1>. QED
  BY <1>2, <1>3, <1>4

LEMMA MemoryRead ==
    ASSUME PagingInv, ReadMemory
    PROVE  PagingInv'
<1>1. stage = "count" /\ collection.kind = "memory"
  BY DEF ReadMemory
<1>2. Walking /\ InMemory
  BY <1>1 DEF Walking, InMemory
<1>3. /\ matched \in Nat /\ edits \in 0..MaxEdits /\ seen \in Seq(Rows) /\ found = NoAnswer
      /\ Table(collection) /\ IsWalk(walk) /\ (walk.bbox = <<>> \/ IsBox(walk.bbox))
      /\ engine = Engine(collection.rows) /\ engine # <<>>
      /\ walk.start \in Int /\ walk.offset \in Int /\ walk.start <= walk.offset
      /\ walk.limit \in Nat \ {0}
  BY <1>2, UnderWay
<1>4. edits = 0 /\ steady = ToSet(engine.features)
  BY <1>2 DEF PagingInv, RowsKnown
<1>5. PICK hits : hits = Hits(engine, walk)
  OBVIOUS
<1>6. /\ hits \in Seq(Rows) /\ Apart(hits)
      /\ ToSet(hits) = {r \in steady : walk.bbox = <<>> \/ Touch(r.box, walk.bbox)}
      /\ \A r \in steady : r.box # <<>>
  BY <1>3, <1>4, <1>5, HitsFacts
<1>7. PICK n \in Nat : n = Len(hits)
  BY <1>6
<1>8. PICK o \in Nat : o = Most(0, walk.offset) /\ (walk.offset >= 0 => o = walk.offset)
  BY <1>3 DEF Most
<1>9. PICK got : got = Page(hits, [walk EXCEPT !.offset = Most(0, @)])
  OBVIOUS
<1>10. got = PageAt(hits, o, walk.limit)
  <2>1. walk \in [bbox : Seq(Int), start : Int, offset : Int, limit : 1..Most(MaxLimit, DefaultLimit)]
    BY <1>3 DEF IsWalk
  <2>2. PICK v : v = [walk EXCEPT !.offset = Most(0, @)]
    OBVIOUS
  <2>3. v.offset = o /\ v.limit = walk.limit
    BY <1>8, <2>1, <2>2
  <2>. QED
    BY <1>9, <2>2, <2>3 DEF Page, PageAt
<1>11. /\ got \in Seq(Rows)
       /\ Len(got) = IF o >= n THEN 0 ELSE Least(n, o + walk.limit) - o
       /\ Follows(got, hits, o)
  <2>1. /\ got \in Seq(Rows)
        /\ Len(got) = IF o >= Len(hits) THEN 0 ELSE Least(Len(hits), o + walk.limit) - o
        /\ Follows(got, hits, o)
    BY <1>3, <1>6, <1>10, PageRows
  <2>. QED
    BY <1>7, <2>1
<1>12. /\ matched' = n /\ TakePage(got, n)
       /\ collection' = collection /\ engine' = engine /\ edits' = edits /\ steady' = steady /\ found' = found
  BY <1>5, <1>7, <1>9 DEF ReadMemory
<1>13. /\ seen' = seen \o got /\ seen' \in Seq(Rows)
       /\ IsWalk(walk') /\ walk'.bbox = walk.bbox /\ walk'.start = walk.start
       /\ walk'.offset = walk.offset + Len(got)
       /\ stage' = IF n > walk.offset + Len(got) THEN "count" ELSE "done"
  BY <1>3, <1>11, <1>12, Stepped
<1>14. stage' \in {"count", "done"}
  BY <1>13
<1>15. InMemory' /\ Table(collection') /\ engine' = Engine(collection'.rows) /\ engine' # <<>>
  BY <1>2, <1>3, <1>12 DEF InMemory
<1>16. PagingShape'
  BY <1>3, <1>12, <1>13, <1>14, <1>15 DEF PagingShape
<1>17. RowsKnown'
  BY <1>4, <1>12, <1>14, <1>15 DEF RowsKnown, Walking
<1>18. Drift'
  BY <1>15 DEF Drift
<1>19. Hits(engine', walk') = hits /\ Line' = hits /\ Hitting' = n
  <2>1. Hits(engine', walk') = hits
    BY <1>5, <1>12, <1>13, SameBox
  <2>. QED
    BY <1>7, <1>15, <2>1 DEF Line, Hitting
<1>20. ASSUME walk.start >= 0
       PROVE  /\ walk'.start \in Nat /\ walk'.offset = walk'.start + Len(seen')
              /\ walk'.offset <= Most(walk'.start, n)
              /\ Follows(seen', hits, walk'.start)
  <2>1. /\ walk.offset = walk.start + Len(seen) /\ walk.offset <= Most(walk.start, n)
        /\ Follows(seen, hits, walk.start)
    <3>1. Line = hits /\ Hitting = n
      BY <1>2, <1>5, <1>7 DEF Line, Hitting
    <3>2. Piece(hits, n, walk, seen)
      BY <1>2, <1>4, <1>20, <3>1 DEF PagingInv, Undisturbed
    <3>. QED
      BY <1>2, <3>2 DEF Piece
  <2>2. walk.start \in Nat /\ o = walk.offset
    BY <1>3, <1>8, <1>20
  <2>3. Len(got) \in Nat /\ o + Len(got) <= Most(walk.start, n)
    BY <1>3, <1>11, <2>1, <2>2, PageEnd
  <2>4. Follows(seen \o got, hits, walk.start)
    BY <1>3, <1>6, <1>11, <2>1, <2>2, PieceGrows
  <2>5. Len(seen \o got) = Len(seen) + Len(got) /\ Len(seen) \in Nat
    <3>1. seen \in Seq(Rows) /\ got \in Seq(Rows)
      BY <1>3, <1>11
    <3>. QED
      BY ONLY <3>1
  <2>6. walk.offset + Len(got) = walk.start + Len(seen \o got)
    BY <2>1, <2>2, <2>3, <2>5
  <2>. QED
    BY <1>13, <2>2, <2>3, <2>4, <2>6
<1>21. Undisturbed'
  <2>1. walk.start >= 0 => Piece(Line, Hitting, walk, seen)'
    BY <1>19, <1>20 DEF Piece
  <2>. QED
    BY <1>13, <1>14, <2>1 DEF Undisturbed
<1>22. PagesComplete'
  <2>1. ASSUME stage' = "done", walk'.start >= 0
        PROVE  Finished(collection', walk', Due(collection', walk', steady'), seen', edits')
    <3>1. Due(collection', walk', steady') = ToSet(hits)
      BY <1>6, <1>12, <1>13 DEF Due
    <3>2. n <= walk'.start + Len(seen')
      <4>1. ~(n > walk'.offset) /\ walk'.offset \in Int
        BY <1>13, <2>1 DEF IsWalk
      <4>2. walk'.offset = walk'.start + Len(seen')
        BY <1>13, <1>20, <2>1
      <4>. QED
        BY <4>1, <4>2
    <3>3. /\ walk'.start \in Nat /\ walk'.start + Len(seen') <= Most(walk'.start, Len(hits))
          /\ Len(hits) <= walk'.start + Len(seen')
          /\ Follows(seen', hits, walk'.start)
      BY <1>7, <1>13, <1>20, <2>1, <3>2
    <3>4. Finished(collection', walk', ToSet(hits), seen', 0)
      BY <1>6, <1>13, <3>3, FinishedInLine
    <3>. QED
      BY <1>4, <1>12, <3>1, <3>4
  <2>. QED
    BY <2>1, CompleteNext DEF Regular
<1>23. PagesFail' /\ ItemsFit' /\ TilesFull'
  <2>1. PagesFail'
    BY <1>14 DEF PagesFail
  <2>. QED
    BY <1>3, <1>12, <2>1, FoundNothing
<1>. QED
  BY <1>16, <1>17, <1>18, <1>21, <1>22, <1>23 DEF PagingInv, CollectionExact

-----------------------------------------------------------------------------
(* The two statements of a database.                                       *)

LEMMA Counted ==
    ASSUME PagingInv, CountRows
    PROVE  PagingInv'
<1>1. stage = "count" /\ collection.kind # "memory"
  BY DEF CountRows
<1>2. Walking /\ ~InMemory
  BY <1>1 DEF Walking, InMemory
<1>3. /\ matched \in Nat /\ edits \in 0..MaxEdits /\ seen \in Seq(Rows) /\ found = NoAnswer
      /\ Table(collection) /\ IsWalk(walk)
  BY <1>2, UnderWay
<1>4. /\ matched' = Len(Selected(collection, walk)) /\ stage' = "select"
      /\ collection' = collection /\ engine' = engine /\ walk' = walk /\ seen' = seen /\ edits' = edits
      /\ steady' = steady /\ found' = found
  BY DEF CountRows
<1>5. Walking' /\ ~InMemory'
  BY <1>2, <1>4 DEF Walking, InMemory
<1>6. PICK S : S = Now /\ S = Now'
  BY <1>4 DEF Now
<1>7. Len(Selected(collection, walk)) \in Nat /\ Cardinality(S) = Len(Selected(collection, walk))
  BY <1>1, <1>3, <1>6, SelectedFacts DEF Now
<1>8. PagingShape'
  BY <1>3, <1>4, <1>5, <1>7 DEF PagingShape
<1>9. RowsKnown'
  BY <1>2, <1>4, <1>5 DEF PagingInv, RowsKnown
<1>10. Undisturbed'
  <2>1. Line' = Line /\ Hitting' = Hitting /\ Hitting' = matched'
    BY <1>2, <1>4, <1>5, <1>6 DEF Line, Hitting
  <2>2. ASSUME edits = 0, walk.start >= 0 PROVE Piece(Line, Hitting, walk, seen)'
    <3>1. Piece(Line, Hitting, walk, seen)
      BY <1>2, <2>2 DEF PagingInv, Undisturbed
    <3>. QED
      BY <1>2, <1>4, <1>5, <2>1, <3>1 DEF Piece
  <2>. QED
    BY <1>4, <2>1, <2>2 DEF Undisturbed
<1>11. Drift'
  <2>1. Uncounted(S)' = 0
    <3>1. Cardinality(S) - matched' = 0
      BY <1>4, <1>7
    <3>2. Uncounted(S)' = Most(0, 0)
      BY <1>4, <3>1 DEF Uncounted
    <3>. QED
      BY <3>2 DEF Most
  <2>2. ASSUME collection.keyed, walk.start >= 0 PROVE Drifted(S, steady, seen, walk, edits, 0)
    <3>1. Drifted(S, steady, seen, walk, edits, Uncounted(S))
      BY <1>2, <1>6, <2>2 DEF PagingInv, Drift
    <3>2. Uncounted(S) = 0
      BY <1>1 DEF Uncounted
    <3>. QED
      BY <3>1, <3>2
  <2>. QED
    BY <1>4, <1>6, <2>1, <2>2 DEF Drift
<1>12. CollectionExact'
  BY <1>3, <1>4, PromisingNext
<1>. QED
  BY <1>8, <1>9, <1>10, <1>11, <1>12 DEF PagingInv

\* Whatever order a statement returns its rows in, they are the rows selected.
LEMMA Arranged ==
    ASSUME NEW c, Table(c), c.kind # "memory", NEW w, NEW rows \in Arrangements(c.keyed, Selected(c, w))
    PROVE  /\ rows \in Seq(Rows) /\ Len(rows) = Len(Selected(c, w))
           /\ \A k \in 1..Len(rows) : rows[k] \in ToSet(Selected(c, w))
           /\ c.keyed => LET S == ToSet(Selected(c, w)) IN Keyed(S) /\ rows = Listed(S, ByKey(S))
<1>1. PICK sel : sel = Selected(c, w)
  OBVIOUS
<1>2. /\ sel \in Seq(Rows) /\ Cardinality(ToSet(sel)) = Len(sel) /\ Len(sel) \in Nat
      /\ c.keyed => Keyed(ToSet(sel))
  BY <1>1, SelectedFacts
<1>3. CASE c.keyed
  <2>1. rows = Listed(ToSet(sel), ByKey(ToSet(sel)))
    BY <1>1, <1>3 DEF Arrangements
  <2>2. /\ rows \in Seq(Rows) /\ Len(rows) = Cardinality(ToSet(sel))
        /\ \A k \in 1..Len(rows) : rows[k] \in ToSet(sel)
    BY <1>2, <1>3, <2>1, InLine
  <2>. QED
    BY <1>1, <1>2, <1>3, <2>1, <2>2
<1>4. CASE ~c.keyed
  <2>1. PICK n \in Nat : n = Len(sel) /\ DOMAIN sel = 1..n /\ \A k \in 1..n : sel[k] \in Rows /\ sel[k] \in ToSet(sel)
    BY <1>2, FiniteToSet
  <2>2. PICK p \in [1..n -> 1..n] : rows = [i \in 1..n |-> sel[p[i]]]
    BY <1>1, <1>4, <2>1 DEF Arrangements
  <2>3. rows \in [1..n -> Rows] /\ \A k \in 1..n : rows[k] \in ToSet(sel)
    BY <2>1, <2>2
  <2>4. rows \in Seq(Rows) /\ Len(rows) = n
    BY <2>3, FunctionIsSeq
  <2>. QED
    BY <1>1, <1>4, <2>1, <2>3, <2>4
<1>. QED
  BY <1>3, <1>4

\* The drift is no more after a page.
LEMMA DriftPage ==
    ASSUME NEW S, Keyed(S), NEW D, NEW s \in Seq(Rows), NEW o \in Nat,
           NEW L \in Seq(Rows), \A k \in 1..Len(L) : L[k] \in S /\ Place(S, L[k]) = k - 1,
           NEW p \in Seq(Rows), Apart(p), Follows(p, L, o),
           NEW w, NEW v, w.offset = o, v.offset = o + Len(p), v.start = w.start, w.start \in Int,
           NEW n \in Nat, NEW left \in Nat, Drifted(S, D, s, w, n, left)
    PROVE  Drifted(S, D, s \o p, v, n, left)
<1>1. PICK M, N : M = PassedBy(S, D, ToSet(s), o) /\ N = PassedBy(S, D, ToSet(s \o p), o + Len(p))
  OBVIOUS
<1>2. PICK a \in Int, b \in Int : /\ a = (Len(s) - Cardinality(ToSet(s))) + Cardinality(ToCome(S, ToSet(s), o))
                                  /\ b = (Len(s \o p) - Cardinality(ToSet(s \o p)))
                                           + Cardinality(ToCome(S, ToSet(s \o p), o + Len(p)))
  <2>1. s \o p \in Seq(Rows)
    OBVIOUS
  <2>2. /\ Len(s) \in Nat /\ Len(s \o p) \in Nat
        /\ Cardinality(ToSet(s)) \in Nat /\ Cardinality(ToSet(s \o p)) \in Nat
    <3>1. \A q \in Seq(Rows) : Len(q) \in Nat /\ Cardinality(ToSet(q)) \in Nat
      BY FiniteToSet
    <3>. QED
      BY ONLY <2>1, <3>1, s \in Seq(Rows)
  <2>3. /\ Cardinality(ToCome(S, ToSet(s), o)) \in Nat
        /\ Cardinality(ToCome(S, ToSet(s \o p), o + Len(p))) \in Nat
    BY PageDrift
  <2>. QED
    BY <2>2, <2>3
<1>3. N \subseteq M /\ b <= a
  BY <1>1, <1>2, PageDrift
<1>4. Cardinality(M) + left <= w.start + n /\ a <= n
  BY <1>1, <1>2 DEF Drifted
<1>5. IsFiniteSet(M)
  <2>1. M \subseteq S /\ IsFiniteSet(S)
    BY <1>1 DEF PassedBy, Keyed
  <2>. QED
    BY <2>1, FS_Subset
<1>6. IsFiniteSet(N) /\ Cardinality(N) <= Cardinality(M) /\ Cardinality(M) \in Nat
  BY <1>3, <1>5, FS_Subset, FS_CardinalityType
<1>7. Cardinality(N) \in Nat
  BY <1>6, FS_CardinalityType
<1>8. Cardinality(N) + left <= v.start + n /\ b <= n
  BY <1>3, <1>4, <1>6, <1>7
<1>. QED
  BY <1>1, <1>2, <1>8 DEF Drifted

LEMMA DriftLess ==
    ASSUME NEW S, Keyed(S), NEW D, NEW s, NEW w, w.start \in Int, NEW n \in Nat, NEW left \in Nat,
           Drifted(S, D, s, w, n, left)
    PROVE  Drifted(S, D, s, w, n, 0)
<1>1. PICK M : M = PassedBy(S, D, ToSet(s), w.offset)
  OBVIOUS
<1>2. M \subseteq S /\ IsFiniteSet(S)
  BY <1>1 DEF PassedBy, Keyed
<1>3. IsFiniteSet(M)
  BY <1>2, FS_Subset
<1>4. Cardinality(M) \in Nat
  BY <1>3, FS_CardinalityType
<1>5. Cardinality(M) + left <= w.start + n
  BY <1>1 DEF Drifted
<1>6. Cardinality(M) + 0 <= w.start + n
  BY <1>4, <1>5
<1>. QED
  BY <1>1, <1>6 DEF Drifted

\* A walk that was disturbed has missed and repeated as many rows as there were edits.
LEMMA FinishedDrifting ==
    ASSUME NEW S, Keyed(S), NEW D, NEW due, due \subseteq S \cap D, NEW s \in Seq(Rows),
           NEW w, w.start \in Nat, w.offset \in Nat, NEW m \in Nat, m <= w.offset,
           NEW n \in Nat, n # 0, Drifted(S, D, s, w, n, Most(0, Cardinality(S) - m)),
           NEW c, c.keyed
    PROVE  Finished(c, w, due, s, n)
<1>1. PICK start \in Nat, o \in Nat : start = w.start /\ o = w.offset
  OBVIOUS
<1>2. PICK V, M, R : V = ToSet(s) /\ M = PassedBy(S, D, ToSet(s), o) /\ R = {x \in S : Place(S, x) >= o}
  OBVIOUS
<1>3. /\ Cardinality(M) + Most(0, Cardinality(S) - m) <= start + n
      /\ (Len(s) - Cardinality(V)) + Cardinality(ToCome(S, V, o)) <= n
  BY <1>1, <1>2 DEF Drifted
<1>4. IsFiniteSet(S) /\ Cardinality(S) \in Nat
  BY FS_CardinalityType DEF Keyed
<1>5. M \subseteq S /\ ToCome(S, V, o) \subseteq S /\ due \subseteq S /\ due \ V \subseteq due
  BY <1>2 DEF PassedBy, ToCome
<1>6. IsFiniteSet(M) /\ IsFiniteSet(ToCome(S, V, o)) /\ IsFiniteSet(due) /\ IsFiniteSet(due \ V)
  BY <1>4, <1>5, FS_Subset
<1>7. /\ Cardinality(M) \in Nat /\ Cardinality(ToCome(S, V, o)) \in Nat /\ Cardinality(due) \in Nat
      /\ Cardinality(due \ V) \in Nat /\ Cardinality(due \ V) <= Cardinality(due)
  BY <1>5, <1>6, FS_CardinalityType, FS_Subset
<1>8. IsFiniteSet(R) /\ Cardinality(R) = Most(0, Cardinality(S) - o)
  BY <1>2, RowsLeft
<1>9. due \ V \subseteq M \cup R
  <2> SUFFICES ASSUME NEW x \in due, x \notin V, x \notin R PROVE x \in M
    OBVIOUS
  <2>1. x \in S \cap D /\ Place(S, x) \in Nat
    BY Places
  <2>2. Place(S, x) < o
    BY <1>2, <2>1
  <2>. QED
    BY <1>2, <2>1, <2>2 DEF PassedBy
<1>10. /\ IsFiniteSet(M \cup R) /\ Cardinality(due \ V) <= Cardinality(M \cup R)
       /\ Cardinality(M \cup R) \in Nat
       /\ Cardinality(M \cup R) = Cardinality(M) + Cardinality(R) - Cardinality(M \cap R)
       /\ Cardinality(M \cap R) \in Nat
  <2>1. IsFiniteSet(M \cup R) /\ Cardinality(M \cup R) = Cardinality(M) + Cardinality(R) - Cardinality(M \cap R)
    BY <1>6, <1>8, FS_Union
  <2>2. IsFiniteSet(M \cap R)
    BY <1>6, FS_Intersection
  <2>3. Cardinality(due \ V) <= Cardinality(M \cup R)
    BY <1>9, <2>1, FS_Subset
  <2>. QED
    BY <2>1, <2>2, <2>3, FS_CardinalityType
<1>11. Cardinality(R) \in Nat /\ Cardinality(R) <= Most(0, Cardinality(S) - m)
  BY <1>1, <1>4, <1>8 DEF Most
<1>12. Cardinality(due \ V) <= start + n
  <2>1. PICK a \in Int : a = Most(0, Cardinality(S) - m)
    BY <1>4 DEF Most
  <2>. QED
    BY <1>3, <1>7, <1>10, <1>11, <2>1
<1>13. Cardinality(due \ V) <= Least(start, Cardinality(due)) + n
  BY <1>7, <1>12 DEF Least
<1>14. Len(s) - Cardinality(V) <= n
  <2>1. Len(s) \in Nat /\ Cardinality(V) \in Nat
    BY <1>2, FiniteToSet
  <2>. QED
    BY <1>3, <1>7, <2>1
<1>. QED
  BY <1>1, <1>2, <1>13, <1>14 DEF Finished

\* What a walk is due is what its statements select.
LEMMA DueSelected ==
    ASSUME NEW c, Table(c), c.kind # "memory", NEW w, Regular(c, w), NEW D, D \subseteq ToSet(c.rows)
    PROVE  /\ Due(c, w, D) \subseteq ToSet(Selected(c, w)) \cap D
           /\ D = ToSet(c.rows) => Due(c, w, D) = ToSet(Selected(c, w))
<1>1. ToSet(Selected(c, w)) = {r \in ToSet(c.rows) : Asks(c.kind, w.bbox, r)}
  BY SelectedFacts
<1>2. c.kind \in {"postgis", "mysql"}
  BY DEF Table
<1>3. ASSUME NEW r
      PROVE  Asks(c.kind, w.bbox, r) <=> IF r.box = <<>> THEN w.bbox = <<>> /\ c.kind = "postgis"
                                         ELSE w.bbox = <<>> \/ Touch(r.box, w.bbox)
  <2>1. CASE c.kind = "postgis"
    BY <2>1 DEF Asks
  <2>2. CASE c.kind = "mysql"
    <3>1. w.bbox = <<>> \/ ~Wide(w.bbox)
      BY <2>2 DEF Regular
    <3>2. w.bbox = <<>> \/ (MBRIntersects(r.box, w.bbox) <=> Touch(r.box, w.bbox))
      BY <3>1 DEF MBRIntersects
    <3>. QED
      BY <2>2, <3>2 DEF Asks
  <2>. QED
    BY <1>2, <2>1, <2>2
<1>4. Due(c, w, D) = {r \in D : Asks(c.kind, w.bbox, r)}
  BY <1>3 DEF Due
<1>. QED
  BY <1>1, <1>4

LEMMA PageChosen ==
    ASSUME PagingInv, SelectRows
    PROVE  PagingInv'
<1>1. Walking /\ stage = "select"
  BY DEF SelectRows, Walking
<1>2. ~InMemory
  BY <1>1 DEF PagingInv, RowsKnown
<1>3. /\ matched \in Nat /\ edits \in 0..MaxEdits /\ seen \in Seq(Rows) /\ found = NoAnswer
      /\ Table(collection) /\ collection.kind # "memory" /\ IsWalk(walk)
      /\ walk.start \in Int /\ walk.offset \in Int /\ walk.start <= walk.offset
      /\ walk.limit \in Nat \ {0}
  BY <1>1, <1>2, UnderWay DEF InMemory
<1>4. /\ steady \subseteq ToSet(collection.rows)
      /\ ToSet(collection.rows) \subseteq steady \cup Newcomers
      /\ edits = 0 => steady = ToSet(collection.rows)
  BY <1>1, <1>2 DEF PagingInv, RowsKnown
<1>5. /\ collection' = collection /\ engine' = engine /\ matched' = matched /\ edits' = edits
      /\ steady' = steady /\ found' = found
  BY DEF SelectRows
<1>6. PICK rows, got :
         /\ rows \in Arrangements(collection.keyed, Selected(collection, walk))
         /\ got = Page(rows, [walk EXCEPT !.offset = Most(0, @)])
         /\ LET bad == collection.kind = "postgis"
                         /\ (walk.offset < 0 \/ \E i \in DOMAIN got : got[i].box = <<>>)
            IN IF bad THEN stage' = "failed" /\ UNCHANGED <<walk, seen>> ELSE TakePage(got, matched)
  BY DEF SelectRows
<1>7. PICK S, sel : S = ToSet(sel) /\ sel = Selected(collection, walk)
  OBVIOUS
<1>8. /\ sel \in Seq(Rows) /\ Cardinality(S) = Len(sel) /\ S \subseteq ToSet(collection.rows)
      /\ Len(sel) \in Nat
  BY <1>3, <1>7, SelectedFacts
<1>9. PICK n \in Nat : n = Len(sel) /\ n = Cardinality(S)
  BY <1>8
<1>10. /\ rows \in Seq(Rows) /\ Len(rows) = n /\ \A k \in 1..n : rows[k] \in S
       /\ collection.keyed => Keyed(S) /\ rows = Listed(S, ByKey(S))
  BY <1>3, <1>6, <1>7, <1>9, Arranged
<1>11. PICK o \in Nat : o = Most(0, walk.offset) /\ (walk.offset >= 0 => o = walk.offset)
  BY <1>3 DEF Most
<1>12. got = PageAt(rows, o, walk.limit)
  <2>1. walk \in [bbox : Seq(Int), start : Int, offset : Int, limit : 1..Most(MaxLimit, DefaultLimit)]
    BY <1>3 DEF IsWalk
  <2>2. PICK v : v = [walk EXCEPT !.offset = Most(0, @)]
    OBVIOUS
  <2>3. v.offset = o /\ v.limit = walk.limit
    BY <1>11, <2>1, <2>2
  <2>. QED
    BY <1>6, <2>2, <2>3 DEF Page, PageAt
<1>13. /\ got \in Seq(Rows)
       /\ Len(got) = IF o >= n THEN 0 ELSE Least(n, o + walk.limit) - o
       /\ Follows(got, rows, o)
       /\ Apart(rows) => Apart(got)
  <2>1. /\ got \in Seq(Rows)
        /\ Len(got) = IF o >= Len(rows) THEN 0 ELSE Least(Len(rows), o + walk.limit) - o
        /\ Follows(got, rows, o)
        /\ Apart(rows) => Apart(got)
    <3>1. rows \in Seq(Rows) /\ walk.limit \in Nat \ {0}
      BY <1>3, <1>10
    <3>. QED
      BY ONLY <1>12, <3>1, o \in Nat, PageRows
  <2>. QED
    BY <1>10, <2>1
<1>14. ~InMemory' /\ Table(collection')
  BY <1>2, <1>3, <1>5 DEF InMemory
<1>15. ItemsFit' /\ TilesFull'
  BY <1>3, <1>5, FoundNothing
<1>16. CASE collection.kind = "postgis" /\ (walk.offset < 0 \/ \E i \in DOMAIN got : got[i].box = <<>>)
  <2>1. stage' = "failed" /\ walk' = walk /\ seen' = seen
    BY <1>6, <1>16
  <2>2. PagingShape'
    BY <1>3, <1>5, <1>14, <2>1 DEF PagingShape
  <2>3. RowsKnown' /\ Undisturbed' /\ Drift' /\ PagesComplete'
    BY <2>1 DEF RowsKnown, Undisturbed, Drift, Walking, PagesComplete
  <2>4. walk.start < 0 \/ \E r \in steady \cup Newcomers : r.box = <<>>
    <3>1. CASE walk.offset < 0
      BY <1>3, <3>1
    <3>2. CASE \E i \in DOMAIN got : got[i].box = <<>>
      <4>1. PICK i \in 1..Len(got) : got[i].box = <<>>
        BY <1>13, <3>2
      <4>2. got[i] = rows[o + i] /\ o + i \in 1..n
        BY <1>10, <1>13, <4>1 DEF Follows
      <4>3. got[i] \in steady \cup Newcomers
        BY <1>4, <1>8, <1>10, <4>2
      <4>. QED
        BY <4>1, <4>3
    <3>. QED
      BY <1>16, <3>1, <3>2
  <2>5. PagesFail'
    BY <1>5, <1>16, <2>1, <2>4 DEF PagesFail
  <2>. QED
    BY <1>15, <2>2, <2>3, <2>5 DEF PagingInv, CollectionExact
<1>17. CASE ~(collection.kind = "postgis" /\ (walk.offset < 0 \/ \E i \in DOMAIN got : got[i].box = <<>>))
  <2>1. TakePage(got, matched)
    BY <1>6, <1>17
  <2>2. /\ seen' = seen \o got /\ seen' \in Seq(Rows)
        /\ IsWalk(walk') /\ walk'.bbox = walk.bbox /\ walk'.start = walk.start
        /\ walk'.offset = walk.offset + Len(got)
        /\ stage' = IF matched > walk.offset + Len(got) THEN "count" ELSE "done"
    BY <1>3, <1>13, <2>1, Stepped
  <2>3. stage' \in {"count", "done"}
    BY <2>2
  <2>4. PagingShape'
    BY <1>3, <1>5, <1>14, <2>2, <2>3 DEF PagingShape
  <2>5. RowsKnown'
    BY <1>4, <1>5, <1>14, <2>3 DEF RowsKnown
  <2>6. PagesFail'
    BY <2>3 DEF PagesFail
  <2>7. Selected(collection', walk') = sel /\ Now' = S /\ Now = S
    <3>1. Selected(collection', walk') = sel
      BY <1>5, <1>7, <2>2, SameBox
    <3>. QED
      BY <1>7, <3>1 DEF Now
  <2>8. Hitting = n /\ Hitting' = n /\ (collection.keyed => Line = rows /\ Line' = rows)
    BY <1>2, <1>7, <1>9, <1>10, <1>14, <2>7 DEF Hitting, Line
  <2>9. ASSUME walk.start >= 0, edits = 0
        PROVE  /\ matched = n /\ walk'.start \in Nat /\ walk'.offset = walk'.start + Len(seen')
               /\ walk'.offset <= Most(walk'.start, n)
               /\ collection.keyed => Follows(seen', rows, walk'.start)
    <3>1. /\ walk.offset = walk.start + Len(seen) /\ walk.offset <= Most(walk.start, n)
          /\ matched = n
          /\ collection.keyed => Follows(seen, rows, walk.start)
      <4>1. Piece(Line, n, walk, seen) /\ matched = n
        BY <1>1, <2>8, <2>9 DEF PagingInv, Undisturbed
      <4>. QED
        BY <2>8, <4>1 DEF Piece
    <3>2. walk.start \in Nat /\ o = walk.offset
      BY <1>3, <1>11, <2>9
    <3>3. Len(got) \in Nat /\ o + Len(got) <= Most(walk.start, n)
      BY <1>3, <1>13, <3>1, <3>2, PageEnd
    <3>4. collection.keyed => Follows(seen \o got, rows, walk.start)
      BY <1>3, <1>10, <1>13, <3>1, <3>2, PieceGrows
    <3>5. Len(seen \o got) = Len(seen) + Len(got) /\ Len(seen) \in Nat
      <4>1. seen \in Seq(Rows) /\ got \in Seq(Rows)
        BY <1>3, <1>13
      <4>. QED
        BY ONLY <4>1
    <3>6. walk.offset + Len(got) = walk.start + Len(seen \o got)
      BY <3>1, <3>2, <3>3, <3>5
    <3>. QED
      BY <2>2, <3>1, <3>2, <3>3, <3>4, <3>6
  <2>10. Undisturbed'
    <3>1. ASSUME walk.start >= 0, edits = 0 PROVE Piece(Line, Hitting, walk, seen)'
      BY <1>5, <1>14, <2>8, <2>9, <3>1 DEF Piece
    <3>. QED
      BY <1>5, <2>2, <2>3, <3>1 DEF Undisturbed
  <2>11. PICK left \in Nat : left = Most(0, Cardinality(S) - matched)
    BY <1>3, <1>9 DEF Most
  <2>12. ASSUME collection.keyed, walk.start >= 0
         PROVE  Drifted(S, steady, seen', walk', edits, left)
    <3>1. Drifted(S, steady, seen, walk, edits, Uncounted(S))
      BY <1>1, <1>2, <2>7, <2>12 DEF PagingInv, Drift
    <3>2. Drifted(S, steady, seen, walk, edits, left)
      BY <1>1, <2>11, <3>1 DEF Uncounted
    <3>3. Keyed(S) /\ Apart(rows) /\ \A k \in 1..Len(rows) : rows[k] \in S /\ Place(S, rows[k]) = k - 1
      BY <1>10, <2>12, InLine
    <3>4. walk.offset = o /\ walk'.offset = o + Len(got) /\ walk'.start = walk.start /\ edits \in Nat
      BY <1>3, <1>11, <2>2, <2>12
    <3>5. Drifted(S, steady, seen \o got, walk', edits, left)
      BY <1>3, <1>10, <1>13, <3>2, <3>3, <3>4, DriftPage
    <3>. QED
      BY <2>2, <3>5
  <2>13. Drift'
    <3> SUFFICES ASSUME Walking', collection'.keyed, walk'.start >= 0
                 PROVE  Drifted(Now', steady', seen', walk', edits', Uncounted(Now)')
      BY DEF Drift
    <3>1. Uncounted(Now)' = 0
      BY <2>3 DEF Uncounted
    <3>2. collection.keyed /\ walk.start >= 0
      BY <1>5, <2>2
    <3>3. Drifted(S, steady, seen', walk', edits, left) /\ Keyed(S)
      BY <1>10, <2>12, <3>2
    <3>4. Drifted(S, steady, seen', walk', edits, 0)
      <4>1. walk'.start \in Int /\ edits \in Nat
        BY <1>3, <2>2
      <4>. QED
        BY <2>11, <3>3, <4>1, DriftLess
    <3>. QED
      BY <1>5, <2>7, <3>1, <3>4
  <2>14. PagesComplete'
    <3>1. ASSUME stage' = "done", Regular(collection, walk')
          PROVE  Finished(collection, walk', Due(collection, walk', steady), seen', edits)
      <4>1. PICK due : due = Due(collection, walk', steady)
        OBVIOUS
      <4>2. due \subseteq S \cap steady /\ (edits = 0 => due = S)
        <5>1. ToSet(Selected(collection, walk')) = S
          BY <1>5, <1>7, <2>7
        <5>2. /\ Due(collection, walk', steady) \subseteq ToSet(Selected(collection, walk')) \cap steady
              /\ steady = ToSet(collection.rows) =>
                    Due(collection, walk', steady) = ToSet(Selected(collection, walk'))
          BY <1>3, <1>4, <3>1, DueSelected
        <5>. QED
          BY <1>4, <4>1, <5>1, <5>2
      <4>3. walk'.start \in Nat /\ walk.start >= 0 /\ walk'.offset \in Nat /\ ~(matched > walk'.offset)
        BY <1>3, <1>13, <2>2, <3>1 DEF Regular, IsWalk
      <4>4. CASE edits = 0
        <5>1. /\ n <= walk'.start + Len(seen') /\ walk'.start + Len(seen') <= Most(walk'.start, n)
              /\ collection.keyed => Follows(seen', rows, walk'.start)
          BY <2>9, <4>3, <4>4
        <5>2. CASE collection.keyed
          <6>1. Apart(rows) /\ ToSet(rows) = S
            BY <1>10, <5>2, InLine
          <6>2. Finished(collection, walk', ToSet(rows), seen', 0)
            BY <1>10, <2>2, <4>3, <5>1, <5>2, <6>1, FinishedInLine
          <6>. QED
            BY <4>1, <4>2, <4>4, <6>1, <6>2
        <5>3. CASE ~collection.keyed
          <6>1. Finished(collection, walk', S, seen', 0)
            BY <1>3, <1>9, <2>2, <4>3, <5>1, <5>3, FinishedAnyhow
          <6>. QED
            BY <4>1, <4>2, <4>4, <6>1
        <5>. QED
          BY <5>2, <5>3
      <4>5. CASE edits # 0
        <5>1. CASE collection.keyed
          <6>1. Drifted(S, steady, seen', walk', edits, Most(0, Cardinality(S) - matched)) /\ Keyed(S)
            BY <1>10, <2>11, <2>12, <4>3, <5>1
          <6>2. matched <= walk'.offset /\ edits \in Nat
            BY <1>3, <4>3
          <6>3. Finished(collection, walk', due, seen', edits)
            BY <1>3, <2>2, <4>2, <4>3, <4>5, <5>1, <6>1, <6>2, FinishedDrifting
          <6>. QED
            BY <4>1, <6>3
        <5>2. CASE ~collection.keyed
          BY <1>3, <4>5, <5>2 DEF Finished
        <5>. QED
          BY <5>1, <5>2
      <4>. QED
        BY <4>4, <4>5
    <3>. QED
      BY <1>5, <3>1, CompleteNext
  <2>. QED
    BY <1>15, <2>4, <2>5, <2>6, <2>10, <2>13, <2>14 DEF PagingInv, CollectionExact
<1>. QED
  BY <1>16, <1>17

-----------------------------------------------------------------------------
(* The table is edited.                                                    *)

\* An edit may shift one row over the border.
LEMMA DriftEdit ==
    ASSUME NEW S, NEW T, IsFiniteSet(S), IsFiniteSet(T), NEW D, NEW E, NEW s \in Seq(Rows),
           NEW w, w.start \in Int, NEW n \in Nat, NEW left \in Nat, NEW more \in Nat,
           Drifted(S, D, s, w, n, left),
           Cardinality(PassedBy(T, E, ToSet(s), w.offset)) + more
             <= Cardinality(PassedBy(S, D, ToSet(s), w.offset)) + left + 1,
           Cardinality(ToCome(T, ToSet(s), w.offset)) <= Cardinality(ToCome(S, ToSet(s), w.offset)) + 1
    PROVE  Drifted(T, E, s, w, n + 1, more)
<1>1. PICK M, N, A, B : /\ M = PassedBy(S, D, ToSet(s), w.offset) /\ N = PassedBy(T, E, ToSet(s), w.offset)
                        /\ A = ToCome(S, ToSet(s), w.offset) /\ B = ToCome(T, ToSet(s), w.offset)
  OBVIOUS
<1>2. M \subseteq S /\ N \subseteq T /\ A \subseteq S /\ B \subseteq T
  BY <1>1 DEF PassedBy, ToCome
<1>3. IsFiniteSet(M) /\ IsFiniteSet(N) /\ IsFiniteSet(A) /\ IsFiniteSet(B)
  BY <1>2, FS_Subset
<1>4. /\ Cardinality(M) \in Nat /\ Cardinality(N) \in Nat /\ Cardinality(A) \in Nat /\ Cardinality(B) \in Nat
  BY <1>3, FS_CardinalityType
<1>5. PICK k \in Int : k = Len(s) - Cardinality(ToSet(s))
  BY FiniteToSet
<1>6. Cardinality(M) + left <= w.start + n /\ k + Cardinality(A) <= n
  BY <1>1, <1>5 DEF Drifted
<1>7. Cardinality(N) + more <= Cardinality(M) + left + 1 /\ Cardinality(B) <= Cardinality(A) + 1
  BY <1>1
<1>8. Cardinality(N) + more <= w.start + (n + 1) /\ k + Cardinality(B) <= n + 1
  <2>1. PICK m \in Int, l \in Int, a \in Int, b \in Int, x \in Int :
           /\ m = Cardinality(M) /\ l = Cardinality(N) /\ a = Cardinality(A) /\ b = Cardinality(B)
           /\ x = w.start
    BY <1>4
  <2>2. m + left <= x + n /\ k + a <= n /\ l + more <= m + left + 1 /\ b <= a + 1
    BY <1>6, <1>7, <2>1
  <2>3. l + more <= x + (n + 1) /\ k + b <= n + 1
    BY ONLY <2>2, m \in Int, l \in Int, a \in Int, b \in Int, x \in Int, k \in Int, n \in Nat,
       left \in Nat, more \in Nat
  <2>. QED
    BY <2>1, <2>3
<1>. QED
  BY <1>1, <1>5, <1>8 DEF Drifted

LEMMA DriftLater ==
    ASSUME NEW S, IsFiniteSet(S), NEW D, NEW s \in Seq(Rows), NEW w, w.start \in Int,
           NEW n \in Nat, NEW left \in Nat, Drifted(S, D, s, w, n, left)
    PROVE  Drifted(S, D, s, w, n + 1, left)
<1>1. PICK M, A : M = PassedBy(S, D, ToSet(s), w.offset) /\ A = ToCome(S, ToSet(s), w.offset)
  OBVIOUS
<1>2. M \subseteq S /\ A \subseteq S
  BY <1>1 DEF PassedBy, ToCome
<1>3. IsFiniteSet(M) /\ IsFiniteSet(A)
  BY <1>2, FS_Subset
<1>4. Cardinality(M) \in Nat /\ Cardinality(A) \in Nat
  BY <1>3, FS_CardinalityType
<1>5. Cardinality(M) + left <= Cardinality(M) + left + 1 /\ Cardinality(A) <= Cardinality(A) + 1
  BY <1>4
<1>. QED
  BY <1>1, <1>5, DriftEdit

LEMMA Uncounts ==
    ASSUME matched \in Nat, NEW S, NEW T, Cardinality(S) \in Nat, Cardinality(T) \in Nat
    PROVE  /\ Uncounted(S) \in Nat /\ Uncounted(T) \in Nat
           /\ Cardinality(T) <= Cardinality(S) + 1 => Uncounted(T) <= Uncounted(S) + 1
           /\ Cardinality(T) <= Cardinality(S) => Uncounted(T) <= Uncounted(S)
<1>1. PICK a \in Nat, b \in Nat : a = Cardinality(S) /\ b = Cardinality(T)
  OBVIOUS
<1>2. PICK p \in Nat, q \in Nat : p = Most(0, a - matched) /\ q = Most(0, b - matched)
  <2>1. Most(0, a - matched) \in Nat /\ Most(0, b - matched) \in Nat
    BY DEF Most
  <2>. QED
    BY <2>1
<1>3. (b <= a + 1 => q <= p + 1) /\ (b <= a => q <= p)
  BY <1>2 DEF Most
<1>4. CASE stage = "select"
  <2>1. Uncounted(S) = p /\ Uncounted(T) = q
    BY <1>1, <1>2, <1>4 DEF Uncounted
  <2>. QED
    BY <1>1, <1>3, <2>1
<1>5. CASE stage # "select"
  BY <1>5 DEF Uncounted
<1>. QED
  BY <1>4, <1>5

LEMMA Appended ==
    ASSUME NEW rows \in Seq(Rows), NEW keyed \in BOOLEAN, Unlike(keyed, rows), NEW r \in Rows,
           \A i \in DOMAIN rows : rows[i].no # r.no /\ rows[i].id # r.id
    PROVE  /\ Append(rows, r) \in Seq(Rows) /\ Unlike(keyed, Append(rows, r))
           /\ ToSet(Append(rows, r)) = ToSet(rows) \cup {r} /\ r \notin ToSet(rows)
<1>1. PICK n \in Nat : n = Len(rows) /\ DOMAIN rows = 1..n
  OBVIOUS
<1>2. PICK t : t = Append(rows, r)
  OBVIOUS
<1>3. /\ t \in Seq(Rows) /\ Len(t) = n + 1 /\ DOMAIN t = 1..(n + 1)
      /\ t[n + 1] = r /\ \A i \in 1..n : t[i] = rows[i]
  BY <1>1, <1>2
<1>4. \A i \in 1..(n + 1) : i \in 1..n \/ i = n + 1
  OBVIOUS
<1>5. Unlike(keyed, t)
  <2> SUFFICES ASSUME NEW i \in 1..(n + 1), NEW j \in 1..(n + 1),
                      t[i].no = t[j].no \/ (keyed /\ t[i].id = t[j].id)
               PROVE  i = j
    BY <1>3 DEF Unlike
  <2>1. CASE i \in 1..n /\ j \in 1..n
    BY <1>1, <1>3, <2>1 DEF Unlike
  <2>2. CASE i \in 1..n /\ j = n + 1
    BY <1>1, <1>3, <2>2
  <2>3. CASE i = n + 1 /\ j \in 1..n
    BY <1>1, <1>3, <2>3
  <2>4. CASE i = n + 1 /\ j = n + 1
    BY <2>4
  <2>. QED
    BY <1>4, <2>1, <2>2, <2>3, <2>4
<1>6. ToSet(t) = ToSet(rows) \cup {r}
  <2>1. ASSUME NEW x \in ToSet(t) PROVE x \in ToSet(rows) \cup {r}
    <3>1. PICK i \in 1..(n + 1) : t[i] = x
      BY <1>3, <2>1 DEF ToSet
    <3>. QED
      BY <1>1, <1>3, <1>4, <3>1 DEF ToSet
  <2>2. ASSUME NEW x \in ToSet(rows) PROVE x \in ToSet(t)
    <3>1. PICK i \in 1..n : rows[i] = x
      BY <1>1, <2>2 DEF ToSet
    <3>2. i \in 1..(n + 1) /\ t[i] = x
      BY <1>3, <3>1
    <3>. QED
      BY <1>3, <3>2 DEF ToSet
  <2>3. r \in ToSet(t)
    <3>1. n + 1 \in 1..(n + 1)
      OBVIOUS
    <3>. QED
      BY <1>3, <3>1 DEF ToSet
  <2>. QED
    BY <2>1, <2>2, <2>3
<1>7. r \notin ToSet(rows)
  BY <1>1 DEF ToSet
<1>. QED
  BY <1>2, <1>3, <1>5, <1>6, <1>7

LEMMA Inserted ==
    ASSUME PagingInv, NEW r \in Newcomers, InsertRow(r)
    PROVE  PagingInv'
<1>1. Walking /\ ~InMemory /\ collection.kind # "memory" /\ edits < MaxEdits
  BY DEF InsertRow, Walking, InMemory
<1>2. /\ matched \in Nat /\ edits \in 0..MaxEdits /\ seen \in Seq(Rows) /\ found = NoAnswer
      /\ Table(collection) /\ IsWalk(walk) /\ walk.start \in Int /\ walk.offset \in Int
      /\ walk.start <= walk.offset
  BY <1>1, UnderWay
<1>3. /\ steady \subseteq ToSet(collection.rows)
      /\ ToSet(collection.rows) \subseteq steady \cup Newcomers
  BY <1>1 DEF PagingInv, RowsKnown
<1>4. /\ collection' = [collection EXCEPT !.rows = Append(@, r)] /\ edits' = edits + 1
      /\ \A i \in DOMAIN collection.rows : collection.rows[i].no # r.no /\ collection.rows[i].id # r.id
      /\ engine' = engine /\ walk' = walk /\ stage' = stage /\ matched' = matched /\ seen' = seen
      /\ steady' = steady /\ found' = found
  BY DEF InsertRow
<1>5. /\ collection \in [kind : {"memory", "postgis", "mysql"}, keyed : BOOLEAN, rows : Seq(Rows)]
      /\ Unlike(collection.keyed, collection.rows)
  BY <1>1, <1>2 DEF Table
<1>6. r \in Rows /\ MaxEdits \in Nat
  BY PagingAssumption
<1>7. PICK rows \in Seq(Rows), more \in Seq(Rows) : rows = collection.rows /\ more = Append(rows, r)
  <2>1. collection.rows \in Seq(Rows)
    BY <1>5
  <2>2. Append(collection.rows, r) \in Seq(Rows)
    BY <1>6, <2>1
  <2>. QED
    BY <2>1, <2>2
<1>8. Unlike(collection.keyed, more) /\ ToSet(more) = ToSet(rows) \cup {r} /\ r \notin ToSet(rows)
  <2>1. \A i \in DOMAIN rows : rows[i].no # r.no /\ rows[i].id # r.id
    BY <1>4, <1>7
  <2>2. Unlike(collection.keyed, rows) /\ collection.keyed \in BOOLEAN
    BY <1>5, <1>7
  <2>. QED
    BY <1>6, <1>7, <2>1, <2>2, Appended
<1>9. /\ collection'.kind = collection.kind /\ collection'.keyed = collection.keyed /\ collection'.rows = more
      /\ collection' \in [kind : {"memory", "postgis", "mysql"}, keyed : BOOLEAN, rows : Seq(Rows)]
  BY <1>4, <1>5, <1>7
<1>10. Table(collection') /\ ~InMemory' /\ Walking'
  BY <1>1, <1>4, <1>8, <1>9 DEF Table, InMemory, Walking
<1>11. PagingShape'
  BY <1>1, <1>2, <1>4, <1>6, <1>10 DEF PagingShape, Walking
<1>12. RowsKnown'
  <2>1. edits' # 0
    BY <1>2, <1>4
  <2>. QED
    BY <1>3, <1>4, <1>7, <1>8, <1>9, <1>10, <2>1 DEF RowsKnown
<1>13. Undisturbed'
  <2>1. edits' # 0
    BY <1>2, <1>4
  <2>. QED
    BY <2>1 DEF Undisturbed
<1>14. Drift'
  <2> SUFFICES ASSUME collection'.keyed, walk'.start >= 0
               PROVE  Drifted(Now', steady', seen', walk', edits', Uncounted(Now)')
    BY DEF Drift
  <2>1. PICK S, T : S = Now /\ T = Now'
    OBVIOUS
  <2>2. collection.keyed /\ walk.start >= 0
    BY <1>4, <1>9
  <2>3. Drifted(S, steady, seen, walk, edits, Uncounted(S))
    BY <1>1, <2>1, <2>2 DEF PagingInv, Drift
  <2>4. S = {x \in ToSet(rows) : Asks(collection.kind, walk.bbox, x)} /\ Keyed(S)
    BY <1>1, <1>2, <1>7, <2>1, <2>2, SelectedFacts DEF Now
  <2>5. T = {x \in ToSet(more) : Asks(collection.kind, walk.bbox, x)} /\ Keyed(T)
    <3>1. T = ToSet(Selected(collection', walk))
      BY <1>4, <2>1 DEF Now
    <3>. QED
      BY <1>1, <1>9, <1>10, <2>2, <3>1, SelectedFacts
  <2>6. IsFiniteSet(S) /\ IsFiniteSet(T) /\ Cardinality(S) \in Nat /\ Cardinality(T) \in Nat
    BY <2>4, <2>5, FS_CardinalityType DEF Keyed
  <2>7. Uncounted(T)' = Uncounted(T) /\ steady' = steady /\ seen' = seen /\ walk' = walk /\ edits' = edits + 1
    BY <1>4 DEF Uncounted
  <2>8. edits \in Nat /\ walk.offset \in Nat
    BY <1>2, <2>2
  <2>9. CASE Asks(collection.kind, walk.bbox, r)
    <3>1. T = S \cup {r} /\ r \notin S /\ r \notin steady
      BY <1>3, <1>7, <1>8, <2>4, <2>5, <2>9
    <3>2. Cardinality(T) = Cardinality(S) + 1
      BY <2>6, <3>1, FS_AddElement
    <3>3. Uncounted(S) \in Nat /\ Uncounted(T) \in Nat /\ Uncounted(T) <= Uncounted(S) + 1
      BY <1>2, <2>6, <3>2, Uncounts
    <3>4. /\ PassedBy(T, steady, ToSet(seen), walk.offset) \subseteq PassedBy(S, steady, ToSet(seen), walk.offset)
          /\ Cardinality(ToCome(T, ToSet(seen), walk.offset)) <= Cardinality(ToCome(S, ToSet(seen), walk.offset)) + 1
      BY <2>5, <2>8, <3>1, RowArrives
    <3>5. PICK M, N : M = PassedBy(S, steady, ToSet(seen), walk.offset) /\ N = PassedBy(T, steady, ToSet(seen), walk.offset)
      OBVIOUS
    <3>6. IsFiniteSet(M)
      <4>1. M \subseteq S
        BY <3>5 DEF PassedBy
      <4>. QED
        BY <2>6, <4>1, FS_Subset
    <3>7. IsFiniteSet(N) /\ Cardinality(N) <= Cardinality(M) /\ Cardinality(M) \in Nat /\ N \subseteq M
      BY <3>4, <3>5, <3>6, FS_Subset, FS_CardinalityType
    <3>8. Cardinality(N) \in Nat
      BY <3>7, FS_CardinalityType
    <3>9. Cardinality(N) + Uncounted(T) <= Cardinality(M) + Uncounted(S) + 1
      BY <3>3, <3>7, <3>8
    <3>10. Drifted(T, steady, seen, walk, edits + 1, Uncounted(T))
      BY <1>2, <2>3, <2>6, <2>8, <3>3, <3>4, <3>5, <3>9, DriftEdit
    <3>. QED
      BY <2>1, <2>7, <3>10
  <2>10. CASE ~Asks(collection.kind, walk.bbox, r)
    <3>1. T = S
      BY <1>8, <2>4, <2>5, <2>10
    <3>2. Uncounted(S) \in Nat
      BY <1>2, <2>6, Uncounts
    <3>3. Drifted(S, steady, seen, walk, edits + 1, Uncounted(S))
      BY <1>2, <2>3, <2>6, <2>8, <3>2, DriftLater
    <3>. QED
      BY <2>1, <2>7, <3>1, <3>3
  <2>. QED
    BY <2>9, <2>10
<1>15. CollectionExact'
  BY <1>2, <1>4, <1>10, PromisingNext DEF Walking
<1>. QED
  BY <1>11, <1>12, <1>13, <1>14, <1>15 DEF PagingInv

Joins(t, s, p) ==
    /\ t \in Seq(Rows) /\ Len(t) = Len(s) + Len(p)
    /\ \A k \in 1..Len(s) : t[k] = s[k]
    /\ \A k \in 1..Len(p) : t[Len(s) + k] = p[k]
LEMMA Joined == \A s, p \in Seq(Rows) : Joins(s \o p, s, p)
BY DEF Joins

LEMMA Shifted ==
    \A n \in Nat : \A h \in 1..n : \A j \in 1..(n - h) :
        ((h - 1) + j) + 1 = h + j /\ h + j \in 1..n /\ h + j # h
OBVIOUS

LEMMA Removed ==
    ASSUME NEW rows \in Seq(Rows), NEW keyed \in BOOLEAN, Unlike(keyed, rows), NEW i \in DOMAIN rows
    PROVE  /\ RemoveAt(rows, i) \in Seq(Rows) /\ Unlike(keyed, RemoveAt(rows, i))
           /\ ToSet(RemoveAt(rows, i)) = ToSet(rows) \ {rows[i]} /\ rows[i] \in ToSet(rows)
<1>1. PICK n \in Nat : n = Len(rows) /\ DOMAIN rows = 1..n /\ i \in 1..n /\ \A k \in 1..n : rows[k] \in Rows
  OBVIOUS
<1>2. PICK a, b, t : a = SubSeq(rows, 1, i - 1) /\ b = SubSeq(rows, i + 1, n) /\ t = a \o b
  OBVIOUS
<1>3. RemoveAt(rows, i) = t
  BY <1>1, <1>2 DEF RemoveAt
<1>4. PICK l \in Nat, m \in Nat : l = i - 1 /\ m = n - i
  BY <1>1
<1>5. a \in Seq(Rows) /\ Len(a) = l /\ \A k \in 1..l : a[k] = rows[k]
  <2>1. a = [k \in 1..((i - 1) - 1 + 1) |-> rows[1 + k - 1]]
    BY <1>1, <1>2
  <2>2. (i - 1) - 1 + 1 = l /\ \A k \in 1..l : 1 + k - 1 = k /\ k \in 1..n
    BY <1>1, <1>4
  <2>3. a = [k \in 1..l |-> rows[k]]
    BY <2>1, <2>2
  <2>4. a \in [1..l -> Rows]
    BY <1>1, <2>2, <2>3
  <2>. QED
    BY <2>3, <2>4, FunctionIsSeq
<1>6. b \in Seq(Rows) /\ Len(b) = m /\ \A k \in 1..m : b[k] = rows[i + k]
  <2>0. PICK u \in Nat : u = i + 1
    BY <1>1
  <2>1. b = [k \in 1..(n - u + 1) |-> rows[u + k - 1]]
    <3>1. b = SubSeq(rows, u, n)
      BY <1>2, <2>0
    <3>. QED
      BY ONLY <3>1, rows \in Seq(Rows), u \in Nat, n \in Nat
  <2>2. n - u + 1 = m /\ \A k \in 1..m : u + k - 1 = i + k /\ i + k \in 1..n
    BY <1>1, <1>4, <2>0
  <2>3. b = [k \in 1..m |-> rows[i + k]]
    BY <2>1, <2>2
  <2>4. b \in [1..m -> Rows]
    BY <1>1, <2>2, <2>3
  <2>. QED
    BY <2>3, <2>4, FunctionIsSeq
<1>7. /\ t \in Seq(Rows) /\ Len(t) = l + m
      /\ \A k \in 1..l : t[k] = a[k]
      /\ \A k \in 1..m : t[l + k] = b[k]
  <2>1. a \in Seq(Rows) /\ b \in Seq(Rows) /\ Len(a) = l /\ Len(b) = m /\ t = a \o b
    BY <1>2, <1>5, <1>6
  <2>2. Joins(t, a, b)
    BY ONLY <2>1, Joined
  <2>. QED
    BY <2>1, <2>2 DEF Joins
\* Where each element of the rest was.
<1>8. PICK pos : pos = [k \in 1..(l + m) |-> IF k <= l THEN k ELSE k + 1]
  OBVIOUS
<1>9. ASSUME NEW k \in 1..(l + m) PROVE pos[k] \in 1..n /\ pos[k] # i /\ t[k] = rows[pos[k]]
  <2>1. CASE k <= l
    <3>1. k \in 1..l /\ pos[k] = k /\ k \in 1..n /\ k # i
      BY <1>1, <1>4, <1>8, <2>1
    <3>. QED
      BY <1>5, <1>7, <3>1
  <2>2. CASE ~(k <= l)
    <3>1. PICK j \in 1..m : k = l + j
      <4>1. k - l \in 1..m /\ k = l + (k - l)
        BY <2>2
      <4>. QED
        BY <4>1
    <3>2. pos[k] = i + j /\ i + j \in 1..n /\ i + j # i
      <4>1. pos[k] = (l + j) + 1
        BY <1>8, <2>2, <3>1
      <4>2. PICK h \in 1..n : h = i /\ l = h - 1 /\ m = n - h
        BY <1>1, <1>4
      <4>3. (l + j) + 1 = h + j /\ h + j \in 1..n /\ h + j # h
        <5>1. j \in 1..(n - h)
          BY ONLY <4>2, j \in 1..m, Zenon
        <5>2. ((h - 1) + j) + 1 = h + j /\ h + j \in 1..n /\ h + j # h
          BY ONLY <5>1, n \in Nat, h \in 1..n, Shifted, Zenon
        <5>. QED
          BY ONLY <4>2, <5>2, Zenon
      <4>. QED
        BY ONLY <4>1, <4>2, <4>3
    <3>. QED
      BY <1>6, <1>7, <3>1, <3>2
  <2>. QED
    BY <2>1, <2>2
<1>10. ASSUME NEW j \in 1..n, j # i PROVE \E k \in 1..(l + m) : t[k] = rows[j]
  <2>1. CASE j < i
    <3>1. j \in 1..(l + m) /\ pos[j] = j
      BY <1>1, <1>4, <1>8, <2>1
    <3>. QED
      BY <1>9, <3>1
  <2>2. CASE ~(j < i)
    <3>1. j - 1 \in 1..(l + m) /\ pos[j - 1] = j
      BY <1>1, <1>4, <1>8, <1>10, <2>2
    <3>. QED
      BY <1>9, <3>1
  <2>. QED
    BY <2>1, <2>2
<1>11. DOMAIN t = 1..(l + m)
  BY <1>7
<1>12. Unlike(keyed, t)
  <2> SUFFICES ASSUME NEW k \in 1..(l + m), NEW j \in 1..(l + m),
                      t[k].no = t[j].no \/ (keyed /\ t[k].id = t[j].id)
               PROVE  k = j
    BY <1>11 DEF Unlike
  <2>1. pos[k] \in 1..n /\ pos[j] \in 1..n /\ t[k] = rows[pos[k]] /\ t[j] = rows[pos[j]]
    BY <1>9
  <2>2. pos[k] = pos[j]
    BY <1>1, <2>1 DEF Unlike
  <2>. QED
    BY <1>8, <2>2
<1>13. ToSet(t) = ToSet(rows) \ {rows[i]}
  <2>1. ASSUME NEW x \in ToSet(t) PROVE x \in ToSet(rows) \ {rows[i]}
    <3>1. PICK k \in 1..(l + m) : t[k] = x
      BY <1>11, <2>1 DEF ToSet
    <3>2. PICK j \in 1..n : j # i /\ x = rows[j]
      BY <1>9, <3>1
    <3>3. rows[j] # rows[i]
      BY <1>1, <3>2 DEF Unlike
    <3>. QED
      BY <1>1, <3>2, <3>3 DEF ToSet
  <2>2. ASSUME NEW x \in ToSet(rows) \ {rows[i]} PROVE x \in ToSet(t)
    <3>1. PICK j \in 1..n : j # i /\ x = rows[j]
      BY <1>1, <2>2 DEF ToSet
    <3>2. PICK k \in 1..(l + m) : t[k] = x
      BY <1>10, <3>1
    <3>. QED
      BY <1>11, <3>2 DEF ToSet
  <2>. QED
    BY <2>1, <2>2
<1>14. rows[i] \in ToSet(rows)
  BY <1>1 DEF ToSet
<1>. QED
  BY <1>3, <1>7, <1>12, <1>13, <1>14

LEMMA Deleted ==
    ASSUME PagingInv, NEW i \in DOMAIN collection.rows, DeleteRow(i)
    PROVE  PagingInv'
<1>1. Walking /\ ~InMemory /\ collection.kind # "memory" /\ edits < MaxEdits
  BY DEF DeleteRow, Walking, InMemory
<1>2. /\ matched \in Nat /\ edits \in 0..MaxEdits /\ seen \in Seq(Rows) /\ found = NoAnswer
      /\ Table(collection) /\ IsWalk(walk) /\ walk.start \in Int /\ walk.offset \in Int
      /\ walk.start <= walk.offset
  BY <1>1, UnderWay
<1>3. /\ steady \subseteq ToSet(collection.rows)
      /\ ToSet(collection.rows) \subseteq steady \cup Newcomers
  BY <1>1 DEF PagingInv, RowsKnown
<1>4. /\ collection' = [collection EXCEPT !.rows = RemoveAt(@, i)] /\ edits' = edits + 1
      /\ steady' = steady \ {collection.rows[i]}
      /\ engine' = engine /\ walk' = walk /\ stage' = stage /\ matched' = matched /\ seen' = seen
      /\ found' = found
  BY DEF DeleteRow
<1>5. /\ collection \in [kind : {"memory", "postgis", "mysql"}, keyed : BOOLEAN, rows : Seq(Rows)]
      /\ Unlike(collection.keyed, collection.rows)
  BY <1>1, <1>2 DEF Table
<1>6. MaxEdits \in Nat
  BY PagingAssumption
<1>7. PICK rows, r, less : rows \in Seq(Rows) /\ rows = collection.rows /\ r = rows[i] /\ less = RemoveAt(rows, i)
  BY <1>5
<1>8. /\ less \in Seq(Rows) /\ Unlike(collection.keyed, less)
      /\ ToSet(less) = ToSet(rows) \ {r} /\ r \in ToSet(rows)
  <2>1. Unlike(collection.keyed, rows) /\ collection.keyed \in BOOLEAN /\ i \in DOMAIN rows
    BY <1>5, <1>7
  <2>. QED
    BY <1>7, <2>1, Removed
<1>9. /\ collection'.kind = collection.kind /\ collection'.keyed = collection.keyed /\ collection'.rows = less
      /\ collection' \in [kind : {"memory", "postgis", "mysql"}, keyed : BOOLEAN, rows : Seq(Rows)]
      /\ steady' = steady \ {r}
  BY <1>4, <1>5, <1>7, <1>8
<1>10. Table(collection') /\ ~InMemory' /\ Walking'
  BY <1>1, <1>4, <1>8, <1>9 DEF Table, InMemory, Walking
<1>11. PagingShape'
  BY <1>1, <1>2, <1>4, <1>6, <1>10 DEF PagingShape, Walking
<1>12. RowsKnown'
  <2>1. edits' # 0
    BY <1>2, <1>4
  <2>. QED
    BY <1>3, <1>7, <1>8, <1>9, <1>10, <2>1 DEF RowsKnown
<1>13. Undisturbed'
  <2>1. edits' # 0
    BY <1>2, <1>4
  <2>. QED
    BY <2>1 DEF Undisturbed
<1>14. Drift'
  <2> SUFFICES ASSUME collection'.keyed, walk'.start >= 0
               PROVE  Drifted(Now', steady', seen', walk', edits', Uncounted(Now)')
    BY DEF Drift
  <2>1. PICK S, T : S = Now /\ T = Now'
    OBVIOUS
  <2>2. collection.keyed /\ walk.start >= 0
    BY <1>4, <1>9
  <2>3. Drifted(S, steady, seen, walk, edits, Uncounted(S))
    BY <1>1, <2>1, <2>2 DEF PagingInv, Drift
  <2>4. S = {x \in ToSet(rows) : Asks(collection.kind, walk.bbox, x)} /\ Keyed(S)
    BY <1>1, <1>2, <1>7, <2>1, <2>2, SelectedFacts DEF Now
  <2>5. T = {x \in ToSet(less) : Asks(collection.kind, walk.bbox, x)} /\ Keyed(T)
    <3>1. T = ToSet(Selected(collection', walk))
      BY <1>4, <2>1 DEF Now
    <3>. QED
      BY <1>1, <1>9, <1>10, <2>2, <3>1, SelectedFacts
  <2>6. IsFiniteSet(S) /\ IsFiniteSet(T) /\ Cardinality(S) \in Nat /\ Cardinality(T) \in Nat
    BY <2>4, <2>5, FS_CardinalityType DEF Keyed
  <2>7. /\ Uncounted(T)' = Uncounted(T) /\ steady' = steady \ {r} /\ seen' = seen /\ walk' = walk
        /\ edits' = edits + 1
    BY <1>4, <1>9 DEF Uncounted
  <2>8. edits \in Nat /\ walk.offset \in Nat
    BY <1>2, <2>2
  <2>9. CASE Asks(collection.kind, walk.bbox, r)
    <3>1. S = T \cup {r} /\ r \notin T
      BY <1>8, <2>4, <2>5, <2>9
    <3>2. Cardinality(T) <= Cardinality(S)
      BY <2>6, <3>1, FS_Subset
    <3>3. Uncounted(S) \in Nat /\ Uncounted(T) \in Nat /\ Uncounted(T) <= Uncounted(S)
      BY <1>2, <2>6, <3>2, Uncounts
    <3>4. /\ ToCome(T, ToSet(seen), walk.offset) \subseteq ToCome(S, ToSet(seen), walk.offset)
          /\ Cardinality(PassedBy(T, steady \ {r}, ToSet(seen), walk.offset)) \in Nat
          /\ Cardinality(PassedBy(S, steady, ToSet(seen), walk.offset)) \in Nat
          /\ Cardinality(PassedBy(T, steady \ {r}, ToSet(seen), walk.offset))
               <= Cardinality(PassedBy(S, steady, ToSet(seen), walk.offset)) + 1
      BY <2>4, <2>8, <3>1, RowLeaves
    <3>5. PICK A, B : A = ToCome(S, ToSet(seen), walk.offset) /\ B = ToCome(T, ToSet(seen), walk.offset)
      OBVIOUS
    <3>6. IsFiniteSet(A)
      <4>1. A \subseteq S
        BY <3>5 DEF ToCome
      <4>. QED
        BY <2>6, <4>1, FS_Subset
    <3>7. IsFiniteSet(B) /\ Cardinality(B) <= Cardinality(A) /\ Cardinality(A) \in Nat
      BY <3>4, <3>5, <3>6, FS_Subset, FS_CardinalityType
    <3>8. Cardinality(B) \in Nat
      BY <3>7, FS_CardinalityType
    <3>9. Cardinality(B) <= Cardinality(A) + 1
      BY <3>7, <3>8
    <3>10. Cardinality(PassedBy(T, steady \ {r}, ToSet(seen), walk.offset)) + Uncounted(T)
              <= Cardinality(PassedBy(S, steady, ToSet(seen), walk.offset)) + Uncounted(S) + 1
      BY <3>3, <3>4
    <3>11. Drifted(T, steady \ {r}, seen, walk, edits + 1, Uncounted(T))
      BY <1>2, <2>3, <2>6, <2>8, <3>3, <3>5, <3>9, <3>10, DriftEdit
    <3>. QED
      BY <2>1, <2>7, <3>11
  <2>10. CASE ~Asks(collection.kind, walk.bbox, r)
    <3>1. T = S /\ r \notin S
      BY <1>8, <2>4, <2>5, <2>10
    <3>2. Uncounted(S) \in Nat
      BY <1>2, <2>6, Uncounts
    <3>3. Drifted(S, steady, seen, walk, edits + 1, Uncounted(S))
      BY <1>2, <2>3, <2>6, <2>8, <3>2, DriftLater
    <3>4. PassedBy(S, steady \ {r}, ToSet(seen), walk.offset) = PassedBy(S, steady, ToSet(seen), walk.offset)
      BY <3>1 DEF PassedBy
    <3>5. Drifted(S, steady \ {r}, seen, walk, edits + 1, Uncounted(S))
      BY <3>3, <3>4 DEF Drifted
    <3>. QED
      BY <2>1, <2>7, <3>1, <3>5
  <2>. QED
    BY <2>9, <2>10
<1>15. CollectionExact'
  BY <1>2, <1>4, <1>10, PromisingNext DEF Walking
<1>. QED
  BY <1>11, <1>12, <1>13, <1>14, <1>15 DEF PagingInv
-----------------------------------------------------------------------------
(* One feature, or one tile.                                               *)

\* An answer leaves everything else as it was.
LEMMA AnswerGiven ==
    ASSUME PagingInv, stage = "idle", stage' = "answered", ItemsFit', TilesFull',
           UNCHANGED <<collection, engine, walk, matched, seen, edits, steady>>
    PROVE  PagingInv'
<1>1. /\ collection' = collection /\ engine' = engine /\ walk' = walk /\ matched' = matched
      /\ seen' = seen /\ edits' = edits
  OBVIOUS
<1>2. /\ matched \in Nat /\ edits \in 0..MaxEdits /\ seen \in Seq(Rows) /\ walk = <<>>
      /\ Table(collection) /\ (InMemory => engine = Engine(collection.rows) /\ engine # <<>>)
  BY DEF PagingInv, PagingShape
<1>3. PagingShape'
  BY <1>1, <1>2 DEF PagingShape, InMemory
<1>4. RowsKnown' /\ Undisturbed' /\ Drift'
  BY DEF RowsKnown, Undisturbed, Drift, Walking
<1>5. CollectionExact'
  BY DEF CollectionExact, PagesComplete, PagesFail
<1>. QED
  BY <1>3, <1>4, <1>5 DEF PagingInv

\* The index of the engine leads to the id, or to nothing where no feature has it.
LEMMA ByIDFacts ==
    ASSUME NEW e, e.features \in Seq(Rows), NEW id
    PROVE  IF ByID(e, id) = 0 THEN \A i \in DOMAIN e.features : e.features[i].id # id
           ELSE ByID(e, id) \in DOMAIN e.features /\ e.features[ByID(e, id)].id = id
<1>1. PICK is : is = {i \in DOMAIN e.features : e.features[i].id = id}
  OBVIOUS
<1>2. ByID(e, id) = IF is = {} THEN 0 ELSE CHOOSE i \in is : \A j \in is : i <= j
  BY <1>1 DEF ByID
<1>3. is \subseteq Nat /\ 0 \notin is
  BY <1>1
<1>4. CASE is = {}
  BY <1>1, <1>2, <1>4
<1>5. CASE is # {}
  <2>1. \E i \in is : \A j \in is : i <= j
    BY <1>3, <1>5, SmallestNat
  <2>2. ByID(e, id) \in is
    BY <1>2, <1>5, <2>1
  <2>. QED
    BY <1>1, <1>3, <2>2
<1>. QED
  BY <1>4, <1>5

LEMMA ItemGot ==
    ASSUME PagingInv, stage = "idle", NEW id \in Ids, GetItem(id)
    PROVE  PagingInv'
<1>1. /\ stage' = "answered" /\ collection' = collection /\ engine' = engine
      /\ UNCHANGED <<collection, engine, walk, matched, seen, edits, steady>>
      /\ found' = CASE collection.kind = "memory" -> MemoryItem(id)
                    [] collection.kind = "postgis" -> PostGISItem(id)
                    [] collection.kind = "mysql" -> MySQLItem(id)
  BY DEF GetItem
<1>2. Table(collection) /\ (InMemory => engine = Engine(collection.rows) /\ engine # <<>>)
  BY DEF PagingInv, PagingShape
<1>3. PICK rows \in Seq(Rows) : rows = collection.rows /\ Unlike(collection.keyed /\ collection.kind # "memory", rows)
  BY <1>2 DEF Table
<1>4. collection.kind \in {"memory", "postgis", "mysql"}
  BY <1>2 DEF Table
<1>5. RowsOf(id) = {r \in ToSet(rows) : r.id = id}
  BY <1>3 DEF RowsOf
<1>6. \A i \in DOMAIN rows : rows[i] \in ToSet(rows)
  BY DEF ToSet
<1>7. \A r \in ToSet(rows) : \E i \in DOMAIN rows : r = rows[i]
  BY DEF ToSet
<1>8. found'.what = "item" /\ ItemsFit'
  <2>1. CASE collection.kind = "memory"
    <3>1. found' = MemoryItem(id)
      BY <1>1, <2>1
    <3>2. engine.features \in Seq(Rows)
      <4>1. engine = Engine(rows) /\ engine # <<>>
        BY <1>2, <1>3, <2>1 DEF InMemory
      <4>2. Unlike(FALSE, rows)
        BY <1>3, <2>1
      <4>3. EngineOf(engine, rows)
        BY <4>1, <4>2, EngineFacts
      <4>. QED
        BY <4>3 DEF EngineOf
    <3>3. CASE ByID(engine, id) = 0
      <4>1. found' = [what |-> "item", id |-> id, status |-> "404"]
        BY <3>1, <3>3 DEF MemoryItem, Miss
      <4>2. \A i \in DOMAIN engine.features : engine.features[i].id # id
        BY <3>2, <3>3, ByIDFacts
      <4>. QED
        BY <1>1, <2>1, <4>1, <4>2 DEF ItemsFit
    <3>4. CASE ByID(engine, id) # 0
      <4>1. PICK r : r = engine.features[ByID(engine, id)]
        OBVIOUS
      <4>2. found' = [what |-> "item", id |-> id, status |-> "200", row |-> r]
        BY <3>1, <3>4, <4>1 DEF MemoryItem, Hit
      <4>3. r.id = id
        BY <3>2, <3>4, <4>1, ByIDFacts
      <4>. QED
        BY <4>2, <4>3 DEF ItemsFit
    <3>. QED
      BY <3>3, <3>4
  <2>2. CASE collection.kind = "postgis"
    <3>1. found' = PostGISItem(id)
      BY <1>1, <2>2
    <3>2. CASE ~collection.keyed
      <4>1. found' = [what |-> "item", id |-> id, status |-> "500"]
        BY <3>1, <3>2 DEF PostGISItem, Miss
      <4>. QED
        BY <1>1, <2>2, <3>2, <4>1 DEF ItemsFit
    <3>3. CASE collection.keyed /\ RowsOf(id) = {}
      <4>1. found' = [what |-> "item", id |-> id, status |-> "404"]
        BY <3>1, <3>3 DEF PostGISItem, Miss
      <4>2. \A i \in DOMAIN rows : rows[i].id # id
        BY <1>5, <1>6, <3>3
      <4>. QED
        BY <1>1, <1>3, <2>2, <4>1, <4>2 DEF ItemsFit
    <3>4. CASE collection.keyed /\ RowsOf(id) # {}
      <4>1. PICK r : r = CHOOSE s \in RowsOf(id) : TRUE
        OBVIOUS
      <4>2. r \in RowsOf(id)
        BY <3>4, <4>1
      <4>3. PICK j \in DOMAIN rows : r = rows[j] /\ r.id = id
        BY <1>5, <1>7, <4>2
      <4>4. \A i \in DOMAIN rows : rows[i].id = id => rows[i] = r
        BY <1>3, <2>2, <3>4, <4>3 DEF Unlike
      <4>5. found' = IF r.box = <<>> THEN Miss(id, "500") ELSE Hit(id, r)
        BY <3>1, <3>4, <4>1 DEF PostGISItem
      <4>6. CASE r.box = <<>>
        <5>1. found' = [what |-> "item", id |-> id, status |-> "500"]
          BY <4>5, <4>6 DEF Miss
        <5>. QED
          BY <1>1, <1>3, <2>2, <4>4, <4>6, <5>1 DEF ItemsFit
      <4>7. CASE r.box # <<>>
        <5>1. found' = [what |-> "item", id |-> id, status |-> "200", row |-> r]
          BY <4>5, <4>7 DEF Hit
        <5>. QED
          BY <4>3, <5>1 DEF ItemsFit
      <4>. QED
        BY <4>6, <4>7
    <3>. QED
      BY <3>2, <3>3, <3>4
  <2>3. CASE collection.kind = "mysql"
    <3>1. found' = MySQLItem(id)
      BY <1>1, <2>3
    <3>2. PICK rs : rs = {r \in RowsOf(id) : r.box # <<>>}
      OBVIOUS
    <3>3. found' = IF ~collection.keyed THEN Miss(id, "500")
                   ELSE IF rs = {} THEN Miss(id, "404") ELSE Hit(id, CHOOSE r \in rs : TRUE)
      BY <3>1, <3>2 DEF MySQLItem
    <3>4. CASE ~collection.keyed
      <4>1. found' = [what |-> "item", id |-> id, status |-> "500"]
        BY <3>3, <3>4 DEF Miss
      <4>. QED
        BY <1>1, <2>3, <3>4, <4>1 DEF ItemsFit
    <3>5. CASE collection.keyed /\ rs = {}
      <4>1. found' = [what |-> "item", id |-> id, status |-> "404"]
        BY <3>3, <3>5 DEF Miss
      <4>2. \A i \in DOMAIN rows : rows[i].id = id => rows[i].box = <<>>
        BY <1>5, <1>6, <3>2, <3>5
      <4>. QED
        BY <1>1, <1>3, <2>3, <4>1, <4>2 DEF ItemsFit
    <3>6. CASE collection.keyed /\ rs # {}
      <4>1. PICK r : r = CHOOSE s \in rs : TRUE
        OBVIOUS
      <4>2. r \in rs
        BY <3>6, <4>1
      <4>3. found' = [what |-> "item", id |-> id, status |-> "200", row |-> r]
        BY <3>3, <3>6, <4>1 DEF Hit
      <4>4. r.id = id
        BY <1>5, <3>2, <4>2
      <4>. QED
        BY <4>3, <4>4 DEF ItemsFit
    <3>. QED
      BY <3>4, <3>5, <3>6
  <2>. QED
    BY <1>4, <2>1, <2>2, <2>3
<1>9. TilesFull'
  BY <1>8 DEF TilesFull
<1>. QED
  BY <1>1, <1>8, <1>9, AnswerGiven

\* The answer for a tile holds every row it must.
AnswersTile(a, rows, kind, z, x, y) ==
    a.status = "200" =>
        \A i \in DOMAIN rows :
            \/ rows[i].box = <<>> \/ rows[i].no \in a.nos
            \/ ~Touch(rows[i].box, Bounds(z, x, y, 0))
            \/ kind = "mysql" /\ (rows[i].box[3] <= -World \/ rows[i].box[1] >= World)

LEMMA PostGISDraws ==
    ASSUME Table(collection), NEW rows, rows = collection.rows,
           NEW z \in Nat, NEW x \in 0..(Columns[z] - 1), NEW y \in 0..(Columns[z] - 1)
    PROVE  AnswersTile(PostGISTile(z, x, y), rows, "postgis", z, x, y)
<1>0. rows \in Seq(Rows)
  BY DEF Table
<1>1. PICK m \in Nat : m = (2 * World) \div (32 * Columns[z])
  BY Margins
<1>2. PICK b, t : b = Bounds(z, x, y, m) /\ t = Bounds(z, x, y, 0)
  OBVIOUS
<1>3. /\ IsBox(t) /\ IsBox(b)
      /\ b[1] <= t[1] /\ b[2] <= t[2] /\ t[3] <= b[3] /\ t[4] <= b[4]
  BY <1>2, TileBounds
<1>4. PICK nos : nos = {r.no : r \in {s \in ToSet(rows) : s.box # <<>> /\ Touch(s.box, b)}}
  OBVIOUS
<1>5. PostGISTile(z, x, y) = [status |-> "200", nos |-> nos]
  BY <1>1, <1>2, <1>4 DEF PostGISTile, Shown
<1>6. ASSUME NEW i \in DOMAIN rows, rows[i].box # <<>>, Touch(rows[i].box, t)
      PROVE  rows[i].no \in nos
  <2>1. IsBox(rows[i].box)
    BY <1>0, <1>6, RowFacts
  <2>2. Touch(rows[i].box, b)
    BY <1>3, <1>6, <2>1, WiderTouch
  <2>3. rows[i] \in ToSet(rows)
    BY DEF ToSet
  <2>. QED
    BY <1>4, <1>6, <2>2, <2>3
<1>. QED
  BY <1>2, <1>5, <1>6 DEF AnswersTile

LEMMA MemoryDraws ==
    ASSUME Table(collection), NEW rows, rows = collection.rows, engine = Engine(rows),
           NEW z \in Nat, NEW x \in 0..(Columns[z] - 1), NEW y \in 0..(Columns[z] - 1)
    PROVE  AnswersTile(Shown(Drawn(engine, z, x, y)), rows, "memory", z, x, y)
<1>1. PICK keyed \in BOOLEAN : rows \in Seq(Rows) /\ Unlike(keyed, rows)
  BY DEF Table
<1>2. ASSUME NEW i \in DOMAIN rows, rows[i].box # <<>>, Touch(rows[i].box, Bounds(z, x, y, 0))
      PROVE  rows[i].no \in Drawn(engine, z, x, y)
  BY <1>1, <1>2, DrawnFully
<1>. QED
  BY <1>2 DEF AnswersTile, Shown

LEMMA MySQLDraws ==
    ASSUME Table(collection), NEW rows, rows = collection.rows,
           NEW z \in Nat, NEW x \in 0..(Columns[z] - 1), NEW y \in 0..(Columns[z] - 1)
    PROVE  AnswersTile(MySQLTile(z, x, y), rows, "mysql", z, x, y)
<1>1. PICK keyed \in BOOLEAN : rows \in Seq(Rows) /\ Unlike(keyed, rows)
  BY DEF Table
<1>2. PICK m, b, t : m \in Nat /\ Buffered(z, x, y) = b /\ b = Bounds(z, x, y, m) /\ t = Bounds(z, x, y, 0)
  BY Margins DEF Buffered
<1>3. /\ IsBox(t) /\ IsBox(b)
      /\ b[1] <= t[1] /\ b[2] <= t[2] /\ t[3] <= b[3] /\ t[4] <= b[4] /\ t[2] >= -World /\ t[4] <= World
  BY <1>2, TileBounds
<1>4. PICK q : q = ClampWGS84(b)
  OBVIOUS
<1>5. PICK I : I = {i \in DOMAIN rows : rows[i].box # <<>> /\ (Wide(q) \/ MBRIntersects(rows[i].box, q))}
  OBVIOUS
<1>6. I \in SUBSET DOMAIN rows
  BY <1>5
<1>7. PICK near : near = Picked(rows, I)
  OBVIOUS
<1>8. /\ near \in Seq(Rows) /\ Unlike(FALSE, near)
      /\ ToSet(near) = {rows[i] : i \in I}
  BY <1>1, <1>6, <1>7, PickedUnlike, PickedRows
<1>9. MySQLTile(z, x, y) =
        IF Len(near) > TileCap THEN [status |-> "500", nos |-> {}]
        ELSE Shown(IF near = <<>> THEN {} ELSE Drawn(Engine(near), z, x, y))
  <2>1. Picked(rows, {i \in DOMAIN rows : rows[i].box # <<>> /\ (Wide(q) \/ MBRIntersects(rows[i].box, q))}) = near
    BY <1>5, <1>7
  <2>. QED
    BY ONLY <2>1, <1>2, <1>4, rows = collection.rows DEF MySQLTile
<1>10. ASSUME NEW i \in DOMAIN rows, rows[i].box # <<>>, Touch(rows[i].box, t),
              ~(rows[i].box[3] <= -World), ~(rows[i].box[1] >= World)
       PROVE  near # <<>> /\ rows[i].no \in Drawn(Engine(near), z, x, y)
  <2>1. IsBox(rows[i].box)
    BY <1>1, <1>10, RowFacts
  <2>2. Touch(rows[i].box, q)
    BY <1>3, <1>4, <1>10, <2>1, ClampedTouch
  <2>3. i \in I
    BY <1>5, <1>10, <2>2 DEF MBRIntersects
  <2>4. rows[i] \in ToSet(near)
    BY <1>8, <2>3
  <2>5. PICK k \in 1..Len(near) : near[k] = rows[i]
    BY <1>8, <2>4, FiniteToSet
  <2>6. k \in DOMAIN near /\ near # <<>>
    BY <1>8
  <2>7. near[k].box # <<>> /\ Touch(near[k].box, Bounds(z, x, y, 0))
    BY <1>2, <1>10, <2>5
  <2>8. near[k].no \in Drawn(Engine(near), z, x, y)
    BY <1>8, <2>6, <2>7, DrawnFully
  <2>. QED
    BY <2>5, <2>6, <2>8
<1>11. CASE Len(near) > TileCap
  BY <1>9, <1>11 DEF AnswersTile
<1>12. CASE ~(Len(near) > TileCap)
  <2>1. PICK nos : nos = IF near = <<>> THEN {} ELSE Drawn(Engine(near), z, x, y)
    OBVIOUS
  <2>2. MySQLTile(z, x, y) = [status |-> "200", nos |-> nos]
    BY <1>9, <1>12, <2>1 DEF Shown
  <2>. QED
    BY <1>2, <1>10, <2>1, <2>2 DEF AnswersTile
<1>. QED
  BY <1>11, <1>12

LEMMA TileGot ==
    ASSUME PagingInv, stage = "idle", NEW z \in Zooms, NEW x \in 0..(Columns[z] - 1), NEW y \in 0..(Columns[z] - 1),
           GetTile(z, x, y)
    PROVE  PagingInv'
<1>1. /\ stage' = "answered" /\ collection' = collection
      /\ UNCHANGED <<collection, engine, walk, matched, seen, edits, steady>>
  BY DEF GetTile
<1>2. PICK a : /\ a = CASE collection.kind = "memory" -> Shown(Drawn(engine, z, x, y))
                        [] collection.kind = "mysql" -> MySQLTile(z, x, y)
                        [] collection.kind = "postgis" -> PostGISTile(z, x, y)
               /\ found' = [what |-> "tile", at |-> <<z, x, y>>, answer |-> a]
  BY DEF GetTile
<1>3. Table(collection) /\ (InMemory => engine = Engine(collection.rows) /\ engine # <<>>)
  BY DEF PagingInv, PagingShape
<1>4. PICK rows : rows = collection.rows
  OBVIOUS
<1>5. collection.kind \in {"memory", "postgis", "mysql"}
  BY <1>3 DEF Table
<1>6. z \in Nat
  BY PagingAssumption
<1>7. AnswersTile(a, rows, collection.kind, z, x, y)
  <2>1. CASE collection.kind = "memory"
    <3>1. engine = Engine(rows)
      BY <1>3, <1>4, <2>1 DEF InMemory
    <3>2. AnswersTile(Shown(Drawn(engine, z, x, y)), rows, "memory", z, x, y)
      BY <1>3, <1>4, <1>6, <3>1, MemoryDraws
    <3>3. a = Shown(Drawn(engine, z, x, y))
      BY <1>2, <2>1
    <3>. QED
      BY <2>1, <3>2, <3>3
  <2>2. CASE collection.kind = "mysql"
    <3>1. a = MySQLTile(z, x, y)
      BY <1>2, <2>2
    <3>. QED
      BY <1>3, <1>4, <1>6, <2>2, <3>1, MySQLDraws
  <2>3. CASE collection.kind = "postgis"
    <3>1. a = PostGISTile(z, x, y)
      BY <1>2, <2>3
    <3>. QED
      BY <1>3, <1>4, <1>6, <2>3, <3>1, PostGISDraws
  <2>. QED
    BY <1>5, <2>1, <2>2, <2>3
<1>8. TilesFull'
  <2> SUFFICES ASSUME a.status = "200", NEW r \in ToSet(rows)
               PROVE  \/ r.box = <<>> \/ r.no \in a.nos
                      \/ ~Touch(r.box, Bounds(z, x, y, 0))
                      \/ collection.kind = "mysql" /\ (r.box[3] <= -World \/ r.box[1] >= World)
    BY <1>1, <1>2, <1>4 DEF TilesFull
  <2>1. PICK i \in DOMAIN rows : r = rows[i]
    BY DEF ToSet
  <2>. QED
    BY <1>7, <2>1 DEF AnswersTile
<1>9. ItemsFit'
  BY <1>2 DEF ItemsFit
<1>. QED
  BY <1>1, <1>8, <1>9, AnswerGiven

-----------------------------------------------------------------------------
(* The theorems.                                                           *)

LEMMA PagingSteps == PagingInv /\ [PagingNext]_pages => PagingInv'
<1> SUFFICES ASSUME PagingInv, [PagingNext]_pages PROVE PagingInv'
  OBVIOUS
<1>1. CASE stage = "none" /\ \E c \in Collections : OpenCollection(c)
  BY <1>1, Opens
<1>2. CASE /\ stage = "idle"
           /\ \E route \in {"ogc", "mcp"}, text \in Texts, l \in Limits, o \in Skips : AskItems(route, text, l, o)
  BY <1>2, Asked
<1>3. CASE ReadMemory
  BY <1>3, MemoryRead
<1>4. CASE CountRows
  BY <1>4, Counted
<1>5. CASE SelectRows
  BY <1>5, PageChosen
<1>6. CASE \E r \in Newcomers : InsertRow(r)
  BY <1>6, Inserted
<1>7. CASE stage \in {"count", "select"} /\ \E i \in DOMAIN collection.rows : DeleteRow(i)
  BY <1>7, Deleted
<1>8. CASE stage = "idle" /\ \E id \in Ids : GetItem(id)
  BY <1>8, ItemGot
<1>9. CASE /\ stage = "idle"
           /\ \E z \in Zooms : \E x \in 0..Columns[z] - 1, y \in 0..Columns[z] - 1 : GetTile(z, x, y)
  BY <1>9, TileGot
<1>10. CASE UNCHANGED pages
  <2>1. /\ collection' = collection /\ engine' = engine /\ walk' = walk /\ stage' = stage
        /\ matched' = matched /\ seen' = seen /\ edits' = edits /\ steady' = steady /\ found' = found
    BY <1>10 DEF pages
  <2>2. PagingShape' /\ RowsKnown'
    BY <2>1 DEF PagingInv, PagingShape, RowsKnown, InMemory, Walking
  <2>3. Now' = Now /\ Line' = Line /\ Hitting' = Hitting
    BY <2>1 DEF Now, Line, Hitting, InMemory
  <2>4. Undisturbed'
    BY <2>1, <2>3 DEF PagingInv, Undisturbed, Piece, InMemory, Walking
  <2>5. Drift'
    BY <2>1, <2>3 DEF PagingInv, Drift, Uncounted, InMemory, Walking
  <2>6. CollectionExact'
    BY <2>1 DEF PagingInv, CollectionExact, PagesComplete, PagesFail, ItemsFit, TilesFull
  <2>. QED
    BY <2>2, <2>4, <2>5, <2>6 DEF PagingInv
<1>. QED
  BY <1>1, <1>2, <1>3, <1>4, <1>5, <1>6, <1>7, <1>8, <1>9, <1>10 DEF PagingNext

LEMMA PagingHolds == PagingSpec => []PagingInv
<1>. QED
  BY StartsExact, PagingSteps, PTL DEF PagingSpec

\* What a request for features keeps has its type at every step.
THEOREM PagingTypeCorrect == PagingSpec => []PagingTypeOK
<1>1. PagingInv => PagingTypeOK
  BY DEF PagingInv, PagingShape, PagingTypeOK, IsWalk
<1>. QED
  BY <1>1, PagingHolds, PTL

\* Whatever the collection, the requests and the edits of its table between two
\* statements (Features, Feature and Tile of memengine.go, postgis.go and mysql.go, read
\* through features.go or the MCP server), a client is given the features it asked for.
THEOREM CollectionsAreExact == PagingSpec => []CollectionExact
<1>1. PagingInv => CollectionExact
  BY DEF PagingInv
<1>. QED
  BY <1>1, PagingHolds, PTL
=============================================================================
