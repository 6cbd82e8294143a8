-------------------------- MODULE AlgorithmProofs ---------------------------
(***************************************************************************)
(* Proofs about what runs over the source registry and the networks: runs  *)
(* of algorithms (AlgorithmRuns), clustering (Clustering) and map matching *)
(* (MapMatch), each for every value of its constants.                      *)
(***************************************************************************)
EXTENDS AlgorithmRuns, MapMatch, Clustering, NetworkProofs

-----------------------------------------------------------------------------
(* Runs over a network of which there is one graph.                        *)

\* The steps of a build.
Building == {"lookup", "load", "build", "record"}

\* Whoever holds the mutex builds, and only he does.
LockInv == \A q \in Runs : pc[q] \in Building <=> mu = q

\* He builds a network of which nothing is known yet.
BuilderInv ==
    \A q \in Runs : pc[q] \in Building =>
        /\ net[q] \in Networks
        /\ graphs[net[q]] = 0 /\ errs[net[q]] = "none"

\* What a run has loaded, what it searches, and why its build failed.
RunInv ==
    \A q \in Runs :
        /\ pc[q] = "build" => got[q] # 0
        /\ pc[q] = "search" => net[q] \in Networks /\ got[q] # 0
        /\ pc[q] = "record" =>
              /\ why[q] \in {"missing", "failed", "cancelled"}
              /\ why[q] = "cancelled" => ended[q]

\* A network has a graph or a failure, not both.
OneVerdict == \A n \in Networks : graphs[n] = 0 \/ errs[n] = "none"

IInv ==
    /\ TypeOK /\ LockInv /\ BuilderInv /\ RunInv
    /\ OneVerdict /\ NotPoisoned /\ OneGraph

USE DEF Building, Whys, Outcomes

-----------------------------------------------------------------------------
(* The operators several actions share.                                    *)

\* A run that ends keeps the types and is idle.
LEMMA EndIdles ==
    ASSUME TypeOK, NEW q \in Runs, NEW o \in Outcomes, NEW w \in Whys, End(q, o, w)
    PROVE  /\ pc' = [pc EXCEPT ![q] = "idle"]
           /\ pc' \in [Runs -> {"idle", "lock", "lookup", "load", "build", "record", "search"}]
           /\ net' = [net EXCEPT ![q] = Unknown] /\ net' \in [Runs -> Networks \cup {Unknown}]
           /\ ended' = [ended EXCEPT ![q] = FALSE] /\ ended' \in [Runs -> BOOLEAN]
           /\ got' = [got EXCEPT ![q] = 0] /\ got' \in [Runs -> 0..MaxRev]
           /\ why' = [why EXCEPT ![q] = "none"] /\ why' \in [Runs -> Whys]
           /\ result' \in [outcome : Outcomes, why : Whys]
BY ConstantsAssumption DEF TypeOK, End

\* A build that gives up is recorded next.
LEMMA FailRecords ==
    ASSUME TypeOK, NEW q \in Runs, NEW w \in Whys, Fail(q, w)
    PROVE  /\ pc' = [pc EXCEPT ![q] = "record"]
           /\ pc' \in [Runs -> {"idle", "lock", "lookup", "load", "build", "record", "search"}]
           /\ why' = [why EXCEPT ![q] = w] /\ why' \in [Runs -> Whys]
           /\ net' = net /\ ended' = ended /\ got' = got
BY DEF TypeOK, Fail, Goto

-----------------------------------------------------------------------------
(* The invariant.                                                          *)

LEMMA InitIInv == Init => IInv
BY ConstantsAssumption
   DEF Init, IInv, TypeOK, LockInv, BuilderInv, RunInv, OneVerdict, NotPoisoned, OneGraph

\* Steps of one run, one lemma each.
LEMMA StartIInv ==
    ASSUME IInv, NEW q \in Runs, NEW n \in Networks \cup {Unknown}, Start(q, n)
    PROVE  IInv'
BY ConstantsAssumption
   DEF IInv, TypeOK, LockInv, BuilderInv, RunInv, OneVerdict, NotPoisoned, OneGraph,
       Start, Goto, manager

LEMMA CancelIInv ==
    ASSUME IInv, NEW q \in Runs, Cancel(q)
    PROVE  IInv'
BY ConstantsAssumption
   DEF IInv, TypeOK, LockInv, BuilderInv, RunInv, OneVerdict, NotPoisoned, OneGraph,
       Cancel, manager

LEMMA SourceIInv ==
    ASSUME IInv, NEW n \in Networks, SourceChanges(n)
    PROVE  IInv'
<1>1. last' \in 0..MaxRev /\ rev' \in [Networks -> 0..MaxRev]
    BY ConstantsAssumption DEF IInv, TypeOK, SourceChanges
<1> QED
    BY <1>1 DEF IInv, TypeOK, LockInv, BuilderInv, RunInv, OneVerdict, NotPoisoned, OneGraph,
                SourceChanges, manager, run

LEMMA GraphKnownIInv ==
    ASSUME IInv, NEW q \in Runs, GraphKnown(q)
    PROVE  IInv'
BY ConstantsAssumption
   DEF IInv, TypeOK, LockInv, BuilderInv, RunInv, OneVerdict, NotPoisoned, OneGraph,
       GraphKnown, Goto, manager

\* A run that is not building ends.
LEMMA EndIInv ==
    ASSUME IInv, NEW q \in Runs, NEW o \in Outcomes, NEW w \in Whys, End(q, o, w),
           pc[q] \notin Building, UNCHANGED <<rev, last, manager>>
    PROVE  IInv'
<1>1. TypeOK' /\ pc' = [pc EXCEPT ![q] = "idle"] /\ net' = [net EXCEPT ![q] = Unknown]
              /\ ended' = [ended EXCEPT ![q] = FALSE] /\ got' = [got EXCEPT ![q] = 0]
              /\ why' = [why EXCEPT ![q] = "none"]
    BY EndIdles DEF IInv, TypeOK, LockInv, manager
<1> QED
    BY <1>1 DEF IInv, TypeOK, LockInv, BuilderInv, RunInv, OneVerdict, NotPoisoned, OneGraph,
                manager

LEMMA ErrorKnownIInv ==
    ASSUME IInv, NEW q \in Runs, ErrorKnown(q)
    PROVE  IInv'
<1>1. PICK w \in Whys : End(q, "rejected", w)
    BY DEF ErrorKnown, Reject, IInv, TypeOK
<1> QED
    BY <1>1, EndIInv DEF ErrorKnown, IInv, TypeOK

LEMMA SearchIInv ==
    ASSUME IInv, NEW q \in Runs, Search(q)
    PROVE  IInv'
<1>1. PICK o \in Outcomes, w \in Whys : End(q, o, w)
    BY DEF Search, Reject
<1> QED
    BY <1>1, EndIInv DEF Search

LEMMA LockIInv ==
    ASSUME IInv, NEW q \in Runs, Lock(q)
    PROVE  IInv'
BY ConstantsAssumption
   DEF IInv, TypeOK, LockInv, BuilderInv, RunInv, OneVerdict, NotPoisoned, OneGraph,
       Lock, Goto

\* The builder gives up.
LEMMA FailIInv ==
    ASSUME IInv, NEW q \in Runs, pc[q] \in {"lookup", "load", "build"},
           NEW w \in {"missing", "failed", "cancelled"}, w = "cancelled" => ended[q],
           Fail(q, w), UNCHANGED <<rev, last, manager, result>>
    PROVE  IInv'
<1>1. TypeOK' /\ pc' = [pc EXCEPT ![q] = "record"] /\ why' = [why EXCEPT ![q] = w]
              /\ net' = net /\ ended' = ended /\ got' = got
    BY FailRecords DEF IInv, TypeOK, manager
<1> QED
    BY <1>1 DEF IInv, TypeOK, LockInv, BuilderInv, RunInv, OneVerdict, NotPoisoned, OneGraph,
                manager

LEMMA LookupIInv ==
    ASSUME IInv, NEW q \in Runs, Lookup(q)
    PROVE  IInv'
<1>1. CASE rev[net[q]] = 0
    BY <1>1, FailIInv DEF Lookup
<1>2. CASE rev[net[q]] # 0
    BY <1>2, ConstantsAssumption
       DEF IInv, TypeOK, LockInv, BuilderInv, RunInv, OneVerdict, NotPoisoned, OneGraph,
           Lookup, Goto, manager
<1> QED BY <1>1, <1>2

LEMMA LoadIInv ==
    ASSUME IInv, NEW q \in Runs, Load(q)
    PROVE  IInv'
<1>1. ASSUME NEW r \in 1..last, got' = [got EXCEPT ![q] = r], Goto(q, "build"),
             UNCHANGED <<net, ended, why>>
      PROVE  IInv'
    <2>1. r \in 0..MaxRev /\ r # 0
        BY ConstantsAssumption DEF IInv, TypeOK
    <2> QED
        BY <1>1, <2>1, ConstantsAssumption
           DEF IInv, TypeOK, LockInv, BuilderInv, RunInv, OneVerdict, NotPoisoned, OneGraph,
               Load, Goto, manager
<1>2. CASE Fail(q, "failed")
    BY <1>2, FailIInv DEF Load
<1>3. CASE ended[q] /\ Fail(q, "cancelled")
    BY <1>3, FailIInv DEF Load
<1> QED BY <1>1, <1>2, <1>3 DEF Load

LEMMA BuildFailsIInv ==
    ASSUME IInv, NEW q \in Runs, BuildFails(q)
    PROVE  IInv'
<1>1. CASE Fail(q, "failed")
    BY <1>1, FailIInv DEF BuildFails
<1>2. CASE ended[q] /\ Fail(q, "cancelled")
    BY <1>2, FailIInv DEF BuildFails
<1> QED BY <1>1, <1>2 DEF BuildFails

LEMMA BuiltIInv ==
    ASSUME IInv, NEW q \in Runs, Built(q)
    PROVE  IInv'
<1>1. /\ pc[q] = "build" /\ mu = q /\ net[q] \in Networks /\ got[q] # 0
      /\ graphs[net[q]] = 0 /\ errs[net[q]] = "none"
    BY DEF IInv, LockInv, BuilderInv, RunInv, Built
<1>2. TypeOK'
    BY <1>1, ConstantsAssumption DEF IInv, TypeOK, Built, Goto
<1>3. LockInv' /\ BuilderInv'
    BY <1>1, ConstantsAssumption DEF IInv, TypeOK, LockInv, BuilderInv, Built, Goto
<1>4. /\ pc' = [pc EXCEPT ![q] = "search"] /\ UNCHANGED <<errs, net, ended, got, why>>
      /\ graphs' = [graphs EXCEPT ![net[q]] = got[q]]
      /\ pc \in [Runs -> {"idle", "lock", "lookup", "load", "build", "record", "search"}]
      /\ graphs \in [Networks -> 0..MaxRev]
    BY DEF IInv, TypeOK, Built, Goto
<1>5. RunInv'
    BY <1>1, <1>4 DEF IInv, RunInv
<1>6. OneVerdict' /\ NotPoisoned'
    BY <1>1, <1>4 DEF IInv, OneVerdict, NotPoisoned
<1>7. OneGraph'
    <2> SUFFICES ASSUME NEW p \in Runs, pc'[p] = "search"
                 PROVE  got[p] = graphs'[net[p]]
        BY <1>4 DEF OneGraph
    <2>1. CASE p = q
        BY <2>1, <1>1, <1>4
    <2>2. CASE p # q
        \* A run that searches the network already would have a graph of it.
        <3>1. pc[p] = "search" /\ got[p] = graphs[net[p]] /\ got[p] # 0 /\ net[p] \in Networks
            BY <2>2, <1>4 DEF IInv, RunInv, OneGraph
        <3>2. net[p] # net[q]
            BY <3>1, <1>1
        <3> QED BY <3>1, <3>2, <1>1, <1>4
    <2> QED BY <2>1, <2>2
<1> QED BY <1>2, <1>3, <1>5, <1>6, <1>7 DEF IInv

LEMMA RecordIInv ==
    ASSUME IInv, NEW q \in Runs, Record(q)
    PROVE  IInv'
<1>1. /\ pc[q] = "record" /\ mu = q /\ net[q] \in Networks
      /\ graphs[net[q]] = 0 /\ errs[net[q]] = "none"
      /\ why[q] \in {"missing", "failed", "cancelled"}
      /\ why[q] = "cancelled" => ended[q]
    BY DEF IInv, LockInv, BuilderInv, RunInv, Record
<1>2. /\ pc' = [pc EXCEPT ![q] = "idle"] /\ net' = [net EXCEPT ![q] = Unknown]
      /\ ended' = [ended EXCEPT ![q] = FALSE] /\ got' = [got EXCEPT ![q] = 0]
      /\ why' = [why EXCEPT ![q] = "none"] /\ mu' = None
    BY DEF Record, Reject, End
<1>3. errs' \in [Networks -> Whys] /\ result' \in [outcome : Outcomes, why : Whys]
    BY <1>1 DEF IInv, TypeOK, Record, Reject, End
<1>4. TypeOK'
    BY <1>2, <1>3, ConstantsAssumption DEF IInv, TypeOK, Record
<1>5. LockInv' /\ BuilderInv'
    BY <1>1, <1>2, ConstantsAssumption DEF IInv, TypeOK, LockInv, BuilderInv, Record
<1>6. RunInv' /\ OneGraph'
    BY <1>2 DEF IInv, TypeOK, RunInv, OneGraph, Record
<1>7. OneVerdict' /\ NotPoisoned'
    BY <1>1 DEF IInv, TypeOK, OneVerdict, NotPoisoned, Record
<1> QED BY <1>4, <1>5, <1>6, <1>7 DEF IInv

\* Every step keeps the invariant.
LEMMA NextIInv == IInv /\ [Next]_vars => IInv'
<1> SUFFICES ASSUME IInv, [Next]_vars PROVE IInv'
    OBVIOUS
<1>1. ASSUME NEW q \in Runs, NEW n \in Networks \cup {Unknown}, Start(q, n) PROVE IInv'
    BY <1>1, StartIInv
<1>2. ASSUME NEW q \in Runs, Cancel(q) PROVE IInv'
    BY <1>2, CancelIInv
<1>3. ASSUME NEW q \in Runs, Step(q) PROVE IInv'
    BY <1>3, GraphKnownIInv, ErrorKnownIInv, LockIInv, LookupIInv, LoadIInv,
       BuildFailsIInv, BuiltIInv, RecordIInv, SearchIInv DEF Step
<1>4. ASSUME NEW n \in Networks, SourceChanges(n) PROVE IInv'
    BY <1>4, SourceIInv
<1>5. CASE UNCHANGED vars
    BY <1>5 DEF IInv, TypeOK, LockInv, BuilderInv, RunInv, OneVerdict, NotPoisoned, OneGraph,
                vars, manager, run
<1> QED BY <1>1, <1>2, <1>3, <1>4, <1>5 DEF Next

\* The invariant behind the other theorems: Manager.Graph keeps its mutex from the
\* look into its maps to the end of the build, so that nothing is known of a
\* network while it is built.
THEOREM Inductive == Spec => []IInv
BY InitIInv, NextIInv, PTL DEF Spec

\* Every variable keeps its type, and a run that is idle never holds the mutex.
THEOREM TypeCorrect == Spec => []TypeOK
<1>1. IInv => TypeOK
    BY DEF IInv
<1> QED BY <1>1, Inductive, PTL

\* All runs on a network search the one graph that Manager.Graph keeps of it,
\* however many asked for it before it was built.
THEOREM OneGraphForAll == Spec => []OneGraph
<1>1. IInv => OneGraph
    BY DEF IInv
<1> QED BY <1>1, Inductive, PTL

\* A caller that gave up never costs the network: Manager.Graph remembers no error
\* of a context.
THEOREM NeverPoisoned == Spec => []NotPoisoned
<1>1. IInv => NotPoisoned
    BY DEF IInv
<1> QED BY <1>1, Inductive, PTL

-----------------------------------------------------------------------------
(* What is known of a network never changes.                               *)

SettledStep ==
    \A n \in Networks :
        /\ graphs[n] # 0 => graphs'[n] = graphs[n] /\ errs'[n] = "none"
        /\ errs[n] # "none" => errs'[n] = errs[n] /\ graphs'[n] = 0

LEMMA StepSettles == IInv /\ [Next]_vars => SettledStep
<1> SUFFICES ASSUME IInv, [Next]_vars PROVE SettledStep
    OBVIOUS
<1>1. CASE UNCHANGED <<graphs, errs>>
    BY <1>1 DEF IInv, OneVerdict, SettledStep
<1>2. ASSUME NEW q \in Runs, Built(q) PROVE SettledStep
    <2>1. net[q] \in Networks /\ graphs[net[q]] = 0 /\ errs[net[q]] = "none"
        BY <1>2 DEF IInv, BuilderInv, Built
    <2> QED BY <1>2, <2>1 DEF IInv, TypeOK, OneVerdict, SettledStep, Built
<1>3. ASSUME NEW q \in Runs, Record(q) PROVE SettledStep
    <2>1. net[q] \in Networks /\ graphs[net[q]] = 0 /\ errs[net[q]] = "none"
        BY <1>3 DEF IInv, BuilderInv, Record
    <2> QED BY <1>3, <2>1 DEF IInv, TypeOK, OneVerdict, SettledStep, Record
<1> QED
    BY <1>1, <1>2, <1>3
       DEF Next, Step, vars, manager, Start, Cancel, SourceChanges, GraphKnown, ErrorKnown, Lock,
           Lookup, Load, BuildFails, Search

\* A graph or a failure, once Manager.Graph has remembered it, is there for good.
THEOREM SettledForGood == Spec => Settled
BY Inductive, StepSettles, PTL DEF Spec, Settled, SettledStep

-----------------------------------------------------------------------------
(* Division by the width of a cell, and the numbers of cells.              *)

LEMMA Division ==
    ASSUME NEW a \in Int, NEW m \in Int, m > 0
    PROVE  /\ a \div m \in Int /\ a % m \in 0..(m - 1)
           /\ a = m * (a \div m) + (a % m)
OBVIOUS

\* A quotient is determined by the interval the dividend lies in.
LEMMA QuotientUpTo ==
    ASSUME NEW m \in Int, m > 0, NEW q \in Int, NEW p \in Int, m * q < m * p + m
    PROVE  q <= p
<1>1. CASE q <= p
  BY <1>1
<1>2. CASE q > p
  <2>1. q - p - 1 \in Nat /\ q = p + 1 + (q - p - 1)
    BY <1>2
  <2>2. PICK d \in Nat : q = p + 1 + d
    BY <2>1
  <2>3. m * q = m * p + m + m * d /\ m * d >= 0
    BY <2>2
  <2>. QED
    BY <2>2, <2>3
<1>. QED
  BY <1>1, <1>2

LEMMA Remainder ==
    ASSUME NEW m \in Int, m > 0, NEW q \in Int, NEW r \in 0..(m - 1)
    PROVE  (m * q + r) % m = r
<1> DEFINE a == m * q + r
<1>1. a \in Int /\ a \div m \in Int /\ a % m \in 0..(m - 1) /\ a = m * (a \div m) + (a % m)
  BY Division
<1>2. PICK p \in Int, s \in 0..(m - 1) : p = a \div m /\ s = a % m
  BY <1>1
<1>3. m * q + r = m * p + s
  BY <1>1, <1>2
<1>4. m * q \in Int /\ m * p \in Int
  OBVIOUS
<1>5. q <= p
  <2>1. m * q < m * p + m
    BY <1>3, <1>4
  <2>. QED BY <2>1, QuotientUpTo
<1>6. p <= q
  <2>1. m * p < m * q + m
    BY <1>3, <1>4
  <2>. QED BY <2>1, QuotientUpTo
<1>7. p = q
  BY <1>5, <1>6
<1>8. s = r
  BY <1>3, <1>4, <1>7
<1>. QED
  BY <1>2, <1>8

\* Numbers that are close lie in the same cell or in cells side by side.
LEMMA CloseQuotients ==
    ASSUME NEW m \in Int, m > 0, NEW a \in Int, NEW b \in Int, b - a \in (-m)..m
    PROVE  (b \div m) - (a \div m) \in -1..1
<1>1. PICK p \in Int, r \in 0..(m - 1) : p = a \div m /\ a = m * p + r
  BY Division
<1>2. PICK q \in Int, s \in 0..(m - 1) : q = b \div m /\ b = m * q + s
  BY Division
<1>3. m * p \in Int /\ m * q \in Int /\ m * (p + 1) = m * p + m /\ m * (q + 1) = m * q + m
  OBVIOUS
<1>4. q <= p + 1
  <2>1. m * q < m * (p + 1) + m
    BY <1>1, <1>2, <1>3
  <2>. QED BY <2>1, QuotientUpTo
<1>5. p <= q + 1
  <2>1. m * p < m * (q + 1) + m
    BY <1>1, <1>2, <1>3
  <2>. QED BY <2>1, QuotientUpTo
<1>. QED
  BY <1>1, <1>2, <1>4, <1>5

CellNumbers == (-HalfRange)..(HalfRange - 1)

LEMMA WrapIsCellNumber ==
    ASSUME NEW n \in Int
    PROVE  Wrap(n) \in CellNumbers
<1>1. HalfRange \in Int /\ 2 * HalfRange \in Int /\ 2 * HalfRange > 0 /\ n + HalfRange \in Int
  BY ClusterAssumption
<1>2. (n + HalfRange) % (2 * HalfRange) \in 0..(2 * HalfRange - 1)
  BY <1>1, Division
<1>. QED
  BY <1>1, <1>2 DEF Wrap, CellNumbers

\* Numbers in range stay; one step beyond either end comes out at the other.
LEMMA WrapAround ==
    /\ \A n \in CellNumbers : Wrap(n) = n
    /\ Wrap(HalfRange) = -HalfRange
    /\ Wrap(-HalfRange - 1) = HalfRange - 1
<1> DEFINE m == 2 * HalfRange
<1>1. HalfRange \in Int /\ HalfRange >= 1 /\ m \in Int /\ m > 0
  BY ClusterAssumption
<1>2. ASSUME NEW n \in CellNumbers PROVE Wrap(n) = n
  <2>1. n \in Int /\ n + HalfRange \in 0..(m - 1) /\ m * 0 + (n + HalfRange) = n + HalfRange
    BY <1>1, <1>2 DEF CellNumbers
  <2>2. (n + HalfRange) % m = n + HalfRange
    <3> HIDE DEF m
    <3>. QED BY <1>1, <2>1, Remainder
  <2>. QED
    BY <1>1, <2>1, <2>2 DEF Wrap
<1>3. Wrap(HalfRange) = -HalfRange
  <2>1. m * 1 + 0 = HalfRange + HalfRange /\ 0 \in 0..(m - 1)
    BY <1>1
  <2>2. (HalfRange + HalfRange) % m = 0
    <3> HIDE DEF m
    <3>. QED BY <1>1, <2>1, Remainder
  <2>. QED
    BY <1>1, <2>2 DEF Wrap
<1>4. Wrap(-HalfRange - 1) = HalfRange - 1
  <2>1. m * (-1) + (m - 1) = (-HalfRange - 1) + HalfRange /\ m - 1 \in 0..(m - 1) /\ -1 \in Int
    BY <1>1
  <2>2. ((-HalfRange - 1) + HalfRange) % m = m - 1
    <3> HIDE DEF m
    <3>. QED BY <1>1, <2>1, Remainder
  <2>. QED
    BY <1>1, <2>2 DEF Wrap
<1>. QED
  BY <1>2, <1>3, <1>4

LEMMA ConvertIsCellNumber ==
    ASSUME NEW n \in Int
    PROVE  Convert(n) \in CellNumbers
<1>1. -HalfRange \in CellNumbers
  BY ClusterAssumption DEF CellNumbers
<1>. QED
  BY <1>1, WrapIsCellNumber DEF Convert

\* Cells side by side are found beside each other, though their numbers wrap around.
LEMMA SideBySide ==
    ASSUME NEW p \in Int, NEW q \in Int, q - p \in -1..1
    PROVE  \E d \in -1..1 : Convert(q) = Wrap(Convert(p) + d)
<1>1. HalfRange \in Int /\ HalfRange >= 1
  BY ClusterAssumption
<1>2. \A n \in Int : Convert(n) = IF n \in CellNumbers THEN n ELSE -HalfRange
  <2> TAKE n \in Int
  <2>1. Wrap(n) = n <=> n \in CellNumbers
    BY WrapAround, WrapIsCellNumber
  <2>. QED BY <2>1 DEF Convert
<1>3. -HalfRange \in CellNumbers
  BY <1>1 DEF CellNumbers
<1>4. CASE q \in CellNumbers /\ p \in CellNumbers
  BY <1>2, <1>4, WrapAround, p + (q - p) = q
<1>5. CASE q \in CellNumbers /\ p \notin CellNumbers
  <2>1. Convert(q) = q /\ Convert(p) = -HalfRange
    BY <1>2, <1>5
  <2>2. \/ p = HalfRange /\ q = HalfRange - 1
        \/ p = -HalfRange - 1 /\ q = -HalfRange
    BY <1>1, <1>5 DEF CellNumbers
  <2>3. CASE q = HalfRange - 1
    <3>1. Wrap(-HalfRange + -1) = q
      BY <1>1, <2>3, WrapAround, -HalfRange + -1 = -HalfRange - 1
    <3>. QED BY <2>1, <3>1
  <2>4. CASE q = -HalfRange
    <3>1. Wrap(-HalfRange + 0) = q
      BY <1>1, <1>3, <2>4, WrapAround, -HalfRange + 0 = -HalfRange
    <3>. QED BY <2>1, <3>1
  <2>. QED
    BY <2>2, <2>3, <2>4
<1>6. CASE q \notin CellNumbers /\ p \in CellNumbers
  <2>1. Convert(q) = -HalfRange /\ Convert(p) = p
    BY <1>2, <1>6
  <2>2. \/ q = HalfRange /\ p = HalfRange - 1
        \/ q = -HalfRange - 1 /\ p = -HalfRange
    BY <1>1, <1>6 DEF CellNumbers
  <2>3. CASE p = HalfRange - 1
    <3>1. Wrap(p + 1) = -HalfRange
      BY <1>1, <2>3, WrapAround, p + 1 = HalfRange
    <3>. QED BY <2>1, <3>1
  <2>4. CASE p = -HalfRange
    <3>1. Wrap(p + 0) = -HalfRange
      BY <1>1, <1>3, <2>4, WrapAround, p + 0 = -HalfRange
    <3>. QED BY <2>1, <3>1
  <2>. QED
    BY <2>2, <2>3, <2>4
<1>7. CASE q \notin CellNumbers /\ p \notin CellNumbers
  <2>1. Convert(q) = -HalfRange /\ Convert(p) = -HalfRange
    BY <1>2, <1>7
  <2>2. Wrap(-HalfRange + 0) = -HalfRange
    BY <1>1, <1>3, WrapAround, -HalfRange + 0 = -HalfRange
  <2>. QED BY <2>1, <2>2
<1>. QED
  BY <1>4, <1>5, <1>6, <1>7

-----------------------------------------------------------------------------
(* Neighbours.                                                             *)

LEMMA SquareBound ==
    ASSUME NEW e \in Nat, NEW x \in Int, NEW y \in Int, x * x + y * y <= e * e
    PROVE  x \in (-e)..e
<1>1. x * x \in Nat /\ y * y \in Nat /\ e * e \in Nat
  <2>1. \A z \in Int : z >= 0 => z * z \in Nat
    OBVIOUS
  <2>2. \A z \in Int : z < 0 => z * z \in Nat
    <3> TAKE z \in Int
    <3> HAVE z < 0
    <3>1. z * z = (-z) * (-z) /\ -z \in Int /\ -z >= 0
      OBVIOUS
    <3>. QED BY <2>1, <3>1
  <2>. QED BY <2>1, <2>2
<1>2. x * x <= e * e
  BY <1>1
<1>3. ASSUME NEW z \in Nat, z > e PROVE z * z > e * e
  <2>1. z - e \in Nat /\ z - e >= 1
    BY <1>3
  <2>2. PICK d \in Nat : z = e + d /\ d >= 1
    BY <2>1, z = e + (z - e)
  <2>3. z * z = e * e + 2 * (e * d) + d * d /\ e * d \in Nat /\ d * d \in Nat
    BY <2>2
  <2>4. d * d >= 1
    BY <2>2
  <2>. QED
    BY <1>1, <2>3, <2>4
<1>4. ~(x > e)
  BY <1>2, <1>3
<1>5. ~(-x > e)
  <2>1. (-x) * (-x) = x * x
    OBVIOUS
  <2>. QED BY <1>2, <1>3, <2>1
<1>. QED
  BY <1>4, <1>5

\* The points of a trace lie on the plane.
OnPlane == pts \in Seq(Int \X Int)

LEMMA PointsOnPlane ==
    ASSUME OnPlane
    PROVE  /\ Len(pts) \in Nat /\ Indices = 1..Len(pts) /\ IsFiniteSet(Indices)
           /\ \A i \in Indices : pts[i][1] \in Int /\ pts[i][2] \in Int
<1>1. Len(pts) \in Nat /\ Indices = 1..Len(pts) /\ \A i \in Indices : pts[i] \in Int \X Int
  BY DEF OnPlane, Indices
<1>2. IsFiniteSet(Indices)
  BY <1>1, FS_Interval
<1>. QED
  BY <1>1, <1>2

LEMMA NearProperties ==
    ASSUME OnPlane
    PROVE  /\ \A i \in Indices : Near(i, i)
           /\ \A i, j \in Indices : Near(i, j) <=> Near(j, i)
           /\ \A i, j \in Indices : Near(i, j) =>
                 /\ pts[j][1] - pts[i][1] \in (-Eps)..Eps
                 /\ pts[j][2] - pts[i][2] \in (-Eps)..Eps
<1>1. Eps \in Nat /\ Eps * Eps \in Nat
  BY ClusterAssumption
<1>2. ASSUME NEW i \in Indices PROVE Near(i, i)
  <2>1. PICK x \in Int, y \in Int : x = pts[i][1] /\ y = pts[i][2]
    BY PointsOnPlane
  <2>2. (x - x) * (x - x) + (y - y) * (y - y) = 0
    OBVIOUS
  <2>. QED BY <1>1, <2>1, <2>2 DEF Near
<1>3. ASSUME NEW i \in Indices, NEW j \in Indices, Near(i, j) PROVE Near(j, i)
  <2>0. pts[j][1] - pts[i][1] \in Int /\ pts[j][2] - pts[i][2] \in Int
    BY PointsOnPlane
  <2>1. PICK x \in Int, y \in Int : x = pts[j][1] - pts[i][1] /\ y = pts[j][2] - pts[i][2]
    BY <2>0
  <2>2. pts[i][1] - pts[j][1] = -x /\ pts[i][2] - pts[j][2] = -y
    BY <2>1, PointsOnPlane
  <2>3. x * x + y * y <= Eps * Eps
    BY <1>3, <2>1 DEF Near
  <2>4. (-x) * (-x) = x * x /\ (-y) * (-y) = y * y
    OBVIOUS
  <2>. QED BY <2>2, <2>3, <2>4 DEF Near
<1>4. ASSUME NEW i \in Indices, NEW j \in Indices, Near(i, j)
      PROVE  /\ pts[j][1] - pts[i][1] \in (-Eps)..Eps
             /\ pts[j][2] - pts[i][2] \in (-Eps)..Eps
  <2>0. pts[j][1] - pts[i][1] \in Int /\ pts[j][2] - pts[i][2] \in Int
    BY PointsOnPlane
  <2>1. PICK x \in Int, y \in Int : x = pts[j][1] - pts[i][1] /\ y = pts[j][2] - pts[i][2]
    BY <2>0
  <2>2. x * x + y * y <= Eps * Eps
    BY <1>4, <2>1 DEF Near
  <2>3. y * y + x * x <= Eps * Eps
    BY <2>2
  <2>4. x \in (-Eps)..Eps
    BY <1>1, <2>2, SquareBound
  <2>5. y \in (-Eps)..Eps
    BY <1>1, <2>3, SquareBound
  <2>. QED BY <2>1, <2>4, <2>5
<1>. QED
  BY <1>2, <1>3, <1>4

\* The cells beside that of a point hold every point near it.
LEMMA NearIsBeside ==
    ASSUME OnPlane, NEW i \in Indices, NEW j \in Indices, Near(i, j)
    PROVE  CellOf(j) \in Beside(i)
<1>1. Eps \in Int /\ Eps > 0
  BY ClusterAssumption
<1>2. ASSUME NEW axis \in {1, 2}
      PROVE  \E d \in -1..1 :
                Convert(pts[j][axis] \div Eps) = Wrap(Convert(pts[i][axis] \div Eps) + d)
  <2>1. PICK a \in Int, b \in Int : a = pts[i][axis] /\ b = pts[j][axis]
    BY PointsOnPlane
  <2>2. b - a \in (-Eps)..Eps
    BY <1>2, <2>1, NearProperties
  <2>3. (b \div Eps) - (a \div Eps) \in -1..1 /\ a \div Eps \in Int /\ b \div Eps \in Int
    BY <1>1, <2>2, CloseQuotients
  <2>. QED
    BY <2>1, <2>3, SideBySide
<1>3. PICK dx \in -1..1 : CellOf(j)[1] = Wrap(CellOf(i)[1] + dx)
  BY <1>2 DEF CellOf
<1>4. PICK dy \in -1..1 : CellOf(j)[2] = Wrap(CellOf(i)[2] + dy)
  BY <1>2 DEF CellOf
<1>5. CellOf(j) = <<CellOf(j)[1], CellOf(j)[2]>>
  BY DEF CellOf
<1>. QED
  BY <1>3, <1>4, <1>5 DEF Beside

\* The points near a point, which the grid is to find.
Around(i) == {j \in Indices : Near(i, j)}

LEMMA NeighboursAreNear ==
    ASSUME OnPlane, NEW i \in Indices
    PROVE  /\ IsFiniteSet(Around(i)) /\ Cardinality(Around(i)) \in Nat
           /\ Neighbours(i) \in [1..Cardinality(Around(i)) -> Around(i)]
           /\ Len(Neighbours(i)) = Cardinality(Around(i))
           /\ Neighbours(i) \in Seq(Indices)
           /\ \A j \in Around(i) : \E k \in 1..Cardinality(Around(i)) : Neighbours(i)[k] = j
<1> DEFINE near == {j \in Indices : CellOf(j) \in Beside(i) /\ Near(i, j)}
           shift(j, axis) == Wrap(CellOf(j)[axis] - CellOf(i)[axis])
           Before(a, b) == \/ shift(a, 2) < shift(b, 2)
                           \/ /\ shift(a, 2) = shift(b, 2)
                              /\ shift(a, 1) < shift(b, 1) \/ (shift(a, 1) = shift(b, 1) /\ a < b)
           before == {p \in near \X near : Before(p[1], p[2])}
<1>1. Neighbours(i) = Listed(near, before)
  BY DEF Neighbours
<1>2. near = Around(i)
  BY NearIsBeside DEF Around
<1>3. IsFiniteSet(near)
  <2>1. near \subseteq Indices
    OBVIOUS
  <2> HIDE DEF near
  <2>. QED BY <2>1, PointsOnPlane, FS_Subset
<1>4. Orders(near, before)
  <2>1. \A j \in near : j \in Int
    BY PointsOnPlane
  <2> DEFINE sx == [j \in near |-> shift(j, 1)]
             sy == [j \in near |-> shift(j, 2)]
  <2>2. \A j \in near : sx[j] = shift(j, 1) /\ sy[j] = shift(j, 2)
    OBVIOUS
  <2> HIDE DEF sx, sy
  <2>3. \A j \in near : sx[j] \in Int /\ sy[j] \in Int
    <3> SUFFICES ASSUME NEW j \in near PROVE shift(j, 1) \in Int /\ shift(j, 2) \in Int
      BY <2>2
    <3>1. ASSUME NEW k \in Indices, NEW axis \in {1, 2} PROVE CellOf(k)[axis] \in Int
      <4>1. pts[k][axis] \div Eps \in Int
        BY PointsOnPlane, ClusterAssumption, Division
      <4>2. Convert(pts[k][axis] \div Eps) \in Int
        BY <4>1, ConvertIsCellNumber, ClusterAssumption DEF CellNumbers
      <4>. QED BY <4>2 DEF CellOf
    <3>2. \A n \in Int : Wrap(n) \in Int
      BY WrapIsCellNumber, ClusterAssumption DEF CellNumbers
    <3>. QED
      BY <3>1, <3>2
  <2>4. \A a, b \in near : <<a, b>> \in before <=>
           \/ sy[a] < sy[b]
           \/ /\ sy[a] = sy[b]
              /\ sx[a] < sx[b] \/ (sx[a] = sx[b] /\ a < b)
    <3>1. \A a, b \in near : <<a, b>> \in before <=> Before(a, b)
      <4> HIDE DEF Before, near
      <4>. QED OBVIOUS
    <3> HIDE DEF near, before
    <3> TAKE a, b \in near
    <3>2. /\ sx[a] = shift(a, 1) /\ sy[a] = shift(a, 2)
          /\ sx[b] = shift(b, 1) /\ sy[b] = shift(b, 2)
      BY <2>2
    <3>. QED BY <3>1, <3>2
  <2> HIDE DEF near, before
  <2>. QED
    BY <2>1, <2>3, <2>4 DEF Orders
<1>5. PICK n \in Nat : n = Cardinality(near)
  <2> HIDE DEF near
  <2>. QED BY <1>3, FS_CardinalityType
<1>6. PICK L : L = Listed(near, before)
  OBVIOUS
<1> HIDE DEF near, before
<1>7. L \in [1..n -> near] /\ \A x \in near : \E k \in 1..n : L[k] = x
  BY <1>3, <1>4, <1>5, <1>6, ListedInOrder
<1>8. near \subseteq Indices
  BY <1>2 DEF Around
<1>9. L \in [1..n -> Indices]
  BY <1>7, <1>8
<1>10. L \in Seq(Indices) /\ Len(L) = n
  BY <1>9
<1>. QED
  BY <1>1, <1>2, <1>3, <1>5, <1>6, <1>7, <1>10

-----------------------------------------------------------------------------
(* The growth of clusters, as a fact about labels: n points, the pairs of  *)
(* them that are near each other, the core points, and for each point the  *)
(* points density-connected to it.                                         *)

Setting(n, near, core, conn) ==
    /\ n \in Nat /\ core \subseteq 1..n
    /\ \A i \in 1..n : <<i, i>> \in near
    /\ \A i, j \in 1..n : <<i, j>> \in near => <<j, i>> \in near
    /\ \A i \in 1..n : i \in conn[i]
    /\ \A i, j \in 1..n : \A k \in core : j \in conn[i] /\ <<j, k>> \in near => k \in conn[i]
    /\ \A i, j \in 1..n : j \in conn[i] => \A k \in 1..n : k \in conn[j] => k \in conn[i]

\* Noise is not core.
NoiseNotCore(n, core, l) == \A i \in 1..n : l[i] = Noise => i \notin core

\* Around a core point of a cluster everything has a cluster, and the core points have
\* its cluster, unless they wait in the queue of the cluster c that is being grown.
Closed(n, near, core, l, c, pending, active) ==
    \A i \in core : \A j \in 1..n :
        l[i] >= 0 /\ <<i, j>> \in near =>
            \/ l[j] >= 0 /\ (j \in core => l[j] = l[i])
            \/ active /\ l[i] = c /\ j \in pending

\* A border point has the cluster of a core point near it.
BordersTouch(n, near, core, l) ==
    \A i \in (1..n) \ core : l[i] >= 0 => \E j \in core : <<i, j>> \in near /\ l[j] = l[i]

\* Core points of one cluster are connected.
OneComponent(core, conn, l) == \A i, j \in core : l[i] >= 0 /\ l[i] = l[j] => j \in conn[i]

\* What waits is near a core point of the cluster.
QueueNear(near, core, l, c, pending) ==
    \A x \in pending : \E h \in core : l[h] = c /\ <<h, x>> \in near

\* Every cluster that is done has a core point.
AllUsed(core, l, c) == \A d \in 0..(c - 1) : \E i \in core : l[i] = d

Labelled(n, near, core, conn, l, c, pending, active) ==
    /\ c \in Nat /\ pending \subseteq 1..n
    /\ l \in [1..n -> {Noise, Unclassified} \cup Nat]
    /\ \A i \in 1..n : l[i] < c \/ (active /\ l[i] = c)
    /\ NoiseNotCore(n, core, l)
    /\ Closed(n, near, core, l, c, pending, active)
    /\ BordersTouch(n, near, core, l)
    /\ OneComponent(core, conn, l)
    /\ active => QueueNear(near, core, l, c, pending)
    /\ AllUsed(core, l, c)

\* A point without enough neighbours becomes noise.
LEMMA MarkNoise ==
    ASSUME NEW n, NEW near, NEW core, NEW conn, NEW l, NEW c, NEW pending,
           Setting(n, near, core, conn), Labelled(n, near, core, conn, l, c, pending, FALSE),
           NEW p \in 1..n, p \notin core, l[p] = Unclassified
    PROVE  Labelled(n, near, core, conn, [l EXCEPT ![p] = Noise], c, pending, FALSE)
<1> DEFINE m == [l EXCEPT ![p] = Noise]
<1>1. l \in [1..n -> {Noise, Unclassified} \cup Nat] /\ c \in Nat /\ core \subseteq 1..n
  BY DEF Labelled, Setting
<1>2. m \in [1..n -> {Noise, Unclassified} \cup Nat]
  BY <1>1
<1>3. \A i \in 1..n : m[i] = IF i = p THEN Noise ELSE l[i]
  BY <1>1
<1>4. \A i \in core : m[i] = l[i]
  BY <1>1, <1>3
<1> HIDE DEF m
<1>5. \A i \in 1..n : m[i] < c
  BY <1>1, <1>3 DEF Labelled, Noise
<1>6. NoiseNotCore(n, core, m)
  BY <1>3 DEF Labelled, NoiseNotCore
<1>7. Closed(n, near, core, m, c, pending, FALSE)
  BY <1>1, <1>3, <1>4 DEF Labelled, Closed, Unclassified
<1>8. BordersTouch(n, near, core, m)
  BY <1>1, <1>3, <1>4 DEF Labelled, BordersTouch, Noise
<1>9. OneComponent(core, conn, m)
  BY <1>4 DEF Labelled, OneComponent
<1>10. AllUsed(core, m, c)
  BY <1>4 DEF Labelled, AllUsed
<1>. QED
  BY <1>2, <1>5, <1>6, <1>7, <1>8, <1>9, <1>10 DEF Labelled, m

\* A core point that no cluster has reached begins one.
LEMMA BeginCluster ==
    ASSUME NEW n, NEW near, NEW core, NEW conn, NEW l, NEW c, NEW old,
           Setting(n, near, core, conn), Labelled(n, near, core, conn, l, c, old, FALSE),
           NEW p \in core, l[p] = Unclassified,
           NEW pending, pending = {j \in 1..n : <<p, j>> \in near}
    PROVE  Labelled(n, near, core, conn, [l EXCEPT ![p] = c], c, pending, TRUE)
<1> DEFINE m == [l EXCEPT ![p] = c]
<1>1. /\ l \in [1..n -> {Noise, Unclassified} \cup Nat] /\ c \in Nat /\ core \subseteq 1..n
      /\ p \in 1..n
  BY DEF Labelled, Setting
<1>2. m \in [1..n -> {Noise, Unclassified} \cup Nat]
  BY <1>1
<1>3. \A i \in 1..n : m[i] = IF i = p THEN c ELSE l[i]
  BY <1>1
<1> HIDE DEF m
<1>4. \A i \in 1..n : l[i] < c
  BY DEF Labelled
<1>5. \A i \in 1..n : m[i] < c \/ m[i] = c
  BY <1>1, <1>3, <1>4
<1>6. NoiseNotCore(n, core, m)
  BY <1>1, <1>3 DEF Labelled, NoiseNotCore, Noise
<1>7. Closed(n, near, core, m, c, pending, TRUE)
  <2> SUFFICES ASSUME NEW i \in core, NEW j \in 1..n, m[i] >= 0, <<i, j>> \in near
               PROVE  \/ m[j] >= 0 /\ (j \in core => m[j] = m[i])
                      \/ m[i] = c /\ j \in pending
    BY DEF Closed
  <2>1. CASE i = p
    BY <1>1, <1>3, <2>1
  <2>2. CASE i # p
    <3>1. m[i] = l[i] /\ l[i] >= 0
      BY <1>1, <1>3, <2>2
    <3>2. l[j] >= 0 /\ (j \in core => l[j] = l[i])
      BY <3>1 DEF Labelled, Closed
    <3>3. j # p
      BY <3>2 DEF Unclassified
    <3>. QED BY <1>3, <3>1, <3>2, <3>3
  <2>. QED
    BY <2>1, <2>2
<1>8. BordersTouch(n, near, core, m)
  <2> SUFFICES ASSUME NEW i \in (1..n) \ core, m[i] >= 0
               PROVE  \E j \in core : <<i, j>> \in near /\ m[j] = m[i]
    BY DEF BordersTouch
  <2>1. i # p /\ m[i] = l[i]
    BY <1>3
  <2>2. PICK j \in core : <<i, j>> \in near /\ l[j] = l[i]
    BY <2>1 DEF Labelled, BordersTouch
  <2>3. j # p
    BY <2>1, <2>2 DEF Unclassified
  <2>. QED
    BY <1>1, <1>3, <2>1, <2>2, <2>3
<1>9. OneComponent(core, conn, m)
  <2> SUFFICES ASSUME NEW i \in core, NEW j \in core, m[i] >= 0, m[i] = m[j]
               PROVE  j \in conn[i]
    BY DEF OneComponent
  <2>1. CASE i = p /\ j = p
    BY <1>1, <2>1 DEF Setting
  <2>2. CASE i # p /\ j # p
    BY <1>1, <1>3, <2>2 DEF Labelled, OneComponent
  <2>3. CASE i = p /\ j # p
    BY <1>1, <1>3, <1>4, <2>3
  <2>4. CASE i # p /\ j = p
    <3>1. i \in 1..n /\ m[i] = l[i] /\ m[j] = c
      BY <1>1, <1>3, <2>4
    <3>2. c < c
      BY <1>4, <3>1
    <3>. QED
      BY <1>1, <3>2
  <2>. QED
    BY <2>1, <2>2, <2>3, <2>4
<1>10. QueueNear(near, core, m, c, pending)
  BY <1>1, <1>3 DEF QueueNear
<1>11. AllUsed(core, m, c)
  <2> SUFFICES ASSUME NEW d \in 0..(c - 1) PROVE \E i \in core : m[i] = d
    BY DEF AllUsed
  <2>1. PICK i \in core : l[i] = d
    BY DEF Labelled, AllUsed
  <2>2. i # p
    BY <2>1 DEF Unclassified
  <2>. QED
    BY <1>1, <1>3, <2>1, <2>2
<1>12. pending \subseteq 1..n
  OBVIOUS
<1>. QED
  BY <1>1, <1>2, <1>5, <1>6, <1>7, <1>8, <1>9, <1>10, <1>11, <1>12 DEF Labelled, m

\* A point of the queue that has a cluster already is skipped.
LEMMA SkipQueued ==
    ASSUME NEW n, NEW near, NEW core, NEW conn, NEW l, NEW c, NEW pending,
           Setting(n, near, core, conn), Labelled(n, near, core, conn, l, c, pending, TRUE),
           NEW j \in pending, l[j] >= 0,
           NEW rest, pending \ {j} \subseteq rest, rest \subseteq pending
    PROVE  Labelled(n, near, core, conn, l, c, rest, TRUE)
<1>1. /\ l \in [1..n -> {Noise, Unclassified} \cup Nat] /\ c \in Nat /\ core \subseteq 1..n
      /\ pending \subseteq 1..n /\ j \in 1..n
  BY DEF Labelled, Setting
<1>2. Closed(n, near, core, l, c, rest, TRUE)
  <2> SUFFICES ASSUME NEW i \in core, NEW k \in 1..n, l[i] >= 0, <<i, k>> \in near
               PROVE  \/ l[k] >= 0 /\ (k \in core => l[k] = l[i])
                      \/ l[i] = c /\ k \in rest
    BY DEF Closed
  <2>1. \/ l[k] >= 0 /\ (k \in core => l[k] = l[i])
        \/ l[i] = c /\ k \in pending
    BY DEF Labelled, Closed
  <2>2. CASE k = j /\ l[i] = c /\ j \in core
    <3>1. <<j, i>> \in near
      BY <1>1, <2>2 DEF Setting
    <3>2. \/ l[i] >= 0 /\ l[i] = l[j]
          \/ l[j] = c /\ i \in pending
      BY <1>1, <2>2, <3>1 DEF Labelled, Closed
    <3>. QED
      BY <2>2, <3>2
  <2>. QED
    BY <2>1, <2>2
<1>3. QueueNear(near, core, l, c, rest)
  BY DEF Labelled, QueueNear
<1>4. rest \subseteq 1..n
  BY <1>1
<1>. QED
  BY <1>2, <1>3, <1>4 DEF Labelled

\* A point of the queue without a cluster joins this one, and if it is core its
\* neighbours wait.
LEMMA JoinCluster ==
    ASSUME NEW n, NEW near, NEW core, NEW conn, NEW l, NEW c, NEW pending,
           Setting(n, near, core, conn), Labelled(n, near, core, conn, l, c, pending, TRUE),
           NEW j \in pending, l[j] \in {Noise, Unclassified},
           NEW more, more = IF j \in core THEN {k \in 1..n : <<j, k>> \in near} ELSE {},
           NEW rest, pending \ {j} \subseteq rest, rest \subseteq pending
    PROVE  Labelled(n, near, core, conn, [l EXCEPT ![j] = c], c, rest \cup more, TRUE)
<1> DEFINE m == [l EXCEPT ![j] = c]
<1>1. /\ l \in [1..n -> {Noise, Unclassified} \cup Nat] /\ c \in Nat /\ core \subseteq 1..n
      /\ pending \subseteq 1..n /\ j \in 1..n
  BY DEF Labelled, Setting
<1>2. m \in [1..n -> {Noise, Unclassified} \cup Nat]
  BY <1>1
<1>3. \A i \in 1..n : m[i] = IF i = j THEN c ELSE l[i]
  BY <1>1
<1>4. ~(l[j] >= 0)
  BY DEF Noise, Unclassified
<1> HIDE DEF m
<1>5. PICK h \in core : l[h] = c /\ <<h, j>> \in near
  BY DEF Labelled, QueueNear
<1>6. h # j /\ m[h] = c /\ <<j, h>> \in near /\ h \in 1..n
  BY <1>1, <1>3, <1>4, <1>5 DEF Setting
<1>7. \A i \in 1..n : m[i] < c \/ m[i] = c
  BY <1>1, <1>3 DEF Labelled
<1>8. NoiseNotCore(n, core, m)
  BY <1>1, <1>3 DEF Labelled, NoiseNotCore, Noise
<1>9. Closed(n, near, core, m, c, rest \cup more, TRUE)
  <2> SUFFICES ASSUME NEW i \in core, NEW k \in 1..n, m[i] >= 0, <<i, k>> \in near
               PROVE  \/ m[k] >= 0 /\ (k \in core => m[k] = m[i])
                      \/ m[i] = c /\ k \in rest \cup more
    BY DEF Closed
  <2>1. CASE i = j
    BY <1>1, <1>3, <2>1
  <2>2. CASE i # j
    <3>1. m[i] = l[i] /\ l[i] >= 0
      BY <1>1, <1>3, <2>2
    <3>2. \/ l[k] >= 0 /\ (k \in core => l[k] = l[i])
          \/ l[i] = c /\ k \in pending
      BY <3>1 DEF Labelled, Closed
    <3>3. CASE k = j
      <4>1. l[i] = c /\ m[k] = c
        BY <1>3, <1>4, <3>2, <3>3
      <4>. QED
        BY <1>1, <3>1, <4>1
    <3>4. CASE k # j
      <4>1. m[k] = l[k] /\ (k \in pending => k \in rest)
        BY <1>3, <3>4
      <4>. QED
        BY <3>1, <3>2, <4>1
    <3>. QED
      BY <3>3, <3>4
  <2>. QED
    BY <2>1, <2>2
<1>10. BordersTouch(n, near, core, m)
  <2> SUFFICES ASSUME NEW i \in (1..n) \ core, m[i] >= 0
               PROVE  \E k \in core : <<i, k>> \in near /\ m[k] = m[i]
    BY DEF BordersTouch
  <2>1. CASE i = j
    BY <1>1, <1>3, <1>6, <2>1
  <2>2. CASE i # j
    <3>1. PICK k \in core : <<i, k>> \in near /\ l[k] = l[i]
      BY <1>3, <2>2 DEF Labelled, BordersTouch
    <3>2. k # j
      BY <1>3, <1>4, <2>2, <3>1
    <3>. QED
      BY <1>1, <1>3, <2>2, <3>1, <3>2
  <2>. QED
    BY <2>1, <2>2
<1>11. OneComponent(core, conn, m)
  <2> SUFFICES ASSUME NEW i \in core, NEW k \in core, m[i] >= 0, m[i] = m[k]
               PROVE  k \in conn[i]
    BY DEF OneComponent
  <2>1. CASE i # j /\ k # j
    BY <1>1, <1>3, <2>1 DEF Labelled, OneComponent
  <2>2. CASE i = j /\ k = j
    BY <1>1, <2>2 DEF Setting
  <2>3. CASE i # j /\ k = j
    <3>1. l[i] = c /\ i \in 1..n
      BY <1>1, <1>3, <2>3
    <3>2. h \in conn[i]
      BY <1>1, <1>5, <3>1 DEF Labelled, OneComponent
    <3>. QED
      BY <1>5, <1>6, <2>3, <3>1, <3>2 DEF Setting
  <2>4. CASE i = j /\ k # j
    <3>1. l[k] = c /\ k \in 1..n
      BY <1>1, <1>3, <2>4
    <3>2. k \in conn[h]
      BY <1>1, <1>5, <3>1 DEF Labelled, OneComponent
    <3>3. j \in conn[j]
      BY <1>1 DEF Setting
    <3>4. h \in conn[j]
      BY <1>1, <1>6, <3>3 DEF Setting
    <3>. QED
      BY <1>1, <1>6, <2>4, <3>1, <3>2, <3>4 DEF Setting
  <2>. QED
    BY <2>1, <2>2, <2>3, <2>4
<1>12. QueueNear(near, core, m, c, rest \cup more)
  <2> SUFFICES ASSUME NEW x \in rest \cup more
               PROVE  \E g \in core : m[g] = c /\ <<g, x>> \in near
    BY DEF QueueNear
  <2>1. CASE x \in more
    BY <1>3, <1>1, <2>1
  <2>2. CASE x \in rest
    <3>1. PICK g \in core : l[g] = c /\ <<g, x>> \in near
      BY <2>2 DEF Labelled, QueueNear
    <3>. QED
      BY <1>1, <1>3, <3>1
  <2>. QED
    BY <2>1, <2>2
<1>13. AllUsed(core, m, c)
  <2> SUFFICES ASSUME NEW d \in 0..(c - 1) PROVE \E i \in core : m[i] = d
    BY DEF AllUsed
  <2>1. PICK i \in core : l[i] = d
    BY DEF Labelled, AllUsed
  <2>2. i # j
    BY <1>4, <2>1
  <2>. QED
    BY <1>1, <1>3, <2>1, <2>2
<1>14. rest \cup more \subseteq 1..n
  BY <1>1
<1>. QED
  BY <1>1, <1>2, <1>7, <1>8, <1>9, <1>10, <1>11, <1>12, <1>13, <1>14 DEF Labelled, m

\* With nothing left to wait for, the cluster is done.
LEMMA FinishCluster ==
    ASSUME NEW n, NEW near, NEW core, NEW conn, NEW l, NEW c,
           Setting(n, near, core, conn), Labelled(n, near, core, conn, l, c, {}, TRUE),
           NEW p \in core, l[p] = c
    PROVE  Labelled(n, near, core, conn, l, c + 1, {}, FALSE)
<1>1. c \in Nat /\ core \subseteq 1..n /\ l \in [1..n -> {Noise, Unclassified} \cup Nat]
  BY DEF Labelled, Setting
<1>2. \A i \in 1..n : l[i] < c + 1
  BY <1>1 DEF Labelled, Noise, Unclassified
<1>3. Closed(n, near, core, l, c + 1, {}, FALSE)
  BY DEF Labelled, Closed
<1>4. AllUsed(core, l, c + 1)
  <2> SUFFICES ASSUME NEW d \in 0..((c + 1) - 1) PROVE \E i \in core : l[i] = d
    BY DEF AllUsed
  <2>1. CASE d = c
    BY <2>1
  <2>2. CASE d # c
    <3>1. d \in 0..(c - 1)
      BY <1>1, <2>2
    <3>. QED BY <3>1 DEF Labelled, AllUsed
  <2>. QED
    BY <2>1, <2>2
<1>5. NoiseNotCore(n, core, l) /\ BordersTouch(n, near, core, l) /\ OneComponent(core, conn, l)
  BY DEF Labelled
<1>6. c + 1 \in Nat /\ {} \subseteq 1..n
  BY <1>1
<1>. QED
  BY <1>1, <1>2, <1>3, <1>4, <1>5, <1>6 DEF Labelled

\* Before any point is scanned there is no cluster.
LEMMA NothingLabelled ==
    ASSUME NEW n, NEW near, NEW core, NEW conn, Setting(n, near, core, conn),
           NEW l, l = [i \in 1..n |-> Unclassified]
    PROVE  Labelled(n, near, core, conn, l, 0, {}, FALSE)
<1>1. core \subseteq 1..n
  BY DEF Setting
<1>2. \A i \in 1..n : l[i] = -2
  BY DEF Unclassified
<1>3. l \in [1..n -> {Noise, Unclassified} \cup Nat]
  OBVIOUS
<1>4. NoiseNotCore(n, core, l) /\ Closed(n, near, core, l, 0, {}, FALSE)
  BY <1>1, <1>2 DEF NoiseNotCore, Closed, Noise
<1>5. BordersTouch(n, near, core, l) /\ OneComponent(core, conn, l) /\ AllUsed(core, l, 0)
  BY <1>1, <1>2 DEF BordersTouch, OneComponent, AllUsed
<1>6. \A i \in 1..n : l[i] < 0
  BY <1>2
<1>. QED
  BY <1>3, <1>4, <1>5, <1>6 DEF Labelled

\* What is connected to a point is in every set that has the point and spreads.
LeastPoint(n, near, core, conn) ==
    \A i \in 1..n : \A set \in SUBSET (1..n) :
        i \in set /\ (\A m \in set, j \in core : <<m, j>> \in near => j \in set)
        => \A j \in 1..n : j \in conn[i] => j \in set

\* The labels are the clusters of the definition, and no number is skipped.
Clustered(n, near, core, conn, l, c) ==
    /\ \A i \in core : /\ l[i] \in 0..(c - 1)
                       /\ \A j \in core : l[i] = l[j] <=> j \in conn[i]
    /\ \A i \in (1..n) \ core :
          /\ (\A j \in core : <<i, j>> \notin near) => l[i] = Noise
          /\ (\E j \in core : <<i, j>> \in near) => \E j \in core : <<i, j>> \in near /\ l[i] = l[j]
    /\ {l[i] : i \in 1..n} \ {Noise} = 0..(c - 1)

LEMMA AllLabelled ==
    ASSUME NEW n, NEW near, NEW core, NEW conn, NEW l, NEW c, NEW pending,
           Setting(n, near, core, conn), Labelled(n, near, core, conn, l, c, pending, FALSE),
           \A i \in 1..n : l[i] # Unclassified, LeastPoint(n, near, core, conn)
    PROVE  Clustered(n, near, core, conn, l, c)
<1>1. c \in Nat /\ core \subseteq 1..n /\ l \in [1..n -> {Noise, Unclassified} \cup Nat]
  BY DEF Labelled, Setting
<1>2. \A i \in 1..n : l[i] = Noise \/ l[i] \in 0..(c - 1)
  <2> TAKE i \in 1..n
  <2>1. l[i] = Noise \/ l[i] \in Nat
    BY <1>1
  <2>2. l[i] < c
    BY DEF Labelled
  <2>. QED BY <1>1, <2>1, <2>2
<1>3. \A i \in core : l[i] \in 0..(c - 1)
  BY <1>1, <1>2 DEF Labelled, NoiseNotCore
<1>4. ASSUME NEW i \in core, NEW j \in core PROVE l[i] = l[j] <=> j \in conn[i]
  <2>1. ASSUME l[i] = l[j] PROVE j \in conn[i]
    BY <1>3, <2>1 DEF Labelled, OneComponent
  <2>2. ASSUME j \in conn[i] PROVE l[i] = l[j]
    <3> DEFINE same == {m \in core : l[m] = l[i]}
    <3>1. i \in same /\ same \in SUBSET (1..n) /\ i \in 1..n /\ j \in 1..n
      BY <1>1
    <3>2. ASSUME NEW m \in same, NEW k \in core, <<m, k>> \in near PROVE k \in same
      <4>1. l[m] >= 0 /\ m \in core /\ l[m] = l[i] /\ k \in 1..n
        BY <1>1, <1>3
      <4>2. l[k] = l[m]
        BY <3>2, <4>1 DEF Labelled, Closed
      <4>. QED BY <4>1, <4>2
    <3> HIDE DEF same
    <3>3. j \in same
      BY <2>2, <3>1, <3>2 DEF LeastPoint
    <3>. QED
      BY <3>3 DEF same
  <2>. QED
    BY <2>1, <2>2
<1>5. ASSUME NEW i \in (1..n) \ core, \A j \in core : <<i, j>> \notin near PROVE l[i] = Noise
  <2> SUFFICES ASSUME l[i] \in 0..(c - 1) PROVE FALSE
    BY <1>2
  <2>1. \E j \in core : <<i, j>> \in near
    BY <1>1 DEF Labelled, BordersTouch
  <2>. QED BY <1>5, <2>1
<1>6. ASSUME NEW i \in (1..n) \ core, NEW j \in core, <<i, j>> \in near
      PROVE  \E k \in core : <<i, k>> \in near /\ l[i] = l[k]
  <2>1. <<j, i>> \in near /\ l[j] >= 0
    BY <1>1, <1>3, <1>6 DEF Setting
  <2>2. l[i] >= 0
    BY <2>1 DEF Labelled, Closed
  <2>. QED
    BY <2>2 DEF Labelled, BordersTouch
<1>7. {l[i] : i \in 1..n} \ {Noise} = 0..(c - 1)
  <2>1. \A d \in 0..(c - 1) : \E i \in 1..n : l[i] = d
    BY <1>1 DEF Labelled, AllUsed
  <2>2. \A d \in 0..(c - 1) : d # Noise
    BY DEF Noise
  <2>. QED
    BY <1>2, <2>1, <2>2
<1>. QED
  BY <1>3, <1>4, <1>5, <1>6, <1>7 DEF Clustered

-----------------------------------------------------------------------------
(* The setting of a state.                                                 *)

NearPairs == {p \in Indices \X Indices : Near(p[1], p[2])}
Reach == [i \in Indices |-> Connected(i)]

LEMMA CoreIsDense ==
    Core = {i \in Indices : Cardinality(Around(i)) >= minPts}
BY DEF Core, Around

LEMMA StateSetting ==
    ASSUME OnPlane
    PROVE  Setting(Len(pts), NearPairs, Core, Reach)
<1>1. Len(pts) \in Nat /\ Indices = 1..Len(pts)
  BY PointsOnPlane
<1>2. Core \subseteq Indices
  BY DEF Core
<1>3. \A i, j \in Indices : <<i, j>> \in NearPairs <=> Near(i, j)
  BY DEF NearPairs
<1>4. \A i \in Indices : i \in Connected(i)
  BY DEF Connected
<1>5. ASSUME NEW i \in Indices, NEW j \in Connected(i), NEW k \in Core, Near(j, k)
      PROVE  k \in Connected(i)
  BY <1>2, <1>5 DEF Connected, Spread
<1>6. ASSUME NEW i \in Indices, NEW j \in Connected(i)
      PROVE  Connected(j) \subseteq Connected(i)
  <2>1. Connected(i) \in SUBSET Indices
    BY DEF Connected
  <2>2. Spread(Connected(i))
    BY <1>5 DEF Spread
  <2>3. \A k \in Connected(j) : k \in Connected(i)
    <3> TAKE k \in Connected(j)
    <3>1. \A set \in SUBSET Indices : j \in set /\ Spread(set) => k \in set
      BY DEF Connected
    <3>. QED BY <2>1, <2>2, <3>1
  <2>. QED BY <2>3
<1>7. \A i \in Indices : Reach[i] = Connected(i)
  BY DEF Reach
<1> HIDE DEF Indices
<1>8. \A i \in Indices : <<i, i>> \in NearPairs
  BY <1>3, NearProperties
<1>9. \A i, j \in Indices : <<i, j>> \in NearPairs => <<j, i>> \in NearPairs
  BY <1>3, NearProperties
<1>10. \A i, j \in Indices : \A k \in Core : j \in Reach[i] /\ <<j, k>> \in NearPairs => k \in Reach[i]
  BY <1>2, <1>3, <1>5, <1>7
<1>11. \A i, j \in Indices : j \in Reach[i] => \A k \in Indices : k \in Reach[j] => k \in Reach[i]
  BY <1>6, <1>7
<1>12. \A i \in Indices : i \in Reach[i]
  BY <1>4, <1>7
<1>. QED
  BY <1>1, <1>2, <1>8, <1>9, <1>10, <1>11, <1>12 DEF Setting

\* Features become points of the plane.
LEMMA PlacedOnPlane ==
    ASSUME NEW feats \in Collections
    PROVE  Placed(feats) \in Seq(Int \X Int)
<1>1. feats \in Seq(Seq(Int \X Int))
  BY ClusterAssumption
<1> DEFINE indices == {i \in DOMAIN feats : feats[i] # <<>>}
           usable == Picked(feats, indices)
           n == Cardinality(indices)
<1>2. Len(feats) \in Nat /\ DOMAIN feats = 1..Len(feats)
  BY <1>1
<1>3. IsFiniteSet(indices) /\ indices \subseteq Int
  <2>1. indices \in SUBSET (1..Len(feats)) /\ IsFiniteSet(1..Len(feats))
    BY <1>2, FS_Interval
  <2>2. \A i \in indices : i \in Int
    BY <1>2
  <2> HIDE DEF indices
  <2>3. IsFiniteSet(indices)
    BY <2>1, FS_Subset
  <2>. QED BY <2>2, <2>3
<1>4. /\ n \in Nat /\ DOMAIN usable = 1..n
      /\ \A k \in 1..n : \E i \in indices : usable[k] = feats[i]
  <2> HIDE DEF indices
  <2>1. ElementsAt(feats, indices, usable)
    BY <1>3, PickedElements
  <2> HIDE DEF usable
  <2>. QED BY <2>1 DEF ElementsAt
<1>5. \A k \in 1..n : usable[k] \in Seq(Int \X Int) /\ usable[k] # <<>>
  <2>1. \A i \in indices : feats[i] \in Seq(Int \X Int) /\ feats[i] # <<>>
    BY <1>1
  <2> HIDE DEF usable, n, indices
  <2>. QED
    BY <1>4, <2>1
<1>6. ASSUME NEW f \in Seq(Int \X Int), f # <<>>, NEW axis \in {1, 2}
      PROVE  Middle(f, axis) \in Int
  <2> DEFINE coordinates == {f[v][axis] : v \in DOMAIN f}
             g == [v \in DOMAIN f |-> f[v][axis]]
  <2>1. Len(f) \in Nat /\ DOMAIN f = 1..Len(f) /\ 1 \in DOMAIN f
        /\ \A v \in DOMAIN f : f[v][axis] \in Int
    BY <1>6
  <2>2. IsFiniteSet(DOMAIN f)
    BY <2>1, FS_Interval
  <2>3. g \in Surjection(DOMAIN f, coordinates)
    BY DEF Surjection
  <2>4. coordinates \subseteq Int /\ coordinates # {}
    BY <2>1
  <2>5. Middle(f, axis) = (Min(coordinates) + Max(coordinates)) \div 2
    BY DEF Middle
  <2> HIDE DEF coordinates, g
  <2>6. IsFiniteSet(coordinates)
    BY <2>2, <2>3, FS_Surjection
  <2>7. Min(coordinates) \in Int /\ Max(coordinates) \in Int
    BY <2>4, <2>6, MinOfFinite, MaxIsGreatest
  <2>. QED
    BY <2>5, <2>7
<1>7. Placed(feats) = [i \in DOMAIN usable |-> <<Middle(usable[i], 1), Middle(usable[i], 2)>>]
  BY DEF Placed
<1> HIDE DEF usable, n, indices
<1>8. \A k \in 1..n : Middle(usable[k], 1) \in Int /\ Middle(usable[k], 2) \in Int
  BY <1>5, <1>6
<1>9. Placed(feats) \in [1..n -> Int \X Int]
  BY <1>4, <1>7, <1>8
<1>. QED
  BY <1>4, <1>9

\* Steps that leave the points alone leave the setting alone.
LEMMA SettingStays ==
    ASSUME UNCHANGED <<pts, minPts>>
    PROVE  /\ Indices' = Indices /\ OnPlane' = OnPlane
           /\ NearPairs' = NearPairs /\ Core' = Core /\ Reach' = Reach
BY DEF Indices, OnPlane, NearPairs, Core, Reach, Connected, Spread, Near

-----------------------------------------------------------------------------
(* The invariant.                                                          *)

InQueue(pending) == {pending[k] : k \in DOMAIN pending}

LEMMA QueueRanges ==
    ASSUME NEW T, NEW q \in Seq(T)
    PROVE  /\ InQueue(q) \subseteq T
           /\ q # <<>> => /\ Head(q) \in InQueue(q) /\ Tail(q) \in Seq(T)
                          /\ InQueue(q) \ {Head(q)} \subseteq InQueue(Tail(q))
                          /\ InQueue(Tail(q)) \subseteq InQueue(q)
           /\ \A r \in Seq(T) : q \o r \in Seq(T) /\ InQueue(q \o r) = InQueue(q) \cup InQueue(r)
<1>1. Len(q) \in Nat /\ DOMAIN q = 1..Len(q) /\ \A k \in 1..Len(q) : q[k] \in T
  OBVIOUS
<1>2. InQueue(q) \subseteq T
  BY <1>1 DEF InQueue
<1>3. ASSUME q # <<>>
      PROVE  /\ Head(q) \in InQueue(q) /\ Tail(q) \in Seq(T)
             /\ InQueue(q) \ {Head(q)} \subseteq InQueue(Tail(q))
             /\ InQueue(Tail(q)) \subseteq InQueue(q)
  <2>1. /\ Tail(q) \in Seq(T) /\ Head(q) = q[1] /\ Len(q) >= 1
        /\ DOMAIN Tail(q) = 1..(Len(q) - 1)
        /\ \A k \in 1..(Len(q) - 1) : Tail(q)[k] = q[k + 1]
    BY <1>1, <1>3
  <2>2. Head(q) \in InQueue(q)
    BY <1>1, <2>1 DEF InQueue
  <2>3. ASSUME NEW k \in 1..Len(q), q[k] # q[1] PROVE q[k] \in InQueue(Tail(q))
    <3>1. k - 1 \in 1..(Len(q) - 1) /\ (k - 1) + 1 = k
      BY <1>1, <2>3
    <3>2. Tail(q)[k - 1] = q[k] /\ k - 1 \in DOMAIN Tail(q)
      BY <2>1, <3>1
    <3>. QED BY <3>2 DEF InQueue
  <2>4. ASSUME NEW k \in 1..(Len(q) - 1) PROVE Tail(q)[k] \in InQueue(q)
    <3>1. k + 1 \in DOMAIN q /\ Tail(q)[k] = q[k + 1]
      BY <1>1, <2>1
    <3>. QED BY <3>1 DEF InQueue
  <2>5. \A x \in InQueue(q) : x # Head(q) => x \in InQueue(Tail(q))
    BY <1>1, <2>1, <2>3 DEF InQueue
  <2>6. \A x \in InQueue(Tail(q)) : x \in InQueue(q)
    BY <2>1, <2>4 DEF InQueue
  <2>. QED
    BY <2>1, <2>2, <2>5, <2>6
<1>4. ASSUME NEW r \in Seq(T)
      PROVE  q \o r \in Seq(T) /\ InQueue(q \o r) = InQueue(q) \cup InQueue(r)
  <2>1. /\ q \o r \in Seq(T) /\ Len(r) \in Nat /\ DOMAIN r = 1..Len(r)
        /\ DOMAIN (q \o r) = 1..(Len(q) + Len(r))
        /\ \A k \in 1..Len(q) : (q \o r)[k] = q[k]
        /\ \A k \in 1..Len(r) : (q \o r)[Len(q) + k] = r[k]
    OBVIOUS
  <2>2. \A k \in 1..(Len(q) + Len(r)) : (q \o r)[k] \in InQueue(q) \cup InQueue(r)
    <3> TAKE k \in 1..(Len(q) + Len(r))
    <3>1. CASE k \in 1..Len(q)
      BY <1>1, <2>1, <3>1 DEF InQueue
    <3>2. CASE k \notin 1..Len(q)
      <4>1. k - Len(q) \in 1..Len(r) /\ Len(q) + (k - Len(q)) = k
        BY <1>1, <2>1, <3>2
      <4>2. (q \o r)[k] = r[k - Len(q)] /\ k - Len(q) \in DOMAIN r
        BY <2>1, <4>1
      <4>. QED BY <4>2 DEF InQueue
    <3>. QED BY <3>1, <3>2
  <2>3. \A k \in 1..Len(q) : q[k] \in InQueue(q \o r)
    <3> TAKE k \in 1..Len(q)
    <3>1. k \in DOMAIN (q \o r) /\ (q \o r)[k] = q[k]
      BY <1>1, <2>1
    <3>. QED BY <3>1 DEF InQueue
  <2>4. \A k \in 1..Len(r) : r[k] \in InQueue(q \o r)
    <3> TAKE k \in 1..Len(r)
    <3>1. Len(q) + k \in DOMAIN (q \o r) /\ (q \o r)[Len(q) + k] = r[k]
      BY <1>1, <2>1
    <3>. QED BY <3>1 DEF InQueue
  <2>5. \A x \in InQueue(q \o r) : x \in InQueue(q) \cup InQueue(r)
    BY <2>1, <2>2 DEF InQueue
  <2>6. \A x \in InQueue(q) \cup InQueue(r) : x \in InQueue(q \o r)
    BY <1>1, <2>1, <2>3, <2>4 DEF InQueue
  <2>. QED
    BY <2>1, <2>5, <2>6
<1>. QED
  BY <1>2, <1>3, <1>4

\* The summaries count the points of each cluster.
Counted ==
    /\ point = Len(pts) + 1
    /\ DOMAIN sums = 0..(cluster - 1)
    /\ \A id \in 0..(cluster - 1) : sums[id].count = Cardinality(Members(id))

ClusterInv ==
    /\ OnPlane /\ minPts \in Nat
    /\ label \in [1..Len(pts) -> {Noise, Unclassified} \cup Nat]
    /\ cluster \in Nat /\ point \in 1..(Len(pts) + 1) /\ cluster <= point - 1
    /\ growing \in Seq(Indices)
    /\ phase \in {"no", "scanning", "growing", "done", "cancelled", "refused"}
    /\ phase = "no" => cluster = 0 /\ point = 1 /\ growing = <<>>
    /\ \A i \in 1..(point - 1) : label[i] # Unclassified
    /\ phase = "growing" => point \in Core /\ label[point] = cluster
    /\ phase # "cancelled" =>
          Labelled(Len(pts), NearPairs, Core, Reach, label, cluster, InQueue(growing),
                   phase = "growing")
    /\ phase = "done" => Counted

LEMMA IdleClusterInv == ClusterIdle => ClusterInv
<1> SUFFICES ASSUME ClusterIdle PROVE ClusterInv
  OBVIOUS
<1>1. pts = <<>> /\ Len(pts) = 0 /\ label = <<>> /\ growing = <<>> /\ cluster = 0 /\ point = 1
      /\ phase = "no" /\ minPts = 1
  BY DEF ClusterIdle
<1>2. OnPlane
  BY <1>1 DEF OnPlane
<1>3. label = [i \in 1..Len(pts) |-> Unclassified]
  BY <1>1
<1>4. InQueue(growing) = {}
  BY <1>1 DEF InQueue
<1>5. Setting(Len(pts), NearPairs, Core, Reach)
  BY <1>2, StateSetting
<1>6. Labelled(Len(pts), NearPairs, Core, Reach, label, 0, {}, FALSE)
  BY <1>3, <1>5, NothingLabelled
<1>7. Labelled(Len(pts), NearPairs, Core, Reach, label, cluster, InQueue(growing), phase = "growing")
  BY <1>1, <1>4, <1>6
<1>8. label \in [1..Len(pts) -> {Noise, Unclassified} \cup Nat]
  BY <1>3
<1>. QED
  BY <1>1, <1>2, <1>7, <1>8 DEF ClusterInv

LEMMA BeginClusterInv ==
    ASSUME ClusterInv, phase = "no", NEW feats \in Collections, NEW density \in Densities,
           BeginClustering(feats, density)
    PROVE  ClusterInv'
<1>1. /\ pts' = Placed(feats) /\ minPts' = density /\ cluster' = 0 /\ point' = 1
      /\ growing' = <<>> /\ phase' \in {"scanning", "refused"}
      /\ label' = [i \in DOMAIN pts' |-> Unclassified]
  BY DEF BeginClustering, ClusterInv
<1>2. OnPlane'
  BY <1>1, PlacedOnPlane DEF OnPlane
<1>3. Len(pts') \in Nat /\ DOMAIN pts' = 1..Len(pts')
  BY <1>2 DEF OnPlane
<1>4. (InQueue(growing))' = {}
  BY <1>1 DEF InQueue
<1>5. Setting(Len(pts), NearPairs, Core, Reach)'
  BY <1>2, StateSetting, PTL
<1>6. label' = [i \in 1..Len(pts') |-> Unclassified]
  BY <1>1, <1>3
<1>7. Labelled(Len(pts'), NearPairs', Core', Reach', label', 0, {}, FALSE)
  BY <1>5, <1>6, NothingLabelled
<1>8. label' \in [1..Len(pts') -> {Noise, Unclassified} \cup Nat]
  BY <1>6
<1>9. minPts' \in Nat
  BY <1>1, ClusterAssumption
<1>10. (phase' = "growing") = FALSE /\ phase' # "done" /\ phase' # "no"
  BY <1>1
<1>11. Labelled(Len(pts'), NearPairs', Core', Reach', label', cluster', InQueue(growing)',
                phase' = "growing")
  BY <1>1, <1>4, <1>7, <1>10
<1>12. \A i \in 1..(point' - 1) : label'[i] # Unclassified
  BY <1>1
<1>13. growing' \in Seq(Indices')
  BY <1>1
<1>. QED
  BY <1>1, <1>2, <1>3, <1>8, <1>9, <1>10, <1>11, <1>12, <1>13 DEF ClusterInv

\* What a step that leaves the points alone has to show.
LEMMA SamePointsInv ==
    ASSUME ClusterInv, UNCHANGED <<pts, minPts>>,
           label' \in [1..Len(pts) -> {Noise, Unclassified} \cup Nat],
           cluster' \in Nat, point' \in 1..(Len(pts) + 1), cluster' <= point' - 1,
           growing' \in Seq(Indices), phase' \in {"scanning", "growing", "done", "cancelled"},
           \A i \in 1..(point' - 1) : label'[i] # Unclassified,
           phase' = "growing" => point' \in Core /\ label'[point'] = cluster',
           phase' \in {"scanning", "done"} =>
              Labelled(Len(pts), NearPairs, Core, Reach, label', cluster', InQueue(growing'), FALSE),
           phase' = "growing" =>
              Labelled(Len(pts), NearPairs, Core, Reach, label', cluster', InQueue(growing'), TRUE),
           phase' = "done" => Counted'
    PROVE  ClusterInv'
<1>1. /\ Indices' = Indices /\ OnPlane' /\ minPts' \in Nat /\ Len(pts') = Len(pts)
      /\ NearPairs' = NearPairs /\ Core' = Core /\ Reach' = Reach
  BY SettingStays DEF ClusterInv
<1>2. CASE phase' \in {"scanning", "done"}
  <2>1. (phase' = "growing") = FALSE
    BY <1>2
  <2>2. Labelled(Len(pts'), NearPairs', Core', Reach', label', cluster', InQueue(growing)',
                 phase' = "growing")
    BY <1>1, <1>2, <2>1 DEF InQueue
  <2>. QED
    BY <1>1, <1>2, <2>2 DEF ClusterInv
<1>3. CASE phase' = "growing"
  <2>1. (phase' = "growing") = TRUE
    BY <1>3
  <2>2. Labelled(Len(pts'), NearPairs', Core', Reach', label', cluster', InQueue(growing)',
                 phase' = "growing")
    BY <1>1, <1>3, <2>1 DEF InQueue
  <2>. QED
    BY <1>1, <1>3, <2>2 DEF ClusterInv
<1>4. CASE phase' = "cancelled"
  BY <1>1, <1>4 DEF ClusterInv
<1>. QED
  BY <1>2, <1>3, <1>4

\* The parts of the invariant a step starts from.
LEMMA InvParts ==
    ASSUME ClusterInv
    PROVE  /\ Len(pts) \in Nat /\ Indices = 1..Len(pts) /\ OnPlane /\ minPts \in Nat
           /\ label \in [1..Len(pts) -> {Noise, Unclassified} \cup Nat]
           /\ cluster \in Nat /\ point \in 1..(Len(pts) + 1) /\ cluster <= point - 1
           /\ growing \in Seq(Indices)
           /\ \A i \in 1..(point - 1) : label[i] # Unclassified
           /\ Setting(Len(pts), NearPairs, Core, Reach)
           /\ phase \in {"scanning", "done"} =>
                 Labelled(Len(pts), NearPairs, Core, Reach, label, cluster, InQueue(growing), FALSE)
           /\ phase = "growing" =>
                 /\ point \in Core /\ label[point] = cluster
                 /\ Labelled(Len(pts), NearPairs, Core, Reach, label, cluster, InQueue(growing), TRUE)
<1>1. Len(pts) \in Nat /\ Indices = 1..Len(pts) /\ Setting(Len(pts), NearPairs, Core, Reach)
  BY PointsOnPlane, StateSetting DEF ClusterInv
<1>2. ASSUME phase \in {"scanning", "done"}
      PROVE  Labelled(Len(pts), NearPairs, Core, Reach, label, cluster, InQueue(growing), FALSE)
  <2>1. (phase = "growing") = FALSE /\ phase # "cancelled"
    BY <1>2
  <2>. QED BY <2>1 DEF ClusterInv
<1>3. ASSUME phase = "growing"
      PROVE  Labelled(Len(pts), NearPairs, Core, Reach, label, cluster, InQueue(growing), TRUE)
  <2>1. (phase = "growing") = TRUE /\ phase # "cancelled"
    BY <1>3
  <2>. QED BY <2>1 DEF ClusterInv
<1>. QED
  BY <1>1, <1>2, <1>3 DEF ClusterInv

\* The neighbours of a point decide whether it is core, and they are what waits.
LEMMA NeighboursDecide ==
    ASSUME OnPlane, minPts \in Nat, NEW i \in Indices
    PROVE  /\ i \in Core <=> Len(Neighbours(i)) >= minPts
           /\ Neighbours(i) \in Seq(Indices)
           /\ InQueue(Neighbours(i)) = {j \in Indices : <<i, j>> \in NearPairs}
           /\ Len(Neighbours(i)) \in Nat
<1>1. PICK n \in Nat : n = Cardinality(Around(i))
  BY NeighboursAreNear
<1>2. /\ Neighbours(i) \in [1..n -> Around(i)] /\ Len(Neighbours(i)) = n
      /\ Neighbours(i) \in Seq(Indices)
      /\ \A j \in Around(i) : \E k \in 1..n : Neighbours(i)[k] = j
  BY <1>1, NeighboursAreNear
<1>3. InQueue(Neighbours(i)) = Around(i)
  BY <1>2 DEF InQueue
<1>4. Around(i) = {j \in Indices : <<i, j>> \in NearPairs}
  BY DEF Around, NearPairs
<1>5. i \in Core <=> n >= minPts
  BY <1>1, CoreIsDense
<1>. QED
  BY <1>1, <1>2, <1>3, <1>4, <1>5

LEMMA ScanPointInv ==
    ASSUME ClusterInv, ScanPoint
    PROVE  ClusterInv'
<1>1. /\ phase = "scanning" /\ point <= Len(pts) /\ UNCHANGED <<pts, minPts, cluster, sums>>
  BY DEF ScanPoint
<1>2. point \in Indices /\ point \in 1..Len(pts) /\ point + 1 \in 1..(Len(pts) + 1)
      /\ cluster <= (point + 1) - 1 /\ \A i \in 1..((point + 1) - 1) : i = point \/ i \in 1..(point - 1)
  BY <1>1, InvParts
<1>3. CASE label[point] # Unclassified
  <2>1. point' = point + 1 /\ UNCHANGED <<label, growing, steps, phase>>
    BY <1>3 DEF ScanPoint
  <2>2. \A i \in 1..(point' - 1) : label'[i] # Unclassified
    BY <1>2, <1>3, <2>1, InvParts
  <2>. QED
    BY <1>1, <1>2, <2>1, <2>2, InvParts, SamePointsInv
<1>4. CASE label[point] = Unclassified /\ Len(Neighbours(point)) < minPts
  <2>1. /\ label' = [label EXCEPT ![point] = Noise] /\ point' = point + 1
        /\ UNCHANGED <<growing, steps, phase>>
    BY <1>4 DEF ScanPoint
  <2>2. point \notin Core
    BY <1>2, <1>4, InvParts, NeighboursDecide
  <2>3. Labelled(Len(pts), NearPairs, Core, Reach, label', cluster', InQueue(growing'), FALSE)
    BY <1>1, <1>2, <1>4, <2>1, <2>2, InvParts, MarkNoise
  <2>4. label' \in [1..Len(pts) -> {Noise, Unclassified} \cup Nat]
    BY <2>3 DEF Labelled
  <2>5. \A i \in 1..(point' - 1) : label'[i] # Unclassified
    <3> TAKE i \in 1..(point' - 1)
    <3>1. i \in 1..Len(pts) /\ (i = point \/ label[i] # Unclassified)
      BY <1>2, <2>1, InvParts
    <3>. QED BY <1>2, <2>1, <3>1, InvParts DEF Noise, Unclassified
  <2>. QED
    BY <1>1, <1>2, <2>1, <2>3, <2>4, <2>5, InvParts, SamePointsInv
<1>5. CASE label[point] = Unclassified /\ ~(Len(Neighbours(point)) < minPts)
  <2>1. /\ label' = [label EXCEPT ![point] = cluster] /\ growing' = Neighbours(point)
        /\ phase' = "growing" /\ point' = point
    BY <1>5 DEF ScanPoint
  <2>2. point \in Core
    BY <1>2, <1>5, InvParts, NeighboursDecide
  <2>3. growing' \in Seq(Indices) /\ InQueue(growing') = {j \in 1..Len(pts) : <<point, j>> \in NearPairs}
    BY <1>2, <2>1, InvParts, NeighboursDecide
  <2>4. Labelled(Len(pts), NearPairs, Core, Reach, label', cluster', InQueue(growing'), TRUE)
    BY <1>1, <1>5, <2>1, <2>2, <2>3, InvParts, BeginCluster
  <2>5. label' \in [1..Len(pts) -> {Noise, Unclassified} \cup Nat]
    BY <2>4 DEF Labelled
  <2>6. label'[point] = cluster
    BY <1>2, <2>1, InvParts
  <2>7. \A i \in 1..(point' - 1) : label'[i] # Unclassified
    BY <1>2, <2>1, InvParts DEF Unclassified
  <2>. QED
    BY <1>1, <1>2, <2>1, <2>2, <2>3, <2>4, <2>5, <2>6, <2>7, InvParts, SamePointsInv
<1>. QED
  BY <1>3, <1>4, <1>5

LEMMA GrowInv ==
    ASSUME ClusterInv, Grow
    PROVE  ClusterInv'
<1> DEFINE j == Head(growing)
           rest == InQueue(Tail(growing))
           more == IF j \in Core THEN {k \in 1..Len(pts) : <<j, k>> \in NearPairs} ELSE {}
<1>1. /\ phase = "growing" /\ phase' = "growing" /\ growing # <<>>
      /\ UNCHANGED <<pts, minPts, cluster, point, sums>>
  BY DEF Grow
<1>2. /\ j \in InQueue(growing) /\ InQueue(growing) \ {j} \subseteq rest
      /\ rest \subseteq InQueue(growing) /\ InQueue(growing) \subseteq Indices
      /\ Tail(growing) \in Seq(Indices)
      /\ \A r \in Seq(Indices) : Tail(growing) \o r \in Seq(Indices)
                                 /\ InQueue(Tail(growing) \o r) = rest \cup InQueue(r)
  BY <1>1, InvParts, QueueRanges
<1>3. j \in Indices
  BY <1>2
<1>4. /\ j \in Core <=> Len(Neighbours(j)) >= minPts
      /\ Neighbours(j) \in Seq(Indices)
      /\ InQueue(Neighbours(j)) = {k \in 1..Len(pts) : <<j, k>> \in NearPairs}
  BY <1>3, InvParts, NeighboursDecide
<1>5. Labelled(Len(pts), NearPairs, Core, Reach, label, cluster, InQueue(growing), TRUE)
  BY <1>1, InvParts
<1>6. CASE label[j] \notin {Noise, Unclassified}
  <2>1. growing' = Tail(growing) /\ UNCHANGED label
    BY <1>6 DEF Grow
  <2>2. label[j] >= 0
    BY <1>3, <1>6, InvParts
  <2> HIDE DEF j, rest
  <2>3. Labelled(Len(pts), NearPairs, Core, Reach, label, cluster, rest, TRUE)
    BY <1>2, <1>5, <2>2, InvParts, SkipQueued
  <2>4. rest = InQueue(growing')
    BY <2>1 DEF rest
  <2>. QED
    BY <1>1, <1>2, <2>1, <2>3, <2>4, InvParts, SamePointsInv
<1>7. CASE label[j] \in {Noise, Unclassified}
  <2>1. /\ label' = [label EXCEPT ![j] = cluster]
        /\ growing' = IF label[j] = Unclassified /\ Len(Neighbours(j)) >= minPts
                      THEN Tail(growing) \o Neighbours(j) ELSE Tail(growing)
    BY <1>7 DEF Grow
  <2>2. label[j] = Noise => j \notin Core
    BY <1>3, <1>5, InvParts DEF Labelled, NoiseNotCore
  <2>3. growing' = IF j \in Core THEN Tail(growing) \o Neighbours(j) ELSE Tail(growing)
    BY <1>4, <1>7, <2>1, <2>2 DEF Noise, Unclassified
  <2>4. growing' \in Seq(Indices) /\ InQueue(growing') = rest \cup more
    BY <1>2, <1>4, <2>3
  <2> HIDE DEF j, rest
  <2>5. Labelled(Len(pts), NearPairs, Core, Reach, label', cluster, rest \cup more, TRUE)
    BY <1>2, <1>5, <1>7, <2>1, InvParts, JoinCluster
  <2>6. label' \in [1..Len(pts) -> {Noise, Unclassified} \cup Nat]
    BY <2>5 DEF Labelled
  <2>7. \A i \in 1..Len(pts) : label'[i] = IF i = j THEN cluster ELSE label[i]
    BY <1>3, <2>1, InvParts
  <2>8. \A i \in 1..(point' - 1) : label'[i] # Unclassified
    <3> TAKE i \in 1..(point' - 1)
    <3>1. i \in 1..Len(pts) /\ label[i] # Unclassified
      BY <1>1, InvParts
    <3>. QED BY <2>7, <3>1, InvParts DEF Unclassified
  <2>9. point' \in Core /\ label'[point'] = cluster'
    <3>1. point \in Core /\ label[point] = cluster /\ point \in 1..Len(pts)
      BY <1>1, InvParts DEF Core
    <3>. QED BY <1>1, <2>7, <3>1
  <2> HIDE DEF more
  <2>. QED
    BY <1>1, <2>4, <2>5, <2>6, <2>8, <2>9, InvParts, SamePointsInv
<1>. QED
  BY <1>6, <1>7

LEMMA ClusterGrownInv ==
    ASSUME ClusterInv, ClusterGrown
    PROVE  ClusterInv'
<1>1. /\ phase = "growing" /\ phase' = "scanning" /\ growing = <<>>
      /\ cluster' = cluster + 1 /\ point' = point + 1
      /\ UNCHANGED <<pts, minPts, label, growing>>
  BY DEF ClusterGrown
<1>2. InQueue(growing) = {}
  BY <1>1 DEF InQueue
<1>3. Labelled(Len(pts), NearPairs, Core, Reach, label', cluster', InQueue(growing'), FALSE)
  BY <1>1, <1>2, InvParts, FinishCluster
<1>4. point \in 1..Len(pts) /\ label[point] = cluster
  BY <1>1, InvParts DEF Core
<1>5. \A i \in 1..(point' - 1) : label'[i] # Unclassified
  <2> TAKE i \in 1..(point' - 1)
  <2>1. i = point \/ i \in 1..(point - 1)
    BY <1>1, <1>4
  <2>. QED BY <1>1, <1>4, <2>1, InvParts DEF Unclassified
<1>6. cluster' \in Nat /\ point' \in 1..(Len(pts) + 1) /\ cluster' <= point' - 1
  BY <1>1, <1>4, InvParts
<1>. QED
  BY <1>1, <1>3, <1>5, <1>6, InvParts, SamePointsInv

LEMMA ClusteringGivesUpInv ==
    ASSUME ClusterInv, ClusteringGivesUp
    PROVE  ClusterInv'
<1>1. phase' = "cancelled" /\ UNCHANGED <<pts, minPts, label, cluster, point, growing>>
  BY DEF ClusteringGivesUp
<1>. QED
  BY <1>1, InvParts, SamePointsInv

\* After the last point the labels are the clusters of the definition.
LEMMA LabelsAtEnd ==
    ASSUME ClusterInv, phase \in {"scanning", "done"}, point = Len(pts) + 1
    PROVE  /\ \A i \in Core : /\ label[i] \in 0..(cluster - 1)
                              /\ \A j \in Core : label[i] = label[j] <=> j \in Connected(i)
           /\ \A i \in Indices \ Core :
                 /\ (\A j \in Core : ~Near(i, j)) => label[i] = Noise
                 /\ (\E j \in Core : Near(i, j)) => \E j \in Core : Near(i, j) /\ label[i] = label[j]
           /\ {label[i] : i \in Indices} \ {Noise} = 0..(cluster - 1)
<1>1. Indices = 1..Len(pts) /\ Len(pts) \in Nat /\ Core \subseteq Indices
  BY InvParts DEF Core
<1>2. \A i \in 1..Len(pts) : label[i] # Unclassified
  BY <1>1, InvParts
<1>3. \A i, j \in Indices : <<i, j>> \in NearPairs <=> Near(i, j)
  BY DEF NearPairs
<1>4. \A i \in Indices : Reach[i] = Connected(i)
  BY DEF Reach
<1> DEFINE n == Len(pts)
<1>5. LeastPoint(n, NearPairs, Core, Reach)
  <2> SUFFICES ASSUME NEW i \in 1..n, NEW set \in SUBSET (1..n), i \in set,
                      \A m \in set, j \in Core : <<m, j>> \in NearPairs => j \in set,
                      NEW j \in 1..n, j \in Reach[i]
               PROVE  j \in set
    BY DEF LeastPoint
  <2>0. set \in SUBSET Indices /\ j \in Connected(i)
    BY <1>1, <1>4
  <2>1. Spread(set)
    <3>1. \A m \in set, k \in Core : m \in Indices /\ k \in Indices
      BY <1>1
    <3>. QED
      BY <1>3, <3>1 DEF Spread
  <2>. QED
    BY <2>0, <2>1 DEF Connected
<1>6. Setting(n, NearPairs, Core, Reach)
      /\ Labelled(n, NearPairs, Core, Reach, label, cluster, InQueue(growing), FALSE)
  BY InvParts
<1>7. Clustered(n, NearPairs, Core, Reach, label, cluster)
  BY <1>2, <1>5, <1>6, AllLabelled
<1>8. 1..n = Indices
  BY <1>1
<1> HIDE DEF Indices, n
<1>9. \A i \in Core : /\ label[i] \in 0..(cluster - 1)
                      /\ \A j \in Core : label[i] = label[j] <=> j \in Connected(i)
  BY <1>1, <1>4, <1>7 DEF Clustered
<1>10. \A i \in Indices \ Core :
         /\ (\A j \in Core : ~Near(i, j)) => label[i] = Noise
         /\ (\E j \in Core : Near(i, j)) => \E j \in Core : Near(i, j) /\ label[i] = label[j]
  <2> TAKE i \in Indices \ Core
  <2>1. \A j \in Core : <<i, j>> \in NearPairs <=> Near(i, j)
    BY <1>1, <1>3
  <2>. QED
    BY <1>7, <1>8, <2>1 DEF Clustered
<1>11. {label[i] : i \in Indices} \ {Noise} = 0..(cluster - 1)
  BY <1>7, <1>8 DEF Clustered
<1>. QED
  BY <1>9, <1>10, <1>11

LEMMA SummarizeInv ==
    ASSUME ClusterInv, Summarize
    PROVE  ClusterInv'
<1> DEFINE used == {label[i] : i \in Indices} \ {Noise}
           summary(id) ==
             [count |-> Cardinality(Members(id)),
              low   |-> <<Min({pts[i][1] : i \in Members(id)}), Min({pts[i][2] : i \in Members(id)})>>,
              high  |-> <<Max({pts[i][1] : i \in Members(id)}), Max({pts[i][2] : i \in Members(id)})>>]
<1>1. /\ phase = "scanning" /\ phase' = "done" /\ point > Len(pts)
      /\ sums' = [id \in 0..(Cardinality(used) - 1) |-> summary(id)]
      /\ UNCHANGED <<pts, minPts, label, cluster, point, growing>>
  BY DEF Summarize
<1>2. point = Len(pts) + 1
  BY <1>1, InvParts
<1>3. Cardinality(used) = cluster
  <2>1. used = 0..(cluster - 1)
    BY <1>1, <1>2, LabelsAtEnd
  <2> HIDE DEF used
  <2>2. cluster \in Nat /\ Cardinality(0..(cluster - 1)) = cluster
    <3>1. cluster \in Nat /\ cluster - 1 \in Int /\ 0 \in Int
      BY InvParts
    <3>2. Cardinality(0..(cluster - 1)) = IF 0 > cluster - 1 THEN 0 ELSE (cluster - 1) - 0 + 1
      BY <3>1, FS_Interval
    <3>. QED BY <3>1, <3>2
  <2>. QED
    BY <2>1, <2>2
<1>4. Counted'
  <2>1. sums' = [id \in 0..(cluster - 1) |-> summary(id)]
    BY <1>1, <1>3
  <2>2. \A id \in 0..(cluster - 1) : summary(id).count = Cardinality(Members(id))
    OBVIOUS
  <2> HIDE DEF summary
  <2>3. DOMAIN sums' = 0..(cluster - 1)
        /\ \A id \in 0..(cluster - 1) : sums'[id].count = Cardinality(Members(id))
    BY <2>1, <2>2
  <2>4. \A id : Members(id)' = Members(id)
    BY <1>1 DEF Members, Indices
  <2>. QED
    BY <1>1, <1>2, <2>3, <2>4 DEF Counted
<1>. QED
  BY <1>1, <1>4, InvParts, SamePointsInv

LEMMA ClusterInvStep == ClusterInv /\ [ClusterNext]_clustering => ClusterInv'
<1> SUFFICES ASSUME ClusterInv, [ClusterNext]_clustering PROVE ClusterInv'
  OBVIOUS
<1>1. CASE phase = "no" /\ \E feats \in Collections, density \in Densities : BeginClustering(feats, density)
  BY <1>1, BeginClusterInv
<1>2. CASE ScanPoint
  BY <1>2, ScanPointInv
<1>3. CASE Grow
  BY <1>3, GrowInv
<1>4. CASE ClusterGrown
  BY <1>4, ClusterGrownInv
<1>5. CASE ClusteringGivesUp
  BY <1>5, ClusteringGivesUpInv
<1>6. CASE Summarize
  BY <1>6, SummarizeInv
<1>7. CASE UNCHANGED clustering
  <2>1. /\ pts' = pts /\ minPts' = minPts /\ label' = label /\ cluster' = cluster /\ point' = point
        /\ growing' = growing /\ phase' = phase /\ sums' = sums
    BY <1>7 DEF clustering
  <2>2. /\ Indices' = Indices /\ OnPlane' = OnPlane
        /\ NearPairs' = NearPairs /\ Core' = Core /\ Reach' = Reach
    BY <2>1, SettingStays
  <2>3. InQueue(growing)' = InQueue(growing) /\ Counted' = Counted
    BY <2>1 DEF InQueue, Counted, Members, Indices
  <2>. QED
    BY <2>1, <2>2, <2>3 DEF ClusterInv
<1>. QED
  BY <1>1, <1>2, <1>3, <1>4, <1>5, <1>6, <1>7 DEF ClusterNext

\* Labels, clusters and queues keep their types through the scan (dbscan.go, Run).
THEOREM ClusterTypeCorrect == ClusterSpec => []ClusterTypeOK
<1>1. ClusterInv => ClusterTypeOK
  <2> SUFFICES ASSUME ClusterInv PROVE ClusterTypeOK
    OBVIOUS
  <2>1. \A k \in DOMAIN growing : growing[k] \in Indices
    BY InvParts
  <2>2. label \in [Indices -> {Noise, Unclassified} \cup Nat]
    BY InvParts
  <2>3. cluster \in 0..Len(pts) /\ point \in 1..(Len(pts) + 1)
    BY InvParts
  <2>4. phase \in {"no", "scanning", "growing", "done", "cancelled", "refused"}
    BY DEF ClusterInv
  <2>. QED
    BY <2>1, <2>2, <2>3, <2>4 DEF ClusterTypeOK
<1>. QED
  BY <1>1, IdleClusterInv, ClusterInvStep, PTL DEF ClusterSpec

\* Whatever the features, the radius and the density asked for, the labels that remain
\* when the scan ends are the clusters DBSCAN defines, and the summaries count every
\* point that is not noise once (dbscan.go, Run).
THEOREM ClustersAreDense == ClusterSpec => []ClustersDense
<1>1. ClusterInv => ClustersDense
  <2> SUFFICES ASSUME ClusterInv, phase = "done" PROVE ClustersDense
    BY DEF ClustersDense
  <2>1. Counted /\ point = Len(pts) + 1
    BY DEF ClusterInv, Counted
  <2>2. /\ \A i \in Core : /\ label[i] \in 0..(cluster - 1)
                           /\ \A j \in Core : label[i] = label[j] <=> j \in Connected(i)
        /\ \A i \in Indices \ Core :
              /\ (\A j \in Core : ~Near(i, j)) => label[i] = Noise
              /\ (\E j \in Core : Near(i, j)) => \E j \in Core : Near(i, j) /\ label[i] = label[j]
        /\ {label[i] : i \in Indices} \ {Noise} = 0..(cluster - 1)
    BY <2>1, LabelsAtEnd
  <2>3. DOMAIN sums = 0..(cluster - 1)
        /\ \A id \in 0..(cluster - 1) : sums[id].count = Cardinality(Members(id))
    BY <2>1 DEF Counted
  <2>4. ASSUME NEW i \in Indices \ Core
        PROVE  LET around == {j \in Core : Near(i, j)} IN
               IF around = {} THEN label[i] = Noise
               ELSE \E j \in around : label[i] = label[j]
    BY <2>2
  <2>5. SumFunction([id \in DOMAIN sums |-> sums[id].count]) + Cardinality(Members(Noise)) = Len(pts)
    <3> DEFINE T == 0..(cluster - 1)
               counts == [id \in DOMAIN sums |-> sums[id].count]
               clustered == {i \in Indices : label[i] \in T}
    <3>1. IsFiniteSet(T) /\ IsFiniteSet(Indices)
      BY InvParts, PointsOnPlane, FS_Interval
    <3>2. CountsKinds(Indices, label, T, counts)
      BY <2>3 DEF Members, CountsKinds
    <3>3. SumFunction(counts) = SumFunctionOnSet(counts, T)
      <4>1. DOMAIN counts = T
        BY <2>3
      <4> HIDE DEF counts, T
      <4>. QED BY <4>1 DEF SumFunction
    <3> HIDE DEF counts, T
    <3>4. SumFunctionOnSet(counts, T) = Cardinality(clustered)
      BY <3>1, <3>2, SumOfKinds DEF OfKinds
    <3>5. clustered \cup Members(Noise) = Indices /\ clustered \cap Members(Noise) = {}
      BY <2>2 DEF Members, Noise, T
    <3>6. IsFiniteSet(clustered) /\ IsFiniteSet(Members(Noise))
          /\ Cardinality(clustered) \in Nat /\ Cardinality(Members(Noise)) \in Nat
      <4>1. clustered \in SUBSET Indices /\ Members(Noise) \in SUBSET Indices
        BY DEF Members
      <4> HIDE DEF clustered
      <4>. QED BY <3>1, <4>1, FS_Subset, FS_CardinalityType
    <3> HIDE DEF clustered
    <3>7. Cardinality(Indices) = Cardinality(clustered) + Cardinality(Members(Noise))
      <4>1. Cardinality(clustered \cup Members(Noise))
              = Cardinality(clustered) + Cardinality(Members(Noise))
                - Cardinality(clustered \cap Members(Noise))
        BY <3>6, FS_Union
      <4>2. Cardinality(clustered \cap Members(Noise)) = 0
        BY <3>5, FS_EmptySet
      <4>. QED BY <3>5, <3>6, <4>1, <4>2
    <3>8. Cardinality(Indices) = Len(pts)
      <4>1. Indices = 1..Len(pts) /\ Len(pts) \in Nat
        BY InvParts
      <4>2. Cardinality(1..Len(pts)) = IF 1 > Len(pts) THEN 0 ELSE Len(pts) - 1 + 1
        BY <4>1, FS_Interval
      <4>. QED BY <4>1, <4>2
    <3>. QED
      BY <3>3, <3>4, <3>7, <3>8 DEF counts
  <2>6. DOMAIN sums = {label[i] : i \in Indices} \ {Noise}
    BY <2>2, <2>3
  <2>. QED
    BY <2>2, <2>4, <2>5, <2>6 DEF ClustersDense
<1>. QED
  BY <1>1, IdleClusterInv, ClusterInvStep, PTL DEF ClusterSpec

-----------------------------------------------------------------------------
(* Map matching: the costs of its searches.                                *)

\* A chain of least costs never rises, and begins with the costs of the seeds.
LEMMA WalksFall ==
    ASSUME BuildInv, NEW n \in Nat, NEW seeds, NEW basis, NEW w, Walks(w, n, seeds, basis)
    PROVE  /\ \A v \in NodeIDs : w[n][v] \in Cost
           /\ \A v \in NodeIDs : w[0][v] # Inf => w[n][v] # Inf /\ w[n][v] <= w[0][v]
<1> DEFINE T == {k \in 0..n : \A v \in NodeIDs : w[0][v] # Inf => w[k][v] # Inf /\ w[k][v] <= w[0][v]}
<1>1. \A k \in 0..n : w[k] \in [NodeIDs -> Cost]
  BY DEF Walks
<1>2. \A x \in Cost : x # Inf => x \in Nat
  BY DEF Cost
<1>3. 0 \in T
  <2>1. \A v \in NodeIDs : w[0][v] \in Cost
    BY <1>1
  <2>2. \A x \in Nat : x <= x
    OBVIOUS
  <2>. QED
    BY <1>2, <2>1, <2>2
<1>4. ASSUME NEW k \in T, k < n PROVE k + 1 \in T
  <2>1. k \in 0..n /\ k + 1 \in 0..n
    BY <1>4
  <2> SUFFICES ASSUME NEW v \in NodeIDs, w[0][v] # Inf
               PROVE  w[k + 1][v] # Inf /\ w[k + 1][v] <= w[0][v]
    BY <2>1
  <2>2. w[k][v] # Inf /\ w[k][v] <= w[0][v]
    OBVIOUS
  <2>3. PICK b \in [NodeIDs -> Cost] : b = w[k]
    BY <1>1, <2>1
  <2>4. w[k + 1] = OneEdgeMore(b, basis)
    BY <1>4, <2>1, <2>3 DEF Walks
  <2>5. w[k + 1][v] # Inf /\ w[k + 1][v] <= w[k][v]
    BY <2>2, <2>3, <2>4, OneMoreType
  <2>6. w[k + 1][v] \in Nat /\ w[k][v] \in Nat /\ w[0][v] \in Nat
    <3>1. w[k + 1][v] \in Cost /\ w[k][v] \in Cost /\ w[0][v] \in Cost
      BY <1>1, <2>1
    <3>. QED
      BY <1>2, <2>2, <2>5, <3>1
  <2>. QED
    BY <2>2, <2>5, <2>6
<1>5. n \in T
  <2>1. T \subseteq 0..n
    OBVIOUS
  <2> HIDE DEF T
  <2>2. T = 0..n
    BY <1>3, <1>4, <2>1, UpTo
  <2>. QED
    BY <2>2
<1>. QED
  BY <1>1, <1>5

\* A search with a cutoff finds no cost that a search without would not undercut or meet.
LEMMA LeastUpToFacts ==
    ASSUME BuildInv, NEW seeds, NEW basis, NEW cutoff \in Nat,
           \A v \in DOMAIN seeds : seeds[v] \in Nat
    PROVE  \A v \in NodeIDs :
              /\ LeastCost(seeds, basis)[v] \in Cost
              /\ LeastUpTo(seeds, basis, cutoff)[v] \in Cost
              /\ LeastUpTo(seeds, basis, cutoff)[v] # Inf =>
                    /\ LeastCost(seeds, basis)[v] # Inf
                    /\ LeastCost(seeds, basis)[v] <= LeastUpTo(seeds, basis, cutoff)[v]
<1>1. Len(nodes) \in Nat
  BY NodePlaces
<1>2. PICK w : Walks(w, Len(nodes), seeds, basis) /\ LeastWithin(seeds, basis, Len(nodes)) = w[Len(nodes)]
  BY <1>1, WalksExist
<1>3. LeastCost(seeds, basis) = w[Len(nodes)]
  BY <1>2 DEF LeastCost
<1>4. \A v \in NodeIDs :
         /\ w[Len(nodes)][v] \in Cost
         /\ w[0][v] # Inf => w[Len(nodes)][v] # Inf /\ w[Len(nodes)][v] <= w[0][v]
  BY <1>1, <1>2, WalksFall
<1>5. \A v \in NodeIDs : w[0][v] = IF v \in DOMAIN seeds THEN seeds[v] ELSE Inf
  BY <1>2 DEF Walks, AtSeeds
<1> SUFFICES ASSUME NEW v \in NodeIDs
             PROVE  /\ LeastCost(seeds, basis)[v] \in Cost
                    /\ LeastUpTo(seeds, basis, cutoff)[v] \in Cost
                    /\ LeastUpTo(seeds, basis, cutoff)[v] # Inf =>
                          /\ LeastCost(seeds, basis)[v] # Inf
                          /\ LeastCost(seeds, basis)[v] <= LeastUpTo(seeds, basis, cutoff)[v]
  OBVIOUS
<1>6. PICK c \in Cost : c = LeastCost(seeds, basis)[v]
  BY <1>3, <1>4
<1>7. LeastUpTo(seeds, basis, cutoff)[v] = IF cutoff = 0 \/ c <= cutoff THEN c
                                           ELSE IF v \in DOMAIN seeds THEN seeds[v] ELSE Inf
  BY <1>6 DEF LeastUpTo
<1>8. c # Inf => c \in Nat
  BY DEF Cost
<1>9. CASE cutoff = 0 \/ c <= cutoff
  <2>1. c # Inf => c <= c
    BY <1>8
  <2>. QED
    BY <1>6, <1>7, <1>9, <2>1
<1>10. CASE ~(cutoff = 0 \/ c <= cutoff) /\ v \in DOMAIN seeds
  <2>1. seeds[v] \in Nat /\ seeds[v] # Inf /\ seeds[v] \in Cost
    BY <1>10 DEF Cost, Inf
  <2>2. c # Inf /\ c <= seeds[v]
    BY <1>3, <1>4, <1>5, <1>6, <1>10, <2>1
  <2>. QED
    BY <1>6, <1>7, <1>10, <2>1, <2>2
<1>11. CASE ~(cutoff = 0 \/ c <= cutoff) /\ v \notin DOMAIN seeds
  BY <1>6, <1>7, <1>11 DEF Cost
<1>. QED
  BY <1>9, <1>10, <1>11

-----------------------------------------------------------------------------
(* Map matching: candidates.                                               *)

\* What every candidate is like.
Place(c) ==
    /\ c.edge \in EdgeIDs /\ c.pt \in Int /\ c.dist \in Nat
    /\ c.off \in 0..edges[c.edge].len

LEMMA ShareOf ==
    ASSUME NEW x \in Nat, NEW d \in Nat \ {0}, NEW len \in Nat, x <= d
    PROVE  (x * len) \div d \in 0..len
<1>1. x * len \in Int /\ d * len \in Int /\ x * len <= d * len
  BY TimesMonotonic
<1>2. (x * len) \div d <= (d * len) \div d /\ (x * len) \div d \in Int /\ (d * len) \div d \in Int
  BY <1>1, DivMonotonic
<1>3. (d * len) \div d = len
  OBVIOUS
<1>4. x * len \in Nat
  OBVIOUS
<1>5. (x * len) \div d \in Nat
  BY <1>4, DivNat
<1>. QED
  BY <1>2, <1>3, <1>5

\* An edge on one level has two different ends.
LEMMA EndsApart ==
    ASSUME BuildInv, NEW i \in EdgeIDs,
           nodes[edges[i].from].level = nodes[edges[i].to].level
    PROVE  /\ nodes[edges[i].from].pt \in Nat /\ nodes[edges[i].to].pt \in Nat
           /\ nodes[edges[i].from].pt # nodes[edges[i].to].pt
<1>1. edges[i].from \in NodeIDs /\ edges[i].to \in NodeIDs
  BY EdgeEnds
<1>2. edges[i].from # edges[i].to
  BY DEF BuildInv, Twins, EdgeIDs
<1>3. nodes[edges[i].from].pt # nodes[edges[i].to].pt
  BY <1>1, <1>2 DEF BuildInv, Distinct, NodeIDs
<1>. QED
  BY <1>1, <1>3, NodePlaces

LEMMA CandidateIsPlace ==
    ASSUME BuildInv, NEW p \in Int, NEW i \in EdgeIDs,
           nodes[edges[i].from].level = nodes[edges[i].to].level
    PROVE  Place(Candidate(p, i))
<1>1. PICK a \in Nat, b \in Nat : a = nodes[edges[i].from].pt /\ b = nodes[edges[i].to].pt /\ a # b
  BY EndsApart
<1>2. PICK lo \in Nat, hi \in Nat : lo = LowEnd(i) /\ hi = HighEnd(i)
  BY EdgeEnds
<1>3. lo \in {a, b} /\ hi \in {a, b} /\ lo <= a /\ lo <= b /\ a <= hi /\ b <= hi
  BY <1>1, <1>2, MinOfTwo DEF LowEnd, HighEnd
<1>4. PICK at \in Int : at = Project(p, i) /\ lo <= at /\ at <= hi
  <2>1. Clamp(p, lo, hi) \in lo..hi
    <3>1. lo \in Int /\ hi \in Int /\ lo <= hi
      BY <1>3
    <3>. QED
      BY ONLY p \in Int, <3>1, ProjectionIsNearest
  <2>. QED
    BY <1>2, <2>1 DEF Project
<1>5. PICK x \in Nat, d \in Nat \ {0} : x = Dist(a, at) /\ d = Dist(a, b) /\ x <= d
  BY <1>1, <1>3, <1>4 DEF Dist
<1>6. edges[i].len \in Nat
  BY EdgeEnds DEF EdgeAmong
<1>7. (x * edges[i].len) \div d \in 0..edges[i].len
  BY <1>5, <1>6, ShareOf
<1>8. Dist(p, at) \in Nat
  BY <1>4, DistType
<1>. QED
  BY <1>1, <1>4, <1>5, <1>7, <1>8 DEF Candidate, Place

\* The edges near any place are edges of its level.
LEMMA NearbyTypes ==
    ASSUME BuildInv, built = "ready", NEW p \in Int, NEW l, NEW r \in Nat
    PROVE  /\ IsFiniteSet(NearbyEdges(p, l, r))
           /\ \A i \in NearbyEdges(p, l, r) :
                 /\ i \in EdgeIDs /\ i \in Int
                 /\ nodes[edges[i].from].level = nodes[edges[i].to].level
<1>2. /\ low \in Nat /\ extent \in Nat \ {0}
      /\ edgeCells = [c \in 0..(GridCells - 1) |->
                        {i \in Indexed : c \in Cell(LowEnd(i), low, extent)
                                                ..Cell(HighEnd(i), low, extent)}]
  BY DEF BuildInv, IndexInv
<1>3. PICK g \in Nat : g = GridCells - 1
  BY BuildAssumption
<1>6. Cells(p, r) \subseteq 0..g
  <2>1. PICK u \in 0..g, v \in 0..g : Cells(p, r) = u..v
    BY <1>3, WindowCells
  <2>. QED
    BY <2>1
<1>7. EdgeIDs = 1..Len(edges) /\ Len(edges) \in Nat
  BY EdgeEnds
<1>8. ASSUME NEW i \in NearbyEdges(p, l, r)
      PROVE  /\ i \in EdgeIDs /\ i \in Int
             /\ nodes[edges[i].from].level = nodes[edges[i].to].level
  <2>1. PICK c \in Cells(p, r) : i \in edgeCells[c]
    BY DEF NearbyEdges
  <2>2. i \in Indexed
    BY <1>2, <1>3, <1>6, <2>1
  <2>3. i \in EdgeIDs
    BY <2>2 DEF Indexed
  <2>. QED
    BY <1>7, <2>1, <2>3 DEF NearbyEdges
<1>9. IsFiniteSet(NearbyEdges(p, l, r))
  <2>1. IsFiniteSet(1..Len(edges))
    BY <1>7, FS_Interval
  <2>2. NearbyEdges(p, l, r) \in SUBSET (1..Len(edges))
    BY <1>7, <1>8
  <2>. QED
    BY <2>1, <2>2, FS_Subset
<1>. QED
  BY <1>8, <1>9

LEMMA CandidatesArePlaces ==
    ASSUME BuildInv, built = "ready", NEW p \in Int, NEW l, NEW cs \in CandidateLists(p, l)
    PROVE  \E m \in 0..MaxCandidates :
              /\ DOMAIN cs = 1..m
              /\ cs = [k \in 1..m |-> cs[k]]
              /\ \A k \in 1..m : Place(cs[k])
<1>1. Radius \in Nat /\ MaxCandidates \in Nat
  BY MatchAssumption
<1>2. PICK near, m : near = NearbyEdges(p, l, Radius) /\ m = Min({Cardinality(near), MaxCandidates})
  OBVIOUS
<1>3. /\ IsFiniteSet(near)
      /\ \A i \in near : i \in EdgeIDs /\ nodes[edges[i].from].level = nodes[edges[i].to].level
  BY <1>1, <1>2, NearbyTypes
<1>4. m \in 0..MaxCandidates
  <2>1. Cardinality(near) \in Nat
    BY <1>3, FS_CardinalityType
  <2>. QED
    BY <1>1, <1>2, <2>1, MinOfTwo
<1>5. PICK s \in [1..m -> near] : cs = [k \in 1..m |-> Candidate(p, s[k])]
  BY <1>2 DEF CandidateLists
<1>6. \A k \in 1..m : Place(Candidate(p, s[k]))
  BY <1>3, <1>5, CandidateIsPlace
<1>. QED
  BY <1>4, <1>5, <1>6

-----------------------------------------------------------------------------
(* Map matching: the routes between candidates.                            *)

\* Rows of candidates, none of them empty.
RowsInv ==
    /\ Len(rows) \in Nat /\ DOMAIN rows = 1..Len(rows)
    /\ \A i \in 1..Len(rows) :
         /\ rows[i].pt \in Int
         /\ Len(rows[i].cands) \in Nat \ {0}
         /\ DOMAIN rows[i].cands = 1..Len(rows[i].cands)
         /\ \A k \in 1..Len(rows[i].cands) : Place(rows[i].cands[k])

LEMMA SeedsAtExit ==
    ASSUME BuildInv, NEW c, Place(c)
    PROVE  \A v \in DOMAIN ExitSeeds(edges[c.edge], c.off) : ExitSeeds(edges[c.edge], c.off)[v] \in Nat
<1>1. edges[c.edge].len \in Nat /\ c.off \in 0..edges[c.edge].len
  BY EdgeEnds DEF Place, EdgeAmong
<1>2. c.off \in Nat /\ edges[c.edge].len - c.off \in Nat
  BY <1>1
<1>. QED
  BY <1>2 DEF ExitSeeds

LEMMA SumOfCosts ==
    ASSUME NEW a \in Cost, NEW b \in Nat
    PROVE  /\ Sum2(a, b) \in Cost
           /\ Sum2(a, b) # Inf <=> a # Inf
           /\ a # Inf => Sum2(a, b) = a + b
BY DEF Sum2, Cost, Inf

\* The way into an edge, by either of its ends, from costs that another search undercuts.
LEMMA EntryNoLonger ==
    ASSUME NEW a \in Cost, NEW b \in Cost, NEW c \in Cost, NEW d \in Cost,
           NEW x \in Nat, NEW y \in Nat,
           a # Inf => c # Inf /\ c <= a, b # Inf => d # Inf /\ d <= b,
           NEW e, e = Least({Sum2(a, x), Sum2(b, y)}), e # Inf
    PROVE  /\ e \in Cost
           /\ Less(Sum2(d, y), Sum2(c, x)) => d # Inf /\ d + y <= e
           /\ ~Less(Sum2(d, y), Sum2(c, x)) => c # Inf /\ c + x <= e
<1>1. /\ Sum2(a, x) \in Cost /\ Sum2(b, y) \in Cost /\ Sum2(c, x) \in Cost /\ Sum2(d, y) \in Cost
      /\ Sum2(a, x) # Inf <=> a # Inf
      /\ Sum2(b, y) # Inf <=> b # Inf
      /\ Sum2(c, x) # Inf <=> c # Inf
      /\ Sum2(d, y) # Inf <=> d # Inf
      /\ a # Inf => Sum2(a, x) = a + x
      /\ b # Inf => Sum2(b, y) = b + y
      /\ c # Inf => Sum2(c, x) = c + x
      /\ d # Inf => Sum2(d, y) = d + y
  BY SumOfCosts
<1>2. e \in {Sum2(a, x), Sum2(b, y)}
  <2>1. {Sum2(a, x), Sum2(b, y)} \subseteq Cost /\ {Sum2(a, x), Sum2(b, y)} # {}
    BY <1>1
  <2>. QED
    BY <2>1, LeastFacts
<1>3. \/ a # Inf /\ e = a + x
      \/ b # Inf /\ e = b + y
  BY <1>1, <1>2
<1>4. \A z \in Cost : z # Inf => z \in Nat
  BY DEF Cost
<1>5. e \in Nat
  BY <1>3, <1>4
<1>6. \/ c # Inf /\ Sum2(c, x) <= e
      \/ d # Inf /\ Sum2(d, y) <= e
  <2>1. CASE a # Inf /\ e = a + x
    <3>1. a \in Nat /\ c \in Nat /\ c <= a /\ c # Inf
      BY <1>4, <2>1
    <3>. QED
      BY <1>1, <2>1, <3>1
  <2>2. CASE b # Inf /\ e = b + y
    <3>1. b \in Nat /\ d \in Nat /\ d <= b /\ d # Inf
      BY <1>4, <2>2
    <3>. QED
      BY <1>1, <2>2, <3>1
  <2>. QED
    BY <1>3, <2>1, <2>2
<1>7. PICK u \in Cost, v \in Cost : u = Sum2(d, y) /\ v = Sum2(c, x)
  BY <1>1
<1>8. /\ Less(u, v) => u # Inf /\ u <= e
      /\ ~Less(u, v) => v # Inf /\ v <= e
  <2>1. \/ v # Inf /\ v <= e
        \/ u # Inf /\ u <= e
    BY <1>1, <1>6, <1>7
  <2>2. /\ u # Inf => u \in Nat
        /\ v # Inf => v \in Nat
    BY <1>4
  <2>3. /\ Less(u, v) => u # Inf /\ (v # Inf => u < v)
        /\ ~Less(u, v) => u = Inf \/ (v # Inf /\ v <= u)
    BY LessFacts
  <2>. QED
    BY <1>5, <2>1, <2>2, <2>3
<1>. QED
  BY <1>1, <1>5, <1>7, <1>8 DEF Cost

\* A route between candidates has a cost or none, and what is drawn between two edges is
\* no longer than the route.
LEMMA RouteFacts ==
    ASSUME BuildInv, RowsInv, NEW i \in 2..Len(rows),
           NEW j \in 1..Len(rows[i - 1].cands), NEW k \in 1..Len(rows[i].cands)
    PROVE  /\ RouteD(i, j, k) \in Cost
           /\ StepWeight(i, j, k) \in Int
           /\ RouteD(i, j, k) # Inf /\ rows[i - 1].cands[j].edge # rows[i].cands[k].edge =>
                 DrawnLength(rows[i - 1].cands[j], rows[i].cands[k]) <= RouteD(i, j, k)
<1> DEFINE from == rows[i - 1].cands[j]
           to == rows[i].cands[k]
           gc == Dist(rows[i - 1].pt, rows[i].pt)
           seeds == ExitSeeds(edges[from.edge], from.off)
           upto == LeastUpTo(seeds, "distance", gc * Detour + Slack)
           least == LeastCost(seeds, "distance")
           e == edges[to.edge]
           d == RouteD(i, j, k)
<1>1. i - 1 \in 1..Len(rows) /\ i \in 1..Len(rows) /\ i \in Int
  BY DEF RowsInv
<1>2. Place(from) /\ Place(to) /\ rows[i - 1].pt \in Int /\ rows[i].pt \in Int
  BY <1>1 DEF RowsInv
<1>3. gc \in Nat /\ gc * Detour + Slack \in Nat
  <2>1. gc \in Nat
    BY <1>2, DistType
  <2>2. Detour \in Nat /\ Slack \in Nat
    BY MatchAssumption
  <2> HIDE DEF gc
  <2>. QED
    BY <2>1, <2>2
<1>4. e.len \in Nat /\ to.off \in 0..e.len /\ e.from \in NodeIDs /\ e.to \in NodeIDs
      /\ to.off \in Nat /\ e.len - to.off \in Nat /\ from.off \in Nat
  <2>1. edges[to.edge].len \in Nat /\ edges[from.edge].len \in Nat
        /\ edges[to.edge].from \in NodeIDs /\ edges[to.edge].to \in NodeIDs
    BY <1>2, EdgeEnds DEF Place, EdgeAmong
  <2>2. to.off \in 0..e.len /\ from.off \in 0..edges[from.edge].len
    BY <1>2 DEF Place
  <2> HIDE DEF from, to, e
  <2>3. e.len \in Nat /\ e.from \in NodeIDs /\ e.to \in NodeIDs
    BY <2>1 DEF e
  <2>4. to.off \in Nat /\ to.off <= e.len /\ from.off \in Nat
    BY <2>1, <2>2, <2>3
  <2>. QED
    BY <2>2, <2>3, <2>4
<1>5. \A v \in NodeIDs : /\ least[v] \in Cost /\ upto[v] \in Cost
                         /\ upto[v] # Inf => least[v] # Inf /\ least[v] <= upto[v]
  <2>1. \A v \in DOMAIN seeds : seeds[v] \in Nat
    BY <1>2, SeedsAtExit
  <2> HIDE DEF seeds, gc
  <2>. QED
    BY <1>3, <2>1, LeastUpToFacts
<1>6. d = EntryDistance(upto, from, to)
  BY DEF RouteD
<1>7. to.edge = from.edge => d = Dist(to.off, from.off)
  BY <1>6 DEF EntryDistance
<1>8. to.edge # from.edge => d = Least({Sum2(upto[e.from], to.off), Sum2(upto[e.to], e.len - to.off)})
  BY <1>6 DEF EntryDistance
<1>9. PICK a \in Cost, b \in Cost, c \in Cost, z \in Cost :
         a = upto[e.from] /\ b = upto[e.to] /\ c = least[e.from] /\ z = least[e.to]
  BY <1>4, <1>5
<1>10. (a # Inf => c # Inf /\ c <= a) /\ (b # Inf => z # Inf /\ z <= b)
  BY <1>4, <1>5, <1>9
<1>11. PICK x \in Nat, y \in Nat : x = to.off /\ y = e.len - to.off
  BY <1>4
<1>12. d \in Cost
  <2>1. CASE to.edge = from.edge
    <3>1. Dist(to.off, from.off) \in Nat
      <4>1. to.off \in Int /\ from.off \in Int
        BY <1>4
      <4> HIDE DEF to, from
      <4>. QED
        BY <4>1, DistType
    <3>. QED
      BY <1>7, <2>1, <3>1 DEF Cost
  <2>2. CASE to.edge # from.edge
    <3>1. {Sum2(a, x), Sum2(b, y)} \subseteq Cost /\ {Sum2(a, x), Sum2(b, y)} # {}
      BY SumOfCosts
    <3>2. Least({Sum2(a, x), Sum2(b, y)}) \in Cost
      BY <3>1, LeastFacts
    <3>. QED
      BY <1>8, <1>9, <1>11, <2>2, <3>2
  <2>. QED
    BY <2>1, <2>2
<1>13. StepWeight(i, j, k) \in Int
  <2>1. Emission(to) \in Int
    <3>1. to.dist \in Nat
      BY <1>2 DEF Place
    <3>. QED
      BY <3>1 DEF Emission
  <2>2. Gap \in Int
    BY MatchAssumption
  <2>3. d # Inf => Dist(d, gc) \in Int
    <3>1. d # Inf => d \in Int
      BY <1>12 DEF Cost
    <3>. QED
      BY <1>3, <3>1, DistType
  <2>4. StepWeight(i, j, k) = Emission(to) - IF d = Inf THEN Gap ELSE Dist(d, gc)
    BY DEF StepWeight
  <2> HIDE DEF d, gc, to
  <2>. QED
    BY <2>1, <2>2, <2>3, <2>4
<1>14. ASSUME d # Inf, from.edge # to.edge
       PROVE  DrawnLength(from, to) <= d
  <2>1. d = Least({Sum2(a, x), Sum2(b, y)})
    BY <1>8, <1>9, <1>11, <1>14
  <2>2. /\ Less(Sum2(z, y), Sum2(c, x)) => z # Inf /\ z + y <= d
        /\ ~Less(Sum2(z, y), Sum2(c, x)) => c # Inf /\ c + x <= d
    BY <1>10, <1>14, <2>1, EntryNoLonger
  <2>3. DrawnLength(from, to) =
          LET viaTo == Less(Sum2(z, y), Sum2(c, x))
              entry == IF viaTo THEN e.to ELSE e.from
          IN IF least[entry] = Inf THEN Dist(from.pt, to.pt)
             ELSE least[entry] + IF viaTo THEN y ELSE x
    BY <1>9, <1>11, <1>14 DEF DrawnLength
  <2>4. CASE Less(Sum2(z, y), Sum2(c, x))
    <3>1. DrawnLength(from, to) = z + y
      BY <1>9, <2>2, <2>3, <2>4
    <3>. QED
      BY <2>2, <2>4, <3>1
  <2>5. CASE ~Less(Sum2(z, y), Sum2(c, x))
    <3>1. DrawnLength(from, to) = c + x
      BY <1>9, <2>2, <2>3, <2>5
    <3>. QED
      BY <2>2, <2>5, <3>1
  <2>. QED
    BY <2>4, <2>5
<1>. QED
  BY <1>12, <1>13, <1>14

-----------------------------------------------------------------------------
(* Map matching: the scores.                                               *)

Width(i) == Len(rows[i].cands)
\* Whether a chain may step from candidate j to candidate k of row i.
Allowed(i, j, k) ==
    RouteD(i, j, k) # Inf \/ \A m \in 1..Width(i - 1) : RouteD(i, m, k) = Inf

\* The scores of row i are those of the best chains so far, and the way back keeps to one.
ScoredRow(i) ==
    /\ DOMAIN score[i] = 1..Width(i) /\ DOMAIN back[i] = 1..Width(i)
    /\ \A k \in 1..Width(i) :
         /\ score[i][k] \in Int
         /\ i = 1 => score[i][k] = Emission(rows[i].cands[k])
         /\ i # 1 =>
              /\ back[i][k] \in 1..Width(i - 1) /\ Allowed(i, back[i][k], k)
              /\ score[i][k] = score[i - 1][back[i][k]] + StepWeight(i, back[i][k], k)
              /\ \A j \in 1..Width(i - 1) :
                    Allowed(i, j, k) => score[i - 1][j] + StepWeight(i, j, k) <= score[i][k]
Scored ==
    /\ Len(score) \in Nat /\ Len(back) = Len(score) /\ Len(score) <= Len(rows)
    /\ score \in Seq(Seq(Int)) /\ back \in Seq(Seq(Int))
    /\ \A i \in 1..Len(score) : ScoredRow(i)

\* The same of the row being scored, as far as it has been searched from the row before.
LineInv ==
    /\ pred \in 1..(Width(Row - 1) + 1)
    /\ DOMAIN line = 1..Width(Row) /\ line = [k \in 1..Width(Row) |-> line[k]]
    /\ \A k \in 1..Width(Row) :
         /\ line[k].back = 0 => \A j \in 1..(pred - 1) : RouteD(Row, j, k) = Inf
         /\ line[k].back # 0 =>
              /\ line[k].back \in 1..(pred - 1) /\ RouteD(Row, line[k].back, k) # Inf
              /\ line[k].score = score[Row - 1][line[k].back] + StepWeight(Row, line[k].back, k)
              /\ \A j \in 1..(pred - 1) :
                    RouteD(Row, j, k) # Inf =>
                       score[Row - 1][j] + StepWeight(Row, j, k) <= line[k].score

MatchInv ==
    /\ matched \in {"no", "scoring", "done", "failed"}
    /\ matched = "no" => score = <<>> /\ back = <<>> /\ rows = <<>> /\ pred = 1
    /\ matched # "no" => built = "ready"
    /\ RowsInv /\ Scored
    /\ matched = "scoring" => Len(score) >= 1 /\ (Row <= Len(rows) => LineInv)
    /\ ChainBest

LEMMA GreatestFirst ==
    ASSUME NEW v, NEW n \in Nat \ {0}, DOMAIN v = 1..n, \A k \in 1..n : v[k] \in Int
    PROVE  ArgMax(v) \in 1..n /\ \A k \in 1..n : v[k] <= v[ArgMax(v)]
<1> DEFINE S == {v[k] : k \in 1..n}
           T == {k \in 1..n : \A m \in 1..n : v[m] <= v[k]}
<1>1. IsFiniteSet(S) /\ S # {} /\ S \subseteq Int
  <2>1. IsFiniteSet(1..n)
    BY FS_Interval
  <2> DEFINE f == [k \in 1..n |-> v[k]]
  <2>2. f \in Surjection(1..n, S)
    BY DEF Surjection
  <2> HIDE DEF f, S
  <2>3. IsFiniteSet(S)
    BY <2>1, <2>2, FS_Surjection
  <2>4. v[1] \in S /\ \A x \in S : x \in Int
    BY DEF S
  <2>. QED
    BY <2>3, <2>4
<1>2. Max(S) \in S /\ \A x \in S : x <= Max(S)
  <2> HIDE DEF S
  <2>. QED
    BY <1>1, MaxIsGreatest
<1>3. PICK k \in 1..n : v[k] = Max(S)
  BY <1>2
<1>4. k \in T
  BY <1>2, <1>3
<1>5. T \subseteq Nat /\ T # {}
  BY <1>4
<1>6. Min(T) \in T
  <2> HIDE DEF T
  <2>. QED
    BY <1>5, MinIsLeast
<1>7. ArgMax(v) = Min(T)
  BY DEF ArgMax
<1> HIDE DEF S
<1>. QED
  BY <1>6, <1>7

\* What depends on the graph and the rows only.
LEMMA SameRoutes ==
    ASSUME UNCHANGED <<graph, rows>>
    PROVE  /\ rows' = rows /\ edges' = edges /\ EdgeIDs' = EdgeIDs
           /\ \A i : Width(i)' = Width(i)
           /\ \A i, j, k : RouteD(i, j, k)' = RouteD(i, j, k)
           /\ \A i, j, k : StepWeight(i, j, k)' = StepWeight(i, j, k)
           /\ \A i, j, k : Allowed(i, j, k)' = Allowed(i, j, k)
           /\ RowsInv' = RowsInv
<1>1. nodes' = nodes /\ edges' = edges /\ rows' = rows /\ EdgeIDs' = EdgeIDs /\ NodeIDs' = NodeIDs
  BY DEF graph, EdgeIDs, NodeIDs
<1>2. \A i : Width(i)' = Width(i)
  BY <1>1 DEF Width
<1>3. \A seeds, basis, cutoff : LeastUpTo(seeds, basis, cutoff)' = LeastUpTo(seeds, basis, cutoff)
  BY <1>1 DEF LeastUpTo, LeastCost, LeastWithin, OneEdgeMore, AtSeeds, Price, TravelTime
<1>4. ASSUME NEW i, NEW j, NEW k PROVE RouteD(i, j, k)' = RouteD(i, j, k)
  BY <1>1, <1>3 DEF RouteD, EntryDistance, ExitSeeds
<1>5. ASSUME NEW i, NEW j, NEW k PROVE StepWeight(i, j, k)' = StepWeight(i, j, k)
  BY <1>1, <1>4 DEF StepWeight
<1>6. ASSUME NEW i, NEW j, NEW k PROVE Allowed(i, j, k)' = Allowed(i, j, k)
  BY <1>2, <1>4 DEF Allowed
<1>7. RowsInv' = RowsInv
  BY <1>1 DEF RowsInv, Place
<1>. QED
  BY <1>1, <1>2, <1>4, <1>5, <1>6, <1>7

\* Rows that are scored stay scored.
LEMMA SameScores ==
    ASSUME UNCHANGED <<graph, rows, score, back>>
    PROVE  Scored' = Scored
<1>1. /\ rows' = rows /\ score' = score /\ back' = back
      /\ \A i : Width(i)' = Width(i)
      /\ \A i, j, k : StepWeight(i, j, k)' = StepWeight(i, j, k)
      /\ \A i, j, k : Allowed(i, j, k)' = Allowed(i, j, k)
  BY SameRoutes
<1>2. \A i : ScoredRow(i)' = ScoredRow(i)
  BY <1>1 DEF ScoredRow
<1>. QED
  BY <1>1, <1>2 DEF Scored

\* The rows around the one being scored.
LEMMA RowFacts ==
    ASSUME BuildInv, MatchInv, matched = "scoring", Row <= Len(rows)
    PROVE  /\ Row \in 2..Len(rows) /\ Row - 1 = Len(score) /\ Row - 1 \in 1..Len(score)
           /\ Len(rows) \in Nat
           /\ Width(Row) \in Nat \ {0} /\ Width(Row - 1) \in Nat \ {0}
           /\ DOMAIN rows[Row].cands = 1..Width(Row)
           /\ DOMAIN score[Row - 1] = 1..Width(Row - 1)
           /\ \A j \in 1..Width(Row - 1) : score[Row - 1][j] \in Int
           /\ \A k \in 1..Width(Row) : Emission(rows[Row].cands[k]) \in Int
           /\ \A j \in 1..Width(Row - 1), k \in 1..Width(Row) :
                 RouteD(Row, j, k) \in Cost /\ StepWeight(Row, j, k) \in Int
           /\ LineInv
<1>1. Len(score) \in Nat /\ Len(score) >= 1 /\ Len(rows) \in Nat
  BY DEF MatchInv, Scored, RowsInv
<1>2. Row = Len(score) + 1
  BY DEF Row
<1>3. Row \in 2..Len(rows) /\ Row - 1 = Len(score) /\ Row - 1 \in 1..Len(score)
      /\ Row \in 1..Len(rows) /\ Row - 1 \in 1..Len(rows)
  BY <1>1, <1>2
<1>4. /\ Width(Row) \in Nat \ {0} /\ Width(Row - 1) \in Nat \ {0}
      /\ DOMAIN rows[Row].cands = 1..Width(Row)
      /\ \A k \in 1..Width(Row) : Place(rows[Row].cands[k])
  BY <1>3 DEF MatchInv, RowsInv, Width
<1>5. ScoredRow(Row - 1)
  BY <1>3 DEF MatchInv, Scored
<1>6. DOMAIN score[Row - 1] = 1..Width(Row - 1) /\ \A j \in 1..Width(Row - 1) : score[Row - 1][j] \in Int
  BY <1>5 DEF ScoredRow
<1>7. \A k \in 1..Width(Row) : Emission(rows[Row].cands[k]) \in Int
  BY <1>4 DEF Emission, Place
<1>8. \A j \in 1..Width(Row - 1), k \in 1..Width(Row) :
         RouteD(Row, j, k) \in Cost /\ StepWeight(Row, j, k) \in Int
  BY <1>3, RouteFacts DEF MatchInv, Width
<1>9. LineInv
  BY DEF MatchInv
<1>. QED
  BY <1>1, <1>3, <1>4, <1>6, <1>7, <1>8, <1>9

\* What a step over a route weighs.
LEMMA WeightOfRoute ==
    ASSUME NEW i, NEW j, NEW k, RouteD(i, j, k) # Inf
    PROVE  StepWeight(i, j, k) =
             Emission(rows[i].cands[k]) - Dist(RouteD(i, j, k), Dist(rows[i - 1].pt, rows[i].pt))
BY DEF StepWeight

LEMMA TransitionKeeps ==
    ASSUME BuildInv, MatchInv, Transition, UNCHANGED routing
    PROVE  MatchInv'
<1>1. /\ matched = "scoring" /\ Row <= Len(rows) /\ pred <= Width(Row - 1)
      /\ pred' = pred + 1 /\ matched' = "scoring"
      /\ rows' = rows /\ score' = score /\ back' = back
      /\ UNCHANGED <<graph, rows, score, back, built>>
  BY DEF Transition, Width, routing, build
<1>2. Row' = Row
  BY <1>1 DEF Row
<1>3. /\ Row \in 2..Len(rows) /\ Width(Row) \in Nat \ {0} /\ Width(Row - 1) \in Nat \ {0}
      /\ \A j \in 1..Width(Row - 1) : score[Row - 1][j] \in Int
      /\ \A k \in 1..Width(Row) : Emission(rows[Row].cands[k]) \in Int
      /\ \A j \in 1..Width(Row - 1), k \in 1..Width(Row) :
            RouteD(Row, j, k) \in Cost /\ StepWeight(Row, j, k) \in Int
      /\ LineInv
  BY <1>1, RowFacts
<1>4. /\ pred \in 1..Width(Row - 1) /\ pred + 1 \in 1..(Width(Row - 1) + 1) /\ pred + 1 - 1 = pred
      /\ \A j \in 1..pred : j \in 1..(pred - 1) \/ j = pred
  BY <1>1, <1>3 DEF LineInv
<1> DEFINE gain(k) == score[Row - 1][pred] + StepWeight(Row, pred, k)
<1>5. /\ DOMAIN line' = 1..Width(Row) /\ line' = [k \in 1..Width(Row) |-> line'[k]]
      /\ \A k \in 1..Width(Row) :
           line'[k] = IF RouteD(Row, pred, k) # Inf /\ Better(line[k], gain(k))
                      THEN [score |-> gain(k), back |-> pred] ELSE line[k]
  <2> DEFINE made == [k \in DOMAIN line |->
         LET d == RouteD(Row, pred, k)
             s == score[Row - 1][pred] - Dist(d, Straight) + Emission(rows[Row].cands[k])
         IN IF d # Inf /\ Better(line[k], s) THEN [score |-> s, back |-> pred] ELSE line[k]]
  <2>1. line' = made /\ DOMAIN line = 1..Width(Row)
    BY <1>3 DEF Transition, LineInv
  <2>2. ASSUME NEW k \in 1..Width(Row), RouteD(Row, pred, k) # Inf
        PROVE  score[Row - 1][pred] - Dist(RouteD(Row, pred, k), Straight) + Emission(rows[Row].cands[k])
                 = gain(k)
    <3>1. PICK a \in Int, b \in Int : a = score[Row - 1][pred] /\ b = Emission(rows[Row].cands[k])
      BY <1>3, <1>4
    <3>2. PICK d \in Nat : d = RouteD(Row, pred, k)
      BY <1>3, <1>4, <2>2 DEF Cost
    <3>3. StepWeight(Row, pred, k) = b - Dist(d, Straight)
      BY <2>2, <3>1, <3>2, WeightOfRoute DEF Straight
    <3>4. Dist(d, Straight) \in Int
      <4>1. rows[Row - 1].pt \in Int /\ rows[Row].pt \in Int
        BY <1>3 DEF MatchInv, RowsInv
      <4>2. Straight \in Nat
        BY <4>1, DistType DEF Straight
      <4>. QED
        BY <4>2, DistType
    <3>5. a - Dist(d, Straight) + b = a + (b - Dist(d, Straight))
      BY <3>4
    <3>. QED
      BY <3>1, <3>2, <3>3, <3>5
  <2>3. DOMAIN made = 1..Width(Row) /\ made = [k \in 1..Width(Row) |-> made[k]]
    BY <2>1
  <2>4. ASSUME NEW k \in 1..Width(Row)
        PROVE  made[k] = IF RouteD(Row, pred, k) # Inf /\ Better(line[k], gain(k))
                         THEN [score |-> gain(k), back |-> pred] ELSE line[k]
    BY <2>1, <2>2
  <2> HIDE DEF made, gain
  <2>. QED
    BY <2>1, <2>3, <2>4
<1>6. ASSUME NEW k \in 1..Width(Row)
      PROVE  /\ line'[k].back = 0 => \A j \in 1..pred : RouteD(Row, j, k) = Inf
             /\ line'[k].back # 0 =>
                  /\ line'[k].back \in 1..pred /\ RouteD(Row, line'[k].back, k) # Inf
                  /\ line'[k].score = score[Row - 1][line'[k].back] + StepWeight(Row, line'[k].back, k)
                  /\ \A j \in 1..pred : RouteD(Row, j, k) # Inf =>
                        score[Row - 1][j] + StepWeight(Row, j, k) <= line'[k].score
  <2>0. PICK g \in Int : g = gain(k)
    BY <1>3, <1>4
  <2>1. /\ line[k].back = 0 => \A j \in 1..(pred - 1) : RouteD(Row, j, k) = Inf
        /\ line[k].back # 0 =>
             /\ line[k].back \in 1..(pred - 1) /\ RouteD(Row, line[k].back, k) # Inf
             /\ line[k].score = score[Row - 1][line[k].back] + StepWeight(Row, line[k].back, k)
             /\ \A j \in 1..(pred - 1) : RouteD(Row, j, k) # Inf =>
                   score[Row - 1][j] + StepWeight(Row, j, k) <= line[k].score
    BY <1>3 DEF LineInv
  <2>2. ASSUME NEW j \in 1..pred
        PROVE  score[Row - 1][j] \in Int /\ StepWeight(Row, j, k) \in Int
               /\ score[Row - 1][j] + StepWeight(Row, j, k) \in Int
    <3>1. j \in 1..Width(Row - 1)
      BY <1>3, <1>4
    <3>. QED
      BY <1>3, <3>1
  <2>3. CASE RouteD(Row, pred, k) # Inf /\ Better(line[k], g)
    <3>1. line'[k].score = g /\ line'[k].back = pred
      BY <1>5, <2>0, <2>3
    <3>2. pred # 0 /\ pred \in 1..pred
      BY <1>4
    <3>3. ASSUME NEW j \in 1..pred, RouteD(Row, j, k) # Inf
          PROVE  score[Row - 1][j] + StepWeight(Row, j, k) <= g
      <4>1. CASE j = pred
        BY <2>0, <4>1
      <4>2. CASE j # pred
        <5>1. j \in 1..(pred - 1)
          BY <1>4, <4>2
        <5>2. line[k].back # 0
          BY <2>1, <3>3, <5>1
        <5>3. g > line[k].score
          BY <2>3, <5>2 DEF Better
        <5>4. score[Row - 1][j] + StepWeight(Row, j, k) <= line[k].score
          BY <2>1, <3>3, <5>1, <5>2
        <5>5. line[k].score \in Int
          <6>1. line[k].back \in 1..pred
            BY <1>4, <2>1, <5>2
          <6>. QED
            BY <2>1, <2>2, <5>2, <6>1
        <5>. QED
          BY <2>2, <5>3, <5>4, <5>5
      <4>. QED
        BY <4>1, <4>2
    <3>. QED
      BY <2>0, <2>3, <3>1, <3>2, <3>3
  <2>4. CASE RouteD(Row, pred, k) = Inf
    <3>1. line'[k] = line[k]
      BY <1>5, <2>4
    <3>2. line[k].back # 0 => line[k].back \in 1..pred
      BY <1>4, <2>1
    <3>. QED
      BY <1>4, <2>1, <2>4, <3>1, <3>2
  <2>5. CASE RouteD(Row, pred, k) # Inf /\ ~Better(line[k], g)
    <3>1. line'[k] = line[k] /\ line[k].back # 0 /\ ~(g > line[k].score)
      BY <1>5, <2>0, <2>5 DEF Better
    <3>2. line[k].back \in 1..pred
      BY <1>4, <2>1, <3>1
    <3>3. line[k].score \in Int
      BY <2>1, <2>2, <3>1, <3>2
    <3>4. g <= line[k].score
      BY <3>1, <3>3
    <3>. QED
      BY <1>4, <2>0, <2>1, <3>1, <3>2, <3>4
  <2>. QED
    BY <2>3, <2>4, <2>5
<1>7. LineInv'
  <2>1. /\ \A i : Width(i)' = Width(i)
        /\ \A i, j, k : RouteD(i, j, k)' = RouteD(i, j, k)
        /\ \A i, j, k : StepWeight(i, j, k)' = StepWeight(i, j, k)
    BY <1>1, SameRoutes
  <2>. QED
    BY <1>1, <1>2, <1>4, <1>5, <1>6, <2>1 DEF LineInv
<1>8. RowsInv' /\ Scored'
  BY <1>1, SameRoutes, SameScores DEF MatchInv
<1>. QED
  BY <1>1, <1>7, <1>8 DEF MatchInv, ChainBest

\* The row that ends, whatever its candidates were reached from.
LEMMA EndRowScores ==
    ASSUME BuildInv, MatchInv, EndRow, UNCHANGED routing
    PROVE  \E s \in Seq(Int), b \in Seq(Int) :
              /\ score' = Append(score, s) /\ back' = Append(back, b)
              /\ DOMAIN s = 1..Width(Row) /\ DOMAIN b = 1..Width(Row)
              /\ \A k \in 1..Width(Row) :
                   /\ b[k] \in 1..Width(Row - 1) /\ Allowed(Row, b[k], k)
                   /\ s[k] = score[Row - 1][b[k]] + StepWeight(Row, b[k], k)
                   /\ \A j \in 1..Width(Row - 1) :
                         Allowed(Row, j, k) => score[Row - 1][j] + StepWeight(Row, j, k) <= s[k]
<1>1. matched = "scoring" /\ Row <= Len(rows) /\ pred > Width(Row - 1)
  BY DEF EndRow, Width
<1>2. /\ Row \in 2..Len(rows) /\ Width(Row) \in Nat \ {0} /\ Width(Row - 1) \in Nat \ {0}
      /\ DOMAIN score[Row - 1] = 1..Width(Row - 1)
      /\ \A j \in 1..Width(Row - 1) : score[Row - 1][j] \in Int
      /\ \A k \in 1..Width(Row) : Emission(rows[Row].cands[k]) \in Int
      /\ \A j \in 1..Width(Row - 1), k \in 1..Width(Row) :
            RouteD(Row, j, k) \in Cost /\ StepWeight(Row, j, k) \in Int
      /\ LineInv
  BY <1>1, RowFacts
<1>3. pred - 1 = Width(Row - 1)
  BY <1>1, <1>2 DEF LineInv
<1> DEFINE best == ArgMax(score[Row - 1])
           full == [k \in DOMAIN line |->
                      IF line[k].back # 0 THEN line[k]
                      ELSE [score |-> score[Row - 1][best] + Emission(rows[Row].cands[k]) - Gap,
                            back |-> best]]
           s == [k \in DOMAIN full |-> full[k].score]
           b == [k \in DOMAIN full |-> full[k].back]
<1>4. best \in 1..Width(Row - 1) /\ \A j \in 1..Width(Row - 1) : score[Row - 1][j] <= score[Row - 1][best]
  BY <1>2, GreatestFirst
<1>5. score' = Append(score, s) /\ back' = Append(back, b)
  BY DEF EndRow
<1>6. DOMAIN line = 1..Width(Row)
  BY <1>2 DEF LineInv
<1>7. /\ DOMAIN s = 1..Width(Row) /\ DOMAIN b = 1..Width(Row)
      /\ s = [k \in 1..Width(Row) |-> s[k]] /\ b = [k \in 1..Width(Row) |-> b[k]]
      /\ \A k \in 1..Width(Row) :
           /\ line[k].back # 0 => s[k] = line[k].score /\ b[k] = line[k].back
           /\ line[k].back = 0 => /\ s[k] = score[Row - 1][best] + Emission(rows[Row].cands[k]) - Gap
                                  /\ b[k] = best
  BY <1>6
<1> HIDE DEF s, b, full, best
<1>8. ASSUME NEW k \in 1..Width(Row)
      PROVE  /\ b[k] \in 1..Width(Row - 1) /\ Allowed(Row, b[k], k)
             /\ s[k] = score[Row - 1][b[k]] + StepWeight(Row, b[k], k)
             /\ \A j \in 1..Width(Row - 1) :
                   Allowed(Row, j, k) => score[Row - 1][j] + StepWeight(Row, j, k) <= s[k]
  <2>1. CASE line[k].back # 0
    <3>1. /\ line[k].back \in 1..Width(Row - 1) /\ RouteD(Row, line[k].back, k) # Inf
          /\ line[k].score = score[Row - 1][line[k].back] + StepWeight(Row, line[k].back, k)
          /\ \A j \in 1..Width(Row - 1) : RouteD(Row, j, k) # Inf =>
                score[Row - 1][j] + StepWeight(Row, j, k) <= line[k].score
      BY <1>2, <1>3, <2>1 DEF LineInv
    <3>2. Allowed(Row, line[k].back, k)
      BY <3>1 DEF Allowed
    <3>3. \A j \in 1..Width(Row - 1) : Allowed(Row, j, k) => RouteD(Row, j, k) # Inf
      BY <3>1 DEF Allowed
    <3>. QED
      BY <1>7, <2>1, <3>1, <3>2, <3>3
  <2>2. CASE line[k].back = 0
    <3>1. \A j \in 1..Width(Row - 1) : RouteD(Row, j, k) = Inf
      BY <1>2, <1>3, <2>2 DEF LineInv
    <3>2. \A j \in 1..Width(Row - 1) : Allowed(Row, j, k)
      BY <3>1 DEF Allowed
    <3>3. \A j \in 1..Width(Row - 1) : StepWeight(Row, j, k) = Emission(rows[Row].cands[k]) - Gap
      BY <3>1 DEF StepWeight
    <3>4. PICK a \in Int, g \in Int, m \in Int :
             a = Emission(rows[Row].cands[k]) /\ g = Gap /\ m = score[Row - 1][best]
      BY <1>2, <1>4, MatchAssumption
    <3>5. s[k] = m + a - g /\ b[k] = best
      BY <1>7, <2>2, <3>4
    <3>6. s[k] = score[Row - 1][best] + StepWeight(Row, best, k)
      <4>1. m + a - g = m + (a - g)
        BY <3>4
      <4>. QED
        BY <1>4, <3>3, <3>4, <3>5, <4>1
    <3>7. ASSUME NEW j \in 1..Width(Row - 1)
          PROVE  score[Row - 1][j] + StepWeight(Row, j, k) <= s[k]
      <4>1. PICK x \in Int : x = score[Row - 1][j] /\ x <= m
        BY <1>2, <1>4, <3>4
      <4>2. x + (a - g) <= m + a - g
        BY <4>1
      <4>. QED
        BY <3>3, <3>4, <3>5, <4>1, <4>2
    <3>. QED
      BY <1>4, <3>2, <3>5, <3>6, <3>7
  <2>. QED
    BY <2>1, <2>2
<1>9. ASSUME NEW k \in 1..Width(Row) PROVE s[k] \in Int /\ b[k] \in Int
  <2>1. PICK j \in 1..Width(Row - 1) : j = b[k]
    BY <1>8
  <2>2. score[Row - 1][j] \in Int /\ StepWeight(Row, j, k) \in Int
    BY <1>2
  <2>. QED
    BY <1>8, <2>1, <2>2
<1>10. s \in Seq(Int) /\ b \in Seq(Int)
  <2>1. PICK n \in Nat : n = Width(Row)
    BY <1>2
  <2>2. s \in [1..n -> Int] /\ b \in [1..n -> Int]
    BY <1>7, <1>9, <2>1
  <2>. QED
    BY <2>2
<1>. QED
  BY <1>5, <1>7, <1>8, <1>10

LEMMA EndRowKeeps ==
    ASSUME BuildInv, MatchInv, EndRow, UNCHANGED routing
    PROVE  MatchInv'
<1>1. /\ matched = "scoring" /\ Row <= Len(rows) /\ matched' = "scoring" /\ pred' = 1
      /\ rows' = rows /\ UNCHANGED <<graph, rows, built>>
      /\ line' = IF Row = Len(rows) THEN <<>>
                 ELSE [k \in DOMAIN rows[Row + 1].cands |-> [score |-> 0, back |-> 0]]
  BY DEF EndRow, routing, build
<1>2. /\ Row \in 2..Len(rows) /\ Row - 1 = Len(score) /\ Len(rows) \in Nat
      /\ Width(Row - 1) \in Nat \ {0} /\ Width(Row) \in Nat \ {0}
      /\ \A j \in 1..Width(Row - 1) : score[Row - 1][j] \in Int
      /\ \A j \in 1..Width(Row - 1), k \in 1..Width(Row) : StepWeight(Row, j, k) \in Int
  BY <1>1, RowFacts
<1>3. PICK s \in Seq(Int), b \in Seq(Int) :
              /\ score' = Append(score, s) /\ back' = Append(back, b)
              /\ DOMAIN s = 1..Width(Row) /\ DOMAIN b = 1..Width(Row)
              /\ \A k \in 1..Width(Row) :
                   /\ b[k] \in 1..Width(Row - 1) /\ Allowed(Row, b[k], k)
                   /\ s[k] = score[Row - 1][b[k]] + StepWeight(Row, b[k], k)
                   /\ \A j \in 1..Width(Row - 1) :
                         Allowed(Row, j, k) => score[Row - 1][j] + StepWeight(Row, j, k) <= s[k]
  BY EndRowScores
<1>4. /\ score \in Seq(Seq(Int)) /\ back \in Seq(Seq(Int)) /\ Len(back) = Len(score)
      /\ Len(score) \in Nat /\ \A i \in 1..Len(score) : ScoredRow(i)
  BY DEF MatchInv, Scored
<1>5. /\ score' \in Seq(Seq(Int)) /\ back' \in Seq(Seq(Int))
      /\ Len(score') = Len(score) + 1 /\ Len(back') = Len(score) + 1
      /\ \A i \in 1..Len(score) : score'[i] = score[i] /\ back'[i] = back[i]
      /\ score'[Row] = s /\ back'[Row] = b
  BY <1>2, <1>3, <1>4
<1>6. /\ \A i : Width(i)' = Width(i)
      /\ \A i, j, k : RouteD(i, j, k)' = RouteD(i, j, k)
      /\ \A i, j, k : StepWeight(i, j, k)' = StepWeight(i, j, k)
      /\ \A i, j, k : Allowed(i, j, k)' = Allowed(i, j, k)
      /\ RowsInv' = RowsInv
  BY <1>1, SameRoutes
<1>7. ASSUME NEW i \in 1..Len(score) PROVE ScoredRow(i)'
  <2>1. ScoredRow(i) /\ score'[i] = score[i] /\ back'[i] = back[i]
    BY <1>4, <1>5
  <2>2. i # 1 => score'[i - 1] = score[i - 1]
    <3>1. i # 1 => i - 1 \in 1..Len(score)
      BY <1>4
    <3>. QED
      BY <1>5, <3>1
  <2>. QED
    BY <1>1, <1>6, <2>1, <2>2 DEF ScoredRow
<1>8. PICK r \in Nat : r = Row
  BY <1>2
<1>10. ScoredRow(r)'
  <2>1. r # 1 /\ score'[r - 1] = score[r - 1]
    <3>1. r - 1 \in 1..Len(score)
      BY <1>2, <1>8
    <3>2. score'[r - 1] = score[r - 1]
      BY <1>5, <3>1
    <3>3. r # 1
      BY <1>2, <1>8
    <3>. QED
      BY <3>2, <3>3
  <2>2. ASSUME NEW k \in 1..Width(r) PROVE s[k] \in Int
    <3>1. PICK j \in 1..Width(r - 1) : j = b[k]
      BY <1>3, <1>8
    <3>2. score[r - 1][j] \in Int /\ StepWeight(r, j, k) \in Int
      BY <1>2, <1>8
    <3>3. s[k] = score[r - 1][j] + StepWeight(r, j, k)
      BY <1>3, <1>8, <3>1
    <3>. QED
      BY <3>2, <3>3
  <2>3. /\ DOMAIN score'[r] = 1..Width(r) /\ DOMAIN back'[r] = 1..Width(r)
        /\ \A k \in 1..Width(r) :
             /\ score'[r][k] \in Int
             /\ back'[r][k] \in 1..Width(r - 1) /\ Allowed(r, back'[r][k], k)
             /\ score'[r][k] = score'[r - 1][back'[r][k]] + StepWeight(r, back'[r][k], k)
             /\ \A j \in 1..Width(r - 1) :
                   Allowed(r, j, k) => score'[r - 1][j] + StepWeight(r, j, k) <= score'[r][k]
    BY <1>3, <1>5, <1>8, <2>1, <2>2
  <2>. QED
    BY <1>6, <2>1, <2>3 DEF ScoredRow
<1>9. Scored'
  <2>1. \A i \in 1..Len(score') : i \in 1..Len(score) \/ i = r
    BY <1>2, <1>4, <1>5, <1>8
  <2>2. \A i \in 1..Len(score') : ScoredRow(i)'
    BY <1>7, <1>10, <2>1
  <2>3. Len(score') \in Nat /\ Len(score') <= Len(rows')
    BY <1>1, <1>2, <1>4, <1>5
  <2>. QED
    BY <1>5, <2>2, <2>3 DEF Scored
<1>11. Row' = Row + 1
  BY <1>2, <1>5 DEF Row
<1>12. ASSUME Row' <= Len(rows') PROVE LineInv'
  <2>1. PICK q \in Nat : q = Row + 1 /\ q \in 1..Len(rows) /\ q - 1 = r
    BY <1>1, <1>2, <1>8, <1>11, <1>12
  <2>2. DOMAIN rows[q].cands = 1..Width(q)
    BY <2>1 DEF MatchInv, RowsInv, Width
  <2>3. line' = [k \in 1..Width(q) |-> [score |-> 0, back |-> 0]]
    BY <1>1, <1>2, <2>1, <2>2
  <2>4. pred' \in 1..(Width(r) + 1) /\ pred' - 1 = 0
    BY <1>1, <1>2, <1>8
  <2>5. /\ DOMAIN line' = 1..Width(q) /\ line' = [k \in 1..Width(q) |-> line'[k]]
        /\ \A k \in 1..Width(q) : line'[k].back = 0
        /\ \A k \in 1..Width(q) : \A j \in 1..(pred' - 1) : RouteD(q, j, k) = Inf
    BY <2>3, <2>4
  <2>6. Row' = q
    BY <1>11, <2>1
  <2>. QED
    BY <1>6, <2>1, <2>4, <2>5, <2>6 DEF LineInv
<1>13. Len(score') >= 1
  BY <1>4, <1>5
<1>. QED
  BY <1>1, <1>6, <1>9, <1>12, <1>13 DEF MatchInv, ChainBest

-----------------------------------------------------------------------------
(* Map matching: the chain.                                                *)

Weights(c) == [i \in DOMAIN rows |-> IF i = 1 THEN Emission(rows[1].cands[c[1]])
                                     ELSE StepWeight(i, c[i - 1], c[i])]
Drawn(c) ==
    \A i \in 2..Len(rows) :
        LET d    == RouteD(i, c[i - 1], c[i])
            from == rows[i - 1].cands[c[i - 1]]
            to   == rows[i].cands[c[i]]
        IN d # Inf /\ from.edge # to.edge => DrawnLength(from, to) <= d
Best(c) ==
    /\ c \in Chains
    /\ \A other \in Chains : Weight(other) <= Weight(c)
    /\ Drawn(c)

LEMMA ChainBestParts == ChainBest <=> (matched = "done" => Best(chosen))
BY DEF ChainBest, Best, Drawn

LEMMA SelectionFacts ==
    ASSUME RowsInv, NEW c \in Selections
    PROVE  \A i \in 1..Len(rows) : c[i] \in 1..Width(i)
<1>1. DOMAIN rows = 1..Len(rows) /\ \A i \in 1..Len(rows) : DOMAIN rows[i].cands = 1..Width(i)
  BY DEF RowsInv, Width
<1>. QED
  BY <1>1 DEF Selections

LEMMA WeightTypes ==
    ASSUME BuildInv, RowsInv, NEW c \in Selections
    PROVE  \A i \in 1..Len(rows) : Weights(c)[i] \in Int
<1>1. DOMAIN rows = 1..Len(rows) /\ Len(rows) \in Nat /\ \A i \in 1..Len(rows) : c[i] \in 1..Width(i)
  BY SelectionFacts DEF RowsInv
<1> SUFFICES ASSUME NEW i \in 1..Len(rows) PROVE Weights(c)[i] \in Int
  OBVIOUS
<1>2. Weights(c)[i] = IF i = 1 THEN Emission(rows[1].cands[c[1]]) ELSE StepWeight(i, c[i - 1], c[i])
  BY <1>1 DEF Weights
<1>3. CASE i = 1
  <2>1. Place(rows[1].cands[c[1]])
    BY <1>1, <1>3 DEF RowsInv, Width
  <2>2. Emission(rows[1].cands[c[1]]) \in Int
    BY <2>1 DEF Place, Emission
  <2>. QED
    BY <1>2, <1>3, <2>2
<1>4. CASE i # 1
  <2>1. i \in 2..Len(rows) /\ i - 1 \in 1..Len(rows)
    BY <1>1, <1>4
  <2>2. c[i - 1] \in 1..Len(rows[i - 1].cands) /\ c[i] \in 1..Len(rows[i].cands)
    BY <1>1, <2>1 DEF Width
  <2>3. StepWeight(i, c[i - 1], c[i]) \in Int
    BY <2>1, <2>2, RouteFacts
  <2>. QED
    BY <1>2, <1>4, <2>3
<1>. QED
  BY <1>3, <1>4

\* Every score bounds the chains that lead to it from above, and is the weight of the one
\* the way back follows.
LEMMA ChainSum ==
    ASSUME BuildInv, MatchInv, Len(score) = Len(rows), Len(rows) >= 1, NEW c \in Selections
    PROVE  /\ (\A i \in 2..Len(rows) : Allowed(i, c[i - 1], c[i])) =>
                  Weight(c) <= score[Len(rows)][c[Len(rows)]]
           /\ (\A i \in 2..Len(rows) : c[i - 1] = back[i][c[i]]) =>
                  Weight(c) = score[Len(rows)][c[Len(rows)]]
<1> DEFINE n == Len(rows)
           f == Weights(c)
           allowed == \A i \in 2..Len(rows) : Allowed(i, c[i - 1], c[i])
           followed == \A i \in 2..Len(rows) : c[i - 1] = back[i][c[i]]
           sum == [k \in 0..n |-> SumFunctionOnSet(f, 1..k)]
           T == {k \in 0..n : k # 0 =>
                    /\ sum[k] \in Int /\ score[k][c[k]] \in Int
                    /\ allowed => sum[k] <= score[k][c[k]]
                    /\ followed => sum[k] = score[k][c[k]]}
<1>1. /\ n \in Nat /\ n >= 1 /\ DOMAIN rows = 1..n
      /\ \A i \in 1..n : c[i] \in 1..Width(i)
      /\ \A i \in 1..n : f[i] \in Int
      /\ \A i \in 1..n : ScoredRow(i)
      /\ RowsInv
  BY SelectionFacts, WeightTypes DEF MatchInv, RowsInv, Scored
<1>2. ASSUME NEW k \in 0..n, k < n
      PROVE  /\ k + 1 \in 1..n
             /\ sum[k] \in Int /\ sum[k + 1] = f[k + 1] + sum[k]
  <2>1. k \in Int /\ k + 1 \in 1..n /\ k + 1 \in 0..n
    BY <1>1, <1>2
  <2>2. IsFiniteSet(1..k) /\ k + 1 \notin 1..k /\ (1..k) \cup {k + 1} = 1..(k + 1)
    <3>1. IsFiniteSet(1..k)
      BY <2>1, FS_Interval
    <3>2. k \in Nat
      BY <2>1
    <3>3. k + 1 \notin 1..k /\ (1..k) \cup {k + 1} = 1..(k + 1)
      BY <3>2
    <3>. QED
      BY <3>1, <3>3
  <2>3. \A i \in 1..(k + 1) : i \in 1..n
    BY <1>1, <2>1
  <2>4. \A i \in 1..(k + 1) : f[i] \in Int
    BY <1>1, <2>3
  <2>5. sum[k] = SumFunctionOnSet(f, 1..k) /\ sum[k + 1] = SumFunctionOnSet(f, 1..(k + 1))
    BY <2>1
  <2> HIDE DEF f, sum
  <2>6. \A i \in (1..k) \cup {k + 1} : f[i] \in Int
    BY <2>2, <2>4
  <2>7. SumFunctionOnSet(f, (1..k) \cup {k + 1}) = f[k + 1] + SumFunctionOnSet(f, 1..k)
    BY <2>2, <2>6, SumAdd
  <2>8. \A i \in 1..k : f[i] \in Int
    BY <2>2, <2>6
  <2>9. SumFunctionOnSet(f, 1..k) \in Int
    BY <2>2, <2>8, SumType
  <2>. QED
    BY <2>1, <2>2, <2>5, <2>7, <2>9
<1>3. 0 \in T
  BY <1>1
<1>4. sum[0] = 0
  <2>1. 1..0 = {} /\ 0 \in 0..n
    BY <1>1
  <2>2. sum[0] = SumFunctionOnSet(f, {})
    BY <2>1
  <2>. QED
    BY <2>2, SumEmpty
<1>5. ASSUME NEW k \in T, k < n PROVE k + 1 \in T
  <2>1. /\ k \in 0..n /\ k + 1 \in 1..n /\ k + 1 \in 0..n /\ sum[k] \in Int
        /\ sum[k + 1] = f[k + 1] + sum[k] /\ f[k + 1] \in Int
    BY <1>1, <1>2, <1>5
  <2>2. PICK a \in 1..Width(k + 1) : a = c[k + 1]
    BY <1>1, <2>1
  <2>3. ScoredRow(k + 1)
    BY <1>1, <2>1
  <2>4. score[k + 1][a] \in Int
    BY <2>2, <2>3 DEF ScoredRow
  <2>5. sum[k + 1] \in Int
    BY <2>1
  <2>6. CASE k = 0
    <3>1. f[1] = Emission(rows[1].cands[c[1]])
      BY <1>1 DEF Weights
    <3>2. score[1][a] = Emission(rows[1].cands[a]) /\ c[1] = a
      BY <2>2, <2>3, <2>6 DEF ScoredRow
    <3>3. sum[1] = f[1] /\ sum[1] = score[1][c[1]]
      BY <1>4, <2>1, <2>6, <3>1, <3>2
    <3>4. score[1][c[1]] \in Int /\ sum[1] \in Int /\ sum[1] <= score[1][c[1]]
      BY <2>2, <2>4, <2>5, <2>6, <3>3
    <3>. QED
      BY <2>1, <2>6, <3>3, <3>4
  <2>7. CASE k # 0
    <3>0. k + 1 - 1 = k /\ k \in 1..n /\ k + 1 \in 2..Len(rows) /\ k + 1 # 1
      BY <2>1, <2>7
    <3>1. PICK b \in 1..Width(k) : b = c[k]
      BY <1>1, <3>0
    <3>2. f[k + 1] = StepWeight(k + 1, b, a)
      BY <1>1, <2>1, <2>2, <3>0, <3>1 DEF Weights
    <3>3. /\ back[k + 1][a] \in 1..Width(k)
          /\ score[k + 1][a] = score[k][back[k + 1][a]] + StepWeight(k + 1, back[k + 1][a], a)
          /\ \A j \in 1..Width(k) :
                Allowed(k + 1, j, a) => score[k][j] + StepWeight(k + 1, j, a) <= score[k + 1][a]
      BY <2>2, <2>3, <3>0 DEF ScoredRow
    <3>4. /\ score[k][b] \in Int
          /\ allowed => sum[k] <= score[k][b]
          /\ followed => sum[k] = score[k][b]
      BY <2>1, <2>7, <3>1
    <3>5. PICK x \in Int, y \in Int, z \in Int, w \in Int :
             x = sum[k] /\ y = score[k][b] /\ z = StepWeight(k + 1, b, a) /\ w = score[k + 1][a]
      BY <2>1, <2>4, <3>2, <3>4
    <3>6. sum[k + 1] = x + z
      BY <2>1, <3>2, <3>5
    <3>7. ASSUME allowed PROVE sum[k + 1] <= w
      <4>1. Allowed(k + 1, b, a)
        BY <2>2, <3>0, <3>1, <3>7
      <4>2. y + z <= w
        BY <3>3, <3>5, <4>1
      <4>3. x <= y
        BY <3>4, <3>5, <3>7
      <4>. QED
        BY <3>6, <4>2, <4>3
    <3>8. ASSUME followed PROVE sum[k + 1] = w
      <4>1. back[k + 1][a] = b
        BY <2>2, <3>0, <3>1, <3>8
      <4>2. w = y + z
        BY <3>3, <3>5, <4>1
      <4>3. x = y
        BY <3>4, <3>5, <3>8
      <4>. QED
        BY <3>6, <4>2, <4>3
    <3> HIDE DEF sum, allowed, followed
    <3>. QED
      BY <2>1, <2>2, <2>4, <2>5, <3>5, <3>7, <3>8
  <2>. QED
    BY <2>6, <2>7
<1>6. n \in T
  <2>1. T \subseteq 0..n
    OBVIOUS
  <2> HIDE DEF T
  <2>2. T = 0..n
    BY <1>1, <1>3, <1>5, <2>1, UpTo
  <2>. QED
    BY <1>1, <2>2
<1>7. Weight(c) = sum[n]
  <2>1. Weight(c) = SumFunction(f)
    BY DEF Weight, Weights
  <2>2. DOMAIN f = 1..n
    BY <1>1 DEF Weights
  <2>3. sum[n] = SumFunctionOnSet(f, 1..n)
    BY <1>1
  <2>. QED
    BY <2>1, <2>2, <2>3 DEF SumFunction
<1>. QED
  BY <1>1, <1>6, <1>7

LEMMA SameBest ==
    ASSUME UNCHANGED <<graph, rows>>
    PROVE  \A c : Best(c)' = Best(c)
<1>1. /\ rows' = rows /\ edges' = edges
      /\ \A i, j, k : RouteD(i, j, k)' = RouteD(i, j, k)
      /\ \A i, j, k : StepWeight(i, j, k)' = StepWeight(i, j, k)
  BY SameRoutes
<1>2. nodes' = nodes /\ NodeIDs' = NodeIDs /\ EdgeIDs' = EdgeIDs
  BY DEF graph, NodeIDs, EdgeIDs
<1>3. \A seeds, basis : LeastCost(seeds, basis)' = LeastCost(seeds, basis)
  BY <1>1, <1>2 DEF LeastCost, LeastWithin, OneEdgeMore, AtSeeds, Price, TravelTime
<1>4. ASSUME NEW from, NEW to PROVE DrawnLength(from, to)' = DrawnLength(from, to)
  BY <1>1, <1>3 DEF DrawnLength, ExitSeeds
<1>5. Chains' = Chains
  BY <1>1 DEF Chains, Selections
<1>6. \A c : Weight(c)' = Weight(c)
  BY <1>1 DEF Weight
<1>7. \A c : Drawn(c)' = Drawn(c)
  BY <1>1, <1>4 DEF Drawn
<1>. QED
  BY <1>5, <1>6, <1>7 DEF Best

LEMMA BacktrackKeeps ==
    ASSUME BuildInv, MatchInv, Backtrack, UNCHANGED routing
    PROVE  MatchInv'
<1>1. /\ matched = "scoring" /\ Row > Len(rows) /\ matched' = "done"
      /\ rows' = rows /\ UNCHANGED <<graph, rows, score, back, built>> /\ built = "ready"
  BY DEF Backtrack, routing, build, MatchInv
<1>2. PICK chain \in Selections :
         /\ chain[Len(rows)] = ArgMax(score[Len(rows)])
         /\ \A i \in 2..Len(rows) : chain[i - 1] = back[i][chain[i]]
         /\ chosen' = chain
  BY DEF Backtrack
<1>3. /\ Len(score) \in Nat /\ Len(score) = Len(rows) /\ Len(rows) >= 1 /\ Len(rows) \in Nat
      /\ RowsInv /\ Scored
  <2>1. /\ Len(score) \in Nat /\ Len(score) <= Len(rows) /\ Len(rows) \in Nat /\ Len(score) >= 1
        /\ RowsInv /\ Scored
    BY <1>1 DEF MatchInv, Scored, RowsInv
  <2>. QED
    BY <1>1, <2>1 DEF Row
<1>4. \A i \in 1..Len(rows) : ScoredRow(i)
  BY <1>3 DEF Scored
<1>5. \A c \in Selections : \A i \in 1..Len(rows) : c[i] \in 1..Width(i)
  BY <1>3, SelectionFacts
<1>6. Weight(chain) = score[Len(rows)][chain[Len(rows)]]
  BY <1>2, <1>3, ChainSum
<1>7. \A i \in 2..Len(rows) : i \in 1..Len(rows) /\ i - 1 \in 1..Len(rows) /\ i # 1
  BY <1>3
<1>8. \A i \in 2..Len(rows) : Allowed(i, chain[i - 1], chain[i])
  <2> SUFFICES ASSUME NEW i \in 2..Len(rows) PROVE Allowed(i, chain[i - 1], chain[i])
    OBVIOUS
  <2>1. ScoredRow(i) /\ chain[i] \in 1..Width(i) /\ i # 1
    BY <1>2, <1>4, <1>5, <1>7
  <2>2. Allowed(i, back[i][chain[i]], chain[i])
    BY <2>1 DEF ScoredRow
  <2>. QED
    BY <1>2, <2>2
<1>9. \A c \in Selections :
         (\A i \in 2..Len(rows) : Allowed(i, c[i - 1], c[i])) <=> c \in Chains
  <2>1. \A i \in 2..Len(rows) : DOMAIN rows[i - 1].cands = 1..Width(i - 1)
    BY <1>3, <1>7 DEF RowsInv, Width
  <2>. QED
    BY <2>1 DEF Chains, Allowed
<1>10. chain \in Chains
  BY <1>2, <1>8, <1>9
<1>11. ASSUME NEW c \in Chains PROVE Weight(c) <= Weight(chain)
  <2>1. c \in Selections
    BY DEF Chains
  <2>2. Weight(c) <= score[Len(rows)][c[Len(rows)]]
    BY <1>3, <1>9, <2>1, ChainSum
  <2>3. Len(rows) \in 1..Len(rows)
    BY <1>3
  <2>4. DOMAIN score[Len(rows)] = 1..Width(Len(rows)) /\ Width(Len(rows)) \in Nat \ {0}
        /\ \A k \in 1..Width(Len(rows)) : score[Len(rows)][k] \in Int
    BY <1>3, <1>4, <2>3 DEF ScoredRow, RowsInv, Width
  <2>5. c[Len(rows)] \in 1..Width(Len(rows)) /\ chain[Len(rows)] \in 1..Width(Len(rows))
    BY <1>2, <1>5, <2>1, <2>3
  <2>6. score[Len(rows)][c[Len(rows)]] <= score[Len(rows)][chain[Len(rows)]]
    BY <1>2, <2>4, <2>5, GreatestFirst
  <2>7. Weight(c) \in Int
    <3>1. \A i \in 1..Len(rows) : Weights(c)[i] \in Int
      BY <1>3, <2>1, WeightTypes
    <3>2. DOMAIN Weights(c) = 1..Len(rows) /\ Weight(c) = SumFunction(Weights(c))
      BY <1>3 DEF Weights, Weight, RowsInv
    <3>3. IsFiniteSet(1..Len(rows))
      BY <1>3, FS_Interval
    <3>4. SumFunctionOnSet(Weights(c), 1..Len(rows)) \in Int
      BY <3>1, <3>3, SumType
    <3>. QED
      BY <3>2, <3>4 DEF SumFunction
  <2>8. PICK x \in Int, y \in Int, z \in Int :
           x = Weight(c) /\ y = score[Len(rows)][c[Len(rows)]] /\ z = score[Len(rows)][chain[Len(rows)]]
    BY <2>4, <2>5, <2>7
  <2>9. x <= y /\ y <= z
    BY <2>2, <2>6, <2>8
  <2>. QED
    BY <1>6, <2>8, <2>9
<1>12. Drawn(chain)
  <2> SUFFICES ASSUME NEW i \in 2..Len(rows),
                      RouteD(i, chain[i - 1], chain[i]) # Inf,
                      rows[i - 1].cands[chain[i - 1]].edge # rows[i].cands[chain[i]].edge
               PROVE  DrawnLength(rows[i - 1].cands[chain[i - 1]], rows[i].cands[chain[i]])
                        <= RouteD(i, chain[i - 1], chain[i])
    BY DEF Drawn
  <2>1. chain[i - 1] \in 1..Len(rows[i - 1].cands) /\ chain[i] \in 1..Len(rows[i].cands)
    BY <1>2, <1>5, <1>7 DEF Width
  <2>. QED
    BY <1>3, <2>1, RouteFacts
<1>13. Best(chain)'
  <2>1. Best(chain)
    BY <1>10, <1>11, <1>12 DEF Best
  <2>. QED
    BY <1>1, <2>1, SameBest
<1>14. ChainBest'
  BY <1>2, <1>13 DEF ChainBest, Best, Drawn
<1>15. RowsInv' /\ Scored'
  BY <1>1, <1>3, SameRoutes, SameScores
<1>. QED
  BY <1>1, <1>14, <1>15 DEF MatchInv

LEMMA GivesUpKeepsMatch ==
    ASSUME BuildInv, MatchInv, MatchGivesUp, UNCHANGED routing
    PROVE  MatchInv'
<1>1. /\ matched = "scoring" /\ matched' = "failed"
      /\ UNCHANGED <<graph, rows, score, back, built>>
  BY DEF MatchGivesUp, routing, build
<1>2. RowsInv' /\ Scored'
  BY <1>1, SameRoutes, SameScores DEF MatchInv
<1>. QED
  BY <1>1, <1>2 DEF MatchInv, ChainBest

LEMMA UntouchedMatch ==
    ASSUME MatchInv, UNCHANGED <<match, graph, built>>
    PROVE  MatchInv'
<1>1. /\ rows' = rows /\ score' = score /\ back' = back /\ line' = line /\ pred' = pred
      /\ chosen' = chosen /\ matched' = matched /\ built' = built
      /\ UNCHANGED <<graph, rows, score, back>>
  BY DEF match
<1>2. RowsInv' /\ Scored'
  BY <1>1, SameRoutes, SameScores DEF MatchInv
<1>3. Row' = Row
  BY <1>1 DEF Row
<1>4. LineInv' = LineInv
  <2>1. /\ \A i : Width(i)' = Width(i)
        /\ \A i, j, k : RouteD(i, j, k)' = RouteD(i, j, k)
        /\ \A i, j, k : StepWeight(i, j, k)' = StepWeight(i, j, k)
    BY <1>1, SameRoutes
  <2>. QED
    BY <1>1, <1>3, <2>1 DEF LineInv
<1>5. ChainBest'
  <2>1. matched = "done" => Best(chosen)
    BY ChainBestParts DEF MatchInv
  <2>2. \A c : Best(c)' = Best(c)
    BY <1>1, SameBest
  <2>3. matched' = "done" => Best(chosen)'
    BY <1>1, <2>1, <2>2 DEF Best, Drawn
  <2>. QED
    BY <2>3 DEF ChainBest, Best, Drawn
<1>. QED
  BY <1>1, <1>2, <1>3, <1>4, <1>5 DEF MatchInv

\* Nothing is matched while the graph is built.
LEMMA BuildingKeepsMatch ==
    ASSUME MatchInv, BuildNext, UNCHANGED match
    PROVE  MatchInv'
<1>1. built = "building"
  BY DEF BuildNext, NextFeature, BuildGivesUp, AddPiece, FinishBuild
<1>2. matched = "no"
  BY <1>1 DEF MatchInv
<1>3. score = <<>> /\ back = <<>> /\ rows = <<>> /\ pred = 1
  BY <1>2 DEF MatchInv
<1>4. rows' = <<>> /\ score' = <<>> /\ back' = <<>> /\ pred' = 1 /\ matched' = "no"
  BY <1>2, <1>3 DEF match
<1>5. RowsInv' /\ Scored'
  BY <1>4 DEF RowsInv, Scored
<1>. QED
  BY <1>4, <1>5 DEF MatchInv, ChainBest

LEMMA LengthOf ==
    ASSUME NEW n \in Nat, NEW s, s = [k \in 1..n |-> s[k]]
    PROVE  Len(s) = n /\ DOMAIN s = 1..n /\ (s = <<>> <=> n = 0)
<1> DEFINE R == {s[k] : k \in 1..n}
<1>1. s \in [1..n -> R]
  OBVIOUS
<1> HIDE DEF R
<1>2. s \in Seq(R)
  BY <1>1
<1>. QED
  BY <1>1, <1>2

LEMMA CandidateRow ==
    ASSUME BuildInv, built = "ready", NEW p \in Int, NEW l, NEW cs \in CandidateLists(p, l)
    PROVE  /\ Len(cs) \in Nat
           /\ DOMAIN cs = 1..Len(cs)
           /\ cs # <<>> => Len(cs) # 0
           /\ \A k \in 1..Len(cs) : Place(cs[k])
<1>1. PICK m \in 0..MaxCandidates :
              /\ DOMAIN cs = 1..m
              /\ cs = [k \in 1..m |-> cs[k]]
              /\ \A k \in 1..m : Place(cs[k])
  BY CandidatesArePlaces
<1>2. m \in Nat
  BY MatchAssumption
<1>3. Len(cs) = m /\ (cs = <<>> <=> m = 0)
  BY <1>1, <1>2, LengthOf
<1>. QED
  BY <1>1, <1>2, <1>3

LEMMA BeginKeeps ==
    ASSUME BuildInv, MatchInv, built = "ready", NEW trace \in Traces, NEW l \in Levels,
           BeginMatch(trace, l), UNCHANGED routing
    PROVE  MatchInv'
<1>0. PICK all \in CandidateRows(trace, l) :
         LET kept == Picked(all, {i \in DOMAIN all : all[i].cands # <<>>})
         IN /\ rows' = kept
            /\ IF Len(kept) < 2
               THEN matched' = "failed" /\ UNCHANGED <<score, back, line>>
               ELSE /\ matched' = "scoring"
                    /\ score' = <<[k \in DOMAIN kept[1].cands |-> Emission(kept[1].cands[k])]>>
                    /\ back' = <<[k \in DOMAIN kept[1].cands |-> -1]>>
                    /\ line' = [k \in DOMAIN kept[2].cands |-> [score |-> 0, back |-> 0]]
  BY Zenon DEF BeginMatch
<1> DEFINE indices == {i \in DOMAIN all : all[i].cands # <<>>}
           kept == Picked(all, indices)
<1>1. trace \in Seq(Int)
  BY MatchAssumption
<1>2. /\ matched = "no" /\ rows' = kept /\ pred' = pred /\ pred = 1
      /\ score = <<>> /\ back = <<>>
      /\ built' = "ready" /\ edges' = edges /\ EdgeIDs' = EdgeIDs
      /\ IF Len(kept) < 2
         THEN matched' = "failed" /\ UNCHANGED <<score, back, line>>
         ELSE /\ matched' = "scoring"
              /\ score' = <<[k \in DOMAIN kept[1].cands |-> Emission(kept[1].cands[k])]>>
              /\ back' = <<[k \in DOMAIN kept[1].cands |-> -1]>>
              /\ line' = [k \in DOMAIN kept[2].cands |-> [score |-> 0, back |-> 0]]
  BY <1>0 DEF BeginMatch, MatchInv, routing, build, graph, EdgeIDs
<1>3. /\ IsFiniteSet(indices) /\ indices \subseteq Int
      /\ \A i \in indices : /\ all[i].pt \in Int /\ all[i].cands \in CandidateLists(all[i].pt, l)
                            /\ all[i].cands # <<>>
  <2>1. DOMAIN trace = 1..Len(trace) /\ Len(trace) \in Nat /\ \A i \in DOMAIN trace : trace[i] \in Int
    BY <1>1
  <2>2. DOMAIN all = DOMAIN trace
    BY DEF CandidateRows
  <2>3. \A i \in DOMAIN trace : /\ all[i].pt = trace[i]
                                /\ all[i].cands \in CandidateLists(trace[i], l)
    BY DEF CandidateRows
  <2>4. indices \in SUBSET (1..Len(trace)) /\ IsFiniteSet(1..Len(trace))
    BY <2>1, <2>2, FS_Interval
  <2>5. IsFiniteSet(indices)
    <3> HIDE DEF indices
    <3>. QED
      BY <2>4, FS_Subset
  <2>. QED
    BY <2>1, <2>2, <2>3, <2>4, <2>5
<1>4. ElementsAt(all, indices, kept)
  <2> HIDE DEF indices
  <2>. QED
    BY <1>3, PickedElements
<1>5. PICK n \in Nat : DOMAIN kept = 1..n /\ \A k \in 1..n : \E i \in indices : kept[k] = all[i]
  <2> HIDE DEF kept, indices
  <2>. QED
    BY <1>4 DEF ElementsAt
<1>6. Len(kept) = n
  <2>1. kept = [k \in 1..n |-> kept[k]]
    BY <1>5 DEF Picked
  <2> HIDE DEF kept
  <2>. QED
    BY <2>1, LengthOf
<1>7. ASSUME NEW k \in 1..n
      PROVE  /\ kept[k].pt \in Int
             /\ Len(kept[k].cands) \in Nat \ {0}
             /\ DOMAIN kept[k].cands = 1..Len(kept[k].cands)
             /\ \A j \in 1..Len(kept[k].cands) : Place(kept[k].cands[j])
  <2>1. /\ kept[k].pt \in Int
        /\ kept[k].cands \in CandidateLists(kept[k].pt, l) /\ kept[k].cands # <<>>
    <3>1. PICK i \in indices : kept[k] = all[i]
      BY <1>5
    <3> HIDE DEF kept, indices
    <3>. QED
      BY <1>3, <3>1
  <2> HIDE DEF kept
  <2>. QED
    BY <2>1, CandidateRow
<1> HIDE DEF kept
<1>8. RowsInv'
  <2>1. \A c : Place(c)' = Place(c)
    BY <1>2 DEF Place
  <2>. QED
    BY <1>2, <1>5, <1>6, <1>7, <2>1 DEF RowsInv
<1>9. CASE n < 2
  <2>1. matched' = "failed" /\ score' = <<>> /\ back' = <<>>
    BY <1>2, <1>6, <1>9
  <2>2. Scored'
    BY <1>2, <1>6, <2>1 DEF Scored
  <2>. QED
    BY <1>2, <1>8, <2>1, <2>2 DEF MatchInv, ChainBest
<1>10. CASE ~(n < 2)
  <2> DEFINE s == [k \in DOMAIN kept[1].cands |-> Emission(kept[1].cands[k])]
             b == [k \in DOMAIN kept[1].cands |-> -1]
  <2>1. /\ matched' = "scoring" /\ score' = <<s>> /\ back' = <<b>>
        /\ line' = [k \in DOMAIN kept[2].cands |-> [score |-> 0, back |-> 0]]
    BY <1>2, <1>6, <1>10
  <2>2. 1 \in 1..n /\ 2 \in 1..n
    BY <1>10
  <2>3. PICK w \in Nat \ {0} : w = Len(kept[1].cands) /\ DOMAIN kept[1].cands = 1..w
    BY <1>7, <2>2
  <2>4. PICK v \in Nat \ {0} : v = Len(kept[2].cands) /\ DOMAIN kept[2].cands = 1..v
    BY <1>7, <2>2
  <2>5. \A k \in 1..w : Emission(kept[1].cands[k]) \in Int
    <3>1. \A k \in 1..w : Place(kept[1].cands[k])
      BY <1>7, <2>2, <2>3
    <3>. QED
      BY <3>1 DEF Place, Emission
  <2>6. /\ s \in [1..w -> Int] /\ b \in [1..w -> Int]
        /\ \A k \in 1..w : s[k] = Emission(kept[1].cands[k])
    BY <2>3, <2>5
  <2> HIDE DEF s, b
  <2>7. s \in Seq(Int) /\ b \in Seq(Int)
    BY <2>6
  <2>8. /\ score' \in Seq(Seq(Int)) /\ back' \in Seq(Seq(Int))
        /\ Len(score') = 1 /\ Len(back') = 1 /\ score'[1] = s /\ back'[1] = b
    BY <2>1, <2>7
  <2>9. Width(1)' = w /\ Width(2)' = v /\ Len(rows') = n
    BY <1>2, <1>6, <2>3, <2>4 DEF Width
  <2>10. ScoredRow(1)'
    BY <1>2, <2>6, <2>8, <2>9 DEF ScoredRow
  <2>11. Scored'
    <3>1. \A i \in 1..Len(score') : i = 1
      BY <2>8
    <3>2. \A i \in 1..Len(score') : ScoredRow(i)'
      BY <2>10, <3>1
    <3>. QED
      BY <1>10, <2>8, <2>9, <3>2 DEF Scored
  <2>12. Row' = 2
    BY <2>8 DEF Row
  <2>13. LineInv'
    <3>1. /\ DOMAIN line' = 1..v /\ line' = [k \in 1..v |-> line'[k]]
          /\ \A k \in 1..v : line'[k].back = 0
      BY <2>1, <2>4
    <3>2. pred' = 1 /\ pred' - 1 = 0 /\ pred' \in 1..(w + 1) /\ 2 - 1 = 1
      BY <1>2
    <3>3. Width(Row)' = v /\ Width(Row - 1)' = w
      BY <2>9, <2>12, <3>2 DEF Width
    <3>. QED
      BY <3>1, <3>2, <3>3 DEF LineInv
  <2>. QED
    BY <1>2, <1>8, <2>1, <2>8, <2>11, <2>13 DEF MatchInv, ChainBest
<1>. QED
  BY <1>9, <1>10

LEMMA MatchInvStep ==
    ASSUME BuildInv, MatchInv, [MatchNext]_matching
    PROVE  MatchInv'
<1>1. CASE BuildNext /\ UNCHANGED <<search, match>>
  BY <1>1, BuildingKeepsMatch
<1>2. CASE /\ built = "ready" /\ \E trace \in Traces, l \in Levels : BeginMatch(trace, l)
           /\ UNCHANGED routing
  BY <1>2, BeginKeeps
<1>3. CASE MatchStep /\ UNCHANGED routing
  BY <1>3, TransitionKeeps, GivesUpKeepsMatch, EndRowKeeps, BacktrackKeeps DEF MatchStep
<1>4. CASE UNCHANGED matching
  <2>1. UNCHANGED <<match, graph, built>>
    BY <1>4 DEF matching, routing, build
  <2>. QED
    BY <2>1, UntouchedMatch
<1>. QED
  BY <1>1, <1>2, <1>3, <1>4 DEF MatchNext

\* What the candidates of a trace, their scores and the ways back are in every state.
LEMMA MatchingInv == MatchSpec => []MatchInv
<1>1. MatchInit => RoutingInit
  BY DEF MatchInit
<1>2. [MatchNext]_matching => [RoutingNext]_routing
  BY DEF MatchNext, RoutingNext, matching
<1>3. MatchSpec => RoutingSpec
  BY <1>1, <1>2, PTL DEF MatchSpec, RoutingSpec
<1>4. MatchInit => MatchInv
  BY DEF MatchInit, MatchIdle, MatchInv, RowsInv, Scored, ChainBest
<1>5. RoutingInv /\ MatchInv /\ [MatchNext]_matching => MatchInv'
  BY MatchInvStep DEF RoutingInv
<1>. QED
  BY <1>3, <1>4, <1>5, Searching, PTL DEF MatchSpec

\* Candidates lie on their edges, and every way back leads to a candidate of the row
\* before.
THEOREM MatchTypeCorrect == MatchSpec => []MatchTypeOK
<1>1. MatchInv => MatchTypeOK
  <2> SUFFICES ASSUME MatchInv PROVE MatchTypeOK
    OBVIOUS
  <2>1. \A i \in DOMAIN rows : \A k \in DOMAIN rows[i].cands :
           rows[i].cands[k].off \in 0..edges[rows[i].cands[k].edge].len
    BY DEF MatchInv, RowsInv, Place
  <2>2. Len(score) = Len(back) /\ Len(score) <= Len(rows)
    BY DEF MatchInv, Scored
  <2>3. ASSUME NEW i \in DOMAIN back, i > 1, NEW k \in DOMAIN back[i]
        PROVE  back[i][k] \in DOMAIN back[i - 1]
    <3>1. i \in 1..Len(score) /\ i - 1 \in 1..Len(score) /\ i # 1
      BY <2>3 DEF MatchInv, Scored
    <3>2. ScoredRow(i) /\ ScoredRow(i - 1)
      BY <3>1 DEF MatchInv, Scored
    <3>. QED
      BY <2>3, <3>1, <3>2 DEF ScoredRow
  <2>. QED
    BY <2>1, <2>2, <2>3 DEF MatchTypeOK, MatchInv
<1>. QED
  BY <1>1, MatchingInv, PTL

\* Whatever the network, the trace and the limits of the searches, the chain chosen is one
\* that explains the trace best, across points without candidates, gaps and searches cut
\* off, and what is drawn between two edges is no longer than the route that was scored
\* (MapMatch.Run, routeGeometry).
THEOREM ChainsAreBest == MatchSpec => []ChainBest
<1>1. MatchInv => ChainBest
  BY DEF MatchInv
<1>. QED
  BY <1>1, MatchingInv, PTL
=============================================================================
