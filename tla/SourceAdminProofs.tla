------------------------- MODULE SourceAdminProofs -------------------------
(***************************************************************************)
(* Proofs about SourceAdmin, for every set of names, requests, probes and  *)
(* readers.  The inductive invariant is the conjunction of the parts below *)
(* (IInv); each theorem adds one part and relies on the earlier ones.      *)
(***************************************************************************)
EXTENDS SourceAdmin, TLAPS

-----------------------------------------------------------------------------
(* The inductive invariant.                                                *)

\* Edits past this point have published and not yet invalidated the verdict.
NoneInvalidating == \A a \in Admins : pc[a] \notin {"assign", "invalidate"}

\* A process that is down has no state.
DownInv ==
    phase = "down" =>
        /\ retired = {} /\ closed = {} /\ conf = <<>>
        /\ configMu = None /\ ready = NoVerdict
        /\ \A n \in Names : sources[n] = 0
        /\ \A a \in Admins : pc[a] = "idle"
        /\ \A p \in Probes : ppc[p] = "idle"
        /\ \A r \in Readers : using[r] = 0

\* Where a management request is determines what it holds.
EditInvOf(a) ==
    /\ pc[a] = "idle" => req[a].op = "none" /\ configMu # a /\ cand[a] = 0
    /\ pc[a] # "idle" =>
          /\ req[a].op = "probe" => configMu # a /\ pc[a] \in {"open", "ping"}
          /\ req[a].op # "probe" => configMu = a /\ req[a].op \in {"save", "delete"}
          /\ req[a].op = "delete" => pc[a] \notin {"open", "ping"} /\ cand[a] = 0
    /\ pc[a] \in {"open", "assign", "invalidate"} => cand[a] = 0
EditInv == \A a \in Admins : EditInvOf(a)

\* Every probe that is busy holds ready.mu.
ProbeInv ==
    \A p \in Probes :
        /\ ppc[p] # "idle" => readyMu = p
        /\ ppc[p] \in {"idle", "rlock"} => got[p] = {}

\* The file, the configuration in memory and the list the holder of configMu
\* works towards.
HolderInv(a) ==
    /\ pc[a] \in {"open", "ping", "write", "rename", "invalidate"} => file = cfg
    /\ pc[a] \in {"publish", "assign"} => file = next[a]
    /\ pc[a] \in {"write", "rename"} => ValidList(next[a])
    /\ pc[a] \in {"write", "rename", "publish"} =>
          next[a] = IF req[a].op = "save" THEN PutSource(cfg, req[a].src)
                                          ELSE DropSource(cfg, req[a].src.name)
    /\ pc[a] \in {"write", "rename", "publish"} /\ req[a].op = "delete" =>
          req[a].src.name \in NamesOf(cfg) /\ req[a].raw = req[a].src
    /\ pc[a] \in {"open", "ping", "write", "rename"} /\ req[a].op = "save" =>
          req[a].src = PreserveSecret(cfg, req[a].raw)
FileInv ==
    /\ ValidList(file)
    /\ phase # "down" =>
        /\ ValidList(cfg)
        /\ configMu = None => file = cfg
        /\ \A a \in Admins : configMu = a => HolderInv(a)

\* Who owns a backend.  This is BackendsOwned element by element, together
\* with what a candidate was opened from.
PublishedOwned ==
    \A n \in Names : sources[n] # 0 => sources[n] \in Open /\ sources[n] \notin retired
RetiredOwned == closed \subseteq Backends /\ retired \subseteq Open
CandOwned(a) ==
    cand[a] # 0 =>
        /\ cand[a] \in Open /\ cand[a] \notin retired
        /\ conf[cand[a]] = req[a].src
        /\ \A n \in Names : sources[n] # cand[a]
        /\ \A b \in Admins : cand[b] = cand[a] => b = a
OneName == \A m, n \in Names : sources[m] = sources[n] /\ sources[m] # 0 => m = n
NoOrphan ==
    \A b \in Open :
        \/ b \in retired
        \/ \E n \in Names : sources[n] = b
        \/ \E a \in Admins : cand[a] = b
HasCandidate(a) ==
    req[a].op = "save" /\ pc[a] \in {"ping", "write", "rename", "publish"} => cand[a] # 0
OwnInv ==
    /\ \A a \in Admins : HasCandidate(a)
    /\ Serving => /\ PublishedOwned /\ RetiredOwned /\ OneName /\ NoOrphan
                  /\ \A a \in Admins : CandOwned(a)

\* The registry publishes exactly this list: `ord' are its names, `src' the
\* backend under each name and `cf' what the backends were opened with.
Matches(list, ord, src, cf) ==
    /\ ord = NameList(list)
    /\ {n \in Names : src[n] # 0} = NamesOf(list)
    /\ \A i \in DOMAIN list : cf[src[list[i].name]] = list[i]

\* The registry against the lists.
RegInv ==
    Serving =>
        /\ configMu = None => Matches(cfg, order, sources, conf)
        /\ \A a \in Admins : configMu = a =>
              IF pc[a] = "assign" THEN Matches(next[a], order, sources, conf)
                                  ELSE Matches(cfg, order, sources, conf)

\* Backends requests use are never given up by the registry.
ReaderInv ==
    Serving => \A r \in Readers : using[r] # 0 =>
                  using[r] \in retired \/ \E n \in Names : sources[n] = using[r]

\* A set of statuses describes the backends published under these names.
Describes(statuses, names) ==
    {<<st.name, st.of>> : st \in statuses} = {<<n, sources[n]>> : n \in names}

VerdictInv ==
    Serving =>
        /\ ready.statuses # {} /\ NoneInvalidating => Describes(ready.statuses, Published)
        /\ \A p \in Probes :
              /\ ppc[p] = "store" /\ NoneInvalidating => Describes(got[p], Published)
              /\ ppc[p] = "ping" => /\ todo[p] \subseteq Published
                                    /\ Describes(got[p], Published \ todo[p])

IInv ==
    /\ TypeOK /\ DownInv /\ EditInv /\ ProbeInv /\ FileInv
    /\ OwnInv /\ RegInv /\ ReaderInv /\ VerdictInv

-----------------------------------------------------------------------------
(* Lists of sources.                                                       *)

\* Removing an element of a sequence leaves a sequence of the same things.
LEMMA WithoutIndexType ==
    ASSUME NEW S, NEW s \in Seq(S), NEW i \in DOMAIN s
    PROVE  /\ WithoutIndex(s, i) \in Seq(S)
           /\ Len(WithoutIndex(s, i)) = Len(s) - 1
           /\ DOMAIN WithoutIndex(s, i) = 1..(Len(s) - 1)
           /\ \A j \in 1..(Len(s) - 1) :
                 WithoutIndex(s, i)[j] = IF j < i THEN s[j] ELSE s[j + 1]
<1>1. Len(s) - 1 \in Nat
    OBVIOUS
<1>2. \A j \in 1..(Len(s) - 1) : s[j] \in S /\ s[j + 1] \in S
    OBVIOUS
<1>3. WithoutIndex(s, i) \in [1..(Len(s) - 1) -> S]
    BY <1>2 DEF WithoutIndex
<1>4. QED
    BY <1>1, <1>3 DEF WithoutIndex

\* The operations on lists of sources stay within lists of sources.
LEMMA ListTypes ==
    ASSUME NEW list \in Seq(Source), NEW s \in Source
    PROVE  /\ PutSource(list, s) \in Seq(Source)
           /\ PreserveSecret(list, s) \in Source
           /\ PreserveSecret(list, s).name = s.name
           /\ NameList(list) \in Seq(Names)
           /\ s.name \in NamesOf(list) => DropSource(list, s.name) \in Seq(Source)
<1>1. PutSource(list, s) \in Seq(Source)
    <2>1. CASE s.name \in NamesOf(list)
        <3>1. PutSource(list, s) \in [1..Len(list) -> Source]
            BY <2>1 DEF PutSource
        <3>2. QED
            BY <3>1
    <2>2. CASE s.name \notin NamesOf(list)
        BY <2>2 DEF PutSource
    <2>3. QED
        BY <2>1, <2>2
<1>2. PreserveSecret(list, s) \in Source /\ PreserveSecret(list, s).name = s.name
    <2> DEFINE kept == {i \in DOMAIN list : list[i].name = s.name /\ list[i].type = s.type}
    <2>1. CASE s.type \in Databases /\ s.dsn = Blank /\ kept # {}
        <3>1. PICK i \in DOMAIN list : i = CHOOSE j \in kept : TRUE
            BY <2>1
        <3>2. PreserveSecret(list, s) = [s EXCEPT !.dsn = list[i].dsn]
            BY <2>1, <3>1 DEF PreserveSecret
        <3>3. list[i] \in Source
            OBVIOUS
        <3>4. list[i].dsn \in DSNs \cup {Blank}
            BY <3>3 DEF Source
        <3>5. QED
            BY <3>2, <3>4 DEF Source
    <2>2. CASE ~(s.type \in Databases /\ s.dsn = Blank /\ kept # {})
        BY <2>2 DEF PreserveSecret
    <2>3. QED
        BY <2>1, <2>2
<1>3. NameList(list) \in Seq(Names)
    <2>1. \A i \in 1..Len(list) : list[i] \in Source
        OBVIOUS
    <2>2. \A i \in 1..Len(list) : list[i].name \in Names
        BY <2>1 DEF Source
    <2>3. NameList(list) \in [1..Len(list) -> Names]
        BY <2>2 DEF NameList
    <2>4. QED
        BY <2>3
<1>4. s.name \in NamesOf(list) => DropSource(list, s.name) \in Seq(Source)
    BY WithoutIndexType DEF DropSource, NamesOf
<1>5. QED
    BY <1>1, <1>2, <1>3, <1>4
-----------------------------------------------------------------------------
(* Type correctness.                                                       *)

LEMMA InitialTypes == NoRequest \in Request /\ NoVerdict \in [fresh : BOOLEAN, statuses : SUBSET Status]
<1>1. InitialFile[1] \in Source
    BY ConstantsAssumption DEF ValidList
<1>2. QED
    BY <1>1 DEF NoRequest, NoVerdict, Request, Ops

LEMMA InitTypeOK == Init => TypeOK
    BY InitialTypes, ConstantsAssumption DEF Init, TypeOK

\* The process starts and ends.
LEMMA ProcessTypeOK ==
    TypeOK /\ (Start \/ Drain \/ CloseRegistry \/ Exit \/ VerdictAges) => TypeOK'
<1> SUFFICES ASSUME TypeOK, Start \/ Drain \/ CloseRegistry \/ Exit \/ VerdictAges
             PROVE  TypeOK'
    OBVIOUS
<1> USE DEF TypeOK, regVars, backVars, editVars, probeVars
<1>1. CASE Start
    <2>1. NameList(file) \in Seq(Names)
        <3>1. PICK s \in Source : TRUE
            BY InitialTypes DEF Request
        <3>2. QED
            BY <3>1, ListTypes
    <2>2. sources' \in [Names -> Nat]
        <3>1. \A n \in NamesOf(file) : (CHOOSE i \in DOMAIN file : file[i].name = n) \in Nat
            BY DEF NamesOf
        <3>2. QED
            BY <1>1, <3>1 DEF Start
    <2>3. QED
        BY <1>1, <2>1, <2>2 DEF Start
<1>2. CASE Drain
    BY <1>2 DEF Drain
<1>3. CASE CloseRegistry
    <2>1. {sources[n] : n \in Published} \subseteq Nat
        BY DEF Published
    <2>2. closed' = closed \cup retired \cup {sources[n] : n \in Published}
        BY <1>3 DEF CloseRegistry
    <2>3. closed' \in SUBSET Nat
        BY ONLY <2>1, <2>2, TypeOK DEF TypeOK
    <2>4. order' \in Seq(Names) /\ retired' \in SUBSET Nat
        BY <1>3 DEF CloseRegistry
    <2>5. sources' \in [Names -> Nat]
        BY <1>3 DEF CloseRegistry
    <2>6. QED
        BY <1>3, <2>3, <2>4, <2>5 DEF CloseRegistry
<1>4. CASE Exit
    BY <1>4, InitialTypes, ConstantsAssumption DEF Exit
<1>5. CASE VerdictAges
    BY <1>5 DEF VerdictAges
<1>6. QED
    BY <1>1, <1>2, <1>3, <1>4, <1>5

\* The answer to a management request only touches what the request holds.
LEMMA AnswerTypeOK ==
    ASSUME TypeOK, NEW a \in Admins, Answer(a)
    PROVE  /\ configMu' \in Admins \cup {None}
           /\ pc' \in [Admins -> {"idle", "open", "ping", "write", "rename",
                                  "publish", "assign", "invalidate"}]
           /\ req' \in [Admins -> Request]
           /\ cand' \in [Admins -> Nat]
           /\ next' \in [Admins -> Seq(Source)]
    BY InitialTypes DEF TypeOK, Answer

\* Registry.Replace and Registry.Remove keep the types of the registry.
LEMMA RegistryTypes ==
    ASSUME sources \in [Names -> Nat], order \in Seq(Names), retired \in SUBSET Nat,
           NEW name \in Names, NEW b \in Nat,
           Replace(name, b) \/ Remove(name)
    PROVE  sources' \in [Names -> Nat] /\ order' \in Seq(Names) /\ retired' \in SUBSET Nat
<1>1. sources[name] \in Nat
    OBVIOUS
<1>2. retired' = retired \/ retired' = retired \cup {sources[name]}
    BY DEF Replace, Remove, regVars
<1>3. sources' = sources \/ \E c \in Nat : sources' = [sources EXCEPT ![name] = c]
    BY DEF Replace, Remove, regVars
<1>4. order' \in Seq(Names)
    <2>1. CASE order' = order
        BY <2>1
    <2>2. CASE order' = Append(order, name)
        BY <2>2
    <2>3. CASE \E i \in DOMAIN order : order' = WithoutIndex(order, i)
        BY <2>3, WithoutIndexType
    <2>4. CASE Replace(name, b)
        BY <2>1, <2>2, <2>4 DEF Replace
    <2>5. CASE Remove(name)
        <3>1. \/ order' = order
              \/ /\ \E i \in DOMAIN order : order[i] = name
                 /\ order' = WithoutIndex(order, CHOOSE i \in DOMAIN order : order[i] = name)
            BY <2>5 DEF Remove, regVars
        <3>2. QED
            BY <2>1, <2>3, <3>1
    <2>6. QED
        BY <2>4, <2>5
<1>5. QED
    BY <1>1, <1>2, <1>3, <1>4

LEMMA EditTypeOK ==
    ASSUME TypeOK, NEW a \in Admins, Edit(a)
    PROVE  TypeOK'
<1> USE DEF TypeOK, regVars, backVars, probeVars
<1>1. ASSUME NEW s \in Source, BeginSave(a, s)
      PROVE  TypeOK'
    <2>1. [op |-> "save", raw |-> s, src |-> PreserveSecret(cfg, s)] \in Request
        BY ListTypes DEF Request, Ops
    <2>2. QED
        BY <1>1, <2>1 DEF BeginSave
<1>2. ASSUME NEW s \in Source, BeginProbe(a, s)
      PROVE  TypeOK'
    <2>1. [op |-> "probe", raw |-> s, src |-> PreserveSecret(cfg, s)] \in Request
        BY ListTypes DEF Request, Ops
    <2>2. QED
        BY <1>2, <2>1 DEF BeginProbe
<1>3. ASSUME NEW s \in Source, BeginDelete(a, s)
      PROVE  TypeOK'
    <2>1. [op |-> "delete", raw |-> s, src |-> s] \in Request
        BY DEF Request, Ops
    <2>2. DropSource(cfg, s.name) \in Seq(Source)
        BY <1>3, ListTypes DEF BeginDelete, NamesOf
    <2>3. QED
        BY <1>3, <2>1, <2>2 DEF BeginDelete
<1>4. CASE OpenCandidate(a)
    BY <1>4 DEF OpenCandidate, Request
<1>5. CASE OpenFails(a)
    BY <1>5, AnswerTypeOK DEF OpenFails
<1>6. CASE PingAccepts(a)
    BY <1>6, ListTypes DEF PingAccepts, Request
<1>7. CASE PingRejects(a)
    BY <1>7, AnswerTypeOK DEF PingRejects, GiveUp
<1>8. CASE WriteTemp(a)
    BY <1>8 DEF WriteTemp
<1>9. CASE RenameFile(a)
    BY <1>9 DEF RenameFile
<1>10. CASE SaveFails(a)
    BY <1>10, AnswerTypeOK DEF SaveFails, GiveUp
<1>11. CASE Publish(a)
    <2>1. req[a].src.name \in Names
        BY DEF Request, Source
    <2>2. order' \in Seq(Names) /\ retired' \in SUBSET Nat /\ sources' \in [Names -> Nat]
        <3>1. cand[a] \in Nat
            OBVIOUS
        <3>2. Replace(req[a].src.name, cand[a]) \/ Remove(req[a].src.name)
            BY <1>11 DEF Publish
        <3>3. QED
            BY <2>1, <3>1, <3>2, RegistryTypes
    <2>3. cand' \in [Admins -> Nat] /\ pc' \in [Admins -> {"idle", "open", "ping", "write",
                                           "rename", "publish", "assign", "invalidate"}]
        BY <1>11 DEF Publish
    <2>4. QED
        BY <1>11, <2>2, <2>3 DEF Publish
<1>12. CASE AssignConfig(a)
    BY <1>12 DEF AssignConfig
<1>13. CASE InvalidateReadiness(a)
    BY <1>13, AnswerTypeOK, InitialTypes DEF InvalidateReadiness
<1>14. QED
    BY <1>1, <1>2, <1>3, <1>4, <1>5, <1>6, <1>7, <1>8, <1>9, <1>10, <1>11, <1>12, <1>13 DEF Edit

LEMMA ProbeTypeOK ==
    ASSUME TypeOK, NEW p \in Probes, Probe(p)
    PROVE  TypeOK'
<1> USE DEF TypeOK, regVars, backVars, editVars
<1>1. CASE ProbeLock(p)
    BY <1>1 DEF ProbeLock
<1>2. CASE PingLock(p)
    BY <1>2 DEF PingLock, Published
<1>3. CASE PingUnlock(p)
    BY <1>3 DEF PingUnlock
<1>4. CASE StoreVerdict(p)
    BY <1>4, ConstantsAssumption DEF StoreVerdict
<1>5. ASSUME NEW n \in Names, NEW ok \in BOOLEAN, PingOne(p, n, ok)
      PROVE  TypeOK'
    <2>1. [name |-> n, of |-> sources[n], ok |-> ok] \in Status
        BY DEF Status
    <2>2. QED
        BY <1>5, <2>1 DEF PingOne
<1>6. QED
    BY <1>1, <1>2, <1>3, <1>4, <1>5 DEF Probe

LEMMA ReaderTypeOK ==
    ASSUME TypeOK, NEW r \in Readers, Finish(r) \/ \E n \in Names : Capture(r, n)
    PROVE  TypeOK'
<1> USE DEF TypeOK, regVars, backVars, editVars, probeVars
<1>1. CASE Finish(r)
    BY <1>1 DEF Finish
<1>2. ASSUME NEW n \in Names, Capture(r, n)
      PROVE  TypeOK'
    <2>1. using' \in [Readers -> Nat]
        BY <1>2 DEF Capture
    <2>2. QED
        BY <1>2, <2>1 DEF Capture
<1>3. QED
    BY <1>1, <1>2

LEMMA TypeStep == TypeOK /\ [Next]_vars => TypeOK'
<1>1. CASE UNCHANGED vars
    BY <1>1 DEF TypeOK, vars, regVars, backVars, editVars, probeVars
<1>2. QED
    BY <1>1, ProcessTypeOK, EditTypeOK, ProbeTypeOK, ReaderTypeOK DEF Next

\* Every variable keeps its type.
THEOREM TypeCorrect == Spec => []TypeOK
    BY InitTypeOK, TypeStep, PTL DEF Spec

-----------------------------------------------------------------------------
(* A process that is down has no state and can only start.                 *)

LEMMA DownSteps ==
    ASSUME DownInv, phase = "down", Next
    PROVE  Start
<1>1. ~Drain /\ ~CloseRegistry /\ ~Exit
    BY DEF Drain, CloseRegistry, Exit
<1>2. ~VerdictAges
    BY DEF DownInv, VerdictAges, NoVerdict
<1>3. ASSUME NEW a \in Admins PROVE ~Edit(a)
    BY DEF DownInv, Edit, BeginSave, BeginProbe, BeginDelete, OpenCandidate, OpenFails,
           PingAccepts, PingRejects, WriteTemp, RenameFile, SaveFails, Publish,
           AssignConfig, InvalidateReadiness
<1>4. ASSUME NEW p \in Probes PROVE ~Probe(p)
    BY DEF DownInv, Probe, ProbeLock, PingLock, PingOne, PingUnlock, StoreVerdict
<1>5. ASSUME NEW r \in Readers PROVE ~(Finish(r) \/ \E n \in Names : Capture(r, n))
    BY DEF DownInv, Finish, Capture
<1>6. QED
    BY <1>1, <1>2, <1>3, <1>4, <1>5 DEF Next

\* Only the end of the process takes it down.
LEMMA PhaseSteps ==
    ASSUME Next, ~Exit
    PROVE  /\ phase' = "down" => phase = "down"
           /\ ~Start /\ ~Drain /\ ~CloseRegistry => phase' = phase
<1>1. ASSUME NEW a \in Admins, Edit(a) PROVE phase' = phase
    BY <1>1 DEF Edit, BeginSave, BeginProbe, BeginDelete, OpenCandidate, OpenFails,
           PingAccepts, PingRejects, WriteTemp, RenameFile, SaveFails, Publish,
           AssignConfig, InvalidateReadiness
<1>2. ASSUME NEW p \in Probes, Probe(p) PROVE phase' = phase
    BY <1>2 DEF Probe, ProbeLock, PingLock, PingOne, PingUnlock, StoreVerdict
<1>3. QED
    BY <1>1, <1>2 DEF Next, Start, Drain, CloseRegistry, VerdictAges, Finish, Capture

LEMMA DownStep == DownInv /\ [Next]_vars => DownInv'
<1> SUFFICES ASSUME DownInv, [Next]_vars PROVE DownInv'
    OBVIOUS
<1>1. CASE UNCHANGED vars
    BY <1>1 DEF DownInv, vars, regVars, backVars, editVars, probeVars
<1>2. CASE Exit
    BY <1>2 DEF Exit, DownInv
<1>3. CASE Next /\ ~Exit
    <2>1. CASE phase = "down"
        BY <1>3, <2>1, DownSteps DEF Start, DownInv
    <2>2. CASE phase # "down"
        BY <1>3, <2>2, PhaseSteps DEF DownInv
    <2>3. QED
        BY <2>1, <2>2
<1>4. QED
    BY <1>1, <1>2, <1>3

-----------------------------------------------------------------------------
(* Control: what the locks and the program counters say about each other.   *)

LEMMA EditStep == TypeOK /\ EditInv /\ [Next]_vars => EditInv'
<1> SUFFICES ASSUME TypeOK, EditInv, [Next]_vars PROVE EditInv'
    OBVIOUS
<1> USE ConstantsAssumption
<1>1. CASE UNCHANGED editVars
    BY <1>1 DEF EditInv, EditInvOf, editVars
<1>2. CASE Exit
    BY <1>2 DEF Exit, EditInv, EditInvOf, NoRequest
<1>3. ASSUME NEW a \in Admins, Edit(a), ~UNCHANGED editVars
      PROVE  EditInv'
    <2> USE DEF TypeOK, EditInv, EditInvOf
    <2> SUFFICES ASSUME NEW b \in Admins PROVE EditInvOf(b)'
        OBVIOUS
    <2>1. ASSUME NEW s \in Source, BeginSave(a, s) PROVE EditInvOf(b)'
        BY <2>1 DEF BeginSave
    <2>2. ASSUME NEW s \in Source, BeginProbe(a, s) PROVE EditInvOf(b)'
        BY <2>2 DEF BeginProbe
    <2>3. ASSUME NEW s \in Source, BeginDelete(a, s) PROVE EditInvOf(b)'
        BY <2>3 DEF BeginDelete
    <2>4. CASE OpenCandidate(a)
        BY <2>4 DEF OpenCandidate
    <2>5. CASE Answer(a)
        BY <2>5 DEF Answer, NoRequest
    <2>6. CASE PingAccepts(a)
        BY <2>6 DEF PingAccepts
    <2>7. CASE WriteTemp(a)
        BY <2>7 DEF WriteTemp
    <2>8. CASE RenameFile(a)
        BY <2>8 DEF RenameFile
    <2>9. CASE Publish(a)
        BY <2>9 DEF Publish
    <2>10. CASE AssignConfig(a)
        BY <2>10 DEF AssignConfig
    <2>11. QED
        BY <1>3, <2>1, <2>2, <2>3, <2>4, <2>5, <2>6, <2>7, <2>8, <2>9, <2>10
        DEF Edit, OpenFails, PingRejects, SaveFails, GiveUp, InvalidateReadiness
<1>4. ASSUME NEW p \in Probes, Probe(p) PROVE UNCHANGED editVars
    BY <1>4 DEF Probe, ProbeLock, PingLock, PingOne, PingUnlock, StoreVerdict
<1>5. QED
    BY <1>1, <1>2, <1>3, <1>4
    DEF Next, vars, Start, Drain, CloseRegistry, VerdictAges, Finish, Capture

LEMMA ProbeStep == TypeOK /\ ProbeInv /\ [Next]_vars => ProbeInv'
<1> SUFFICES ASSUME TypeOK, ProbeInv, [Next]_vars PROVE ProbeInv'
    OBVIOUS
<1>1. CASE UNCHANGED probeVars
    BY <1>1 DEF ProbeInv, probeVars
<1>2. CASE Exit
    BY <1>2 DEF Exit, ProbeInv
<1>3. ASSUME NEW p \in Probes, Probe(p) PROVE ProbeInv'
    BY <1>3, ConstantsAssumption
    DEF ProbeInv, TypeOK, Probe, ProbeLock, PingLock, PingOne, PingUnlock, StoreVerdict
<1>4. ASSUME NEW a \in Admins, Edit(a) PROVE UNCHANGED probeVars
    BY <1>4 DEF Edit, BeginSave, BeginProbe, BeginDelete, OpenCandidate, OpenFails,
           PingAccepts, PingRejects, WriteTemp, RenameFile, SaveFails, Publish,
           AssignConfig, InvalidateReadiness
<1>5. QED
    BY <1>1, <1>2, <1>3, <1>4
    DEF Next, vars, Start, Drain, CloseRegistry, VerdictAges, Finish, Capture
-----------------------------------------------------------------------------
(* The file and the configuration in memory.                               *)

\* Everything but Start, Exit, and the edits leaves the lists alone.
LEMMA ListFrame ==
    ASSUME Next, ~Start, ~Exit, \A a \in Admins : ~Edit(a)
    PROVE  UNCHANGED <<file, cfg, editVars>>
    BY DEF Next, editVars, Drain, CloseRegistry, VerdictAges, Finish, Capture,
           Probe, ProbeLock, PingLock, PingOne, PingUnlock, StoreVerdict

LEMMA EditFileStep ==
    ASSUME TypeOK, EditInv, FileInv, phase # "down", NEW a \in Admins, Edit(a)
    PROVE  /\ ValidList(file') /\ ValidList(cfg')
           /\ configMu' = None => file' = cfg'
           /\ \A b \in Admins : configMu' = b => HolderInv(b)'
<1> USE ConstantsAssumption
<1> DEFINE Goal == /\ ValidList(file') /\ ValidList(cfg')
                   /\ configMu' = None => file' = cfg'
                   /\ \A b \in Admins : configMu' = b => HolderInv(b)'
<1>a. /\ ValidList(file) /\ ValidList(cfg)
      /\ configMu = None => file = cfg
      /\ \A b \in Admins : configMu = b => HolderInv(b)
    BY DEF FileInv
<1>b. /\ pc[a] = "idle" => configMu # a
      /\ pc[a] # "idle" /\ req[a].op # "probe" => configMu = a
      /\ req[a].op = "probe" /\ pc[a] # "idle" => configMu # a /\ pc[a] \in {"open", "ping"}
      /\ pc[a] # "idle" => req[a].op \in {"save", "delete", "probe"}
    BY DEF EditInv, EditInvOf, TypeOK, Request, Ops
<1>c. /\ pc \in [Admins -> {"idle", "open", "ping", "write", "rename",
                            "publish", "assign", "invalidate"}]
      /\ req \in [Admins -> Request] /\ next \in [Admins -> Seq(Source)]
      /\ configMu \in Admins \cup {None}
    BY DEF TypeOK
<1> DEFINE Same(b) == pc'[b] = pc[b] /\ req'[b] = req[b] /\ next'[b] = next[b]
<1>d. ASSUME UNCHANGED <<file, cfg>>, NEW b \in Admins, Same(b), HolderInv(b)
      PROVE  HolderInv(b)'
    BY <1>d DEF HolderInv
<1>1. ASSUME NEW s \in Source, BeginSave(a, s) PROVE Goal
    <2>1. /\ pc'[a] = "open" /\ configMu' = a /\ UNCHANGED <<file, cfg>> /\ file = cfg
          /\ req'[a].src = PreserveSecret(cfg', req'[a].raw)
        BY <1>1, <1>a, <1>c DEF BeginSave
    <2>2. HolderInv(a)'
        BY <2>1 DEF HolderInv
    <2>3. QED
        BY <1>a, <2>1, <2>2
<1>2. ASSUME NEW s \in Source, BeginProbe(a, s) PROVE Goal
    <2>1. UNCHANGED <<file, cfg, configMu>> /\ configMu = None
        BY <1>2 DEF BeginProbe
    <2>2. QED
        BY <1>a, <2>1
<1>3. ASSUME NEW s \in Source, BeginDelete(a, s) PROVE Goal
    <2>1. /\ pc'[a] = "write" /\ configMu' = a /\ UNCHANGED <<file, cfg>> /\ file = cfg
          /\ req'[a].src = s /\ req'[a].raw = s /\ req'[a].op = "delete"
          /\ next'[a] = DropSource(cfg, s.name) /\ ValidList(DropSource(cfg, s.name))
          /\ s.name \in NamesOf(cfg)
        BY <1>3, <1>a, <1>c DEF BeginDelete, NamesOf
    <2>2. HolderInv(a)'
        BY <2>1 DEF HolderInv
    <2>3. QED
        BY <1>a, <2>1, <2>2
<1>4. CASE OpenCandidate(a)
    <2>1. /\ pc'[a] = "ping" /\ pc[a] = "open" /\ UNCHANGED <<file, cfg, configMu, req, next>>
          /\ \A b \in Admins \ {a} : pc'[b] = pc[b]
        BY <1>4, <1>c DEF OpenCandidate
    <2>2. configMu = a => HolderInv(a)'
        BY <1>a, <2>1 DEF HolderInv
    <2>3. QED
        BY <1>a, <1>d, <2>1, <2>2
<1>5. CASE PingAccepts(a)
    <2>1. /\ pc'[a] = "write" /\ pc[a] = "ping" /\ UNCHANGED <<file, cfg, configMu, req>>
          /\ req[a].op = "save" /\ configMu = a
          /\ next'[a] = PutSource(cfg, req[a].src) /\ ValidList(PutSource(cfg, req[a].src))
        BY <1>5, <1>b, <1>c DEF PingAccepts
    <2>2. HolderInv(a)'
        BY <1>a, <2>1 DEF HolderInv
    <2>3. QED
        BY <1>a, <2>1, <2>2
<1>6. ASSUME Answer(a), UNCHANGED <<file, cfg>>,
             pc[a] \in {"open", "ping", "write", "rename", "invalidate"}
      PROVE  Goal
    <2>1. \A b \in Admins \ {a} : Same(b)
        BY <1>6, <1>c DEF Answer
    <2>2. CASE configMu = a
        <3>1. configMu' = None /\ file = cfg
            BY <1>6, <1>a, <2>2 DEF Answer, HolderInv
        <3>2. QED
            BY <1>6, <1>a, <3>1
    <2>3. CASE configMu # a
        <3>1. configMu' = configMu
            BY <1>6, <2>3 DEF Answer
        <3>2. QED
            BY <1>6, <1>a, <1>d, <2>1, <2>3, <3>1
    <2>4. QED
        BY <2>2, <2>3
<1>7. CASE WriteTemp(a)
    <2>1. /\ pc'[a] = "rename" /\ pc[a] = "write" /\ UNCHANGED <<file, cfg, configMu, req, next>>
          /\ configMu = a
        BY <1>7, <1>b, <1>c DEF WriteTemp
    <2>2. HolderInv(a)'
        BY <1>a, <2>1 DEF HolderInv
    <2>3. QED
        BY <1>a, <2>1, <2>2
<1>8. CASE RenameFile(a)
    <2>1. /\ pc'[a] = "publish" /\ pc[a] = "rename" /\ UNCHANGED <<cfg, configMu, req, next>>
          /\ configMu = a /\ file' = next[a]
        BY <1>8, <1>b, <1>c DEF RenameFile
    <2>2. HolderInv(a)' /\ ValidList(file')
        BY <1>a, <2>1 DEF HolderInv
    <2>3. QED
        BY <1>a, <2>1, <2>2
<1>9. CASE Publish(a)
    <2>1. /\ pc'[a] = "assign" /\ pc[a] = "publish" /\ UNCHANGED <<file, cfg, configMu, req, next>>
          /\ configMu = a
        BY <1>9, <1>b, <1>c DEF Publish
    <2>2. HolderInv(a)'
        BY <1>a, <2>1 DEF HolderInv
    <2>3. QED
        BY <1>a, <2>1, <2>2
<1>10. CASE AssignConfig(a)
    <2>1. /\ pc'[a] = "invalidate" /\ pc[a] = "assign" /\ UNCHANGED <<file, configMu, req, next>>
          /\ configMu = a /\ cfg' = next[a]
        BY <1>10, <1>b, <1>c DEF AssignConfig
    <2>2. HolderInv(a)' /\ cfg' = file
        BY <1>a, <2>1 DEF HolderInv
    <2>3. QED
        BY <1>a, <2>1, <2>2
<1>11. CASE OpenFails(a)
    BY <1>6, <1>11 DEF OpenFails
<1>12. CASE PingRejects(a)
    BY <1>6, <1>12 DEF PingRejects, GiveUp
<1>13. CASE SaveFails(a)
    BY <1>6, <1>13 DEF SaveFails, GiveUp
<1>14. CASE InvalidateReadiness(a)
    BY <1>6, <1>14 DEF InvalidateReadiness
<1>15. QED
    BY <1>1, <1>2, <1>3, <1>4, <1>5, <1>7, <1>8, <1>9, <1>10, <1>11, <1>12, <1>13, <1>14 DEF Edit

LEMMA FileStep == TypeOK /\ DownInv /\ EditInv /\ FileInv /\ [Next]_vars => FileInv'
<1> SUFFICES ASSUME TypeOK, DownInv, EditInv, FileInv, [Next]_vars PROVE FileInv'
    OBVIOUS
<1>1. CASE UNCHANGED vars
    BY <1>1 DEF FileInv, HolderInv, vars, editVars
<1>2. CASE Exit
    BY <1>2 DEF Exit, FileInv
<1>3. CASE Start
    BY <1>3, ConstantsAssumption DEF Start, FileInv, DownInv, editVars
<1>4. ASSUME NEW a \in Admins, Edit(a) PROVE FileInv'
    <2>1. phase # "down" /\ phase' = phase
        BY <1>4 DEF DownInv, Edit, BeginSave, BeginProbe, BeginDelete, OpenCandidate, OpenFails,
           PingAccepts, PingRejects, WriteTemp, RenameFile, SaveFails, Publish,
           AssignConfig, InvalidateReadiness
    <2>2. QED
        BY <1>4, <2>1, EditFileStep DEF FileInv
<1>5. CASE Next /\ ~Start /\ ~Exit /\ \A a \in Admins : ~Edit(a)
    <2>1. UNCHANGED <<file, cfg, editVars>>
        BY <1>5, ListFrame
    <2>2. phase' = "down" => phase = "down"
        BY <1>5, PhaseSteps
    <2>3. phase = "down" => FALSE
        BY <1>5, DownSteps
    <2>4. QED
        BY <2>1, <2>2, <2>3 DEF FileInv, HolderInv, editVars
<1>6. QED
    BY <1>1, <1>2, <1>3, <1>4, <1>5
-----------------------------------------------------------------------------
(* Ownership of backends.                                                  *)

ownVars == <<sources, retired, conf, closed>>

\* Steps that open, close, publish or retire nothing.
LEMMA OwnFrame ==
    ASSUME TypeOK, OwnInv, UNCHANGED ownVars,
           phase' = phase \/ (phase' = "draining" /\ phase = "up"),
           \A a \in Admins :
              /\ cand'[a] = cand[a]
              /\ cand[a] # 0 => req'[a].src = req[a].src
              /\ HasCandidate(a)'
    PROVE  OwnInv'
<1>1. Serving' => Serving
    BY DEF Serving
<1>2. Open' = Open /\ Backends' = Backends
    BY DEF ownVars, Open, Backends
<1>3. ASSUME Serving
      PROVE  PublishedOwned' /\ RetiredOwned' /\ OneName'
    BY <1>2, <1>3 DEF OwnInv, ownVars, PublishedOwned, RetiredOwned, OneName
<1>4. ASSUME Serving
      PROVE  NoOrphan'
    BY <1>2, <1>4 DEF OwnInv, ownVars, NoOrphan
<1>5. ASSUME Serving, NEW a \in Admins
      PROVE  CandOwned(a)'
    BY <1>2, <1>5 DEF OwnInv, ownVars, CandOwned
<1>6. QED
    BY <1>1, <1>3, <1>4, <1>5 DEF OwnInv

\* Giving a candidate up closes it and leaves it without an owner.
LEMMA GiveUpOwn ==
    ASSUME TypeOK, OwnInv, NEW a \in Admins, UNCHANGED <<phase, sources, retired, conf>>,
           \/ GiveUp(a)
           \/ Answer(a) /\ cand[a] = 0 /\ UNCHANGED closed
    PROVE  OwnInv'
<1>1. Serving' = Serving /\ Backends' = Backends
    BY DEF Serving, Backends
<1>2. /\ cand \in [Admins -> Nat] /\ req \in [Admins -> Request]
      /\ pc \in [Admins -> {"idle", "open", "ping", "write", "rename",
                            "publish", "assign", "invalidate"}]
    BY DEF TypeOK
<1>3. /\ cand'[a] = 0 /\ pc'[a] = "idle"
      /\ \A b \in Admins \ {a} : cand'[b] = cand[b] /\ pc'[b] = pc[b] /\ req'[b] = req[b]
    BY <1>2 DEF GiveUp, Answer
<1>4. ~Serving \/ (Open' = Open \ {cand[a]} /\ closed' = closed \cup (Open \cap {cand[a]}))
    <2>1. 0 \notin Open
        BY DEF Open, Backends
    <2>2. closed' = IF cand[a] = 0 THEN closed ELSE closed \cup {cand[a]}
        BY DEF GiveUp
    <2>3. Serving /\ cand[a] # 0 => cand[a] \in Open
        BY DEF OwnInv, CandOwned
    <2>4. QED
        BY <1>1, <2>1, <2>2, <2>3 DEF Open
<1>5. \A b \in Admins : HasCandidate(b)'
    BY <1>3 DEF OwnInv, HasCandidate
<1>6. CASE Serving
    <2>1. cand[a] # 0 => CandOwned(a)
        BY <1>6 DEF OwnInv
    <2>2. PublishedOwned' /\ RetiredOwned' /\ OneName'
        <3>1. PublishedOwned /\ RetiredOwned /\ OneName
            BY <1>6 DEF OwnInv
        <3>2. \A n \in Names : sources[n] # 0 => sources[n] # cand[a]
            BY <2>1 DEF CandOwned
        <3>3. cand[a] \notin retired
            <4>1. 0 \notin Open
                BY DEF Open, Backends
            <4>2. QED
                BY <2>1, <3>1, <4>1 DEF CandOwned, RetiredOwned
        <3>4. PublishedOwned'
            BY <1>4, <1>6, <3>1, <3>2 DEF PublishedOwned
        <3>5. RetiredOwned'
            BY <1>1, <1>4, <1>6, <3>1, <3>3 DEF RetiredOwned, Open
        <3>6. OneName'
            BY <3>1 DEF OneName
        <3>7. QED
            BY <3>4, <3>5, <3>6
    <2>3. NoOrphan'
        BY <1>3, <1>4, <1>6 DEF OwnInv, NoOrphan
    <2>4. ASSUME NEW b \in Admins
          PROVE  CandOwned(b)'
        <3>1. CASE b = a
            BY <1>3, <3>1 DEF CandOwned
        <3>2. CASE b # a
            BY <1>3, <1>4, <1>6, <3>2 DEF OwnInv, CandOwned
        <3>3. QED
            BY <3>1, <3>2
    <2>5. QED
        BY <1>5, <2>2, <2>3, <2>4 DEF OwnInv
<1>7. CASE ~Serving
    BY <1>1, <1>5, <1>7 DEF OwnInv
<1>8. QED
    BY <1>6, <1>7

LEMMA OpenOwn ==
    ASSUME TypeOK, EditInv, OwnInv, NEW a \in Admins, OpenCandidate(a)
    PROVE  OwnInv'
<1>1. Serving' = Serving
    BY DEF OpenCandidate, Serving
<1> DEFINE c == Len(conf) + 1
<1>2. /\ conf' = Append(conf, req[a].src) /\ conf \in Seq(Source) /\ req[a].src \in Source
      /\ closed' = closed
    BY DEF OpenCandidate, TypeOK, Request
<1>3. Len(conf') = c /\ conf'[c] = req[a].src /\ \A b \in Backends : conf'[b] = conf[b]
    <2>1. Len(conf) \in Nat
        BY <1>2
    <2>2. QED
        BY <1>2, <2>1 DEF Backends
<1>4. c \notin Backends /\ c # 0 /\ Backends' = Backends \cup {c} /\ 0 \notin Backends
    <2>1. Len(conf) \in Nat
        BY <1>2
    <2>2. QED
        BY <1>3, <2>1 DEF Backends
<1>5. /\ cand'[a] = c /\ cand[a] = 0 /\ pc'[a] = "ping"
      /\ req' = req /\ sources' = sources /\ retired' = retired
      /\ \A b \in Admins \ {a} : cand'[b] = cand[b] /\ pc'[b] = pc[b]
    BY DEF OpenCandidate, TypeOK, EditInv, EditInvOf, regVars
<1> HIDE DEF c
<1>6. \A b \in Admins : HasCandidate(b)'
    BY <1>4, <1>5 DEF OwnInv, HasCandidate
<1>7. CASE Serving
    <2>1. PublishedOwned /\ RetiredOwned /\ OneName /\ NoOrphan /\ \A b \in Admins : CandOwned(b)
        BY <1>7 DEF OwnInv
    <2>2. Open' = Open \cup {c} /\ c \notin Open /\ Open \subseteq Backends
        BY <1>2, <1>4, <2>1 DEF Open, RetiredOwned
    <2>3. PublishedOwned' /\ RetiredOwned' /\ OneName'
        BY <1>2, <1>4, <1>5, <2>1, <2>2 DEF PublishedOwned, RetiredOwned, OneName
    <2>4. ASSUME NEW b \in Admins
          PROVE  CandOwned(b)'
        <3>1. CASE b = a
            <4>1. \A n \in Names : sources[n] # c
                BY <1>4, <2>1, <2>2 DEF PublishedOwned
            <4>2. \A d \in Admins : cand[d] # c
                BY <1>4, <2>1, <2>2 DEF CandOwned
            <4>3. c \notin retired
                BY <2>1, <2>2 DEF RetiredOwned
            <4>4. QED
                BY <1>3, <1>5, <2>2, <3>1, <4>1, <4>2, <4>3 DEF CandOwned
        <3>2. CASE b # a /\ cand[b] # 0
            <4>1. cand[b] \in Open /\ cand[b] # c
                BY <2>1, <2>2, <3>2 DEF CandOwned
            <4>2. conf'[cand[b]] = conf[cand[b]]
                BY <1>3, <2>2, <4>1
            <4>3. CandOwned(b)
                BY <2>1
            <4>4. QED
                BY <1>5, <2>2, <3>2, <4>1, <4>2, <4>3 DEF CandOwned
        <3>3. CASE b # a /\ cand[b] = 0
            BY <1>5, <3>3 DEF CandOwned
        <3>4. QED
            BY <3>1, <3>2, <3>3
    <2>5. NoOrphan'
        <3>1. ASSUME NEW b \in Open
              PROVE  \/ b \in retired
                     \/ \E n \in Names : sources[n] = b
                     \/ \E d \in Admins \ {a} : cand[d] = b
            BY <1>4, <1>5, <2>1, <2>2 DEF NoOrphan
        <3>2. QED
            BY <1>5, <2>2, <3>1 DEF NoOrphan
    <2>6. QED
        BY <1>6, <2>3, <2>4, <2>5 DEF OwnInv
<1>8. CASE ~Serving
    BY <1>1, <1>6, <1>8 DEF OwnInv
<1>9. QED
    BY <1>7, <1>8

LEMMA PublishOwn ==
    ASSUME TypeOK, EditInv, OwnInv, NEW a \in Admins, Publish(a)
    PROVE  OwnInv'
<1> DEFINE name == req[a].src.name
<1>1. Serving' = Serving /\ Open' = Open /\ Backends' = Backends /\ UNCHANGED <<conf, closed, req>>
    BY DEF Publish, Serving, backVars, Open, Backends
<1>2. /\ cand'[a] = 0 /\ pc'[a] = "assign" /\ pc[a] = "publish"
      /\ \A b \in Admins \ {a} : cand'[b] = cand[b] /\ pc'[b] = pc[b]
    BY DEF Publish, TypeOK
<1>3. name \in Names /\ sources \in [Names -> Nat] /\ cand[a] \in Nat
    BY DEF TypeOK, Request, Source
<1>4. 0 \notin Open
    BY DEF Open, Backends
\* Either operation puts the candidate (none for a removal) under the name and
\* retires what was there.
<1>5. /\ sources'[name] = cand[a]
      /\ \A n \in Names \ {name} : sources'[n] = sources[n]
      /\ sources[name] = 0 => retired' = retired
      /\ sources[name] # 0 => retired' = retired \cup {sources[name]}
    <2>1. CASE req[a].op = "save"
        BY <1>3, <2>1 DEF Publish, Replace
    <2>2. CASE req[a].op # "save"
        <3>1. cand[a] = 0
            BY <1>2, <2>2 DEF EditInv, EditInvOf, TypeOK, Request, Ops
        <3>2. QED
            BY <1>3, <2>2, <3>1 DEF Publish, Remove, regVars
    <2>3. QED
        BY <2>1, <2>2
<1> HIDE DEF name
<1>6. \A b \in Admins : HasCandidate(b)'
    BY <1>1, <1>2 DEF OwnInv, HasCandidate
<1>7. CASE Serving
    <2>1. PublishedOwned /\ RetiredOwned /\ OneName /\ NoOrphan /\ \A b \in Admins : CandOwned(b)
        BY <1>7 DEF OwnInv
    <2>2. PublishedOwned'
        <3>1. ASSUME NEW n \in Names, n # name, sources'[n] # 0
              PROVE  sources'[n] \in Open /\ sources'[n] \notin retired'
            BY <1>3, <1>5, <2>1, <3>1 DEF PublishedOwned, OneName
        <3>2. ASSUME sources'[name] # 0
              PROVE  sources'[name] \in Open /\ sources'[name] \notin retired'
            BY <1>3, <1>5, <2>1, <3>2 DEF CandOwned
        <3>3. QED
            BY <1>1, <3>1, <3>2 DEF PublishedOwned
    <2>3. RetiredOwned'
        BY <1>1, <1>3, <1>5, <2>1 DEF RetiredOwned, PublishedOwned
    <2>4. OneName'
        BY <1>3, <1>5, <2>1 DEF OneName, CandOwned
    <2>5. ASSUME NEW b \in Admins, cand'[b] # 0
          PROVE  CandOwned(b)'
        <3>1. b # a /\ cand'[b] = cand[b] /\ cand[b] # 0
            BY <1>2, <2>5
        <3>2. /\ cand[b] \in Open /\ cand[b] \notin retired /\ conf[cand[b]] = req[b].src
              /\ \A n \in Names : sources[n] # cand[b]
              /\ \A d \in Admins : cand[d] = cand[b] => d = b
            BY <2>1, <3>1 DEF CandOwned
        <3>3. cand[b] \notin retired' /\ \A n \in Names : sources'[n] # cand[b]
            BY <1>3, <1>5, <3>1, <3>2
        <3>4. \A d \in Admins : cand'[d] = cand[b] => d = b
            BY <1>2, <3>1, <3>2
        <3>5. QED
            BY <1>1, <3>1, <3>2, <3>3, <3>4 DEF CandOwned
    <2>6. \A b \in Admins : CandOwned(b)'
        BY <2>5 DEF CandOwned
    <2>7. ASSUME NEW b \in Open
          PROVE  \/ b \in retired'
                 \/ \E n \in Names : sources'[n] = b
                 \/ \E d \in Admins : cand'[d] = b
        <3>1. CASE b \in retired
            BY <1>5, <3>1
        <3>2. ASSUME NEW n \in Names, sources[n] = b
              PROVE  b \in retired' \/ \E m \in Names : sources'[m] = b
            BY <1>4, <1>5, <3>2
        <3>3. ASSUME NEW d \in Admins, cand[d] = b
              PROVE  \/ \E n \in Names : sources'[n] = b
                     \/ \E e \in Admins : cand'[e] = b
            BY <1>2, <1>3, <1>5, <3>3
        <3>4. QED
            BY <2>1, <3>1, <3>2, <3>3 DEF NoOrphan
    <2>8. NoOrphan'
        BY <1>1, <2>7 DEF NoOrphan
    <2>9. QED
        BY <1>6, <2>2, <2>3, <2>4, <2>6, <2>8 DEF OwnInv
<1>8. CASE ~Serving
    BY <1>1, <1>6, <1>8 DEF OwnInv
<1>9. QED
    BY <1>7, <1>8

LEMMA OwnStep ==
    TypeOK /\ DownInv /\ EditInv /\ OwnInv /\ [Next]_vars => OwnInv'
<1> SUFFICES ASSUME TypeOK, DownInv, EditInv, OwnInv, [Next]_vars PROVE OwnInv'
    OBVIOUS
<1> DEFINE Frame == /\ UNCHANGED <<phase, sources, retired, conf, closed, cand>>
                    /\ \A b \in Admins : /\ cand[b] # 0 => req'[b] = req[b]
                                         /\ HasCandidate(b)'
<1>a. ASSUME Frame PROVE OwnInv'
    BY <1>a, OwnFrame DEF ownVars
<1>b. /\ cand \in [Admins -> Nat] /\ req \in [Admins -> Request]
      /\ pc \in [Admins -> {"idle", "open", "ping", "write", "rename",
                            "publish", "assign", "invalidate"}]
      /\ \A b \in Admins : HasCandidate(b) /\ EditInvOf(b)
    BY DEF TypeOK, OwnInv, EditInv
<1>1. ASSUME UNCHANGED <<sources, retired, conf, closed, editVars>>, phase' = phase \/ Drain
      PROVE  OwnInv'
    <2>1. \A b \in Admins : HasCandidate(b)'
        BY <1>b, <1>1 DEF HasCandidate, editVars
    <2>2. QED
        BY <1>1, <2>1, OwnFrame DEF ownVars, editVars, Drain
<1>2. CASE Exit
    BY <1>2 DEF Exit, OwnInv, HasCandidate, Serving
<1>3. CASE Start
    <2>1. /\ conf' = file /\ closed' = {} /\ retired' = {} /\ file \in Seq(Source)
          /\ UNCHANGED editVars
          /\ \A b \in Admins : cand[b] = 0
        <3>1. \A b \in Admins : pc[b] = "idle"
            BY <1>3 DEF Start, DownInv
        <3>2. QED
            BY <1>3, <1>b, <3>1 DEF Start, DownInv, TypeOK, EditInvOf
    <2>2. Open' = DOMAIN file /\ Backends' = DOMAIN file
        BY <2>1 DEF Open, Backends
    <2>3. \A n \in Names : /\ n \in NamesOf(file) =>
                                 sources'[n] \in DOMAIN file /\ file[sources'[n]].name = n
                           /\ n \notin NamesOf(file) => sources'[n] = 0
        BY <1>3 DEF Start, NamesOf
    <2>4. 0 \notin DOMAIN file
        BY <2>1
    <2>5. PublishedOwned' /\ RetiredOwned'
        BY <2>1, <2>2, <2>3 DEF PublishedOwned, RetiredOwned
    <2>6. OneName'
        BY <2>3, <2>4 DEF OneName
    <2>7. NoOrphan'
        <3>1. ASSUME NEW i \in DOMAIN file
              PROVE  \E n \in Names : sources'[n] = i
            <4>1. file[i].name \in Names
                <5>1. file[i] \in Source
                    BY <2>1
                <5>2. QED
                    BY <5>1 DEF Source
            <4>2. UniqueNames(file)
                BY <1>3 DEF Start, ValidList
            <4>3. QED
                BY <2>3, <4>1, <4>2 DEF NamesOf, UniqueNames
        <3>2. QED
            BY <2>2, <3>1 DEF NoOrphan
    <2>8. \A b \in Admins : CandOwned(b)' /\ HasCandidate(b)'
        BY <1>b, <2>1 DEF CandOwned, HasCandidate, editVars
    <2>9. QED
        BY <2>5, <2>6, <2>7, <2>8 DEF OwnInv
<1>4. CASE CloseRegistry
    BY <1>4, <1>b DEF CloseRegistry, OwnInv, HasCandidate, Serving, editVars
<1>5. ASSUME NEW a \in Admins, Edit(a) PROVE OwnInv'
    <2>1. ASSUME NEW s \in Source, BeginSave(a, s) \/ BeginProbe(a, s) \/ BeginDelete(a, s)
          PROVE  Frame
        <3>1. /\ UNCHANGED <<phase, sources, retired, conf, closed, cand>>
              /\ cand[a] = 0 /\ pc'[a] \in {"open", "write"} /\ (pc'[a] = "write" => req'[a].op = "delete")
              /\ \A b \in Admins \ {a} : req'[b] = req[b] /\ pc'[b] = pc[b]
            BY <1>b, <2>1 DEF BeginSave, BeginProbe, BeginDelete, EditInvOf, regVars, backVars
        <3>2. QED
            BY <1>b, <3>1 DEF HasCandidate
    <2>2. ASSUME PingAccepts(a) \/ WriteTemp(a) \/ RenameFile(a) \/ AssignConfig(a)
          PROVE  Frame
        <3>1. /\ UNCHANGED <<phase, sources, retired, conf, closed, cand, req>>
              /\ \A b \in Admins \ {a} : pc'[b] = pc[b]
              /\ pc[a] \in {"ping", "write", "rename"} \/ pc'[a] = "invalidate"
            BY <1>b, <2>2 DEF PingAccepts, WriteTemp, RenameFile, AssignConfig, regVars, backVars
        <3>2. QED
            BY <1>b, <3>1 DEF HasCandidate
    <2>3. CASE OpenCandidate(a)
        BY <2>3, OpenOwn
    <2>4. CASE Publish(a)
        BY <2>4, PublishOwn
    <2>5. CASE PingRejects(a) \/ SaveFails(a)
        BY <2>5, GiveUpOwn DEF PingRejects, SaveFails, regVars
    <2>6. CASE OpenFails(a)
        BY <1>b, <2>6, GiveUpOwn DEF OpenFails, EditInvOf, regVars, backVars
    <2>7. CASE InvalidateReadiness(a)
        <3>1. Answer(a) /\ pc[a] = "invalidate" /\ UNCHANGED <<phase, sources, retired, conf, closed>>
            BY <2>7 DEF InvalidateReadiness, regVars, backVars
        <3>2. cand[a] = 0
            BY <1>b, <3>1 DEF EditInvOf
        <3>3. QED
            BY <3>1, <3>2, GiveUpOwn
    <2>8. QED
        BY <1>5, <1>a, <2>1, <2>2, <2>3, <2>4, <2>5, <2>6, <2>7 DEF Edit
<1>6. ASSUME NEW p \in Probes, Probe(p)
      PROVE  UNCHANGED <<phase, sources, retired, conf, closed, editVars>>
    BY <1>6 DEF Probe, ProbeLock, PingLock, PingOne, PingUnlock, StoreVerdict, regVars, backVars
<1>7. ASSUME Drain \/ VerdictAges \/ \E r \in Readers : Finish(r) \/ \E n \in Names : Capture(r, n)
      PROVE  UNCHANGED <<sources, retired, conf, closed, editVars>> /\ (phase' = phase \/ Drain)
    BY <1>7 DEF Drain, VerdictAges, Finish, Capture, regVars, backVars
<1>8. QED
    BY <1>1, <1>2, <1>3, <1>4, <1>5, <1>6, <1>7 DEF Next, vars, regVars, backVars

-----------------------------------------------------------------------------
(* The registry publishes the configured list.                             *)

\* What Registry.Replace does to a registry that publishes `list'.
LEMMA ReplaceMatches ==
    ASSUME NEW list \in Seq(Source), NEW ord \in Seq(Names), NEW src \in [Names -> Nat], NEW cf,
           NEW s \in Source, NEW b \in Nat \ {0},
           UniqueNames(list), Matches(list, ord, src, cf),
           cf[b] = s
    PROVE  Matches(PutSource(list, s),
                   IF src[s.name] # 0 THEN ord ELSE Append(ord, s.name),
                   [src EXCEPT ![s.name] = b], cf)
<1> DEFINE new == PutSource(list, s)
           nsrc == [src EXCEPT ![s.name] = b]
<1>1. s.name \in Names /\ \A i \in DOMAIN list : list[i].name \in Names
    <2>1. \A i \in DOMAIN list : list[i] \in Source
        OBVIOUS
    <2>2. QED
        BY <2>1 DEF Source
<1>2. src[s.name] # 0 <=> s.name \in NamesOf(list)
    BY <1>1 DEF Matches
<1>3. {n \in Names : nsrc[n] # 0} = {n \in Names : src[n] # 0} \cup {s.name}
    BY <1>1
<1>4. CASE s.name \in NamesOf(list)
    <2>1. /\ DOMAIN new = DOMAIN list
          /\ \A i \in DOMAIN list : new[i] = IF list[i].name = s.name THEN s ELSE list[i]
        BY <1>4 DEF PutSource
    <2>2. \A i \in DOMAIN list : new[i].name = list[i].name
        BY <2>1
    <2>3. NameList(new) = NameList(list) /\ NamesOf(new) = NamesOf(list)
        BY <2>1, <2>2 DEF NameList, NamesOf
    <2>4. \A i \in DOMAIN new : cf[nsrc[new[i].name]] = new[i]
        BY <1>1, <2>1, <2>2 DEF Matches
    <2>5. {n \in Names : nsrc[n] # 0} = NamesOf(new)
        BY <1>3, <1>4, <2>3 DEF Matches
    <2>6. QED
        BY <1>2, <1>4, <2>3, <2>4, <2>5 DEF Matches
<1>5. CASE s.name \notin NamesOf(list)
    <2>1. new = Append(list, s) /\ Len(list) \in Nat
        BY <1>5 DEF PutSource
    <2>2. /\ DOMAIN new = (DOMAIN list) \cup {Len(list) + 1}
          /\ \A i \in DOMAIN list : new[i] = list[i]
          /\ new[Len(list) + 1] = s
          /\ Len(list) + 1 \notin DOMAIN list
        BY <2>1
    <2>3. NamesOf(new) = NamesOf(list) \cup {s.name}
        BY <2>2 DEF NamesOf
    <2>4. NameList(new) = Append(ord, s.name)
        <3>1. NameList(new) \in Seq(Names) /\ NameList(list) \in Seq(Names)
            <4>1. new \in Seq(Source)
                BY <2>1
            <4>2. QED
                BY <4>1, ListTypes
        <3>2. ord = NameList(list)
            BY DEF Matches
        <3>3. Len(NameList(list)) = Len(list) /\ Len(NameList(new)) = Len(list) + 1
            BY <2>1, <2>2, <3>1 DEF NameList
        <3>4. /\ \A i \in DOMAIN list : NameList(new)[i] = NameList(list)[i]
              /\ NameList(new)[Len(list) + 1] = s.name
            BY <2>2 DEF NameList
        <3>5. QED
            BY <2>1, <3>1, <3>2, <3>3, <3>4
    <2>5. \A i \in DOMAIN new : cf[nsrc[new[i].name]] = new[i]
        <3>1. ASSUME NEW i \in DOMAIN list
              PROVE  cf[nsrc[list[i].name]] = list[i]
            <4>1. list[i].name # s.name
                BY <1>5 DEF NamesOf
            <4>2. nsrc[list[i].name] = src[list[i].name]
                BY <1>1, <4>1
            <4>3. QED
                BY <4>2 DEF Matches
        <3>2. cf[nsrc[s.name]] = s
            BY <1>1
        <3>3. QED
            BY <2>2, <3>1, <3>2
    <2>6. QED
        BY <1>2, <1>3, <1>5, <2>3, <2>4, <2>5 DEF Matches
<1>6. QED
    BY <1>4, <1>5

\* What Registry.Remove does to a registry that publishes `list'.
LEMMA RemoveMatches ==
    ASSUME NEW list \in Seq(Source), NEW ord \in Seq(Names), NEW src \in [Names -> Nat], NEW cf,
           NEW name \in Names, name \in NamesOf(list),
           UniqueNames(list), Matches(list, ord, src, cf)
    PROVE  /\ \E i \in DOMAIN ord : ord[i] = name
           /\ Matches(DropSource(list, name),
                      WithoutIndex(ord, CHOOSE i \in DOMAIN ord : ord[i] = name),
                      [src EXCEPT ![name] = 0], cf)
<1> DEFINE k == CHOOSE i \in DOMAIN list : list[i].name = name
           new == WithoutIndex(list, k)
           nsrc == [src EXCEPT ![name] = 0]
<1>1. k \in DOMAIN list /\ list[k].name = name
    BY DEF NamesOf
<1>2. /\ DOMAIN ord = DOMAIN list /\ Len(ord) = Len(list)
      /\ \A i \in DOMAIN list : ord[i] = list[i].name
    BY DEF Matches, NameList
<1>3. (CHOOSE i \in DOMAIN ord : ord[i] = name) = k /\ ord[k] = name
    BY <1>1, <1>2 DEF UniqueNames
<1>4. \A i \in DOMAIN list : i # k => list[i].name # name
    BY <1>1 DEF UniqueNames
<1> HIDE DEF k
<1>5. /\ DOMAIN new = 1..(Len(list) - 1)
      /\ \A j \in 1..(Len(list) - 1) : new[j] = IF j < k THEN list[j] ELSE list[j + 1]
    BY <1>1, WithoutIndexType
<1>e. DOMAIN list = 1..Len(list) /\ Len(list) \in Nat /\ k \in 1..Len(list)
    BY <1>1
<1>6. NameList(new) = WithoutIndex(ord, k)
    <2>1. ASSUME NEW j \in 1..(Len(list) - 1)
          PROVE  new[j].name = IF j < k THEN ord[j] ELSE ord[j + 1]
        <3>1. j \in DOMAIN list /\ j + 1 \in DOMAIN list
            BY <1>e
        <3>2. ord[j] = list[j].name /\ ord[j + 1] = list[j + 1].name
            BY <1>2, <3>1
        <3>3. new[j] = IF j < k THEN list[j] ELSE list[j + 1]
            BY <1>5
        <3>4. QED
            BY <3>2, <3>3
    <2>2. QED
        BY <1>2, <1>5, <2>1 DEF NameList, WithoutIndex
<1>7. ASSUME NEW j \in DOMAIN new
      PROVE  \E i \in DOMAIN list : i # k /\ new[j] = list[i]
    BY <1>1, <1>5
<1>8. ASSUME NEW i \in DOMAIN list, i # k
      PROVE  \E j \in DOMAIN new : new[j] = list[i]
    <2>1. CASE i < k
        <3>1. i \in 1..(Len(list) - 1)
            BY <1>e, <2>1
        <3>2. QED
            BY <1>5, <2>1, <3>1
    <2>2. CASE i > k
        <3>1. i - 1 \in 1..(Len(list) - 1) /\ ~(i - 1 < k) /\ (i - 1) + 1 = i
            BY <1>1, <1>8, <2>2
        <3>2. QED
            BY <1>5, <3>1
    <2>3. QED
        BY <1>1, <1>8, <2>1, <2>2
<1>9. NamesOf(new) = NamesOf(list) \ {name}
    <2>1. ASSUME NEW n \in NamesOf(new) PROVE n \in NamesOf(list) /\ n # name
        <3>1. PICK j \in DOMAIN new : n = new[j].name
            BY DEF NamesOf
        <3>2. PICK i \in DOMAIN list : i # k /\ new[j] = list[i]
            BY <1>7
        <3>3. QED
            BY <1>4, <3>1, <3>2 DEF NamesOf
    <2>2. ASSUME NEW n \in NamesOf(list), n # name PROVE n \in NamesOf(new)
        <3>1. PICK i \in DOMAIN list : n = list[i].name
            BY DEF NamesOf
        <3>2. PICK j \in DOMAIN new : new[j] = list[i]
            BY <1>1, <1>8, <2>2, <3>1
        <3>3. QED
            BY <3>1, <3>2 DEF NamesOf
    <2>3. QED
        BY <2>1, <2>2
<1>10. {n \in Names : nsrc[n] # 0} = NamesOf(new)
    <2>1. {n \in Names : nsrc[n] # 0} = {n \in Names : src[n] # 0} \ {name}
        OBVIOUS
    <2>2. QED
        BY <1>9, <2>1 DEF Matches
<1>11. ASSUME NEW j \in DOMAIN new PROVE cf[nsrc[new[j].name]] = new[j]
    <2>1. PICK i \in DOMAIN list : i # k /\ new[j] = list[i]
        BY <1>7
    <2>2. list[i].name # name /\ list[i].name \in Names
        <3>1. list[i] \in Source
            OBVIOUS
        <3>2. QED
            BY <1>4, <2>1, <3>1 DEF Source
    <2>3. nsrc[list[i].name] = src[list[i].name]
        BY <2>2
    <2>4. QED
        BY <2>1, <2>3 DEF Matches
<1>12. Matches(new, WithoutIndex(ord, k), nsrc, cf)
    BY <1>6, <1>10, <1>11 DEF Matches
<1>13. DropSource(list, name) = new
    BY DEF DropSource, k
<1>14. QED
    BY <1>1, <1>2, <1>3, <1>12, <1>13

\* Opening another backend does not disturb what the registry publishes.
LEMMA OpenMatches ==
    ASSUME TypeOK, PublishedOwned, NEW s \in Source, NEW list \in Seq(Source),
           Matches(list, order, sources, conf)
    PROVE  Matches(list, order, sources, Append(conf, s))
<1>1. ASSUME NEW i \in DOMAIN list
      PROVE  Append(conf, s)[sources[list[i].name]] = list[i]
    <2>1. list[i].name \in Names /\ sources[list[i].name] # 0
        BY DEF Matches, NamesOf
    <2>2. sources[list[i].name] \in 1..Len(conf)
        BY <2>1 DEF PublishedOwned, Open, Backends
    <2>3. Append(conf, s)[sources[list[i].name]] = conf[sources[list[i].name]]
        BY <2>2 DEF TypeOK
    <2>4. QED
        BY <2>3 DEF Matches
<1>2. QED
    BY <1>1 DEF Matches

\* Registry.Replace and Registry.Remove, called by the holder of configMu, make
\* the registry publish the list the edit works towards.
LEMMA PublishMatches ==
    ASSUME TypeOK, EditInv, FileInv, OwnInv, RegInv, Serving, NEW a \in Admins, Publish(a)
    PROVE  configMu = a /\ Matches(next[a], order', sources', conf)
<1>1. pc[a] = "publish" /\ configMu = a /\ req[a].op \in {"save", "delete"}
    BY DEF Publish, EditInv, EditInvOf, TypeOK, Request, Ops
<1>2. /\ cfg \in Seq(Source) /\ order \in Seq(Names) /\ sources \in [Names -> Nat]
      /\ req[a].src \in Source /\ req[a].src.name \in Names
    BY DEF TypeOK, Request, Source
<1>3. UniqueNames(cfg) /\ Matches(cfg, order, sources, conf)
    BY <1>1 DEF FileInv, RegInv, Serving, ValidList
<1>4. next[a] = IF req[a].op = "save" THEN PutSource(cfg, req[a].src)
                                      ELSE DropSource(cfg, req[a].src.name)
    BY <1>1 DEF FileInv, HolderInv, Serving
<1>5. CASE req[a].op = "save"
    <2>1. cand[a] \in Nat \ {0} /\ conf[cand[a]] = req[a].src
        BY <1>1, <1>5 DEF OwnInv, HasCandidate, CandOwned, TypeOK
    <2>2. /\ order' = IF sources[req[a].src.name] # 0 THEN order ELSE Append(order, req[a].src.name)
          /\ sources' = [sources EXCEPT ![req[a].src.name] = cand[a]]
        BY <1>5 DEF Publish, Replace
    <2>3. Matches(PutSource(cfg, req[a].src),
                  IF sources[req[a].src.name] # 0 THEN order ELSE Append(order, req[a].src.name),
                  [sources EXCEPT ![req[a].src.name] = cand[a]], conf)
        BY <1>2, <1>3, <2>1, ReplaceMatches
    <2>4. next[a] = PutSource(cfg, req[a].src)
        BY <1>4, <1>5
    <2>5. QED
        BY <1>1, <2>2, <2>3, <2>4
<1>6. CASE req[a].op = "delete"
    <2>1. req[a].src.name \in NamesOf(cfg)
        BY <1>1, <1>6 DEF FileInv, HolderInv, Serving
    <2>2. sources[req[a].src.name] # 0
        BY <1>3, <2>1 DEF Matches
    <2>3. /\ \E i \in DOMAIN order : order[i] = req[a].src.name
          /\ Matches(DropSource(cfg, req[a].src.name),
                     WithoutIndex(order, CHOOSE i \in DOMAIN order : order[i] = req[a].src.name),
                     [sources EXCEPT ![req[a].src.name] = 0], conf)
        BY <1>2, <1>3, <2>1, RemoveMatches
    <2>4. /\ sources' = [sources EXCEPT ![req[a].src.name] = 0]
          /\ order' = WithoutIndex(order, CHOOSE i \in DOMAIN order : order[i] = req[a].src.name)
        BY <1>6, <2>2, <2>3 DEF Publish, Remove
    <2>5. next[a] = DropSource(cfg, req[a].src.name)
        BY <1>4, <1>6
    <2>6. QED
        BY <1>1, <2>3, <2>4, <2>5
<1>7. QED
    BY <1>1, <1>5, <1>6

LEMMA EditRegStep ==
    ASSUME TypeOK, EditInv, FileInv, OwnInv, RegInv, Serving, NEW a \in Admins, Edit(a)
    PROVE  RegInv'
<1> USE ConstantsAssumption DEF regVars, backVars
<1>a. /\ configMu = None => Matches(cfg, order, sources, conf)
      /\ \A b \in Admins : configMu = b =>
            IF pc[b] = "assign" THEN Matches(next[b], order, sources, conf)
                                ELSE Matches(cfg, order, sources, conf)
    BY DEF RegInv
<1>b. /\ pc[a] = "idle" => configMu # a
      /\ pc[a] # "idle" /\ pc[a] \notin {"open", "ping"} => configMu = a
      /\ req[a].op = "save" /\ pc[a] # "idle" => configMu = a
    BY DEF EditInv, EditInvOf, TypeOK, Request, Ops
<1>c. /\ pc \in [Admins -> {"idle", "open", "ping", "write", "rename",
                            "publish", "assign", "invalidate"}]
      /\ next \in [Admins -> Seq(Source)]
      /\ configMu \in Admins \cup {None}
    BY DEF TypeOK
\* The holder of configMu goes on, or lets go, short of the assignment.
<1>d. ASSUME UNCHANGED <<cfg, order, sources, conf>>, Matches(cfg, order, sources, conf),
             configMu' \in {a, None}, pc'[a] # "assign"
      PROVE  RegInv'
    BY <1>d DEF RegInv
\* Somebody else may hold it.
<1>e. ASSUME UNCHANGED <<cfg, order, sources, conf, configMu>>, pc'[a] # "assign", pc[a] # "assign",
             \A b \in Admins \ {a} : pc'[b] = pc[b] /\ next'[b] = next[b]
      PROVE  RegInv'
    BY <1>a, <1>e DEF RegInv
<1>1. ASSUME NEW s \in Source, BeginSave(a, s) \/ BeginProbe(a, s) \/ BeginDelete(a, s)
      PROVE  RegInv'
    <2>1. /\ UNCHANGED <<cfg, order, sources, conf>> /\ configMu = None
          /\ configMu' \in {a, None} /\ pc'[a] \in {"open", "write"}
        BY <1>1, <1>c DEF BeginSave, BeginProbe, BeginDelete
    <2>2. QED
        BY <1>a, <1>d, <2>1
<1>2. CASE OpenCandidate(a)
    <2>1. PublishedOwned
        BY DEF OwnInv
    <2>2. req[a].src \in Source /\ cfg \in Seq(Source)
        BY DEF TypeOK, Request
    <2>3. /\ UNCHANGED <<cfg, order, sources, configMu, next>> /\ conf' = Append(conf, req[a].src)
          /\ pc'[a] # "assign" /\ pc[a] # "assign" /\ \A b \in Admins \ {a} : pc'[b] = pc[b]
        BY <1>2, <1>c DEF OpenCandidate
    <2>4. ASSUME NEW list \in Seq(Source), Matches(list, order, sources, conf)
          PROVE  Matches(list, order, sources, conf')
        BY <2>1, <2>2, <2>3, <2>4, OpenMatches
    <2>5. \A b \in Admins : next[b] \in Seq(Source)
        BY <1>c
    <2>6. QED
        BY <1>a, <2>2, <2>3, <2>4, <2>5 DEF RegInv
<1>3. CASE PingAccepts(a) \/ WriteTemp(a) \/ RenameFile(a)
    <2>1. /\ UNCHANGED <<cfg, order, sources, conf, configMu>> /\ configMu = a
          /\ pc[a] # "assign" /\ pc'[a] # "assign"
        BY <1>3, <1>b, <1>c DEF PingAccepts, WriteTemp, RenameFile
    <2>2. QED
        BY <1>a, <1>d, <2>1
<1>4. CASE Publish(a)
    <2>1. configMu = a /\ Matches(next[a], order', sources', conf)
        BY <1>4, PublishMatches
    <2>2. UNCHANGED <<conf, configMu, next>> /\ pc'[a] = "assign"
        BY <1>4, <1>c DEF Publish
    <2>3. QED
        BY <2>1, <2>2 DEF RegInv
<1>5. CASE AssignConfig(a)
    <2>1. /\ configMu = a /\ pc[a] = "assign" /\ cfg' = next[a] /\ pc'[a] = "invalidate"
          /\ UNCHANGED <<order, sources, conf, configMu>>
        BY <1>5, <1>b, <1>c DEF AssignConfig
    <2>2. QED
        BY <1>a, <2>1 DEF RegInv
<1>6. ASSUME Answer(a), UNCHANGED <<cfg, order, sources, conf>>, pc[a] # "assign"
      PROVE  RegInv'
    <2>1. /\ pc'[a] = "idle"
          /\ \A b \in Admins \ {a} : pc'[b] = pc[b] /\ next'[b] = next[b]
        BY <1>6, <1>c DEF Answer
    <2>2. CASE configMu = a
        BY <1>6, <1>a, <1>d, <2>1, <2>2 DEF Answer
    <2>3. CASE configMu # a
        BY <1>6, <1>e, <2>1, <2>3 DEF Answer
    <2>4. QED
        BY <2>2, <2>3
<1>7. CASE OpenFails(a)
    BY <1>6, <1>7 DEF OpenFails
<1>8. CASE PingRejects(a)
    BY <1>6, <1>8 DEF PingRejects, GiveUp
<1>9. CASE SaveFails(a)
    BY <1>6, <1>9 DEF SaveFails, GiveUp
<1>10. CASE InvalidateReadiness(a)
    BY <1>6, <1>10 DEF InvalidateReadiness
<1>11. QED
    BY <1>1, <1>2, <1>3, <1>4, <1>5, <1>7, <1>8, <1>9, <1>10 DEF Edit

\* Steps of anybody but the edits and the process.
OtherStep == Drain \/ VerdictAges \/ (\E p \in Probes : Probe(p))
                \/ (\E r \in Readers : Finish(r) \/ \E n \in Names : Capture(r, n))

LEMMA OtherFrame ==
    ASSUME OtherStep
    PROVE  /\ UNCHANGED <<file, cfg, regVars, backVars, editVars>>
           /\ Serving' => Serving
    BY DEF OtherStep, Serving, Drain, VerdictAges, Finish, Capture, Probe, ProbeLock,
           PingLock, PingOne, PingUnlock, StoreVerdict

\* An edit never runs in a process that is down and leaves the phase alone.
LEMMA EditFrame ==
    ASSUME DownInv, NEW a \in Admins, Edit(a)
    PROVE  phase # "down" /\ phase' = phase /\ UNCHANGED <<using, probeVars>>
    BY DEF DownInv, Edit, BeginSave, BeginProbe, BeginDelete, OpenCandidate, OpenFails,
           PingAccepts, PingRejects, WriteTemp, RenameFile, SaveFails, Publish,
           AssignConfig, InvalidateReadiness

LEMMA RegStep ==
    TypeOK /\ DownInv /\ EditInv /\ FileInv /\ OwnInv /\ RegInv /\ [Next]_vars => RegInv'
<1> SUFFICES ASSUME TypeOK, DownInv, EditInv, FileInv, OwnInv, RegInv, [Next]_vars
             PROVE  RegInv'
    OBVIOUS
<1>1. CASE UNCHANGED vars
    BY <1>1 DEF RegInv, Serving, vars, regVars, backVars, editVars
<1>2. CASE Exit \/ CloseRegistry
    BY <1>2 DEF Exit, CloseRegistry, RegInv, Serving
<1>3. CASE Start
    <2>1. /\ cfg' = file /\ order' = NameList(file) /\ conf' = file /\ UniqueNames(file)
          /\ \A n \in Names : /\ n \in NamesOf(file) =>
                                    sources'[n] \in DOMAIN file /\ file[sources'[n]].name = n
                              /\ n \notin NamesOf(file) => sources'[n] = 0
        BY <1>3 DEF Start, NamesOf, ValidList
    <2>2. 0 \notin DOMAIN file /\ \A i \in DOMAIN file : file[i].name \in Names
        <3>1. file \in Seq(Source)
            BY DEF TypeOK
        <3>2. \A i \in DOMAIN file : file[i] \in Source
            BY <3>1
        <3>3. QED
            BY <3>1, <3>2 DEF Source
    <2>3. {n \in Names : sources'[n] # 0} = NamesOf(file)
        BY <2>1, <2>2 DEF NamesOf
    <2>4. \A i \in DOMAIN file : file[sources'[file[i].name]] = file[i]
        BY <2>1, <2>2 DEF NamesOf, UniqueNames
    <2>5. Matches(cfg', order', sources', conf')
        BY <2>1, <2>3, <2>4 DEF Matches
    <2>6. \A b \in Admins : configMu' # b
        BY <1>3, ConstantsAssumption DEF Start, DownInv, editVars
    <2>7. QED
        BY <2>5, <2>6 DEF RegInv
<1>4. ASSUME NEW a \in Admins, Edit(a) PROVE RegInv'
    BY <1>4, EditFrame, EditRegStep DEF RegInv, Serving
<1>5. CASE OtherStep
    BY <1>5, OtherFrame DEF RegInv, regVars, backVars, editVars
<1>6. QED
    BY <1>1, <1>2, <1>3, <1>4, <1>5 DEF Next, OtherStep

-----------------------------------------------------------------------------
(* Data requests.                                                          *)

\* What an edit takes out of service it retires.
LEMMA Retires ==
    ASSUME TypeOK, NEW a \in Admins, Edit(a)
    PROVE  /\ retired \subseteq retired'
           /\ \A n \in Names : sources[n] # 0 =>
                 sources[n] \in retired' \/ \E m \in Names : sources'[m] = sources[n]
<1>1. CASE Publish(a)
    <2> DEFINE name == req[a].src.name
    <2>1. name \in Names
        BY DEF TypeOK, Request, Source
    <2>2. /\ retired \subseteq retired'
          /\ sources[name] # 0 => sources[name] \in retired'
          /\ \A n \in Names : n # name => sources'[n] = sources[n]
        BY <1>1, <2>1 DEF Publish, Replace, Remove, regVars, TypeOK
    <2>3. QED
        BY <2>2
<1>2. CASE ~Publish(a)
    BY <1>2 DEF Edit, BeginSave, BeginProbe, BeginDelete, OpenCandidate, OpenFails,
           PingAccepts, PingRejects, WriteTemp, RenameFile, SaveFails,
           AssignConfig, InvalidateReadiness, regVars
<1>3. QED
    BY <1>1, <1>2

LEMMA ReaderStep == TypeOK /\ DownInv /\ ReaderInv /\ [Next]_vars => ReaderInv'
<1> SUFFICES ASSUME TypeOK, DownInv, ReaderInv, [Next]_vars PROVE ReaderInv'
    OBVIOUS
<1>1. CASE UNCHANGED vars
    BY <1>1 DEF ReaderInv, Serving, vars, regVars
<1>2. CASE Exit \/ CloseRegistry
    BY <1>2 DEF Exit, CloseRegistry, ReaderInv, Serving
<1>3. CASE Start
    BY <1>3 DEF Start, DownInv, ReaderInv
<1>4. ASSUME NEW a \in Admins, Edit(a) PROVE ReaderInv'
    <2>1. UNCHANGED using /\ phase' = phase
        BY <1>4, EditFrame
    <2>2. /\ retired \subseteq retired'
          /\ \A n \in Names : sources[n] # 0 =>
                sources[n] \in retired' \/ \E m \in Names : sources'[m] = sources[n]
        BY <1>4, Retires
    <2>3. QED
        BY <2>1, <2>2 DEF ReaderInv, Serving
<1>5. ASSUME NEW r \in Readers, NEW n \in Names, Capture(r, n) PROVE ReaderInv'
    BY <1>5 DEF Capture, ReaderInv, Serving, TypeOK, regVars
<1>6. ASSUME NEW r \in Readers, Finish(r) PROVE ReaderInv'
    BY <1>6 DEF Finish, ReaderInv, Serving, TypeOK, regVars
<1>7. ASSUME OtherStep, UNCHANGED using PROVE ReaderInv'
    BY <1>7, OtherFrame DEF ReaderInv, regVars
<1>8. ASSUME Drain \/ VerdictAges \/ \E p \in Probes : Probe(p) PROVE OtherStep /\ UNCHANGED using
    BY <1>8 DEF OtherStep, Drain, VerdictAges, Probe, ProbeLock, PingLock, PingOne,
                PingUnlock, StoreVerdict
<1>9. QED
    BY <1>1, <1>2, <1>3, <1>4, <1>5, <1>6, <1>7, <1>8 DEF Next

-----------------------------------------------------------------------------
(* The readiness verdict.                                                  *)

LEMMA EditVerdict ==
    ASSUME TypeOK, DownInv, EditInv, ProbeInv, VerdictInv, NEW a \in Admins, Edit(a)
    PROVE  VerdictInv'
<1> USE DEF probeVars, regVars
<1>a. UNCHANGED <<ppc, todo, got>> /\ phase' = phase
    BY EditFrame
<1>b. pc \in [Admins -> {"idle", "open", "ping", "write", "rename",
                         "publish", "assign", "invalidate"}]
    BY DEF TypeOK
\* A verdict may be lost but not come back before the edit invalidates it.
<1>c. ASSUME UNCHANGED <<sources, ready>>, NoneInvalidating' => NoneInvalidating
      PROVE  VerdictInv'
    BY <1>a, <1>c DEF VerdictInv, Describes, Published, Serving
<1>d. ASSUME UNCHANGED <<sources, ready>>, pc[a] \notin {"assign", "invalidate"},
             \A b \in Admins \ {a} : pc'[b] = pc[b]
      PROVE  VerdictInv'
    BY <1>c, <1>d DEF NoneInvalidating
<1>1. ASSUME NEW s \in Source, BeginSave(a, s) \/ BeginProbe(a, s) \/ BeginDelete(a, s)
      PROVE  VerdictInv'
    BY <1>1, <1>b, <1>d DEF BeginSave, BeginProbe, BeginDelete
<1>2. CASE OpenCandidate(a) \/ PingAccepts(a) \/ WriteTemp(a) \/ RenameFile(a)
    BY <1>2, <1>b, <1>d DEF OpenCandidate, PingAccepts, WriteTemp, RenameFile
<1>3. CASE OpenFails(a) \/ PingRejects(a) \/ SaveFails(a)
    BY <1>3, <1>b, <1>d DEF OpenFails, PingRejects, SaveFails, GiveUp, Answer
<1>4. CASE Publish(a)
    <2>1. ~NoneInvalidating' /\ \A p \in Probes : ppc[p] # "ping"
        BY <1>4, <1>b DEF Publish, NoneInvalidating, RegRLocked
    <2>2. QED
        BY <1>a, <2>1 DEF VerdictInv
<1>5. CASE AssignConfig(a)
    <2>1. ~NoneInvalidating' /\ UNCHANGED sources
        BY <1>5, <1>b DEF AssignConfig, NoneInvalidating
    <2>2. QED
        BY <1>a, <2>1 DEF VerdictInv, Describes, Published, Serving
<1>6. CASE InvalidateReadiness(a)
    <2>1. ready' = NoVerdict /\ \A p \in Probes : ppc[p] = "idle"
        <3>1. readyMu = None /\ ready' = NoVerdict
            BY <1>6 DEF InvalidateReadiness
        <3>2. \A p \in Probes : p # None
            BY ConstantsAssumption
        <3>3. QED
            BY <3>1, <3>2 DEF ProbeInv
    <2>2. QED
        BY <1>a, <2>1 DEF VerdictInv, NoVerdict
<1>7. QED
    BY <1>1, <1>2, <1>3, <1>4, <1>5, <1>6 DEF Edit

LEMMA ProbeVerdict ==
    ASSUME TypeOK, ProbeInv, VerdictInv, NEW p \in Probes, Probe(p)
    PROVE  VerdictInv'
<1> USE DEF regVars, editVars
<1>a. UNCHANGED <<phase, sources, pc>> /\ (NoneInvalidating' <=> NoneInvalidating)
    BY DEF Probe, ProbeLock, PingLock, PingOne, PingUnlock, StoreVerdict, NoneInvalidating
<1>b. /\ ppc \in [Probes -> {"idle", "rlock", "ping", "store"}]
      /\ todo \in [Probes -> SUBSET Names] /\ got \in [Probes -> SUBSET Status]
    BY DEF TypeOK
\* The verdict is left alone and this probe is fine: so are the others.
<1>c. ASSUME Serving,
             UNCHANGED ready,
             \A q \in Probes \ {p} : ppc'[q] = ppc[q] /\ todo'[q] = todo[q] /\ got'[q] = got[q],
             ppc'[p] = "store" /\ NoneInvalidating => Describes(got'[p], Published),
             ppc'[p] = "ping" => /\ todo'[p] \subseteq Published
                                 /\ Describes(got'[p], Published \ todo'[p])
      PROVE  VerdictInv'
    BY <1>a, <1>c DEF VerdictInv, Describes, Published
<1>1. CASE Serving
    <2>a. /\ ppc[p] = "store" /\ NoneInvalidating => Describes(got[p], Published)
          /\ ppc[p] = "ping" => todo[p] \subseteq Published /\ Describes(got[p], Published \ todo[p])
        BY <1>1 DEF VerdictInv
    <2>1. CASE ProbeLock(p)
        BY <1>1, <1>b, <1>c, <2>1 DEF ProbeLock
    <2>2. CASE PingLock(p)
        <3>1. got[p] = {} /\ got' = got /\ todo'[p] = Published /\ ppc'[p] = "ping"
            BY <1>b, <2>2 DEF PingLock, ProbeInv
        <3>2. Describes(got'[p], Published \ todo'[p])
            BY <3>1 DEF Describes
        <3>3. QED
            BY <1>1, <1>b, <1>c, <2>2, <3>1, <3>2 DEF PingLock
    <2>3. CASE PingUnlock(p)
        <3>1. Describes(got[p], Published)
            <4>1. Published \ todo[p] = Published
                BY <2>3 DEF PingUnlock
            <4>2. QED
                BY <2>a, <2>3, <4>1 DEF PingUnlock
        <3>2. QED
            BY <1>1, <1>b, <1>c, <2>3, <3>1 DEF PingUnlock
    <2>4. CASE StoreVerdict(p)
        <3>1. readyMu = p /\ \A q \in Probes \ {p} : ppc[q] = "idle"
            BY <1>b, <2>4 DEF StoreVerdict, ProbeInv
        <3>2. /\ ready'.statuses = got[p] /\ \A q \in Probes : ppc'[q] = "idle"
              /\ ppc[p] = "store"
            BY <1>b, <2>4, <3>1 DEF StoreVerdict
        <3>3. NoneInvalidating => Describes(got[p], Published)
            BY <2>a, <3>2
        <3>4. QED
            BY <1>a, <3>2, <3>3 DEF VerdictInv, Describes, Published
    <2>5. ASSUME NEW n \in Names, NEW ok \in BOOLEAN, PingOne(p, n, ok)
          PROVE  VerdictInv'
        <3>1. /\ ppc[p] = "ping" /\ n \in todo[p] /\ UNCHANGED <<ready, ppc>>
              /\ todo'[p] = todo[p] \ {n}
              /\ got'[p] = got[p] \cup {[name |-> n, of |-> sources[n], ok |-> ok]}
              /\ \A q \in Probes \ {p} : todo'[q] = todo[q] /\ got'[q] = got[q]
            BY <1>b, <2>5 DEF PingOne
        <3>2. Published \ todo'[p] = (Published \ todo[p]) \cup {n}
            BY <2>a, <3>1
        <3>3. {<<st.name, st.of>> : st \in got'[p]}
                 = {<<st.name, st.of>> : st \in got[p]} \cup {<<n, sources[n]>>}
            <4> DEFINE entry == [name |-> n, of |-> sources[n], ok |-> ok]
            <4>1. entry.name = n /\ entry.of = sources[n] /\ got'[p] = got[p] \cup {entry}
                BY <3>1
            <4> HIDE DEF entry
            <4>2. QED
                BY <4>1
        <3>4. {<<m, sources[m]>> : m \in Published \ todo'[p]}
                 = {<<m, sources[m]>> : m \in Published \ todo[p]} \cup {<<n, sources[n]>>}
            BY <3>2
        <3>5. Describes(got'[p], Published \ todo'[p])
            BY <2>a, <3>1, <3>3, <3>4 DEF Describes
        <3>6. QED
            BY <1>1, <1>c, <2>a, <3>1, <3>5
    <2>6. QED
        BY <2>1, <2>2, <2>3, <2>4, <2>5 DEF Probe
<1>2. CASE ~Serving
    BY <1>a, <1>2 DEF VerdictInv, Serving
<1>3. QED
    BY <1>1, <1>2

LEMMA VerdictStep ==
    TypeOK /\ DownInv /\ EditInv /\ ProbeInv /\ VerdictInv /\ [Next]_vars => VerdictInv'
<1> SUFFICES ASSUME TypeOK, DownInv, EditInv, ProbeInv, VerdictInv, [Next]_vars
             PROVE  VerdictInv'
    OBVIOUS
<1> USE DEF regVars, editVars, probeVars
<1>1. CASE Exit \/ CloseRegistry
    BY <1>1 DEF Exit, CloseRegistry, VerdictInv, Serving
<1>2. CASE Start
    BY <1>2 DEF Start, DownInv, VerdictInv, NoVerdict
<1>3. ASSUME UNCHANGED <<sources, pc, probeVars>>, Serving' => Serving,
             ready'.statuses = ready.statuses
      PROVE  VerdictInv'
    BY <1>3 DEF VerdictInv, Describes, Published, NoneInvalidating
<1>4. CASE UNCHANGED vars
    BY <1>3, <1>4 DEF vars, Serving
<1>5. CASE Drain \/ VerdictAges \/ \E r \in Readers : Finish(r) \/ \E n \in Names : Capture(r, n)
    BY <1>3, <1>5 DEF Drain, VerdictAges, Finish, Capture, Serving, TypeOK
<1>6. QED
    BY <1>1, <1>2, <1>4, <1>5, EditVerdict, ProbeVerdict DEF Next

-----------------------------------------------------------------------------
(* The theorems.                                                           *)

\* The process starts in the inductive invariant.
LEMMA InitIInv == Init => IInv
<1> SUFFICES ASSUME Init PROVE IInv
    OBVIOUS
<1> USE DEF Init
<1>1. TypeOK
    BY InitTypeOK
<1>2. DownInv /\ ProbeInv
    BY DEF DownInv, ProbeInv
<1>3. EditInv
    BY ConstantsAssumption DEF EditInv, EditInvOf, NoRequest
<1>4. FileInv
    BY ConstantsAssumption DEF FileInv
<1>5. OwnInv
    BY DEF OwnInv, HasCandidate, Serving
<1>6. RegInv /\ ReaderInv /\ VerdictInv
    BY DEF RegInv, ReaderInv, VerdictInv, Serving
<1>7. QED
    BY <1>1, <1>2, <1>3, <1>4, <1>5, <1>6 DEF IInv

\* The parts of the invariant together are inductive.
THEOREM Inductive == Spec => []IInv
<1>1. IInv /\ [Next]_vars => IInv'
    BY TypeStep, DownStep, EditStep, ProbeStep, FileStep, OwnStep, RegStep, ReaderStep, VerdictStep
    DEF IInv
<1>2. QED
    BY InitIInv, <1>1, PTL DEF Spec

\* At every moment, in the middle of an edit and after a crash at any step of
\* SaveSources too, the configuration file is one the next start accepts.
THEOREM AlwaysLoadable == Spec => []FileLoadable
<1>1. IInv => FileLoadable
    BY DEF IInv, FileInv, FileLoadable
<1>2. QED
    BY <1>1, Inductive, PTL

\* Edits are serial: the file changes by exactly what the holder of configMu
\* was asked for, applied to what the file holds, so no concurrent edit is lost.
THEOREM EditsSerial == Spec => SerialEdits
<1>1. IInv /\ [Next]_vars =>
        [file' # file => \E a \in Admins : configMu = a /\ file' = Requested(file, req[a])]_vars
    <2> SUFFICES ASSUME IInv, Next, file' # file
                 PROVE  \E a \in Admins : configMu = a /\ file' = Requested(file, req[a])
        BY DEF vars
    <2>1. PICK a \in Admins : RenameFile(a)
        <3>1. \A p \in Probes : Probe(p) => UNCHANGED file
            BY DEF Probe, ProbeLock, PingLock, PingOne, PingUnlock, StoreVerdict
        <3>2. \A a \in Admins : Edit(a) => UNCHANGED file \/ RenameFile(a)
            BY DEF Edit, BeginSave, BeginProbe, BeginDelete, OpenCandidate, OpenFails,
               PingAccepts, PingRejects, WriteTemp, SaveFails, Publish, AssignConfig,
               InvalidateReadiness
        <3>3. QED
            BY <3>1, <3>2 DEF Next, Start, Drain, CloseRegistry, Exit, VerdictAges, Finish, Capture
    <2>2. /\ pc[a] = "rename" /\ file' = next[a] /\ configMu = a
          /\ req[a].op \in {"save", "delete"}
        BY <2>1 DEF RenameFile, IInv, EditInv, EditInvOf, TypeOK, Request, Ops
    <2>3. /\ file = cfg
          /\ next[a] = IF req[a].op = "save" THEN PutSource(cfg, req[a].src)
                                             ELSE DropSource(cfg, req[a].src.name)
          /\ req[a].op = "delete" => req[a].raw = req[a].src
          /\ req[a].op = "save" => req[a].src = PreserveSecret(cfg, req[a].raw)
        <3>1. phase # "down"
            BY <2>2 DEF IInv, DownInv
        <3>2. HolderInv(a)
            BY <2>2, <3>1 DEF IInv, FileInv
        <3>3. QED
            BY <2>2, <3>2 DEF HolderInv
    <2>4. QED
        BY <2>2, <2>3 DEF Requested
<1>2. QED
    BY <1>1, Inductive, PTL DEF Spec, SerialEdits

\* Whenever no edit is under way, the file, the configuration in memory and the
\* registry agree, and each name is served by a backend opened with what is on disk.
THEOREM Consistent == Spec => []ConfigConsistent
<1>1. IInv => ConfigConsistent
    BY DEF IInv, FileInv, RegInv, Matches, ConfigConsistent, Published, Serving
<1>2. QED
    BY <1>1, Inductive, PTL

\* Nothing leaks and nothing is closed twice: every open backend is owned by
\* exactly one of the registry's names, its retired list and the requests.
THEOREM Owned == Spec => []BackendsOwned
<1>1. IInv => BackendsOwned
    <2> SUFFICES ASSUME IInv, Serving PROVE BackendsOwned
        BY DEF BackendsOwned
    <2> DEFINE candidates == {cand[a] : a \in Admins} \ {0}
               published == {sources[n] : n \in Published}
    <2>1. PublishedOwned /\ RetiredOwned /\ OneName /\ NoOrphan /\ \A a \in Admins : CandOwned(a)
        BY DEF IInv, OwnInv
    <2>2. 0 \notin Open
        BY DEF Open, Backends
    <2>3. Open = published \cup retired \cup candidates
        <3>1. published \cup retired \cup candidates \subseteq Open
            BY <2>1 DEF PublishedOwned, RetiredOwned, CandOwned, Published
        <3>2. ASSUME NEW b \in Open PROVE b \in published \cup retired \cup candidates
            BY <2>1, <2>2 DEF NoOrphan, Published
        <3>3. QED
            BY <3>1, <3>2
    <2>4. published \cap retired = {}
        BY <2>1 DEF PublishedOwned, Published
    <2>5. candidates \cap (published \cup retired) = {}
        BY <2>1 DEF CandOwned, Published
    <2>6. \A m, n \in Published : sources[m] = sources[n] => m = n
        BY <2>1 DEF OneName, Published
    <2>7. \A a, b \in Admins : cand[a] = cand[b] /\ cand[a] # 0 => a = b
        BY <2>1 DEF CandOwned
    <2>8. QED
        BY <2>3, <2>4, <2>5, <2>6, <2>7 DEF BackendsOwned
<1>2. QED
    BY <1>1, Inductive, PTL

\* Until shutdown closes the registry, a request that captured a source never
\* works on a closed backend, whatever is replaced or removed meanwhile.
THEOREM NeverClosedUnderRequest == Spec => []InFlightOpen
<1>1. IInv => InFlightOpen
    BY DEF IInv, OwnInv, PublishedOwned, RetiredOwned, ReaderInv, InFlightOpen
<1>2. QED
    BY <1>1, Inductive, PTL

\* A readiness verdict that is kept describes the backends published now, but
\* for the edits that have published and not yet invalidated it.
THEOREM VerdictNeverStale == Spec => []VerdictCurrent
<1>1. IInv => VerdictCurrent
    BY DEF IInv, VerdictInv, Describes, NoneInvalidating, VerdictCurrent
<1>2. QED
    BY <1>1, Inductive, PTL
=============================================================================
