-------------------------- MODULE TileServerProofs --------------------------
(***************************************************************************)
(* Proofs about TileServer, for any number of concurrent requests, every   *)
(* pair of times to live and every number of revisions.                    *)
(***************************************************************************)
EXTENDS TileServer, TLAPS

Active(r) == pc[r] # "idle"
\* The greatest revision the backends of c read.
IsNewest(c, v) == /\ v \in 0..MaxRev
                  /\ \E b \in Backends : c[b] = v
                  /\ \A b \in Backends : c[b] <= v
NewestOf(c) == CHOOSE v \in 0..MaxRev :
                  (\E b \in Backends : c[b] = v) /\ \A b \in Backends : c[b] <= v

\* Revisions are given out in order, and the published backend has the last.
DataInv ==
    /\ IsNewest(content, Newest)
    /\ \E n \in 1..Newest : Made = 1..n
    /\ pub # 0 => content[pub] = Newest
    /\ \A r \in Requests : Active(r) => content[via[r]] >= 1

\* A request holds a tile exactly from where it finds one to where it sends it.
HoldInv ==
    \A r \in Requests : got[r] # Nothing <=> pc[r] \in {"promote", "setmem", "setdisk"}

\* How long ago a tile was rendered, against how long its tier has had it.
AgeInv ==
    /\ disk # Nothing => disk.born = disk.age
    /\ mem # Nothing => mem.born <= mem.age + DiskTTL
    /\ \A r \in Requests :
          /\ pc[r] = "promote" => got[r].born <= DiskTTL
          /\ pc[r] \in {"setmem", "setdisk"} => got[r].born = 0 /\ got[r].age = 0

\* What is older than a purge that nobody crossed is nowhere any more.
FloorInv ==
    /\ mark <= Newest /\ floor.alone <= Newest
    /\ mem # Nothing => mem.rev >= floor.alone
    /\ disk # Nothing => disk.rev >= floor.alone
    /\ \A r \in Requests :
          /\ got[r] # Nothing => got[r].rev >= floor.alone
          /\ due[r].alone <= floor.alone
          /\ Active(r) => content[via[r]] >= floor.alone
          /\ ~Active(r) => due[r] = NoFloor
    /\ purging /\ ~crossed => mem = Nothing /\ \A r \in Requests : ~Active(r)

IInv == /\ TypeOK /\ DataInv /\ HoldInv
        /\ AgeInv /\ FloorInv
        /\ StaleBound /\ FreshAfterLonePurge

-----------------------------------------------------------------------------
(* Revisions.                                                              *)

LEMMA NewestUnique ==
    ASSUME NEW c, NEW v, IsNewest(c, v)
    PROVE  NewestOf(c) = v
<1>1. \E u \in 0..MaxRev : (\E b \in Backends : c[b] = u) /\ \A b \in Backends : c[b] <= u
  BY DEF IsNewest
<1> DEFINE n == NewestOf(c)
<1>2. n \in 0..MaxRev /\ (\E b \in Backends : c[b] = n) /\ \A b \in Backends : c[b] <= n
  BY <1>1 DEF NewestOf
<1> HIDE DEF n
<1>3. n <= v /\ v <= n
  BY <1>2 DEF IsNewest
<1>. QED
  BY <1>2, <1>3, ConstantsAssumption DEF IsNewest, n

LEMMA NewestIs == Newest = NewestOf(content)
BY DEF Newest, NewestOf

\* The next revision becomes the newest, and nothing gets older.
LEMMA NextRevision ==
    ASSUME NEW c \in [Backends -> 0..MaxRev], NEW n, IsNewest(c, n), n < MaxRev, NEW b \in Backends
    PROVE  /\ [c EXCEPT ![b] = n + 1] \in [Backends -> 0..MaxRev]
           /\ IsNewest([c EXCEPT ![b] = n + 1], n + 1)
           /\ \A x \in Backends : [c EXCEPT ![b] = n + 1][x] >= c[x]
<1>1. n \in 0..MaxRev /\ \A x \in Backends : c[x] <= n /\ c[x] \in 0..MaxRev
  BY DEF IsNewest
<1> DEFINE c2 == [c EXCEPT ![b] = n + 1]
<1>2. \A x \in Backends : c2[x] = IF x = b THEN n + 1 ELSE c[x]
  OBVIOUS
<1>3. c2 \in [Backends -> 0..MaxRev]
  BY <1>1, ConstantsAssumption
<1> HIDE DEF c2
<1>4. IsNewest(c2, n + 1) /\ \A x \in Backends : c2[x] >= c[x]
  BY <1>1, <1>2, ConstantsAssumption DEF IsNewest
<1>. QED
  BY <1>3, <1>4 DEF c2

-----------------------------------------------------------------------------
(* The steps.                                                              *)

LEMMA StepDataChanges ==
    ASSUME IInv, DataChanges
    PROVE  IInv'
<1>1. /\ content' = [content EXCEPT ![pub] = Newest + 1] /\ pub # 0 /\ Newest < MaxRev
      /\ UNCHANGED <<cacheable, pub, mem, disk, pc, via, got, due, purging, mark, crossed, floor, served>>
  BY DEF DataChanges, purge
<1>2. /\ content \in [Backends -> 0..MaxRev] /\ pub \in Backends /\ IsNewest(content, Newest)
      /\ Newest \in 0..MaxRev
  BY <1>1 DEF IInv, TypeOK, DataInv, Backends, IsNewest
<1>3. /\ content' \in [Backends -> 0..MaxRev]
      /\ IsNewest(content', Newest + 1)
      /\ \A x \in Backends : content'[x] >= content[x]
  BY <1>1, <1>2, NextRevision
<1>4. Newest' = Newest + 1
  BY <1>3, NewestUnique DEF Newest, NewestOf
<1>5. TypeOK'
  BY <1>1, <1>3 DEF IInv, TypeOK
<1>6. DataInv'
  <2>1. Made' = Made
    BY <1>1, <1>2 DEF Made, IInv, DataInv
  <2>2. \E n \in 1..Newest' : Made' = 1..n
    BY <1>2, <1>4, <2>1 DEF IInv, DataInv
  <2>3. content'[pub] = Newest'
    BY <1>1, <1>2, <1>4
  <2>4. ASSUME NEW r \in Requests, Active(r)
        PROVE  content'[via[r]] >= 1
    BY <1>1, <1>2, <1>3, <2>4 DEF IInv, DataInv, TypeOK, Active, Backends
  <2>. QED
    BY <1>1, <1>3, <1>4, <2>2, <2>3, <2>4 DEF DataInv, Active
<1>7. HoldInv' /\ AgeInv' /\ StaleBound' /\ FreshAfterLonePurge'
  BY <1>1 DEF IInv, HoldInv, AgeInv, StaleBound, FreshAfterLonePurge
<1>8. FloorInv'
  <2>1. mark <= Newest' /\ floor.alone <= Newest'
    BY <1>2, <1>4 DEF IInv, FloorInv, TypeOK, Floors
  <2>2. ASSUME NEW r \in Requests, Active(r)
        PROVE  content'[via[r]] >= floor.alone
    BY <1>2, <1>3, <2>2 DEF IInv, FloorInv, TypeOK, Active, Floors, Backends
  <2>. QED
    BY <1>1, <2>1, <2>2 DEF IInv, FloorInv, Active
<1>. QED
  BY <1>5, <1>6, <1>7, <1>8 DEF IInv

LEMMA StepPublish ==
    ASSUME IInv, Publish
    PROVE  IInv'
<1> DEFINE b == CHOOSE x \in Backends : x \notin Made /\ \A y \in Backends \ Made : x <= y
<1>1. /\ content' = [content EXCEPT ![b] = Newest + 1] /\ pub' = b /\ Newest < MaxRev
      /\ UNCHANGED <<cacheable, mem, disk, pc, via, got, due, purging, mark, crossed, floor, served>>
  BY DEF Publish, purge
<1>2. /\ content \in [Backends -> 0..MaxRev] /\ IsNewest(content, Newest) /\ Newest \in 0..MaxRev
  BY DEF IInv, TypeOK, DataInv, IsNewest
<1>3. PICK n \in 1..Newest : Made = 1..n
  BY DEF IInv, DataInv
<1>4. b = n + 1 /\ b \in Backends
  <2>1. n + 1 \in Backends /\ n + 1 \notin Made /\ \A y \in Backends \ Made : n + 1 <= y
    BY <1>1, <1>2, <1>3, ConstantsAssumption DEF Backends
  <2>2. b \in Backends /\ b \notin Made /\ \A y \in Backends \ Made : b <= y
    BY <2>1
  <2> HIDE DEF b
  <2>3. b <= n + 1 /\ n + 1 <= b
    BY <2>1, <2>2
  <2>. QED
    BY <2>1, <2>2, <2>3, ConstantsAssumption DEF Backends
<1> HIDE DEF b
<1>5. /\ content' \in [Backends -> 0..MaxRev]
      /\ IsNewest(content', Newest + 1)
      /\ \A x \in Backends : content'[x] >= content[x]
  BY <1>1, <1>2, <1>4, NextRevision
<1>6. Newest' = Newest + 1
  BY <1>5, NewestUnique DEF Newest, NewestOf
<1>7. TypeOK'
  BY <1>1, <1>4, <1>5, ConstantsAssumption DEF IInv, TypeOK, Backends
<1>8. DataInv'
  <2>1. Made' = 1..(n + 1)
    <3>1. Made' = Made \cup {b}
      BY <1>1, <1>2, <1>4 DEF Made
    <3>. QED
      BY <1>3, <1>4, <3>1
  <2>2. n + 1 \in 1..Newest'
    BY <1>2, <1>6
  <2>3. content'[pub'] = Newest'
    BY <1>1, <1>2, <1>4, <1>6
  <2>4. ASSUME NEW r \in Requests, Active(r)
        PROVE  content'[via[r]] >= 1
    BY <1>1, <1>2, <1>5, <2>4 DEF IInv, DataInv, TypeOK, Active, Backends
  <2>. QED
    BY <1>1, <1>5, <1>6, <2>1, <2>2, <2>3, <2>4 DEF DataInv, Active
<1>9. HoldInv' /\ AgeInv' /\ StaleBound' /\ FreshAfterLonePurge'
  BY <1>1 DEF IInv, HoldInv, AgeInv, StaleBound, FreshAfterLonePurge
<1>10. FloorInv'
  <2>1. mark <= Newest' /\ floor.alone <= Newest'
    BY <1>2, <1>6 DEF IInv, FloorInv, TypeOK, Floors
  <2>2. ASSUME NEW r \in Requests, Active(r)
        PROVE  content'[via[r]] >= floor.alone
    BY <1>2, <1>5, <2>2 DEF IInv, FloorInv, TypeOK, Active, Floors, Backends
  <2>. QED
    BY <1>1, <2>1, <2>2 DEF IInv, FloorInv, Active
<1>. QED
  BY <1>7, <1>8, <1>9, <1>10 DEF IInv

LEMMA StepUnpublish ==
    ASSUME IInv, Unpublish
    PROVE  IInv'
<1>1. /\ pub' = 0
      /\ UNCHANGED <<content, cacheable, mem, disk, pc, via, got, due, purging, mark, crossed, floor, served>>
  BY DEF Unpublish, purge
<1>2. Newest' = Newest /\ Made' = Made
  BY <1>1 DEF Newest, Made
<1>3. TypeOK'
  BY <1>1, ConstantsAssumption DEF IInv, TypeOK
<1>4. DataInv'
  BY <1>1, <1>2 DEF IInv, DataInv, IsNewest, Active
<1>5. HoldInv' /\ AgeInv' /\ StaleBound' /\ FreshAfterLonePurge'
  BY <1>1 DEF IInv, HoldInv, AgeInv, StaleBound, FreshAfterLonePurge
<1>6. FloorInv'
  BY <1>1, <1>2 DEF IInv, FloorInv, Active
<1>. QED
  BY <1>3, <1>4, <1>5, <1>6 DEF IInv

\* A step that leaves the data alone and lets requests begin at published
\* backends only.
LEMMA SameData ==
    ASSUME IInv, UNCHANGED data,
           \A r \in Requests : Active(r)' => content[via'[r]] >= 1
    PROVE  DataInv' /\ Newest' = Newest
<1>1. content' = content /\ pub' = pub
  BY DEF data
<1>2. Newest' = Newest /\ Made' = Made
  BY <1>1 DEF Newest, Made
<1>. QED
  BY <1>1, <1>2 DEF IInv, DataInv, IsNewest

LEMMA StepBegin ==
    ASSUME IInv, NEW r \in Requests, Begin(r)
    PROVE  IInv'
<1>1. /\ pc[r] = "idle" /\ pub # 0
      /\ pc' = [pc EXCEPT ![r] = "mem"] /\ via' = [via EXCEPT ![r] = pub]
      /\ due' = [due EXCEPT ![r] = floor] /\ crossed' = (crossed \/ purging)
      /\ UNCHANGED <<content, cacheable, pub, mem, disk, got, purging, mark, floor, served>>
  BY DEF Begin, Goto, data
<1>2. TypeOK'
  BY <1>1 DEF IInv, TypeOK
<1>3. DataInv' /\ Newest' = Newest
  <2>1. content[pub] = Newest /\ Newest >= 1
    BY <1>1 DEF IInv, DataInv, IsNewest
  <2>2. \A x \in Requests : Active(x)' => content[via'[x]] >= 1
    BY <1>1, <2>1 DEF IInv, DataInv, TypeOK, Active
  <2>. QED
    BY <1>1, <2>2, SameData DEF data
<1>4. HoldInv' /\ AgeInv'
  BY <1>1 DEF IInv, TypeOK, HoldInv, AgeInv
<1>5. StaleBound' /\ FreshAfterLonePurge'
  BY <1>1 DEF IInv, StaleBound, FreshAfterLonePurge
<1>6. FloorInv'
  <2>1. content[pub] >= floor.alone /\ floor.alone <= floor.alone
    BY <1>1 DEF IInv, DataInv, FloorInv, TypeOK, Floors, IsNewest
  <2>2. \A x \in Requests : due'[x].alone <= floor.alone
    BY <1>1, <2>1 DEF IInv, FloorInv, TypeOK
  <2>3. \A x \in Requests : Active(x)' => content[via'[x]] >= floor.alone
    BY <1>1, <2>1 DEF IInv, FloorInv, TypeOK, Active
  <2>4. ~(purging' /\ ~crossed')
    BY <1>1
  <2>5. \A x \in Requests : ~Active(x)' => due'[x] = NoFloor
    BY <1>1 DEF IInv, FloorInv, TypeOK, Active
  <2>. QED
    BY <1>1, <1>3, <2>2, <2>3, <2>4, <2>5 DEF IInv, FloorInv
<1>. QED
  BY <1>2, <1>3, <1>4, <1>5, <1>6 DEF IInv

\* What is said of requests, for the invariant after a step.
RequestsTyped ==
    /\ pc \in [Requests -> {"idle", "mem", "disk", "promote", "render", "setmem", "setdisk"}]
    /\ via \in [Requests -> 0..MaxRev]
    /\ \A r \in Requests : (via[r] = 0) <=> (pc[r] = "idle")
    /\ got \in [Requests -> Entry \cup {Nothing}]
    /\ due \in [Requests -> Floors]
    /\ served \in [tile : Entry \cup {Nothing}, via : 0..MaxRev, due : Floors]
RequestsBounded ==
    /\ HoldInv
    /\ \A r \in Requests :
          /\ pc[r] = "promote" => got[r].born <= DiskTTL
          /\ pc[r] \in {"setmem", "setdisk"} => got[r].born = 0 /\ got[r].age = 0
          /\ got[r] # Nothing => got[r].rev >= floor.alone
          /\ due[r].alone <= floor.alone
          /\ Active(r) => content[via[r]] >= floor.alone /\ content[via[r]] >= 1
          /\ ~Active(r) => due[r] = NoFloor
    /\ StaleBound /\ FreshAfterLonePurge

LEMMA EntryFacts ==
    /\ Nothing \notin Entry
    /\ \A e \in Entry \cup {Nothing} : e # Nothing => e \in Entry
BY DEF Entry, Nothing, Revs

LEMMA RequestFacts ==
    ASSUME IInv
    PROVE  RequestsTyped /\ RequestsBounded
BY DEF IInv, TypeOK, RequestsTyped, RequestsBounded, HoldInv, AgeInv, FloorInv, DataInv

\* A step of an active request that leaves data and purges alone: what is left
\* to show is said of requests and of the two tiers.
LEMMA RequestStep ==
    ASSUME IInv, UNCHANGED <<data, purge>>, NEW r \in Requests, Active(r),
           RequestsTyped', RequestsBounded', \A x \in Requests : Active(x)' => Active(x),
           mem' \in Entry \cup {Nothing}, disk' \in Entry \cup {Nothing},
           disk' # Nothing => disk'.born = disk'.age /\ disk'.rev >= floor.alone,
           mem' # Nothing => mem'.born <= mem'.age + DiskTTL /\ mem'.rev >= floor.alone
    PROVE  IInv'
<1>1. UNCHANGED <<content, cacheable, pub, purging, mark, crossed, floor>>
  BY DEF data, purge
<1>2. TypeOK'
  BY <1>1 DEF IInv, TypeOK, RequestsTyped
<1>3. DataInv' /\ Newest' = Newest
  <2>1. \A x \in Requests : Active(x)' => content[via'[x]] >= 1
    BY <1>1 DEF RequestsBounded
  <2>. QED
    BY <2>1, SameData
<1>4. HoldInv' /\ StaleBound' /\ FreshAfterLonePurge'
  BY DEF RequestsBounded
<1>5. AgeInv'
  BY DEF RequestsBounded, AgeInv
<1>6. FloorInv'
  <2>1. ~(purging' /\ ~crossed')
    BY <1>1 DEF IInv, FloorInv
  <2>. QED
    BY <1>1, <1>3, <2>1 DEF IInv, FloorInv, RequestsBounded
<1>. QED
  BY <1>2, <1>3, <1>4, <1>5, <1>6 DEF IInv

\* A tile that may be sent, and what is then true of requests.
LEMMA SendKeeps ==
    ASSUME IInv, UNCHANGED <<data, purge>>, NEW r \in Requests, Active(r), NEW e \in Entry, Send(r, e),
           e.born <= MemTTL + DiskTTL, e.rev >= floor.alone
    PROVE  /\ RequestsTyped' /\ RequestsBounded'
           /\ \A x \in Requests : Active(x)' => Active(x)
<1>1. /\ served' = [tile |-> e, via |-> via[r], due |-> due[r]]
      /\ pc' = [pc EXCEPT ![r] = "idle"] /\ via' = [via EXCEPT ![r] = 0]
      /\ got' = [got EXCEPT ![r] = Nothing] /\ due' = [due EXCEPT ![r] = NoFloor]
      /\ UNCHANGED <<content, floor>>
  BY DEF Send, data, purge
<1>2. RequestsTyped /\ RequestsBounded /\ floor \in Floors
  BY RequestFacts DEF IInv, TypeOK
<1>3. NoFloor \in Floors /\ NoFloor.alone <= floor.alone
  BY <1>2, ConstantsAssumption DEF NoFloor, Floors
<1>4. RequestsTyped'
  BY <1>1, <1>2, <1>3, ConstantsAssumption DEF RequestsTyped
<1>5. HoldInv'
  BY <1>1, <1>2 DEF RequestsTyped, RequestsBounded, HoldInv
<1>6. StaleBound'
  BY <1>1 DEF StaleBound
<1>7. FreshAfterLonePurge'
  <2>1. due[r].alone <= floor.alone /\ due[r].alone \in Int /\ floor.alone \in Int /\ e.rev \in Int
    BY <1>2 DEF RequestsTyped, RequestsBounded, Floors, Entry, Revs
  <2>2. e.rev >= due[r].alone
    BY <2>1
  <2>. QED
    BY <1>1, <2>2 DEF FreshAfterLonePurge
<1>8. RequestsBounded'
  BY <1>1, <1>2, <1>3, <1>5, <1>6, <1>7 DEF RequestsTyped, RequestsBounded, Active
<1>9. \A x \in Requests : Active(x)' => Active(x)
  BY <1>1, <1>2 DEF RequestsTyped, Active
<1>. QED
  BY <1>4, <1>8, <1>9

LEMMA QuitKeeps ==
    ASSUME IInv, UNCHANGED <<data, purge>>, NEW r \in Requests, pc[r] = "render", Quit(r)
    PROVE  /\ RequestsTyped' /\ RequestsBounded'
           /\ \A x \in Requests : Active(x)' => Active(x)
<1>1. /\ pc' = [pc EXCEPT ![r] = "idle"] /\ via' = [via EXCEPT ![r] = 0]
      /\ due' = [due EXCEPT ![r] = NoFloor]
      /\ UNCHANGED <<got, served, content, floor>>
  BY DEF Quit, data, purge
<1>2. RequestsTyped /\ RequestsBounded /\ floor \in Floors
  BY RequestFacts DEF IInv, TypeOK
<1>3. NoFloor \in Floors /\ NoFloor.alone <= floor.alone
  BY <1>2, ConstantsAssumption DEF NoFloor, Floors
<1>4. RequestsTyped'
  BY <1>1, <1>2, <1>3, ConstantsAssumption DEF RequestsTyped
<1>5. HoldInv' /\ StaleBound' /\ FreshAfterLonePurge'
  BY <1>1, <1>2 DEF RequestsTyped, RequestsBounded, HoldInv, StaleBound, FreshAfterLonePurge
<1>6. RequestsBounded'
  BY <1>1, <1>2, <1>3, <1>5 DEF RequestsTyped, RequestsBounded, Active
<1>7. \A x \in Requests : Active(x)' => Active(x)
  BY <1>1, <1>2 DEF RequestsTyped, Active
<1>. QED
  BY <1>4, <1>6, <1>7

\* A request that goes on with e in its hands.
LEMMA HoldKeeps ==
    ASSUME IInv, UNCHANGED <<data, purge>>, NEW r \in Requests, Active(r), NEW e, NEW where,
           pc' = [pc EXCEPT ![r] = where], got' = [got EXCEPT ![r] = e],
           UNCHANGED <<via, due, served>>,
           \/ e = Nothing /\ where \in {"mem", "disk", "render"}
           \/ e \in Entry /\ e.rev >= floor.alone /\ where = "promote" /\ e.born <= DiskTTL
           \/ /\ e \in Entry /\ e.rev >= floor.alone
              /\ where \in {"setmem", "setdisk"} /\ e.born = 0 /\ e.age = 0
    PROVE  /\ RequestsTyped' /\ RequestsBounded'
           /\ \A x \in Requests : Active(x)' => Active(x)
<1>1. UNCHANGED <<content, floor>>
  BY DEF data, purge
<1>2. RequestsTyped /\ RequestsBounded
  BY RequestFacts
<1>3. RequestsTyped'
  BY <1>1, <1>2 DEF RequestsTyped, Active
<1>4. HoldInv'
  BY <1>1, <1>2, EntryFacts DEF RequestsTyped, RequestsBounded, HoldInv
<1>5. StaleBound' /\ FreshAfterLonePurge'
  BY <1>1, <1>2 DEF RequestsBounded, StaleBound, FreshAfterLonePurge
<1>6. RequestsBounded'
  BY <1>1, <1>2, <1>4, <1>5 DEF RequestsTyped, RequestsBounded, Active
<1>7. \A x \in Requests : Active(x)' => Active(x)
  BY <1>1, <1>2 DEF RequestsTyped, Active
<1>. QED
  BY <1>3, <1>6, <1>7

\* What is known of the two tiers.
LEMMA TierFacts ==
    ASSUME IInv
    PROVE  /\ mem \in Entry \cup {Nothing} /\ disk \in Entry \cup {Nothing}
           /\ disk # Nothing => disk.born = disk.age /\ disk.rev >= floor.alone
           /\ mem # Nothing => mem.born <= mem.age + DiskTTL /\ mem.rev >= floor.alone
BY DEF IInv, TypeOK, AgeInv, FloorInv

LEMMA StepLookMem ==
    ASSUME IInv, NEW r \in Requests, LookMem(r)
    PROVE  IInv'
<1>1. pc[r] = "mem" /\ Active(r) /\ UNCHANGED <<data, purge>> /\ disk' = disk /\ got[r] = Nothing
  BY DEF LookMem, Active, IInv, HoldInv
<1>2. CASE Live(mem, MemTTL)
  <2>1. Send(r, mem) /\ mem' = mem /\ mem \in Entry /\ mem.age <= MemTTL
    BY <1>2, TierFacts DEF LookMem, Live
  <2>2. mem.born <= MemTTL + DiskTTL /\ mem.rev >= floor.alone
    <3>1. mem.born \in Int /\ mem.age \in Int
      BY <2>1 DEF Entry
    <3>. QED
      BY <2>1, <3>1, TierFacts, EntryFacts, ConstantsAssumption
  <2>3. RequestsTyped' /\ RequestsBounded' /\ \A x \in Requests : Active(x)' => Active(x)
    BY <1>1, <2>1, <2>2, SendKeeps
  <2>. QED
    BY <1>1, <2>1, <2>3, TierFacts, RequestStep
<1>3. CASE ~Live(mem, MemTTL)
  <2>1. mem' = Nothing /\ pc' = [pc EXCEPT ![r] = "disk"] /\ UNCHANGED <<via, got, due, served>>
    BY <1>3 DEF LookMem, Goto
  <2>2. got' = [got EXCEPT ![r] = Nothing]
    BY <1>1, <2>1 DEF IInv, TypeOK
  <2>3. RequestsTyped' /\ RequestsBounded' /\ \A x \in Requests : Active(x)' => Active(x)
    BY <1>1, <2>1, <2>2, HoldKeeps
  <2>. QED
    BY <1>1, <2>1, <2>3, TierFacts, RequestStep
<1>. QED
  BY <1>2, <1>3

LEMMA StepLookDisk ==
    ASSUME IInv, NEW r \in Requests, LookDisk(r)
    PROVE  IInv'
<1>1. pc[r] = "disk" /\ Active(r) /\ UNCHANGED <<data, purge, via, due, served>> /\ mem' = mem
      /\ got[r] = Nothing
  BY DEF LookDisk, Active, IInv, HoldInv
<1>2. CASE Live(disk, DiskTTL)
  <2>1. /\ got' = [got EXCEPT ![r] = disk] /\ pc' = [pc EXCEPT ![r] = "promote"] /\ disk' = disk
        /\ disk \in Entry /\ disk.age <= DiskTTL
    BY <1>2, TierFacts DEF LookDisk, Live, Hold, Goto
  <2>2. disk.born <= DiskTTL /\ disk.rev >= floor.alone
    BY <2>1, TierFacts, EntryFacts
  <2>3. RequestsTyped' /\ RequestsBounded' /\ \A x \in Requests : Active(x)' => Active(x)
    BY <1>1, <2>1, <2>2, HoldKeeps
  <2>. QED
    BY <1>1, <2>1, <2>3, TierFacts, RequestStep
<1>3. CASE ~Live(disk, DiskTTL)
  <2>1. disk' = Nothing /\ pc' = [pc EXCEPT ![r] = "render"] /\ UNCHANGED got
    BY <1>3 DEF LookDisk, Goto
  <2>2. got' = [got EXCEPT ![r] = Nothing]
    BY <1>1, <2>1 DEF IInv, TypeOK
  <2>3. RequestsTyped' /\ RequestsBounded' /\ \A x \in Requests : Active(x)' => Active(x)
    BY <1>1, <2>1, <2>2, HoldKeeps
  <2>. QED
    BY <1>1, <2>1, <2>3, TierFacts, RequestStep
<1>. QED
  BY <1>2, <1>3

LEMMA StepPromote ==
    ASSUME IInv, NEW r \in Requests, Promote(r)
    PROVE  IInv'
<1>1. /\ pc[r] = "promote" /\ Active(r) /\ UNCHANGED <<data, purge>> /\ disk' = disk
      /\ mem' = [got[r] EXCEPT !.age = 0] /\ Send(r, got[r])
  BY DEF Promote, Active
<1>2. got[r] # Nothing /\ got[r] \in Entry /\ got[r].born <= DiskTTL /\ got[r].rev >= floor.alone
  BY <1>1, EntryFacts DEF IInv, TypeOK, HoldInv, AgeInv, FloorInv
<1>3. /\ mem' \in Entry /\ mem'.age = 0 /\ mem'.born = got[r].born /\ mem'.rev = got[r].rev
      /\ got[r].born \in Int
  BY <1>1, <1>2, ConstantsAssumption DEF Entry, MaxBorn
<1>4. got[r].born <= MemTTL + DiskTTL /\ mem'.born <= mem'.age + DiskTTL
  BY <1>2, <1>3, ConstantsAssumption
<1>5. RequestsTyped' /\ RequestsBounded' /\ \A x \in Requests : Active(x)' => Active(x)
  BY <1>1, <1>2, <1>4, SendKeeps
<1>. QED
  BY <1>1, <1>2, <1>3, <1>4, <1>5, TierFacts, RequestStep

LEMMA StepRender ==
    ASSUME IInv, NEW r \in Requests, Render(r)
    PROVE  IInv'
<1>1. pc[r] = "render" /\ Active(r) /\ UNCHANGED <<data, purge>> /\ disk' = disk /\ mem' = mem
  BY DEF Render, Active
<1> DEFINE e == Rendered(r)
<1>2. e \in Entry /\ e.rev >= floor.alone /\ e.born = 0 /\ e.age = 0
  <2>1. via[r] \in Backends
    BY <1>1 DEF IInv, TypeOK, Backends
  <2>2. content[via[r]] \in Revs /\ content[via[r]] >= floor.alone
    BY <1>1, <2>1 DEF IInv, TypeOK, DataInv, FloorInv, Revs
  <2>. QED
    BY <2>1, <2>2, ConstantsAssumption DEF Rendered, Entry, MaxBorn
<1> HIDE DEF e
<1>3. RequestsTyped' /\ RequestsBounded' /\ \A x \in Requests : Active(x)' => Active(x)
  <2>1. CASE Hold(r, e) /\ Goto(r, "setmem") /\ UNCHANGED <<via, due, served>>
    <3>1. /\ pc' = [pc EXCEPT ![r] = "setmem"] /\ got' = [got EXCEPT ![r] = e]
          /\ UNCHANGED <<via, due, served>>
      BY <2>1 DEF Hold, Goto
    <3>. QED
      BY <1>1, <1>2, <3>1, HoldKeeps
  <2>2. CASE Send(r, e)
    <3>1. e.born <= MemTTL + DiskTTL
      BY <1>2, ConstantsAssumption
    <3>. QED
      BY <1>1, <1>2, <2>2, <3>1, SendKeeps
  <2>3. CASE Quit(r)
    BY <1>1, <2>3, QuitKeeps
  <2>. QED
    BY <2>1, <2>2, <2>3 DEF Render, e
<1>. QED
  BY <1>1, <1>3, TierFacts, RequestStep

LEMMA StepSetMem ==
    ASSUME IInv, NEW r \in Requests, SetMem(r)
    PROVE  IInv'
<1>1. /\ pc[r] = "setmem" /\ Active(r) /\ UNCHANGED <<data, purge, via, got, due, served>> /\ disk' = disk
      /\ mem' = got[r] /\ pc' = [pc EXCEPT ![r] = "setdisk"]
  BY DEF SetMem, Goto, Active
<1>2. got[r] \in Entry /\ got[r].born = 0 /\ got[r].age = 0 /\ got[r].rev >= floor.alone
  BY <1>1, EntryFacts DEF IInv, TypeOK, HoldInv, AgeInv, FloorInv
<1>3. got' = [got EXCEPT ![r] = got[r]]
  BY <1>1 DEF IInv, TypeOK
<1>4. RequestsTyped' /\ RequestsBounded' /\ \A x \in Requests : Active(x)' => Active(x)
  BY <1>1, <1>2, <1>3, HoldKeeps
<1>5. mem'.born <= mem'.age + DiskTTL
  BY <1>1, <1>2, ConstantsAssumption
<1>. QED
  BY <1>1, <1>2, <1>4, <1>5, TierFacts, RequestStep

LEMMA StepSetDisk ==
    ASSUME IInv, NEW r \in Requests, SetDisk(r)
    PROVE  IInv'
<1>1. /\ pc[r] = "setdisk" /\ Active(r) /\ UNCHANGED <<data, purge>> /\ mem' = mem
      /\ disk' \in {got[r], disk} /\ Send(r, got[r])
  BY DEF SetDisk, Active
<1>2. got[r] \in Entry /\ got[r].born = 0 /\ got[r].age = 0 /\ got[r].rev >= floor.alone
  BY <1>1, EntryFacts DEF IInv, TypeOK, HoldInv, AgeInv, FloorInv
<1>3. got[r].born <= MemTTL + DiskTTL
  BY <1>2, ConstantsAssumption
<1>4. RequestsTyped' /\ RequestsBounded' /\ \A x \in Requests : Active(x)' => Active(x)
  BY <1>1, <1>2, <1>3, SendKeeps
<1>. QED
  BY <1>1, <1>2, <1>4, TierFacts, RequestStep

-----------------------------------------------------------------------------
(* Purges, losses and time.                                                *)

LEMMA StepPurgeMem ==
    ASSUME IInv, PurgeMem
    PROVE  IInv'
<1>1. /\ purging' = TRUE /\ mem' = Nothing /\ mark' = Newest
      /\ crossed' = \E r \in Requests : Active(r)
      /\ UNCHANGED <<content, cacheable, pub, disk, pc, via, got, due, floor, served>>
  BY DEF PurgeMem, data, Active
<1>2. Newest \in 0..MaxRev
  BY DEF IInv, DataInv, IsNewest
<1>3. TypeOK'
  BY <1>1, <1>2 DEF IInv, TypeOK
<1>4. DataInv' /\ Newest' = Newest
  <2>1. \A x \in Requests : Active(x)' => content[via'[x]] >= 1
    BY <1>1 DEF IInv, DataInv, Active
  <2>. QED
    BY <1>1, <2>1, SameData DEF data
<1>5. HoldInv' /\ AgeInv' /\ StaleBound' /\ FreshAfterLonePurge'
  BY <1>1 DEF IInv, HoldInv, AgeInv, StaleBound, FreshAfterLonePurge
<1>6. FloorInv'
  <2>1. mark' <= Newest'
    BY <1>1, <1>2, <1>4
  <2>2. purging' /\ ~crossed' => \A r \in Requests : ~Active(r)'
    BY <1>1 DEF Active
  <2>. QED
    BY <1>1, <1>4, <2>1, <2>2 DEF IInv, FloorInv, Active
<1>. QED
  BY <1>3, <1>4, <1>5, <1>6 DEF IInv

LEMMA StepPurgeDisk ==
    ASSUME IInv, PurgeDisk
    PROVE  IInv'
<1>1. /\ purging /\ purging' = FALSE /\ disk' = Nothing
      /\ floor' = [any |-> mark, alone |-> IF crossed THEN floor.alone ELSE mark]
      /\ UNCHANGED <<content, cacheable, pub, mem, pc, via, got, due, mark, crossed, served>>
  BY DEF PurgeDisk, data
<1>2. TypeOK'
  BY <1>1 DEF IInv, TypeOK, Floors
<1>3. DataInv' /\ Newest' = Newest
  <2>1. \A x \in Requests : Active(x)' => content[via'[x]] >= 1
    BY <1>1 DEF IInv, DataInv, Active
  <2>. QED
    BY <1>1, <2>1, SameData DEF data
<1>4. HoldInv' /\ AgeInv' /\ StaleBound' /\ FreshAfterLonePurge'
  BY <1>1 DEF IInv, HoldInv, AgeInv, StaleBound, FreshAfterLonePurge
<1>5. FloorInv'
  <2>1. CASE crossed
    <3>1. floor'.alone = floor.alone
      BY <1>1, <2>1
    <3>. QED
      BY <1>1, <1>3, <3>1 DEF IInv, FloorInv, Active
  <2>2. CASE ~crossed
    <3>1. /\ floor'.alone = mark /\ mark \in 0..MaxRev /\ mem = Nothing
          /\ \A r \in Requests : ~Active(r) /\ got[r] = Nothing
      BY <1>1, <2>2 DEF IInv, TypeOK, HoldInv, FloorInv, Active
    <3>2. \A r \in Requests : due[r].alone <= mark
      BY <3>1 DEF IInv, FloorInv, NoFloor, Active
    <3>. QED
      BY <1>1, <1>3, <3>1, <3>2 DEF IInv, FloorInv, Active
  <2>. QED
    BY <2>1, <2>2
<1>. QED
  BY <1>2, <1>3, <1>4, <1>5 DEF IInv

LEMMA StepForget ==
    ASSUME IInv, Forget
    PROVE  IInv'
<1>1. /\ mem' \in {mem, Nothing} /\ disk' \in {disk, Nothing}
      /\ UNCHANGED <<content, cacheable, pub, pc, via, got, due, purging, mark, crossed, floor, served>>
  BY DEF Forget, data, purge
<1>2. TypeOK'
  BY <1>1 DEF IInv, TypeOK
<1>3. DataInv' /\ Newest' = Newest
  <2>1. \A x \in Requests : Active(x)' => content[via'[x]] >= 1
    BY <1>1 DEF IInv, DataInv, Active
  <2>. QED
    BY <1>1, <2>1, SameData DEF data
<1>4. HoldInv' /\ AgeInv' /\ StaleBound' /\ FreshAfterLonePurge'
  BY <1>1 DEF IInv, HoldInv, AgeInv, StaleBound, FreshAfterLonePurge
<1>5. FloorInv'
  BY <1>1, <1>3 DEF IInv, FloorInv, Active
<1>. QED
  BY <1>2, <1>3, <1>4, <1>5 DEF IInv

\* An entry that grows older keeps its revision, and both its ages grow as far
\* as they are counted.
LEMMA OlderEntry ==
    ASSUME NEW e \in Entry
    PROVE  /\ Older(e) \in Entry /\ Older(e).rev = e.rev
           /\ e.born = e.age => Older(e).born = Older(e).age
           /\ e.born <= e.age + DiskTTL => Older(e).born <= Older(e).age + DiskTTL
<1>1. e # Nothing /\ e.born \in 0..MaxBorn /\ e.age \in 0..MaxBorn /\ MaxBorn \in Nat
  BY EntryFacts, ConstantsAssumption DEF Entry, MaxBorn
<1> DEFINE up(n) == IF n < MaxBorn THEN n + 1 ELSE n
<1>2. /\ Older(e) = [e EXCEPT !.born = up(e.born), !.age = up(e.age)]
      /\ up(e.born) \in 0..MaxBorn /\ up(e.age) \in 0..MaxBorn
  BY <1>1 DEF Older
<1>3. e.born <= e.age + DiskTTL => up(e.born) <= up(e.age) + DiskTTL
  BY <1>1, ConstantsAssumption
<1> HIDE DEF up
<1>4. /\ Older(e) \in Entry /\ Older(e).rev = e.rev
      /\ Older(e).born = up(e.born) /\ Older(e).age = up(e.age)
  BY <1>2 DEF Entry
<1>. QED
  BY <1>3, <1>4

LEMMA StepTick ==
    ASSUME IInv, Tick
    PROVE  IInv'
<1>1. /\ mem' = Older(mem) /\ disk' = Older(disk)
      /\ UNCHANGED <<content, cacheable, pub, pc, via, got, due, purging, mark, crossed, floor, served>>
  BY DEF Tick, data, purge
<1>2. Older(Nothing) = Nothing
  BY DEF Older
<1>3. /\ mem' \in Entry \cup {Nothing} /\ (mem = Nothing => mem' = Nothing)
      /\ mem' # Nothing => mem'.born <= mem'.age + DiskTTL /\ mem'.rev >= floor.alone
  BY <1>1, <1>2, TierFacts, OlderEntry, EntryFacts
<1>4. /\ disk' \in Entry \cup {Nothing}
      /\ disk' # Nothing => disk'.born = disk'.age /\ disk'.rev >= floor.alone
  BY <1>1, <1>2, TierFacts, OlderEntry, EntryFacts
<1>5. TypeOK'
  BY <1>1, <1>3, <1>4 DEF IInv, TypeOK
<1>6. DataInv' /\ Newest' = Newest
  <2>1. \A x \in Requests : Active(x)' => content[via'[x]] >= 1
    BY <1>1 DEF IInv, DataInv, Active
  <2>. QED
    BY <1>1, <2>1, SameData DEF data
<1>7. HoldInv' /\ AgeInv' /\ StaleBound' /\ FreshAfterLonePurge'
  BY <1>1, <1>3, <1>4 DEF IInv, HoldInv, AgeInv, StaleBound, FreshAfterLonePurge
<1>8. FloorInv'
  BY <1>1, <1>3, <1>4, <1>6 DEF IInv, FloorInv, Active
<1>. QED
  BY <1>5, <1>6, <1>7, <1>8 DEF IInv

LEMMA IInvInit ==
    ASSUME Init
    PROVE  IInv
<1>1. /\ content \in [Backends -> 0..MaxRev] /\ IsNewest(content, 1) /\ Made = 1..1
      /\ content[1] = 1
  BY ConstantsAssumption DEF Init, IsNewest, Backends, Made
<1>2. Newest = 1
  BY <1>1, NewestUnique, NewestIs
<1>3. TypeOK
  <2>1. NoFloor \in Floors /\ 1 \in 0..MaxRev /\ 0 \in 0..MaxRev
    BY ConstantsAssumption DEF Floors, NoFloor
  <2>2. /\ via \in [Requests -> 0..MaxRev] /\ due \in [Requests -> Floors]
        /\ \A r \in Requests : (via[r] = 0) <=> (pc[r] = "idle")
    BY <2>1 DEF Init
  <2>3. served \in [tile : Entry \cup {Nothing}, via : 0..MaxRev, due : Floors]
    BY <2>1 DEF Init
  <2>. QED
    BY <1>1, <2>1, <2>2, <2>3 DEF Init, TypeOK
<1>4. DataInv
  BY <1>1, <1>2 DEF Init, DataInv, Active
<1>5. HoldInv /\ AgeInv /\ StaleBound /\ FreshAfterLonePurge
  BY DEF Init, HoldInv, AgeInv, StaleBound, FreshAfterLonePurge
<1>6. FloorInv
  BY <1>2, ConstantsAssumption DEF Init, FloorInv, NoFloor, Active
<1>. QED
  BY <1>3, <1>4, <1>5, <1>6 DEF IInv

\* The invariant behind the theorems below: which revision is the newest, how
\* old a tile can be in each place it is kept, and that a tile older than a
\* purge nobody crossed is in no such place.
THEOREM Inductive == Spec => []IInv
<1>1. Init => IInv
  BY IInvInit
<1>2. IInv /\ [Next]_vars => IInv'
  <2> SUFFICES ASSUME IInv, [Next]_vars PROVE IInv'
    OBVIOUS
  <2>1. ASSUME NEW r \in Requests, Begin(r) PROVE IInv'
    BY <2>1, StepBegin
  <2>2. ASSUME NEW r \in Requests, LookMem(r) PROVE IInv'
    BY <2>2, StepLookMem
  <2>3. ASSUME NEW r \in Requests, LookDisk(r) PROVE IInv'
    BY <2>3, StepLookDisk
  <2>4. ASSUME NEW r \in Requests, Promote(r) PROVE IInv'
    BY <2>4, StepPromote
  <2>5. ASSUME NEW r \in Requests, Render(r) PROVE IInv'
    BY <2>5, StepRender
  <2>6. ASSUME NEW r \in Requests, SetMem(r) PROVE IInv'
    BY <2>6, StepSetMem
  <2>7. ASSUME NEW r \in Requests, SetDisk(r) PROVE IInv'
    BY <2>7, StepSetDisk
  <2>8. CASE DataChanges
    BY <2>8, StepDataChanges
  <2>9. CASE Publish
    BY <2>9, StepPublish
  <2>10. CASE Unpublish
    BY <2>10, StepUnpublish
  <2>11. CASE PurgeMem
    BY <2>11, StepPurgeMem
  <2>12. CASE PurgeDisk
    BY <2>12, StepPurgeDisk
  <2>13. CASE Forget
    BY <2>13, StepForget
  <2>14. CASE Tick
    BY <2>14, StepTick
  <2>15. CASE UNCHANGED vars
    <3>1. UNCHANGED <<content, cacheable, pub, mem, disk, pc, via, got, due,
                      purging, mark, crossed, floor, served>>
      BY <2>15 DEF vars, data, purge
    <3>2. DataInv' /\ Newest' = Newest
      <4>1. \A x \in Requests : Active(x)' => content[via'[x]] >= 1
        BY <3>1 DEF IInv, DataInv, Active
      <4>. QED
        BY <3>1, <4>1, SameData DEF data
    <3>. QED
      BY <3>1, <3>2 DEF IInv, TypeOK, HoldInv, AgeInv, FloorInv, StaleBound, FreshAfterLonePurge, Active
  <2>. QED
    BY <2>1, <2>2, <2>3, <2>4, <2>5, <2>6, <2>7, <2>8, <2>9, <2>10, <2>11, <2>12, <2>13, <2>14, <2>15
       DEF Next, Request
<1>. QED
  BY <1>1, <1>2, PTL DEF Spec

-----------------------------------------------------------------------------
\* Every variable keeps its type.
THEOREM TypeCorrect == Spec => []TypeOK
<1>1. IInv => TypeOK
  BY DEF IInv
<1>. QED
  BY <1>1, Inductive, PTL

\* A tile outlives its data by no more than both times to live together:
\* promotion (tiered.go) renews a disk hit once, in memory, and not again.
THEOREM StalenessBounded == Spec => []StaleBound
<1>1. IInv => StaleBound
  BY DEF IInv
<1>. QED
  BY <1>1, Inductive, PTL

\* A purge that no request crosses takes effect on every request after it.
THEOREM LonePurgeTakesEffect == Spec => []FreshAfterLonePurge
<1>1. IInv => FreshAfterLonePurge
  BY DEF IInv
<1>. QED
  BY <1>1, Inductive, PTL
=============================================================================
