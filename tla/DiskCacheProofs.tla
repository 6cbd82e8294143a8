-------------------------- MODULE DiskCacheProofs --------------------------
(***************************************************************************)
(* Proofs about DiskCache, for any finite sets of keys, clients and        *)
(* temporary names, any sizes, ages and limits: the directory is a         *)
(* TileStore, and a sweep ends with no more in it than the limit and what  *)
(* was written meanwhile.                                                  *)
(***************************************************************************)
EXTENDS DiskCache, DataTheorems

\* What the callers of the directory have in hand: a writer its own temporary file,
\* which holds its tile once it is written, and a reader a key.
CallInv ==
    \A c \in Clients :
       /\ pc[c] # "idle" => arg[c] \in Tile
       /\ pc[c] \in {"write", "rename"} <=> tmp[c] \in Temps
       /\ pc[c] = "rename" /\ Exists(tmp[c]) => file[tmp[c]].is = arg[c]
       /\ \A d \in Clients : tmp[c] # None /\ tmp[d] = tmp[c] => d = c

\* A file under a tile's name is that tile.
KeyInv == \A k \in Keys : Exists(k) => file[k].is \in Tile /\ file[k].is.key = k

\* What the entries recorded by the sweep add up to.
Recorded == SumFunction([e \in found |-> e.size])

\* The sweep has recorded each name at most once, after it met it, and believes
\* at least the bytes it recorded to be there.
FoundInv ==
    /\ IsFiniteSet(found)
    /\ \A e, f \in found : e.name = f.name => e = f
    /\ \A e \in found : e.name \notin swalk
    /\ Recorded <= total
    /\ sweep # "walk" => swalk = {} /\ victim = None

\* Names whose files may have been written since the sweep began: they hold no
\* more than what was added, and every other file is empty, or still to be met,
\* or about to be removed, or recorded with its size.
Fresh(new) ==
    /\ SumFunctionOnSet(Bytes, new) <= added
    /\ \A c \in Clients : pc[c] = "rename" => tmp[c] \in new
    /\ \A n \in Names \ new :
          \/ Bytes[n] = 0 \/ n \in swalk \/ n = victim
          \/ \E e \in found : e.name = n /\ e.size = Bytes[n]
SweepInv == sweep # "idle" => \E new \in SUBSET Names : Fresh(new)

IInv == TypeOK /\ CallInv /\ KeyInv /\ FoundInv /\ SweepInv

-----------------------------------------------------------------------------
(* Constants, files and their sizes.                                       *)

Files == [is : Content, age : 0..MaxAge] \cup {Absent}
Calls == {"idle", "drop", "read", "write", "rename"}

LEMMA Constants ==
    /\ MaxAge \in Nat /\ LongestTile \in Nat /\ Target \in Nat /\ Target <= MaxBytes
    /\ IsFiniteSet(Names) /\ Cardinality(Names) \in Nat /\ MaxUse \in Nat
    /\ \A rev \in Revs : Size[rev] \in 0..LongestTile
    /\ NoTile \notin Content /\ Torn \notin Tile
    /\ None \notin Temps /\ None \notin Names
<1>1. MaxAge \in Nat
  <2> DEFINE S == {TTL, OrphanAge}
  <2>1. IsFiniteSet(S) /\ S # {} /\ S \subseteq Int
    <3>1. IsFiniteSet({TTL}) /\ {TTL, OrphanAge} = {TTL} \cup {OrphanAge}
      BY FS_Singleton
    <3>. QED
      BY <3>1, FS_AddElement, ConstantsAssumption
  <2>2. Max(S) \in S
    <3> HIDE DEF S
    <3>. QED BY <2>1, MaxIsGreatest
  <2>. QED
    BY <2>2, ConstantsAssumption DEF MaxAge
<1>2. LongestTile \in Nat /\ \A rev \in Revs : Size[rev] \in 0..LongestTile
  <2> DEFINE S == {Size[rev] : rev \in Revs}
             T == S \cup {0}
  <2>1. IsFiniteSet(S) /\ S \subseteq Nat
    <3>1. [rev \in Revs |-> Size[rev]] \in Surjection(Revs, S)
      BY DEF Surjection
    <3>. QED
      BY <3>1, FS_Surjection, ConstantsAssumption
  <2>2. IsFiniteSet(T) /\ T # {} /\ T \subseteq Nat /\ T \subseteq Int
    BY <2>1, FS_AddElement
  <2>3. Max(T) \in T /\ \A x \in T : x <= Max(T)
    <3> HIDE DEF T
    <3>. QED BY <2>2, MaxIsGreatest
  <2>4. LongestTile = Max(T)
    BY DEF LongestTile
  <2>5. \A rev \in Revs : Size[rev] \in T /\ Size[rev] \in Nat
    BY ConstantsAssumption
  <2>6. Max(T) \in Nat /\ \A rev \in Revs : Size[rev] \in Nat /\ Size[rev] <= Max(T)
    <3> HIDE DEF S, T
    <3>. QED BY <2>2, <2>3, <2>5
  <2>7. LongestTile \in Nat /\ \A rev \in Revs : Size[rev] \in Nat /\ Size[rev] <= LongestTile
    <3> HIDE DEF S, T
    <3>. QED BY <2>4, <2>6, Zenon
  <2>. QED
    BY <2>7
<1>3. Target \in Nat /\ Target <= MaxBytes
  BY ConstantsAssumption DEF Target
<1>4. IsFiniteSet(Names) /\ Cardinality(Names) \in Nat
  BY ConstantsAssumption, FS_Union, FS_CardinalityType DEF Names
<1>5. MaxUse \in Nat
  BY <1>2, <1>4 DEF MaxUse
<1>6. NoTile \notin Content /\ Torn \notin Tile /\ None \notin Temps /\ None \notin Names
  BY ConstantsAssumption DEF Content, Names
<1>. QED
  BY <1>1, <1>2, <1>3, <1>4, <1>5, <1>6

LEMMA Lengths ==
    /\ \A c : Length(c) \in 0..LongestTile
    /\ Length(NoTile) = 0 /\ Length(Torn) = 0
    /\ \A t \in Tile : Length(t) = Size[t.rev] /\ Size[t.rev] \in Nat
<1>1. \A t \in Tile : t.rev \in Revs
  BY DEF Tile
<1>. QED
  BY <1>1, Constants DEF Length, Content

\* A name has a file when it has a content.
LEMMA ExistsIs ==
    ASSUME file \in [Names -> Files], NEW n \in Names
    PROVE  /\ Exists(n) <=> file[n].is # NoTile
           /\ Exists(n) => file[n].is \in Content
           /\ Exists(n) => file[n].age \in 0..MaxAge
           /\ file[n].is \in Content \cup {NoTile}
BY Constants DEF Exists, Files, Absent

LEMMA Typed ==
    ASSUME TypeOK
    PROVE  /\ file \in [Names -> Files] /\ pc \in [Clients -> Calls]
           /\ arg \in [Clients -> Tile \cup {NoTile}] /\ tmp \in [Clients -> Temps \cup {None}]
           /\ answer \in [key : Keys \cup {NoTile}, tile : Content \cup {NoTile}]
           /\ walk \in SUBSET Names /\ sweep \in {"idle", "walk", "evict"} /\ swalk \in SUBSET Names
           /\ lag \in 0..MaxLag /\ found \in SUBSET [name : Names, size : Nat, age : Int]
           /\ total \in Nat /\ victim \in Names \cup {None} /\ restarts \in 0..MaxRestarts
           /\ added \in 0..MaxUse
BY DEF TypeOK, Files, Calls

LEMMA TypedAfter ==
    ASSUME file' \in [Names -> Files], pc' \in [Clients -> Calls],
           arg' \in [Clients -> Tile \cup {NoTile}], tmp' \in [Clients -> Temps \cup {None}],
           answer' \in [key : Keys \cup {NoTile}, tile : Content \cup {NoTile}],
           walk' \in SUBSET Names, sweep' \in {"idle", "walk", "evict"}, swalk' \in SUBSET Names,
           lag' \in 0..MaxLag, found' \in SUBSET [name : Names, size : Nat, age : Int],
           total' \in Nat, victim' \in Names \cup {None}, restarts' \in 0..MaxRestarts,
           added' \in 0..MaxUse, KeyInv'
    PROVE  TypeOK'
BY DEF TypeOK, Files, Calls, KeyInv

LEMMA BytesTyped ==
    ASSUME file \in [Names -> Files]
    PROVE  /\ \A n \in Names : Bytes[n] = Length(file[n].is) /\ Bytes[n] \in 0..LongestTile
           /\ \A n \in Names : ~Exists(n) => Bytes[n] = 0
           /\ \A S \in SUBSET Names : /\ IsFiniteSet(S)
                                      /\ SumFunctionOnSet(Bytes, S) \in 0..MaxUse
<1>1. \A n \in Names : Bytes[n] = Length(file[n].is) /\ Bytes[n] \in 0..LongestTile
  BY Lengths DEF Bytes
<1>2. \A n \in Names : ~Exists(n) => Bytes[n] = 0
  BY <1>1, Lengths, ExistsIs
<1>3. ASSUME NEW S \in SUBSET Names
      PROVE  IsFiniteSet(S) /\ SumFunctionOnSet(Bytes, S) \in 0..MaxUse
  <2>1. IsFiniteSet(S)
    BY Constants, FS_Subset
  <2>2. \A n \in Names : Bytes[n] \in Nat
    BY <1>1, Constants
  <2>3. SumFunctionOnSet(Bytes, Names) \in 0..MaxUse
    BY <1>1, Constants, SumBound DEF MaxUse
  <2>4. SumFunctionOnSet(Bytes, S) <= SumFunctionOnSet(Bytes, Names)
    BY <2>2, Constants, SumSubset
  <2>5. SumFunctionOnSet(Bytes, S) \in Nat
    BY <2>1, <2>2, SumNat
  <2>. QED
    BY <2>1, <2>3, <2>4, <2>5, Constants
<1>. QED
  BY <1>1, <1>2, <1>3

\* The same for the state after a step.
LEMMA BytesAfter ==
    ASSUME file' \in [Names -> Files]
    PROVE  /\ \A n \in Names : Bytes'[n] = Length(file'[n].is) /\ Bytes'[n] \in 0..LongestTile
           /\ \A n \in Names : Exists(n)' <=> file'[n].is # NoTile
           /\ \A S \in SUBSET Names : /\ IsFiniteSet(S)
                                      /\ SumFunctionOnSet(Bytes', S) \in 0..MaxUse
<1>1. \A n \in Names : Bytes'[n] = Length(file'[n].is) /\ Bytes'[n] \in 0..LongestTile
  BY Lengths DEF Bytes
<1>2. \A n \in Names : Exists(n)' <=> file'[n].is # NoTile
  BY Constants DEF Exists, Files, Absent
<1>3. ASSUME NEW S \in SUBSET Names
      PROVE  IsFiniteSet(S) /\ SumFunctionOnSet(Bytes', S) \in 0..MaxUse
  <2>1. IsFiniteSet(S)
    BY Constants, FS_Subset
  <2>2. \A n \in Names : Bytes'[n] \in Nat
    BY <1>1, Constants
  <2>3. SumFunctionOnSet(Bytes', Names) \in 0..MaxUse
    BY <1>1, Constants, SumBound DEF MaxUse
  <2>4. SumFunctionOnSet(Bytes', S) <= SumFunctionOnSet(Bytes', Names)
    BY <2>2, Constants, SumSubset
  <2>5. SumFunctionOnSet(Bytes', S) \in Nat
    BY <2>1, <2>2, SumNat
  <2>. QED
    BY <2>1, <2>3, <2>4, <2>5, Constants
<1>. QED
  BY <1>1, <1>2, <1>3

-----------------------------------------------------------------------------
(* Steps that write nothing.                                               *)

\* A step that at most removes files and begins or ends lookups.
Quiet ==
    /\ file' \in [Names -> Files] /\ \A n \in Names : file'[n].is \in {file[n].is, NoTile}
    /\ pc' \in [Clients -> Calls] /\ arg' \in [Clients -> Tile \cup {NoTile}]
    /\ tmp' \in [Clients -> Temps \cup {None}]
    /\ \A c \in Clients : \/ pc'[c] = pc[c] /\ arg'[c] = arg[c] /\ tmp'[c] = tmp[c]
                          \/ pc'[c] = "idle" /\ tmp'[c] = None
                          \/ pc'[c] \in {"drop", "read"} /\ arg'[c] \in Tile /\ tmp'[c] = None

LEMMA QuietStep ==
    ASSUME IInv, Quiet
    PROVE  /\ CallInv' /\ KeyInv'
           /\ \A n \in Names : Bytes'[n] \in {0, Bytes[n]}
           /\ \A c \in Clients : pc'[c] = "rename" => pc[c] = "rename" /\ tmp'[c] = tmp[c]
<1>0. file \in [Names -> Files] /\ file' \in [Names -> Files]
  BY Typed DEF IInv, Quiet
<1>1. \A n \in Names : Exists(n)' => Exists(n) /\ file'[n].is = file[n].is
  BY <1>0, ExistsIs, BytesAfter DEF Quiet
<1>2. \A n \in Names : Bytes'[n] \in {0, Bytes[n]}
  <2>1. \A n \in Names : Bytes'[n] = Length(file'[n].is) /\ Bytes[n] = Length(file[n].is)
    BY <1>0, BytesAfter, BytesTyped
  <2>. QED
    BY <2>1, Lengths DEF Quiet
<1>3. KeyInv'
  <2>1. \A k \in Keys : k \in Names
    BY DEF Names
  <2>. QED
    BY <1>1, <2>1 DEF KeyInv, IInv
<1>4. ASSUME NEW c \in Clients
      PROVE  /\ pc'[c] # "idle" => arg'[c] \in Tile
             /\ pc'[c] \in {"write", "rename"} <=> tmp'[c] \in Temps
             /\ pc'[c] = "rename" /\ Exists(tmp[c])' => file'[tmp'[c]].is = arg'[c]
  <2>1. None \notin Temps /\ Temps \subseteq Names
    BY Constants DEF Names
  <2>2. /\ pc[c] # "idle" => arg[c] \in Tile
        /\ pc[c] \in {"write", "rename"} <=> tmp[c] \in Temps
        /\ pc[c] = "rename" /\ Exists(tmp[c]) => file[tmp[c]].is = arg[c]
    BY DEF IInv, CallInv
  <2>3. CASE pc'[c] = pc[c] /\ arg'[c] = arg[c] /\ tmp'[c] = tmp[c]
    <3>1. pc'[c] = "rename" /\ Exists(tmp[c])' => Exists(tmp[c]) /\ file'[tmp'[c]].is = file[tmp[c]].is
      <4>1. tmp[c] \in Temps /\ Exists(tmp[c])' => Exists(tmp[c]) /\ file'[tmp[c]].is = file[tmp[c]].is
        BY <1>1, <2>1, <2>3 DEF Exists
      <4>. QED
        BY <2>2, <2>3, <4>1
    <3>. QED
      BY <2>2, <2>3, <3>1
  <2>4. CASE ~(pc'[c] = pc[c] /\ arg'[c] = arg[c] /\ tmp'[c] = tmp[c])
    BY <2>1, <2>4 DEF Quiet
  <2>. QED
    BY <2>3, <2>4
<1>5. ASSUME NEW c \in Clients, NEW d \in Clients, tmp'[c] # None, tmp'[d] = tmp'[c]
      PROVE  d = c
  BY <1>5 DEF Quiet, IInv, CallInv
<1>6. CallInv'
  BY <1>4, <1>5 DEF CallInv
<1>7. \A c \in Clients : pc'[c] = "rename" => pc[c] = "rename" /\ tmp'[c] = tmp[c]
  BY DEF Quiet
<1>. QED
  BY <1>2, <1>3, <1>6, <1>7

\* Whether the sweep knows of a file.
Known(n) == n \in swalk \/ n = victim \/ \E e \in found : e.name = n /\ e.size = Bytes[n]

\* What a sweep knows still explains the files when they only become fewer.
LEMMA StillExplained ==
    ASSUME IInv, file' \in [Names -> Files], sweep # "idle", added' = added,
           \A n \in Names : Bytes'[n] \in {0, Bytes[n]},
           \A c \in Clients : pc'[c] = "rename" => pc[c] = "rename" /\ tmp'[c] = tmp[c],
           \A n \in Names : Bytes'[n] # 0 /\ Known(n) => Known(n)'
    PROVE  SweepInv'
<1>1. PICK new \in SUBSET Names : Fresh(new)
  BY DEF IInv, SweepInv
<1>2. SumFunctionOnSet(Bytes', new) <= SumFunctionOnSet(Bytes, new)
  <2> DEFINE g == [n \in Names |-> n]
  <2>1. IsFiniteSet(new) /\ \A n \in new : Bytes'[n] \in Nat /\ Bytes[n] \in Nat
    BY BytesAfter, BytesTyped, Constants, Typed DEF IInv
  <2>2. \A n \in new : Bytes'[n] # 0 => g[n] \in new /\ Bytes'[n] <= Bytes[g[n]]
    BY <2>1
  <2>3. \A m, n \in new : g[m] = g[n] => m = n
    OBVIOUS
  <2> HIDE DEF g
  <2>. QED
    BY <2>1, <2>2, <2>3, SumInto
<1>3. SumFunctionOnSet(Bytes', new) <= added'
  <2>1. SumFunctionOnSet(Bytes', new) \in Nat /\ SumFunctionOnSet(Bytes, new) \in Nat /\ added \in Nat
    BY BytesAfter, BytesTyped, Constants, Typed DEF IInv
  <2>2. SumFunctionOnSet(Bytes, new) <= added
    BY <1>1 DEF Fresh
  <2>. QED
    BY <1>2, <2>1, <2>2
<1>4. \A c \in Clients : pc'[c] = "rename" => tmp'[c] \in new
  BY <1>1 DEF Fresh
<1>5. \A n \in Names \ new : Bytes'[n] = 0 \/ Known(n)'
  BY <1>1 DEF Fresh, Known
<1>6. Fresh(new)'
  BY <1>3, <1>4, <1>5 DEF Fresh, Known
<1>. QED
  BY <1>6 DEF SweepInv

\* The invariant after a quiet step, from what is particular to the step.
LEMMA QuietEnds ==
    ASSUME IInv, Quiet, FoundInv', SweepInv',
           answer' \in [key : Keys \cup {NoTile}, tile : Content \cup {NoTile}],
           walk' \in SUBSET Names, sweep' \in {"idle", "walk", "evict"}, swalk' \in SUBSET Names,
           lag' \in 0..MaxLag, found' \in SUBSET [name : Names, size : Nat, age : Int],
           total' \in Nat, victim' \in Names \cup {None}, restarts' \in 0..MaxRestarts,
           added' \in 0..MaxUse
    PROVE  IInv'
<1>1. CallInv' /\ KeyInv'
  BY QuietStep
<1>2. TypeOK'
  BY <1>1, TypedAfter DEF Quiet
<1>. QED
  BY <1>1, <1>2 DEF IInv

\* A quiet step that is not the janitor's.
LEMMA QuietOutside ==
    ASSUME IInv, Quiet, UNCHANGED <<sweep, swalk, found, total, victim, added>>,
           answer' \in [key : Keys \cup {NoTile}, tile : Content \cup {NoTile}],
           walk' \in SUBSET Names, lag' \in 0..MaxLag, restarts' \in 0..MaxRestarts
    PROVE  IInv'
<1>1. FoundInv'
  BY DEF IInv, FoundInv, Recorded
<1>2. SweepInv'
  <2>1. CASE sweep = "idle"
    BY <2>1 DEF SweepInv
  <2>2. CASE sweep # "idle"
    <3>1. \A n \in Names : Bytes'[n] # 0 /\ Known(n) => Known(n)'
      BY QuietStep DEF Known
    <3>. QED
      BY <2>2, <3>1, QuietStep, StillExplained DEF Quiet
  <2>. QED
    BY <2>1, <2>2
<1>3. /\ sweep' \in {"idle", "walk", "evict"} /\ swalk' \in SUBSET Names
      /\ found' \in SUBSET [name : Names, size : Nat, age : Int] /\ total' \in Nat
      /\ victim' \in Names \cup {None} /\ added' \in 0..MaxUse
  BY Typed DEF IInv
<1>. QED
  BY <1>1, <1>2, <1>3, QuietEnds

\* Removing a file, and leaving all files alone, while no call moves on.
LEMMA Removes ==
    ASSUME IInv, NEW n \in Names, file' = Without(n)
    PROVE  /\ file' \in [Names -> Files] /\ \A m \in Names : file'[m].is \in {file[m].is, NoTile}
           /\ file'[n] = Absent /\ \A m \in Names : m # n => file'[m] = file[m]
BY Typed DEF IInv, Without, Files, Absent

LEMMA CallsStay ==
    ASSUME IInv, file' \in [Names -> Files], \A n \in Names : file'[n].is \in {file[n].is, NoTile},
           UNCHANGED <<pc, arg, tmp>>
    PROVE  Quiet
BY Typed DEF IInv, Quiet

\* A call returns.
LEMMA CallReturns ==
    ASSUME IInv, file' \in [Names -> Files], \A n \in Names : file'[n].is \in {file[n].is, NoTile},
           NEW c \in Clients, Return(c)
    PROVE  Quiet
<1>1. /\ pc' = [pc EXCEPT ![c] = "idle"] /\ arg' = [arg EXCEPT ![c] = NoTile]
      /\ tmp' = [tmp EXCEPT ![c] = None]
  BY DEF Return, Goto
<1>2. /\ pc' \in [Clients -> Calls] /\ arg' \in [Clients -> Tile \cup {NoTile}]
      /\ tmp' \in [Clients -> Temps \cup {None}]
  BY <1>1, Typed DEF IInv, Calls
<1>3. \A d \in Clients : \/ pc'[d] = pc[d] /\ arg'[d] = arg[d] /\ tmp'[d] = tmp[d]
                         \/ pc'[d] = "idle" /\ tmp'[d] = None
  BY <1>1, Typed DEF IInv
<1>. QED
  BY <1>2, <1>3 DEF Quiet

-----------------------------------------------------------------------------
(* Lookups, failed writes, purges and time.                                *)

LEMMA StepStat ==
    ASSUME IInv, NEW c \in Clients, NEW k \in Keys, Stat(c, k)
    PROVE  IInv'
<1>1. /\ pc[c] = "idle" /\ UNCHANGED <<file, tmp, walk, lag, restarts>>
      /\ UNCHANGED <<sweep, swalk, found, total, victim, added>>
  BY DEF Stat, janitor
<1>2. file' \in [Names -> Files] /\ \A n \in Names : file'[n].is \in {file[n].is, NoTile}
  BY <1>1, Typed DEF IInv
<1>3. walk' \in SUBSET Names /\ lag' \in 0..MaxLag /\ restarts' \in 0..MaxRestarts
  BY <1>1, Typed DEF IInv
<1>4. CASE Exists(k)
  <2> DEFINE t == CHOOSE x \in Tile : x.key = k
  <2>1. t \in Tile
    BY <1>4 DEF IInv, KeyInv
  <2>2. /\ pc' = [pc EXCEPT ![c] = IF Expired(file[k].age) THEN "drop" ELSE "read"]
        /\ arg' = [arg EXCEPT ![c] = t] /\ answer' = answer
    BY <1>4 DEF Stat, Goto
  <2> HIDE DEF t
  <2>3. pc' \in [Clients -> Calls] /\ arg' \in [Clients -> Tile \cup {NoTile}]
    BY <2>1, <2>2, Typed DEF IInv, Calls
  <2>4. tmp[c] = None
    BY <1>1, Typed DEF IInv, CallInv
  <2>5. pc'[c] \in {"drop", "read"} /\ arg'[c] \in Tile /\ tmp'[c] = None
    BY <1>1, <2>1, <2>2, <2>4, Typed DEF IInv
  <2>6. \A d \in Clients : d # c => pc'[d] = pc[d] /\ arg'[d] = arg[d] /\ tmp'[d] = tmp[d]
    BY <1>1, <2>2, Typed DEF IInv
  <2>7. Quiet
    BY <1>1, <1>2, <2>3, <2>5, <2>6, Typed DEF IInv, Quiet
  <2>. QED
    BY <1>1, <1>3, <2>2, <2>7, Typed, QuietOutside DEF IInv
<1>5. CASE ~Exists(k)
  <2>1. UNCHANGED <<pc, arg, tmp>> /\ answer' = [key |-> k, tile |-> NoTile]
    BY <1>1, <1>5 DEF Stat, Answer
  <2>2. Quiet
    BY <1>2, <2>1, CallsStay
  <2>. QED
    BY <1>1, <1>3, <2>1, <2>2, QuietOutside
<1>. QED
  BY <1>4, <1>5

LEMMA StepLookup ==
    ASSUME IInv, NEW c \in Clients, DropExpired(c) \/ ReadFile(c)
    PROVE  IInv'
<1>1. /\ pc[c] \in {"drop", "read"} /\ Return(c) /\ UNCHANGED <<walk, lag, restarts>>
      /\ UNCHANGED <<sweep, swalk, found, total, victim, added>>
  BY DEF DropExpired, ReadFile, janitor
<1>2. arg[c].key \in Keys /\ arg[c].key \in Names
  <2>1. arg[c] \in Tile
    BY <1>1 DEF IInv, CallInv
  <2>. QED
    BY <2>1 DEF Tile, Names
<1>3. file' \in [Names -> Files] /\ \A n \in Names : file'[n].is \in {file[n].is, NoTile}
  <2>1. CASE file' = Without(arg[c].key)
    BY <1>2, <2>1, Removes
  <2>2. CASE file' = file
    BY <2>2, Typed DEF IInv
  <2>. QED
    BY <2>1, <2>2 DEF DropExpired, ReadFile
<1>4. answer' \in [key : Keys \cup {NoTile}, tile : Content \cup {NoTile}]
  <2>1. file[arg[c].key].is \in Content \cup {NoTile}
    BY <1>2, Typed, ExistsIs DEF IInv
  <2>2. \/ answer' = [key |-> arg[c].key, tile |-> NoTile]
        \/ answer' = [key |-> arg[c].key, tile |-> file[arg[c].key].is]
    BY DEF DropExpired, ReadFile, Answer
  <2>. QED
    BY <1>2, <2>1, <2>2
<1>5. Quiet
  BY <1>1, <1>3, CallReturns
<1>6. walk' \in SUBSET Names /\ lag' \in 0..MaxLag /\ restarts' \in 0..MaxRestarts
  BY <1>1, Typed DEF IInv
<1>. QED
  BY <1>1, <1>4, <1>5, <1>6, QuietOutside

LEMMA StepSetFails ==
    ASSUME IInv, NEW c \in Clients, SetFails(c)
    PROVE  IInv'
<1>1. /\ pc[c] \in {"write", "rename"} /\ file' = Without(tmp[c]) /\ Return(c)
      /\ UNCHANGED <<answer, walk, lag, restarts>>
      /\ UNCHANGED <<sweep, swalk, found, total, victim, added>>
  BY DEF SetFails, janitor
<1>2. tmp[c] \in Names
  BY <1>1 DEF IInv, CallInv, Names
<1>3. file' \in [Names -> Files] /\ \A n \in Names : file'[n].is \in {file[n].is, NoTile}
  BY <1>1, <1>2, Removes
<1>4. Quiet
  BY <1>1, <1>3, CallReturns
<1>. QED
  BY <1>1, <1>4, Typed, QuietOutside DEF IInv

LEMMA StepPurge ==
    ASSUME IInv, BeginPurge \/ \E n \in Names : PurgeOne(n)
    PROVE  IInv'
<1>1. /\ UNCHANGED <<pc, arg, tmp, answer, lag, restarts>>
      /\ UNCHANGED <<sweep, swalk, found, total, victim, added>>
  BY DEF BeginPurge, PurgeOne, janitor
<1>2. walk' \in SUBSET Names
  BY Typed DEF BeginPurge, PurgeOne, IInv
<1>3. file' \in [Names -> Files] /\ \A n \in Names : file'[n].is \in {file[n].is, NoTile}
  <2>1. CASE BeginPurge
    BY <2>1, Typed DEF BeginPurge, IInv
  <2>2. ASSUME NEW n \in Names, PurgeOne(n)
        PROVE  file' \in [Names -> Files] /\ \A m \in Names : file'[m].is \in {file[m].is, NoTile}
    BY <2>2, Removes DEF PurgeOne
  <2>. QED
    BY <2>1, <2>2
<1>4. Quiet
  BY <1>1, <1>3, CallsStay
<1>. QED
  BY <1>1, <1>2, <1>4, Typed, QuietOutside DEF IInv

LEMMA StepTick ==
    ASSUME IInv, Tick
    PROVE  IInv'
<1>1. /\ UNCHANGED <<pc, arg, tmp, answer, walk, restarts>>
      /\ UNCHANGED <<sweep, swalk, found, total, victim, added>>
      /\ file' = [n \in Names |-> IF Exists(n) THEN [file[n] EXCEPT !.age = Capped(@ + 1)]
                                              ELSE Absent]
  BY DEF Tick
<1>2. lag' \in 0..MaxLag
  BY Typed, ConstantsAssumption DEF Tick, IInv
<1>3. ASSUME NEW n \in Names
      PROVE  file'[n] \in Files /\ file'[n].is \in {file[n].is, NoTile}
  <2>1. CASE Exists(n)
    <3>1. file'[n] = [file[n] EXCEPT !.age = Capped(file[n].age + 1)]
      BY <1>1, <2>1
    <3>2. file[n] \in [is : Content, age : 0..MaxAge]
      BY <2>1, Typed DEF IInv, Files, Exists
    <3>3. Capped(file[n].age + 1) \in 0..MaxAge
      BY <3>2, Constants DEF Capped
    <3>. QED
      BY <3>1, <3>2, <3>3 DEF Files
  <2>2. CASE ~Exists(n)
    BY <1>1, <2>2 DEF Files, Absent
  <2>. QED
    BY <2>1, <2>2
<1>4. file' \in [Names -> Files] /\ \A n \in Names : file'[n].is \in {file[n].is, NoTile}
  BY <1>1, <1>3
<1>5. Quiet
  BY <1>1, <1>4, CallsStay
<1>. QED
  BY <1>1, <1>2, <1>5, Typed, QuietOutside DEF IInv

-----------------------------------------------------------------------------
(* Writing a tile.                                                         *)

\* The janitor's part of the invariant when its variables stay.
LEMMA FoundKept ==
    ASSUME IInv, UNCHANGED <<sweep, swalk, found, total, victim>>
    PROVE  FoundInv'
BY DEF IInv, FoundInv, Recorded

\* The invariant after a step of a writer.
LEMMA WriterEnds ==
    ASSUME IInv, file' \in [Names -> Files], pc' \in [Clients -> Calls],
           arg' \in [Clients -> Tile \cup {NoTile}], tmp' \in [Clients -> Temps \cup {None}],
           UNCHANGED <<answer, walk, lag, restarts, sweep, swalk, found, total, victim>>,
           added' \in 0..MaxUse, KeyInv', CallInv', SweepInv'
    PROVE  IInv'
<1>1. TypeOK'
  BY Typed, TypedAfter DEF IInv
<1>. QED
  BY <1>1, FoundKept DEF IInv

LEMMA StepCreateTemp ==
    ASSUME IInv, NEW c \in Clients, NEW t \in Tile, CreateTemp(c, t)
    PROVE  IInv'
<1>1. PICK n \in Temps : /\ ~Exists(n) /\ \A d \in Clients : tmp[d] # n
                         /\ file' = [file EXCEPT ![n] = [is |-> Torn, age |-> 0]]
                         /\ tmp' = [tmp EXCEPT ![c] = n]
  BY DEF CreateTemp
<1>2. /\ pc[c] = "idle" /\ arg' = [arg EXCEPT ![c] = t] /\ pc' = [pc EXCEPT ![c] = "write"]
      /\ UNCHANGED <<answer, walk, lag, restarts, sweep, swalk, found, total, victim>>
      /\ added' = added
  BY DEF CreateTemp, Goto, janitor
<1>3. n \in Names /\ n \notin Keys /\ n # None /\ Temps \subseteq Names /\ Keys \subseteq Names
  BY ConstantsAssumption, Constants DEF Names
<1>4. /\ file' \in [Names -> Files] /\ file'[n].is = Torn
      /\ \A m \in Names : m # n => file'[m] = file[m]
  BY <1>1, <1>3, Typed, Constants DEF IInv, Files, Content
<1>5. /\ pc' \in [Clients -> Calls] /\ arg' \in [Clients -> Tile \cup {NoTile}]
      /\ tmp' \in [Clients -> Temps \cup {None}]
  BY <1>1, <1>2, Typed DEF IInv, Calls
<1>6. /\ pc'[c] = "write" /\ arg'[c] = t /\ tmp'[c] = n
      /\ \A d \in Clients : d # c => pc'[d] = pc[d] /\ arg'[d] = arg[d] /\ tmp'[d] = tmp[d]
  BY <1>1, <1>2, Typed DEF IInv
<1>7. KeyInv'
  BY <1>3, <1>4 DEF IInv, KeyInv, Exists
<1>8. CallInv'
  <2>1. ASSUME NEW d \in Clients
        PROVE  /\ pc'[d] # "idle" => arg'[d] \in Tile
               /\ pc'[d] \in {"write", "rename"} <=> tmp'[d] \in Temps
               /\ pc'[d] = "rename" /\ Exists(tmp[d])' => file'[tmp'[d]].is = arg'[d]
    <3>1. CASE d = c
      BY <1>6, <3>1
    <3>2. CASE d # c
      <4>1. tmp[d] \in Temps => file'[tmp[d]] = file[tmp[d]]
        BY <1>1, <1>3, <1>4
      <4>. QED
        BY <1>6, <3>2, <4>1 DEF IInv, CallInv, Exists
    <3>. QED
      BY <3>1, <3>2
  <2>2. ASSUME NEW d \in Clients, NEW e \in Clients, tmp'[d] # None, tmp'[e] = tmp'[d]
        PROVE  e = d
    BY <1>1, <1>6, <2>2 DEF IInv, CallInv
  <2>. QED
    BY <2>1, <2>2 DEF CallInv
<1>9. SweepInv'
  <2>1. CASE sweep = "idle"
    BY <1>2, <2>1 DEF SweepInv
  <2>2. CASE sweep # "idle"
    <3>1. \A m \in Names : Bytes'[m] = Bytes[m]
      <4>1. Bytes'[n] = 0
        BY <1>3, <1>4, BytesAfter, Lengths
      <4>2. Bytes[n] = 0
        BY <1>1, <1>3, BytesTyped, Typed DEF IInv
      <4>3. \A m \in Names : m # n => Bytes'[m] = Bytes[m]
        BY <1>4 DEF Bytes
      <4>. QED
        BY <4>1, <4>2, <4>3
    <3>2. \A m \in Names : Known(m) => Known(m)'
      BY <1>2, <3>1 DEF Known
    <3>3. \A d \in Clients : pc'[d] = "rename" => pc[d] = "rename" /\ tmp'[d] = tmp[d]
      BY <1>6
    <3>. QED
      BY <1>2, <1>4, <2>2, <3>1, <3>2, <3>3, StillExplained
  <2>. QED
    BY <2>1, <2>2
<1>10. added' \in 0..MaxUse
  BY <1>2, Typed DEF IInv
<1>. QED
  BY <1>2, <1>4, <1>5, <1>7, <1>8, <1>9, <1>10, WriterEnds

LEMMA StepWrite ==
    ASSUME IInv, NEW c \in Clients, Write(c)
    PROVE  IInv'
<1>0. PICK t \in Temps : t = tmp[c]
  BY DEF Write, IInv, CallInv
<1> DEFINE size == Size[arg[c].rev]
<1>1. /\ pc[c] = "write" /\ pc' = [pc EXCEPT ![c] = "rename"]
      /\ file' = IF Exists(t) THEN [file EXCEPT ![t] = [is |-> arg[c], age |-> 0]] ELSE file
      /\ UNCHANGED <<arg, tmp, answer, walk, lag, restarts, sweep, swalk, found, total, victim>>
  BY <1>0 DEF Write, Goto, janitor
<1>2. /\ added' = IF sweep = "idle" THEN 0
                  ELSE IF added + size < MaxUse THEN added + size ELSE MaxUse
  BY DEF Write
<1>3. arg[c] \in Tile /\ t \in Temps /\ \A d \in Clients : d # c => tmp[d] # t
  <2>1. arg[c] \in Tile /\ t \in Temps
    BY <1>1 DEF IInv, CallInv
  <2>. QED
    BY <1>0, <2>1, Constants DEF IInv, CallInv
<1>4. t \in Names /\ t \notin Keys /\ Temps \subseteq Names /\ Keys \subseteq Names
  BY <1>3, ConstantsAssumption DEF Names
<1>5. size \in Nat /\ added \in Nat /\ MaxUse \in Nat /\ added' \in 0..MaxUse
  <2>1. size \in Nat /\ added \in 0..MaxUse /\ MaxUse \in Nat
    BY <1>3, Lengths, Constants, Typed DEF IInv
  <2> HIDE DEF size
  <2>. QED
    BY <1>2, <2>1
<1>6. /\ file' \in [Names -> Files] /\ \A m \in Names : m # t => file'[m] = file[m]
      /\ Exists(t)' => file'[t].is = arg[c]
  <2>1. CASE Exists(t)
    <3>1. [is |-> arg[c], age |-> 0] \in Files
      BY <1>3, Constants DEF Files, Content
    <3>2. file' = [file EXCEPT ![t] = [is |-> arg[c], age |-> 0]]
      BY <1>1, <2>1
    <3>. QED
      BY <1>4, <3>1, <3>2, Typed DEF IInv
  <2>2. CASE ~Exists(t)
    <3>1. file' = file
      BY <1>1, <2>2
    <3>2. ~Exists(t)'
      BY <1>1, <2>2, <3>1 DEF Exists
    <3>. QED
      BY <3>1, <3>2, Typed DEF IInv
  <2>. QED
    BY <2>1, <2>2
<1>7. /\ pc' \in [Clients -> Calls] /\ pc'[c] = "rename"
      /\ \A d \in Clients : d # c => pc'[d] = pc[d]
  BY <1>1, Typed DEF IInv, Calls
<1>8. KeyInv'
  BY <1>4, <1>6 DEF IInv, KeyInv, Exists
<1>9. CallInv'
  <2>1. ASSUME NEW d \in Clients
        PROVE  /\ pc'[d] # "idle" => arg'[d] \in Tile
               /\ pc'[d] \in {"write", "rename"} <=> tmp'[d] \in Temps
               /\ pc'[d] = "rename" /\ Exists(tmp[d])' => file'[tmp'[d]].is = arg'[d]
    <3>1. CASE d = c
      <4>1. Exists(tmp[d])' => file'[tmp'[d]].is = arg'[d]
        BY <1>0, <1>1, <1>6, <3>1 DEF Exists
      <4>. QED
        BY <1>0, <1>1, <1>3, <1>7, <3>1, <4>1
    <3>2. CASE d # c
      <4>1. tmp[d] \in Temps => file'[tmp[d]] = file[tmp[d]]
        BY <1>3, <1>4, <1>6, <3>2
      <4>. QED
        BY <1>1, <1>7, <3>2, <4>1 DEF IInv, CallInv, Exists
    <3>. QED
      BY <3>1, <3>2
  <2>2. ASSUME NEW d \in Clients, NEW e \in Clients, tmp'[d] # None, tmp'[e] = tmp'[d]
        PROVE  e = d
    BY <1>1, <2>2 DEF IInv, CallInv
  <2>. QED
    BY <2>1, <2>2 DEF CallInv
<1>10. SweepInv'
  <2>1. CASE sweep = "idle"
    BY <1>1, <2>1 DEF SweepInv
  <2>2. CASE sweep # "idle"
    <3>1. PICK old \in SUBSET Names : Fresh(old)
      BY <2>2 DEF IInv, SweepInv
    <3>0. PICK new \in SUBSET Names : new = old \cup {t}
      BY <1>4
    <3>2. new \in SUBSET Names /\ old \ {t} = new \ {t} /\ old \ {t} \subseteq old /\ t \in new
      BY <1>4, <3>0
    <3>3. /\ \A n \in Names : Bytes'[n] \in Nat /\ Bytes[n] \in Nat
          /\ \A n \in Names : n # t => Bytes'[n] = Bytes[n]
          /\ Bytes'[t] <= size
      <4>1. \A n \in Names : Bytes'[n] \in Nat /\ Bytes[n] \in Nat
        BY <1>6, BytesAfter, BytesTyped, Constants, Typed DEF IInv
      <4>2. \A n \in Names : n # t => Bytes'[n] = Bytes[n]
        BY <1>6 DEF Bytes
      <4>3. Bytes'[t] \in {0, size}
        <5>1. file'[t].is \in {arg[c], NoTile}
          BY <1>4, <1>6, BytesAfter
        <5>2. Bytes'[t] = Length(file'[t].is)
          BY <1>4, <1>6, BytesAfter
        <5>. QED
          BY <1>3, <5>1, <5>2, Lengths
      <4> HIDE DEF size
      <4>. QED
        BY <1>5, <4>1, <4>2, <4>3
    <3>4. SumFunctionOnSet(Bytes', new) <= added'
      <4> HIDE DEF size
      <4>1. SumFunctionOnSet(Bytes', new) = Bytes'[t] + SumFunctionOnSet(Bytes', new \ {t})
        <5>1. IsFiniteSet(new) /\ \A n \in new : Bytes'[n] \in Int
          BY <1>6, <3>2, <3>3, BytesAfter
        <5>. QED BY <3>2, <5>1, SumRemove
      <4>2. SumFunctionOnSet(Bytes', new \ {t}) = SumFunctionOnSet(Bytes, old \ {t})
        <5>1. IsFiniteSet(old \ {t}) /\ \A n \in old \ {t} : Bytes'[n] = Bytes[n]
          BY <1>6, <3>2, <3>3, BytesAfter
        <5>2. SumFunctionOnSet(Bytes', old \ {t}) = SumFunctionOnSet(Bytes, old \ {t})
          BY <5>1, SumCongruence
        <5>. QED
          BY <3>2, <5>2, Zenon
      <4>3. SumFunctionOnSet(Bytes, old \ {t}) <= SumFunctionOnSet(Bytes, old)
        <5>1. IsFiniteSet(old) /\ \A n \in old : Bytes[n] \in Nat
          BY <1>6, <3>3, BytesAfter
        <5>. QED
          BY <3>2, <5>1, SumSubset
      <4>4. /\ SumFunctionOnSet(Bytes, old) \in Nat /\ SumFunctionOnSet(Bytes, old \ {t}) \in Nat
            /\ SumFunctionOnSet(Bytes, old) <= added
        BY <3>1, <3>2, BytesTyped, Constants, Typed DEF IInv, Fresh
      <4>5. SumFunctionOnSet(Bytes', new) \in 0..MaxUse
        BY <1>6, <3>2, BytesAfter
      <4>6. Bytes'[t] \in Nat
        BY <1>4, <3>3
      <4> DEFINE a == SumFunctionOnSet(Bytes', new)
                 b == SumFunctionOnSet(Bytes', new \ {t})
      <4>7. a <= added + size
        <5>1. b \in Nat /\ b <= added /\ a = Bytes'[t] + b
          BY <1>5, <4>1, <4>2, <4>3, <4>4
        <5> HIDE DEF a, b
        <5>. QED BY <1>5, <3>3, <4>6, <5>1
      <4>8. added' = IF added + size < MaxUse THEN added + size ELSE MaxUse
        BY <1>2, <2>2
      <4>9. a \in 0..MaxUse
        BY <4>5
      <4>10. a <= added'
        <5> HIDE DEF a, b
        <5>. QED BY <1>5, <4>7, <4>8, <4>9
      <4>. QED
        BY <4>10
    <3>5. \A d \in Clients : pc'[d] = "rename" => tmp'[d] \in new
      BY <1>0, <1>1, <1>7, <3>0, <3>1 DEF Fresh
    <3>6. \A n \in Names \ new :
             \/ Bytes'[n] = 0 \/ n \in swalk' \/ n = victim'
             \/ \E e \in found' : e.name = n /\ e.size = Bytes'[n]
      BY <1>1, <3>0, <3>1, <3>3 DEF Fresh
    <3>7. Fresh(new)'
      BY <3>4, <3>5, <3>6 DEF Fresh
    <3>. QED
      BY <3>2, <3>7 DEF SweepInv
  <2>. QED
    BY <2>1, <2>2
<1>. QED
  BY <1>1, <1>5, <1>6, <1>7, <1>8, <1>9, <1>10, Typed, WriterEnds DEF IInv

\* A file moves from a temporary name to a key: the files written hold no more than before.
LEMMA StepRename ==
    ASSUME IInv, NEW c \in Clients, Rename(c)
    PROVE  IInv'
<1>0. PICK t \in Temps : t = tmp[c]
  BY DEF Rename, IInv, CallInv
<1>1. PICK k \in Keys : k = arg[c].key /\ arg[c] \in Tile
  BY DEF Rename, IInv, CallInv, Tile
<1>2. /\ pc[c] = "rename" /\ Return(c)
      /\ file' = IF Exists(t) THEN [file EXCEPT ![k] = file[t], ![t] = Absent] ELSE file
      /\ UNCHANGED <<answer, walk, lag, restarts, sweep, swalk, found, total, victim>>
      /\ added' = added
  BY <1>0, <1>1 DEF Rename, janitor
<1>3. CASE ~Exists(t)
  <2>1. Quiet
    BY <1>2, <1>3, Typed, CallReturns DEF IInv
  <2>. QED
    BY <1>2, <2>1, Typed, QuietOutside DEF IInv
<1>4. CASE Exists(t)
  <2>1. /\ k \in Names /\ t \in Names /\ k # t /\ Temps \subseteq Names /\ Keys \subseteq Names
        /\ Keys \cap Temps = {}
    BY ConstantsAssumption DEF Names
  <2>2. file[t].is = arg[c] /\ file[t] \in Files
    BY <1>0, <1>2, <1>4, <2>1, Typed DEF IInv, CallInv
  <2>3. /\ file' \in [Names -> Files] /\ file'[k] = file[t] /\ file'[t] = Absent
        /\ \A n \in Names : n # k /\ n # t => file'[n] = file[n]
    <3>1. file' = [file EXCEPT ![k] = file[t], ![t] = Absent]
      BY <1>2, <1>4
    <3>2. Absent \in Files
      BY DEF Files
    <3>. QED
      BY <2>1, <2>2, <3>1, <3>2, Typed DEF IInv
  <2>4. /\ pc' = [pc EXCEPT ![c] = "idle"] /\ arg' = [arg EXCEPT ![c] = NoTile]
        /\ tmp' = [tmp EXCEPT ![c] = None]
    BY <1>2 DEF Return, Goto
  <2>5. /\ pc' \in [Clients -> Calls] /\ arg' \in [Clients -> Tile \cup {NoTile}]
        /\ tmp' \in [Clients -> Temps \cup {None}]
        /\ pc'[c] = "idle" /\ tmp'[c] = None
        /\ \A d \in Clients : d # c => pc'[d] = pc[d] /\ arg'[d] = arg[d] /\ tmp'[d] = tmp[d]
    BY <2>4, Typed DEF IInv, Calls
  <2>6. \A d \in Clients : d # c => tmp[d] # t
    BY <1>0, Constants DEF IInv, CallInv
  <2>7. KeyInv'
    <3> SUFFICES ASSUME NEW x \in Keys, Exists(x)'
                 PROVE  file'[x].is \in Tile /\ file'[x].is.key = x
      BY DEF KeyInv
    <3>1. CASE x = k
      BY <1>1, <2>2, <2>3, <3>1
    <3>2. CASE x # k
      <4>1. x \in Names /\ x # t
        BY <2>1
      <4>. QED
        BY <2>3, <3>2, <4>1 DEF IInv, KeyInv, Exists
    <3>. QED
      BY <3>1, <3>2
  <2>8. CallInv'
    <3>1. ASSUME NEW d \in Clients
          PROVE  /\ pc'[d] # "idle" => arg'[d] \in Tile
                 /\ pc'[d] \in {"write", "rename"} <=> tmp'[d] \in Temps
                 /\ pc'[d] = "rename" /\ Exists(tmp[d])' => file'[tmp'[d]].is = arg'[d]
      <4>1. CASE d = c
        BY <2>5, <4>1, Constants
      <4>2. CASE d # c
        <5>1. tmp[d] \in Temps => file'[tmp[d]] = file[tmp[d]]
          BY <2>1, <2>3, <2>6, <4>2
        <5>. QED
          BY <2>5, <4>2, <5>1 DEF IInv, CallInv, Exists
      <4>. QED
        BY <4>1, <4>2
    <3>2. ASSUME NEW d \in Clients, NEW e \in Clients, tmp'[d] # None, tmp'[e] = tmp'[d]
          PROVE  e = d
      BY <2>5, <3>2 DEF IInv, CallInv
    <3>. QED
      BY <3>1, <3>2 DEF CallInv
  <2>9. SweepInv'
    <3>1. CASE sweep = "idle"
      BY <1>2, <3>1 DEF SweepInv
    <3>2. CASE sweep # "idle"
      <4>1. PICK old \in SUBSET Names : Fresh(old)
        BY <3>2 DEF IInv, SweepInv
      <4>2. PICK new \in SUBSET Names : new = (old \ {t}) \cup {k}
        BY <2>1
      <4>3. t \in old
        BY <1>0, <1>2, <4>1 DEF Fresh
      <4>4. /\ \A n \in Names : Bytes'[n] \in Nat /\ Bytes[n] \in Nat
            /\ \A n \in Names : n # k /\ n # t => Bytes'[n] = Bytes[n]
            /\ Bytes'[k] = Bytes[t] /\ Bytes'[t] = 0
        <5>1. /\ \A n \in Names : Bytes'[n] \in Nat /\ Bytes'[n] = Length(file'[n].is)
              /\ \A n \in Names : Bytes[n] \in Nat /\ Bytes[n] = Length(file[n].is)
          BY <2>3, BytesAfter, BytesTyped, Constants, Typed DEF IInv
        <5>2. Absent.is = NoTile
          BY DEF Absent
        <5>. QED
          BY <2>1, <2>3, <5>1, <5>2, Lengths
      <4>5. SumFunctionOnSet(Bytes', new) <= SumFunctionOnSet(Bytes, old)
        <5> DEFINE g == [n \in Names |-> IF n = k THEN t ELSE n]
        <5>1. IsFiniteSet(new) /\ IsFiniteSet(old)
          BY <2>3, BytesAfter
        <5>2. (\A n \in new : Bytes'[n] \in Nat) /\ \A n \in old : Bytes[n] \in Nat
          BY <4>4
        <5>3. \A n \in new : g[n] \in old /\ Bytes'[n] <= Bytes[g[n]]
          BY <2>1, <4>2, <4>3, <4>4
        <5>4. \A m, n \in new : g[m] = g[n] => m = n
          BY <2>1, <4>2
        <5> HIDE DEF g
        <5>. QED
          BY <5>1, <5>2, <5>3, <5>4, SumInto
      <4>6. SumFunctionOnSet(Bytes', new) <= added'
        <5>1. /\ SumFunctionOnSet(Bytes', new) \in 0..MaxUse
              /\ SumFunctionOnSet(Bytes, old) \in 0..MaxUse /\ added \in 0..MaxUse
          BY <2>3, BytesAfter, BytesTyped, Typed DEF IInv
        <5>2. SumFunctionOnSet(Bytes, old) <= added
          BY <4>1 DEF Fresh
        <5>. QED
          BY <1>2, <4>5, <5>1, <5>2, Constants
      <4>7. \A d \in Clients : pc'[d] = "rename" => tmp'[d] \in new
        BY <2>5, <2>6, <4>1, <4>2 DEF Fresh
      <4>8. \A n \in Names \ new :
               \/ Bytes'[n] = 0 \/ n \in swalk' \/ n = victim'
               \/ \E e \in found' : e.name = n /\ e.size = Bytes'[n]
        BY <1>2, <4>1, <4>2, <4>4 DEF Fresh
      <4>9. Fresh(new)'
        BY <4>6, <4>7, <4>8 DEF Fresh
      <4>. QED
        BY <4>2, <4>9 DEF SweepInv
    <3>. QED
      BY <3>1, <3>2
  <2>10. added' \in 0..MaxUse
    BY <1>2, Typed DEF IInv
  <2>. QED
    BY <1>2, <2>3, <2>5, <2>7, <2>8, <2>9, <2>10, WriterEnds
<1>. QED
  BY <1>3, <1>4

-----------------------------------------------------------------------------
(* The sweep.                                                              *)

Entries == [name : Names, size : Nat, age : Int]
SizesOf(entries) == [e \in entries |-> e.size]

\* What a set of entries adds up to, with one more and with one less.
LEMMA EntriesAddUp ==
    ASSUME NEW S, IsFiniteSet(S), S \subseteq Entries
    PROVE  /\ SumFunction(SizesOf(S)) = SumFunctionOnSet(SizesOf(S), S)
           /\ SumFunction(SizesOf(S)) \in Nat
           /\ S = {} => SumFunction(SizesOf(S)) = 0
           /\ \A e \in S : /\ IsFiniteSet(S \ {e})
                           /\ SumFunction(SizesOf(S)) = e.size + SumFunction(SizesOf(S \ {e}))
<1>1. \A e \in S : SizesOf(S)[e] = e.size /\ e.size \in Nat
  BY DEF SizesOf, Entries
<1>2. SumFunction(SizesOf(S)) = SumFunctionOnSet(SizesOf(S), S)
  BY DEF SumFunction, SizesOf
<1>3. SumFunctionOnSet(SizesOf(S), S) \in Nat
  BY <1>1, SumNat
<1>4. S = {} => SumFunctionOnSet(SizesOf(S), S) = 0
  BY SumEmpty
<1>5. ASSUME NEW e \in S
      PROVE  /\ IsFiniteSet(S \ {e})
             /\ SumFunction(SizesOf(S)) = e.size + SumFunction(SizesOf(S \ {e}))
  <2>1. IsFiniteSet(S \ {e})
    BY FS_Subset
  <2>2. SumFunctionOnSet(SizesOf(S), S) = SizesOf(S)[e] + SumFunctionOnSet(SizesOf(S), S \ {e})
    <3>1. \A x \in S : SizesOf(S)[x] \in Int
      BY <1>1
    <3>. QED
      BY <3>1, SumRemove
  <2>3. SumFunctionOnSet(SizesOf(S), S \ {e}) = SumFunctionOnSet(SizesOf(S \ {e}), S \ {e})
    <3>1. \A x \in S \ {e} : SizesOf(S)[x] = SizesOf(S \ {e})[x]
      BY DEF SizesOf
    <3>. QED
      BY <2>1, <3>1, SumCongruence
  <2>4. SumFunction(SizesOf(S \ {e})) = SumFunctionOnSet(SizesOf(S \ {e}), S \ {e})
    BY DEF SumFunction, SizesOf
  <2>. QED
    BY <1>1, <1>2, <2>1, <2>2, <2>3, <2>4
<1>. QED
  BY <1>2, <1>3, <1>4, <1>5, Zenon

\* A sweep that ends, or has not begun, has nothing recorded.
LEMMA FoundEnds ==
    ASSUME found' = {}, total' = 0, swalk' = {} \/ sweep' = "walk", victim' = None
    PROVE  FoundInv'
<1>1. IsFiniteSet({}) /\ SumFunction(SizesOf({})) = 0
  BY FS_EmptySet, EntriesAddUp
<1>2. SizesOf(found') = [e \in found' |-> e.size] /\ SizesOf({}) = SizesOf(found')
  BY DEF SizesOf
<1>3. Recorded' = 0
  BY <1>1, <1>2, Zenon DEF Recorded
<1>. QED
  BY <1>1, <1>3 DEF FoundInv

\* What was pending when a sweep begins is what the files being written hold.
LEMMA PendingHolds ==
    ASSUME IInv
    PROVE  /\ Pending \in 0..MaxUse
           /\ \E new \in SUBSET Names :
                 /\ \A c \in Clients : pc[c] = "rename" => tmp[c] \in new
                 /\ SumFunctionOnSet(Bytes, new) <= Pending
<1> DEFINE f == [c \in Renaming |-> Bytes[tmp[c]]]
           new == {tmp[c] : c \in Renaming}
<1>1. \A c \in Renaming : c \in Clients /\ tmp[c] \in Temps /\ tmp[c] \in Names
  BY DEF Renaming, IInv, CallInv, Names
<1>2. IsFiniteSet(Renaming)
  BY ConstantsAssumption, FS_Subset DEF Renaming
<1>3. /\ \A n \in Names : Bytes[n] \in Nat
      /\ \A S \in SUBSET Names : IsFiniteSet(S) /\ SumFunctionOnSet(Bytes, S) \in 0..MaxUse
  BY BytesTyped, Constants, Typed DEF IInv
<1>4. new \in SUBSET Names /\ \A c \in Clients : pc[c] = "rename" => tmp[c] \in new
  BY <1>1 DEF Renaming
<1>5. Pending = SumFunctionOnSet(f, Renaming)
  BY DEF Pending, SumFunction
<1>6. \A c \in Renaming : f[c] \in Nat /\ f[c] = Bytes[tmp[c]]
  BY <1>1, <1>3
<1>7. SumFunctionOnSet(f, Renaming) \in Nat
  <2> HIDE DEF f
  <2>. QED BY <1>2, <1>6, SumNat
<1>8. SumFunctionOnSet(f, Renaming) <= SumFunctionOnSet(Bytes, Names)
  <2> HIDE DEF f
  <2>1. \A c, d \in Renaming : tmp[c] = tmp[d] => c = d
    BY <1>1, Constants DEF IInv, CallInv
  <2>2. \A c \in Renaming : tmp[c] \in Names /\ f[c] <= Bytes[tmp[c]]
    BY <1>1, <1>3, <1>6
  <2>3. IsFiniteSet(Names)
    BY Constants
  <2>. QED
    BY <1>2, <1>3, <1>6, <2>1, <2>2, <2>3, SumInto
<1>9. SumFunctionOnSet(Bytes, new) <= SumFunctionOnSet(f, Renaming)
  <2> DEFINE g == [n \in new |-> CHOOSE c \in Renaming : tmp[c] = n]
  <2>1. \A n \in new : g[n] \in Renaming /\ tmp[g[n]] = n
    OBVIOUS
  <2>2. \A m, n \in new : g[m] = g[n] => m = n
    BY <2>1
  <2>3. IsFiniteSet(new) /\ \A n \in new : Bytes[n] \in Nat
    BY <1>3, <1>4
  <2> HIDE DEF g, new, f
  <2>4. \A n \in new : g[n] \in Renaming /\ Bytes[n] <= f[g[n]]
    BY <1>6, <2>1, <2>3
  <2>. QED
    BY <1>2, <1>6, <2>2, <2>3, <2>4, SumInto
<1>10. Pending \in 0..MaxUse
  <2>1. SumFunctionOnSet(Bytes, Names) \in 0..MaxUse
    BY <1>3
  <2> HIDE DEF f
  <2>. QED BY <1>5, <1>7, <1>8, <2>1, Constants
<1> HIDE DEF f, new
<1>. QED
  BY <1>4, <1>5, <1>9, <1>10

LEMMA StepBeginSweep ==
    ASSUME IInv, BeginSweep
    PROVE  IInv'
<1>1. /\ sweep' = "walk" /\ swalk' = Names /\ lag' = 0 /\ found' = {} /\ total' = 0
      /\ added' = Pending /\ victim' = victim /\ sweep = "idle"
      /\ UNCHANGED <<file, pc, arg, tmp, answer, walk, restarts>>
  BY DEF BeginSweep
<1>2. Quiet
  BY <1>1, Typed, CallsStay DEF IInv
<1>3. victim' = None
  BY <1>1 DEF IInv, FoundInv
<1>4. FoundInv'
  BY <1>1, <1>3, FoundEnds
<1>5. Bytes' = Bytes
  BY <1>1 DEF Bytes
<1>6. PICK new \in SUBSET Names :
         /\ \A c \in Clients : pc[c] = "rename" => tmp[c] \in new
         /\ SumFunctionOnSet(Bytes, new) <= Pending
  BY PendingHolds
<1>7. Fresh(new)'
  <2>1. SumFunctionOnSet(Bytes', new) <= added'
    BY <1>1, <1>5, <1>6, Zenon
  <2>. QED
    BY <1>1, <1>6, <2>1 DEF Fresh
<1>8. SweepInv'
  BY <1>6, <1>7 DEF SweepInv
<1>9. /\ lag' \in 0..MaxLag /\ found' \in SUBSET [name : Names, size : Nat, age : Int]
      /\ total' \in Nat /\ added' \in 0..MaxUse /\ swalk' \in SUBSET Names
      /\ sweep' \in {"idle", "walk", "evict"} /\ victim' \in Names \cup {None}
  BY <1>1, <1>3, PendingHolds, ConstantsAssumption
<1>. QED
  BY <1>1, <1>2, <1>4, <1>8, <1>9, Typed, QuietEnds DEF IInv

LEMMA StepVisit ==
    ASSUME IInv, NEW n \in Names, Visit(n)
    PROVE  IInv'
<1>1. /\ sweep = "walk" /\ victim = None /\ n \in swalk /\ swalk' = swalk \ {n}
      /\ UNCHANGED <<file, pc, arg, tmp, answer, walk, sweep, lag, restarts>>
      /\ added' = added
  BY DEF Visit
<1> DEFINE e == [name |-> n, size |-> Bytes[n], age |-> AgeThen(n)]
<1>2. \/ ~Exists(n) /\ UNCHANGED <<victim, found, total>>
      \/ victim' = n /\ UNCHANGED <<found, total>>
      \/ Exists(n) /\ found' = found \cup {e} /\ total' = total + Bytes[n] /\ victim' = victim
  BY DEF Visit, Bytes
<1>3. Quiet
  BY <1>1, Typed, CallsStay DEF IInv
<1>4. Bytes[n] \in Nat /\ Bytes' = Bytes /\ (~Exists(n) => Bytes[n] = 0)
  BY <1>1, BytesTyped, Constants, Typed DEF IInv, Bytes
<1>5. Exists(n) => e \in Entries
  <2>1. Exists(n) => AgeThen(n) \in Int
    BY ExistsIs, Typed, Constants, ConstantsAssumption DEF IInv, AgeThen
  <2>. QED
    BY <1>4, <2>1 DEF Entries
<1>6. found \subseteq Entries /\ IsFiniteSet(found) /\ total \in Nat /\ swalk \subseteq Names
  BY Typed DEF IInv, FoundInv, Entries
<1>7. /\ IsFiniteSet(found') /\ found' \subseteq Entries /\ total' \in Nat
      /\ \A d \in found' : d.name \notin swalk'
      /\ \A d1, d2 \in found' : d1.name = d2.name => d1 = d2
      /\ SumFunction(SizesOf(found')) <= total'
  <2>1. /\ \A d \in found : d.name \notin swalk
        /\ \A d1, d2 \in found : d1.name = d2.name => d1 = d2
        /\ SumFunction(SizesOf(found)) <= total
    BY DEF IInv, FoundInv, Recorded, SizesOf
  <2>2. CASE UNCHANGED <<found, total>>
    BY <1>1, <1>6, <2>1, <2>2
  <2>3. CASE Exists(n) /\ found' = found \cup {e} /\ total' = total + Bytes[n]
    <3>1. e \in Entries /\ e.name = n /\ e.size = Bytes[n] /\ found' = found \cup {e}
      BY <1>5, <2>3
    <3> HIDE DEF e
    <3>2. e \notin found
      BY <1>1, <2>1, <3>1
    <3>3. PICK S : S = found \cup {e}
      OBVIOUS
    <3>4. IsFiniteSet(S) /\ S \subseteq Entries /\ e \in S /\ S \ {e} = found
      BY <1>6, <3>1, <3>2, <3>3, FS_AddElement
    <3>5. SumFunction(SizesOf(S)) = e.size + SumFunction(SizesOf(S \ {e}))
      BY <3>4, EntriesAddUp
    <3>6. SumFunction(SizesOf(found)) \in Nat
      BY <1>6, EntriesAddUp
    <3>7. SumFunction(SizesOf(S)) = Bytes[n] + SumFunction(SizesOf(found))
      BY <3>1, <3>4, <3>5, Zenon
    <3>8. SumFunction(SizesOf(S)) <= total'
      BY <1>4, <1>6, <2>1, <2>3, <3>6, <3>7
    <3>9. SumFunction(SizesOf(found')) <= total'
      BY <3>1, <3>3, <3>8, Zenon
    <3>10. \A d \in found' : d.name \notin swalk'
      BY <1>1, <2>1, <3>1
    <3>11. \A d1, d2 \in found' : d1.name = d2.name => d1 = d2
      BY <1>1, <2>1, <3>1
    <3>12. total' \in Nat
      BY <1>4, <1>6, <2>3
    <3>. QED
      BY <3>1, <3>3, <3>4, <3>9, <3>10, <3>11, <3>12
  <2>. QED
    BY <1>2, <2>2, <2>3
<1>8. FoundInv'
  BY <1>1, <1>7 DEF FoundInv, Recorded, SizesOf
<1>9. ASSUME NEW m \in Names, Bytes'[m] # 0, Known(m)
      PROVE  Known(m)'
  <2>1. CASE m = n
    <3>1. Exists(n)
      BY <1>4, <1>9, <2>1
    <3>2. victim' = n \/ (e \in found' /\ e.name = n /\ e.size = Bytes'[n])
      BY <1>2, <1>4, <3>1
    <3> HIDE DEF e
    <3>. QED
      BY <2>1, <3>2 DEF Known
  <2>2. CASE m # n
    <3>1. m \in swalk \/ \E d \in found : d.name = m /\ d.size = Bytes[m]
      BY <1>1, <1>9, Constants DEF Known
    <3>2. found \subseteq found'
      BY <1>2
    <3>. QED
      BY <1>1, <1>4, <2>2, <3>1, <3>2 DEF Known
  <2>. QED
    BY <2>1, <2>2
<1>10. SweepInv'
  BY <1>1, <1>3, <1>9, QuietStep, StillExplained DEF Quiet
<1>11. /\ victim' \in Names \cup {None} /\ found' \in SUBSET [name : Names, size : Nat, age : Int]
       /\ swalk' \in SUBSET Names /\ added' \in 0..MaxUse
  BY <1>1, <1>2, <1>6, <1>7, Typed DEF IInv, Entries
<1>. QED
  BY <1>1, <1>3, <1>7, <1>8, <1>10, <1>11, Typed, QuietEnds DEF IInv

LEMMA StepRemoveVictim ==
    ASSUME IInv, RemoveVictim
    PROVE  IInv'
<1>1. PICK v \in Names : v = victim
  BY Typed DEF RemoveVictim, IInv
<1>2. /\ file' = Without(v) /\ victim' = None /\ added' = added
      /\ UNCHANGED <<pc, arg, tmp, answer, walk, sweep, swalk, lag, found, total, restarts>>
  BY <1>1 DEF RemoveVictim
<1>3. sweep = "walk"
  BY DEF RemoveVictim, IInv, FoundInv
<1>4. Quiet
  BY <1>2, Removes, CallsStay
<1>5. FoundInv'
  BY <1>2, <1>3 DEF IInv, FoundInv, Recorded
<1>6. Bytes'[v] = 0 /\ \A n \in Names : n # v => Bytes'[n] = Bytes[n]
  <2>1. file'[v].is = NoTile /\ \A n \in Names : n # v => file'[n] = file[n]
    BY <1>2, Removes DEF Absent
  <2>. QED
    BY <2>1, Lengths DEF Bytes
<1>7. \A n \in Names : Bytes'[n] # 0 /\ Known(n) => Known(n)'
  BY <1>1, <1>2, <1>6 DEF Known
<1>8. SweepInv'
  BY <1>2, <1>3, <1>4, <1>7, QuietStep, StillExplained DEF Quiet
<1>9. victim' \in Names \cup {None}
  BY <1>2
<1>. QED
  BY <1>2, <1>4, <1>5, <1>8, <1>9, Typed, QuietEnds DEF IInv

\* The sweep is over.
LEMMA SweepEnds ==
    ASSUME IInv, SweepDone, swalk = {}, victim = None,
           UNCHANGED <<file, pc, arg, tmp, answer, walk, restarts>>
    PROVE  IInv'
<1>1. /\ sweep' = "idle" /\ lag' = 0 /\ found' = {} /\ total' = 0 /\ added' = 0
      /\ swalk' = {} /\ victim' = None
  BY DEF SweepDone
<1>2. Quiet
  BY Typed, CallsStay DEF IInv
<1>3. FoundInv' /\ SweepInv'
  BY <1>1, FoundEnds DEF SweepInv
<1>4. lag' \in 0..MaxLag /\ added' \in 0..MaxUse
  BY <1>1, Constants, ConstantsAssumption
<1>. QED
  BY <1>1, <1>2, <1>3, <1>4, Typed, QuietEnds DEF IInv

LEMMA StepDecide ==
    ASSUME IInv, Decide
    PROVE  IInv'
<1>1. /\ sweep = "walk" /\ swalk = {} /\ victim = None
      /\ UNCHANGED <<file, pc, arg, tmp, answer, walk, restarts>>
  BY DEF Decide, Walked
<1>2. CASE SweepDone
  BY <1>1, <1>2, SweepEnds
<1>3. CASE ~SweepDone
  <2>1. sweep' = "evict" /\ UNCHANGED <<swalk, lag, found, total, victim>> /\ added' = added
    BY <1>3 DEF Decide
  <2>2. Quiet
    BY <1>1, Typed, CallsStay DEF IInv
  <2>3. FoundInv'
    BY <1>1, <2>1 DEF IInv, FoundInv, Recorded
  <2>4. Bytes' = Bytes
    BY <1>1 DEF Bytes
  <2>5. \A n \in Names : Known(n) => Known(n)'
    BY <2>1, <2>4 DEF Known
  <2>6. SweepInv'
    BY <1>1, <2>1, <2>2, <2>5, QuietStep, StillExplained DEF Quiet
  <2>. QED
    BY <1>1, <2>1, <2>2, <2>3, <2>6, Typed, QuietEnds DEF IInv
<1>. QED
  BY <1>2, <1>3

LEMMA StepEndSweep ==
    ASSUME IInv, EndSweep
    PROVE  IInv'
<1>1. swalk = {} /\ victim = None
  BY DEF EndSweep, IInv, FoundInv
<1>. QED
  BY <1>1, SweepEnds DEF EndSweep

LEMMA StepEvictOldest ==
    ASSUME IInv, NEW e \in found, EvictOldest(e)
    PROVE  IInv'
<1>1. /\ sweep = "evict" /\ found' = found \ {e} /\ file' = Without(e.name)
      /\ total' = IF Exists(e.name) THEN total - e.size ELSE total
      /\ UNCHANGED <<pc, arg, tmp, answer, walk, sweep, swalk, lag, victim, restarts>>
      /\ added' = added
  BY DEF EvictOldest
<1>2. found \subseteq Entries /\ IsFiniteSet(found) /\ total \in Nat
  BY Typed DEF IInv, FoundInv, Entries
<1>3. PICK v \in Names : v = e.name
  BY <1>2 DEF Entries
<1>4. Quiet
  BY <1>1, <1>3, Removes, CallsStay
<1>5. /\ IsFiniteSet(found') /\ found' \subseteq Entries /\ total' \in Nat
      /\ SumFunction(SizesOf(found')) <= total'
  <2>1. SumFunction(SizesOf(found)) <= total
    BY DEF IInv, FoundInv, Recorded, SizesOf
  <2>2. PICK S : S = found \ {e}
    OBVIOUS
  <2>3. IsFiniteSet(S) /\ S \subseteq Entries /\ e.size \in Nat
    BY <1>2, <2>2, FS_Subset DEF Entries
  <2>4. SumFunction(SizesOf(S)) \in Nat
    BY <2>3, EntriesAddUp
  <2>5. SumFunction(SizesOf(found)) = e.size + SumFunction(SizesOf(S))
    BY <1>2, <2>2, EntriesAddUp, Zenon
  <2>6. SumFunction(SizesOf(S)) <= total' /\ total' \in Nat
    BY <1>1, <1>2, <2>1, <2>3, <2>4, <2>5
  <2>7. SumFunction(SizesOf(found')) <= total'
    BY <1>1, <2>2, <2>6, Zenon
  <2>. QED
    BY <1>1, <2>2, <2>3, <2>6, <2>7
<1>6. FoundInv'
  <2>1. /\ \A d \in found : d.name \notin swalk
        /\ \A d1, d2 \in found : d1.name = d2.name => d1 = d2
        /\ swalk = {} /\ victim = None
    BY <1>1 DEF IInv, FoundInv
  <2>. QED
    BY <1>1, <1>5, <2>1 DEF FoundInv, Recorded, SizesOf
<1>7. Bytes'[v] = 0 /\ \A n \in Names : n # v => Bytes'[n] = Bytes[n]
  <2>1. file'[v].is = NoTile /\ \A n \in Names : n # v => file'[n] = file[n]
    BY <1>1, <1>3, Removes DEF Absent
  <2>. QED
    BY <2>1, Lengths DEF Bytes
<1>8. \A n \in Names : Bytes'[n] # 0 /\ Known(n) => Known(n)'
  BY <1>1, <1>3, <1>7 DEF Known
<1>9. SweepInv'
  BY <1>1, <1>4, <1>8, QuietStep, StillExplained DEF Quiet
<1>10. found' \in SUBSET [name : Names, size : Nat, age : Int]
  BY <1>5 DEF Entries
<1>. QED
  BY <1>1, <1>4, <1>5, <1>6, <1>9, <1>10, Typed, QuietEnds DEF IInv

LEMMA StepRestart ==
    ASSUME IInv, Restart
    PROVE  IInv'
<1>1. /\ restarts < MaxRestarts /\ restarts' = restarts + 1 /\ walk' = {}
      /\ pc' = [c \in Clients |-> "idle"] /\ arg' = [c \in Clients |-> NoTile]
      /\ tmp' = [c \in Clients |-> None] /\ UNCHANGED <<file, answer>>
      /\ sweep' = "idle" /\ swalk' = {} /\ lag' = 0 /\ found' = {} /\ total' = 0
      /\ victim' = None /\ added' = 0
  BY DEF Restart
<1>2. Quiet
  BY <1>1, Typed DEF IInv, Quiet, Calls
<1>3. FoundInv' /\ SweepInv'
  BY <1>1, FoundEnds DEF SweepInv
<1>4. lag' \in 0..MaxLag /\ added' \in 0..MaxUse /\ restarts' \in 0..MaxRestarts
  BY <1>1, Constants, ConstantsAssumption, Typed DEF IInv
<1>. QED
  BY <1>1, <1>2, <1>3, <1>4, Typed, QuietEnds DEF IInv

-----------------------------------------------------------------------------
(* The invariant.                                                          *)

LEMMA InitEstablishes ==
    ASSUME Init
    PROVE  IInv
<1>1. /\ file = [n \in Names |-> Absent] /\ pc = [c \in Clients |-> "idle"]
      /\ arg = [c \in Clients |-> NoTile] /\ tmp = [c \in Clients |-> None]
      /\ answer = [key |-> NoTile, tile |-> NoTile] /\ walk = {} /\ sweep = "idle"
      /\ swalk = {} /\ lag = 0 /\ found = {} /\ total = 0 /\ victim = None
      /\ restarts = 0 /\ added = 0
  BY DEF Init, Idle
<1>2. \A n \in Names : ~Exists(n)
  BY <1>1 DEF Exists
<1>3. TypeOK
  <2>1. /\ file \in [Names -> [is : Content, age : 0..MaxAge] \cup {Absent}]
        /\ pc \in [Clients -> {"idle", "drop", "read", "write", "rename"}]
        /\ arg \in [Clients -> Tile \cup {NoTile}]
        /\ tmp \in [Clients -> Temps \cup {None}]
        /\ answer \in [key : Keys \cup {NoTile}, tile : Content \cup {NoTile}]
    BY <1>1
  <2>2. \A k \in Keys : Exists(k) => file[k].is \in Tile
    BY <1>2 DEF Names
  <2>3. /\ walk \in SUBSET Names /\ sweep \in {"idle", "walk", "evict"} /\ swalk \in SUBSET Names
        /\ lag \in 0..MaxLag /\ found \in SUBSET [name : Names, size : Nat, age : Int]
        /\ total \in Nat /\ victim \in Names \cup {None} /\ restarts \in 0..MaxRestarts
        /\ added \in 0..MaxUse
    BY <1>1, Constants, ConstantsAssumption
  <2>. QED
    BY <2>1, <2>2, <2>3 DEF TypeOK
<1>4. CallInv
  BY <1>1, Constants DEF CallInv
<1>5. KeyInv /\ SweepInv
  BY <1>1, <1>2 DEF KeyInv, SweepInv, Names
<1>6. FoundInv
  <2>1. IsFiniteSet({}) /\ SumFunction(SizesOf({})) = 0
    BY FS_EmptySet, EntriesAddUp
  <2>2. Recorded = SumFunction(SizesOf(found)) /\ SizesOf(found) = SizesOf({})
    BY <1>1, Zenon DEF Recorded, SizesOf
  <2>3. Recorded = 0
    BY <2>1, <2>2, Zenon
  <2>. QED
    BY <1>1, <2>1, <2>3 DEF FoundInv
<1>. QED
  BY <1>3, <1>4, <1>5, <1>6 DEF IInv

LEMMA Stuttering ==
    ASSUME IInv, UNCHANGED vars
    PROVE  IInv'
<1>1. /\ UNCHANGED <<file, pc, arg, tmp, answer, walk, lag, restarts>>
      /\ UNCHANGED <<sweep, swalk, found, total, victim, added>>
  BY DEF vars, janitor
<1>2. Quiet
  BY <1>1, Typed, CallsStay DEF IInv
<1>. QED
  BY <1>1, <1>2, Typed, QuietOutside DEF IInv

\* The invariant holds whatever writers, lookups, failures, purges, sweeps and crashes
\* do to the directory, disk.go:77-255.
THEOREM Inductive == Spec => []IInv
<1>1. Init => IInv
  BY InitEstablishes
<1>2. IInv /\ [Next]_vars => IInv'
  <2> SUFFICES ASSUME IInv, [Next]_vars PROVE IInv'
    OBVIOUS
  <2>1. CASE UNCHANGED vars
    BY <2>1, Stuttering
  <2>2. ASSUME NEW c \in Clients, Client(c)
        PROVE  IInv'
    BY <2>2, StepStat, StepLookup, StepCreateTemp, StepWrite, StepSetFails, StepRename DEF Client
  <2>3. CASE BeginPurge \/ \E n \in Names : PurgeOne(n)
    BY <2>3, StepPurge
  <2>4. CASE Sweep
    BY <2>4, StepBeginSweep, StepRemoveVictim, StepDecide, StepEndSweep, StepVisit,
       StepEvictOldest DEF Sweep
  <2>5. CASE Tick \/ Restart
    BY <2>5, StepTick, StepRestart
  <2>. QED
    BY <2>1, <2>2, <2>3, <2>4, <2>5 DEF Next
<1>. QED
  BY <1>1, <1>2, PTL DEF Spec

\* A file under a tile's name is a whole tile, and every variable keeps its type.
THEOREM TypeCorrect == Spec => []TypeOK
<1>1. IInv => TypeOK
  BY DEF IInv
<1>. QED
  BY <1>1, Inductive, PTL

-----------------------------------------------------------------------------
(* The directory implements a TileStore.                                   *)

Tiles(files) == [k \in Keys |-> files[k].is]

\* A step that leaves the tiles alone, and one that removes a file.
LEMMA NothingForgotten ==
    ASSUME \A k \in Keys : file'[k] = file[k]
    PROVE  Tiles(file') = Tiles(file)
BY DEF Tiles

LEMMA OneForgotten ==
    ASSUME IInv, NEW n \in Names, file' = Without(n), answer' = answer
    PROVE  Store!Next \/ UNCHANGED <<Tiles(file), answer>>
<1>1. CASE n \in Keys
  <2>1. Tiles(file') = [k \in Keys |-> IF k \in {n} THEN NoTile ELSE Tiles(file)[k]]
    <3>1. \A k \in Keys : k \in Names
      BY DEF Names
    <3>. QED
      BY <3>1, Removes DEF Tiles, Absent
  <2>2. {n} \in SUBSET Keys
    BY <1>1
  <2>. QED
    BY <2>1, <2>2 DEF Store!Next, Store!Forget, Tiles
<1>2. CASE n \notin Keys
  <2>1. \A k \in Keys : file'[k] = file[k]
    BY <1>2, Removes DEF Names
  <2>2. Tiles(file') = Tiles(file)
    BY <2>1, NothingForgotten
  <2>. QED
    BY <2>2
<1>. QED
  BY <1>1, <1>2

LEMMA StoreInit ==
    ASSUME Init
    PROVE  Store!Init
BY DEF Init, Store!Init, Absent, Names

\* A lookup reads one file, which is a tile of the key asked for or nothing.
LEMMA StoreLookup ==
    ASSUME IInv, NEW c \in Clients, NEW k \in Keys, Stat(c, k) \/ DropExpired(c) \/ ReadFile(c)
    PROVE  Store!Next \/ UNCHANGED <<Tiles(file), answer>>
<1>1. CASE Stat(c, k)
  <2>1. file' = file /\ (answer' = answer \/ answer' = [key |-> k, tile |-> NoTile])
    BY <1>1 DEF Stat, Answer
  <2>2. Tiles(file') = Tiles(file)
    BY <2>1
  <2>3. CASE answer' = answer
    BY <2>2, <2>3
  <2>4. CASE answer' = [key |-> k, tile |-> NoTile]
    <3>1. Store!Look(k)
      BY <2>2, <2>4 DEF Store!Look, Tiles
    <3>. QED
      BY <3>1 DEF Store!Next
  <2>. QED
    BY <2>1, <2>3, <2>4
<1>2. CASE DropExpired(c)
  <2>1. PICK x \in Keys : x = arg[c].key
    BY <1>2 DEF DropExpired, IInv, CallInv, Tile
  <2>2. file' = Without(x) /\ answer' = [key |-> x, tile |-> NoTile]
    BY <1>2, <2>1 DEF DropExpired, Answer
  <2>3. Tiles(file') = [Tiles(file) EXCEPT ![x] = NoTile]
    <3>1. Keys \subseteq Names
      BY DEF Names
    <3>2. file'[x].is = NoTile /\ \A m \in Keys : m # x => file'[m].is = file[m].is
      BY <2>2, <3>1, Removes DEF Absent
    <3>. QED
      BY <3>2 DEF Tiles
  <2>4. Store!Look(x)
    BY <2>2, <2>3 DEF Store!Look, Tiles
  <2>. QED
    BY <2>4 DEF Store!Next
<1>3. CASE ReadFile(c)
  <2>1. PICK x \in Keys : x = arg[c].key
    BY <1>3 DEF ReadFile, IInv, CallInv, Tile
  <2>2. file' = file /\ answer' = [key |-> x, tile |-> file[x].is]
    BY <1>3, <2>1 DEF ReadFile, Answer
  <2>3. Tiles(file') = Tiles(file) /\ answer' = [key |-> x, tile |-> Tiles(file)[x]]
    BY <2>2 DEF Tiles
  <2>4. Store!Look(x)
    BY <2>3 DEF Store!Look, Tiles
  <2>. QED
    BY <2>4 DEF Store!Next
<1>. QED
  BY <1>1, <1>2, <1>3

\* Only a rename changes what is found under a key, to the tile that was written for it.
LEMMA StoreWriter ==
    ASSUME IInv, NEW c \in Clients,
           (\E t \in Tile : CreateTemp(c, t)) \/ Write(c) \/ SetFails(c) \/ Rename(c)
    PROVE  Store!Next \/ UNCHANGED <<Tiles(file), answer>>
<1>0. /\ \A n \in Temps : n \notin Keys
      /\ Keys \subseteq Names /\ Temps \subseteq Names
  BY ConstantsAssumption DEF Names
<1>1. CASE \E t \in Tile : CreateTemp(c, t)
  <2>1. PICK n \in Temps : file' = [file EXCEPT ![n] = [is |-> Torn, age |-> 0]] /\ answer' = answer
    BY <1>1 DEF CreateTemp
  <2>2. \A k \in Keys : file'[k] = file[k]
    BY <1>0, <2>1, Typed DEF IInv
  <2>. QED
    BY <2>1, <2>2, NothingForgotten
<1>2. CASE Write(c)
  <2>1. tmp[c] \in Temps
    BY <1>2 DEF Write, IInv, CallInv
  <2>2. \A k \in Keys : file'[k] = file[k]
    BY <1>0, <1>2, <2>1, Typed DEF IInv, Write
  <2>3. answer' = answer
    BY <1>2 DEF Write
  <2>. QED
    BY <2>2, <2>3, NothingForgotten
<1>3. CASE SetFails(c)
  <2>1. PICK n \in Temps : n = tmp[c]
    BY <1>3 DEF SetFails, IInv, CallInv
  <2>2. file' = Without(n) /\ answer' = answer /\ n \in Names
    BY <1>0, <1>3, <2>1 DEF SetFails
  <2>. QED
    BY <2>2, OneForgotten
<1>4. CASE Rename(c)
  <2>1. PICK t \in Temps : t = tmp[c]
    BY <1>4 DEF Rename, IInv, CallInv
  <2>2. PICK k \in Keys : k = arg[c].key /\ arg[c] \in Tile
    BY <1>4 DEF Rename, IInv, CallInv, Tile
  <2>3. /\ file' = IF Exists(t) THEN [file EXCEPT ![k] = file[t], ![t] = Absent] ELSE file
        /\ answer' = answer /\ pc[c] = "rename"
    BY <1>4, <2>1, <2>2 DEF Rename
  <2>4. CASE ~Exists(t)
    BY <2>3, <2>4
  <2>5. CASE Exists(t)
    <3>1. file[t].is = arg[c]
      BY <2>1, <2>3, <2>5 DEF IInv, CallInv
    <3>2. file' = [file EXCEPT ![k] = file[t], ![t] = Absent]
      BY <2>3, <2>5
    <3>3. file'[k] = file[t] /\ \A x \in Keys : x # k => file'[x] = file[x]
      BY <1>0, <3>2, Typed DEF IInv
    <3>4. Tiles(file') = [Tiles(file) EXCEPT ![k] = arg[c]]
      BY <3>1, <3>3 DEF Tiles
    <3>5. arg[c] \in Store!Tile /\ arg[c].key = k
      BY <2>2 DEF Store!Tile, Tile
    <3>6. Store!Put(k)
      BY <2>3, <3>4, <3>5 DEF Store!Put, Tiles
    <3>. QED
      BY <3>6 DEF Store!Next
  <2>. QED
    BY <2>4, <2>5
<1>. QED
  BY <1>1, <1>2, <1>3, <1>4

\* Walks, sweeps, time and crashes make the store forget, or change nothing in it.
LEMMA StoreRest ==
    ASSUME IInv, \/ BeginPurge \/ (\E n \in Names : PurgeOne(n)) \/ Sweep
                 \/ Tick \/ Restart \/ UNCHANGED vars
    PROVE  Store!Next \/ UNCHANGED <<Tiles(file), answer>>
<1>1. CASE file' = file /\ answer' = answer
  BY <1>1
<1>2. ASSUME NEW n \in Names, PurgeOne(n)
      PROVE  Store!Next \/ UNCHANGED <<Tiles(file), answer>>
  BY <1>2, OneForgotten DEF PurgeOne
<1>3. CASE RemoveVictim
  <2>1. victim \in Names
    BY <1>3, Typed DEF RemoveVictim, IInv
  <2>. QED
    BY <1>3, <2>1, OneForgotten DEF RemoveVictim
<1>4. ASSUME NEW e \in found, EvictOldest(e)
      PROVE  Store!Next \/ UNCHANGED <<Tiles(file), answer>>
  <2>1. e.name \in Names
    BY Typed DEF IInv
  <2>. QED
    BY <1>4, <2>1, OneForgotten DEF EvictOldest
<1>5. CASE Tick
  <2>1. \A k \in Keys : file'[k].is = file[k].is
    <3> SUFFICES ASSUME NEW k \in Keys PROVE file'[k].is = file[k].is
      OBVIOUS
    <3>1. k \in Names
      BY DEF Names
    <3>2. CASE Exists(k)
      <4>1. file[k] \in [is : Content, age : 0..MaxAge]
        BY <3>1, <3>2, Typed DEF IInv, Files, Exists
      <4>. QED
        BY <1>5, <3>1, <3>2, <4>1 DEF Tick
    <3>3. CASE ~Exists(k)
      BY <1>5, <3>1, <3>3 DEF Tick, Exists
    <3>. QED
      BY <3>2, <3>3
  <2>2. Tiles(file') = Tiles(file)
    BY <2>1 DEF Tiles
  <2>. QED
    BY <1>5, <2>2 DEF Tick
<1>6. \/ file' = file /\ answer' = answer
      \/ \E n \in Names : PurgeOne(n)
      \/ RemoveVictim \/ Tick \/ \E e \in found : EvictOldest(e)
  BY DEF BeginPurge, Sweep, BeginSweep, Decide, EndSweep, Visit, Restart, vars
<1>. QED
  BY <1>1, <1>2, <1>3, <1>4, <1>5, <1>6

\* The disk tier is a TileStore: a lookup returns a whole tile that was stored under its
\* key, or nothing, disk.go:77-136.
THEOREM StoreImplemented == Spec => ImplementsStore
<1>1. Init => Store!Init
  BY StoreInit
<1>2. IInv /\ [Next]_vars => [Store!Next]_<<Tiles(file), answer>>
  <2> SUFFICES ASSUME IInv, [Next]_vars
               PROVE  Store!Next \/ UNCHANGED <<Tiles(file), answer>>
    OBVIOUS
  <2>1. ASSUME NEW c \in Clients, Client(c)
        PROVE  Store!Next \/ UNCHANGED <<Tiles(file), answer>>
    <3>1. CASE \E k \in Keys : Stat(c, k)
      BY <3>1, StoreLookup
    <3>2. CASE DropExpired(c) \/ ReadFile(c)
      <4>1. arg[c].key \in Keys
        BY <3>2 DEF DropExpired, ReadFile, IInv, CallInv, Tile
      <4>. QED
        BY <3>2, <4>1, StoreLookup
    <3>3. CASE (\E t \in Tile : CreateTemp(c, t)) \/ Write(c) \/ SetFails(c) \/ Rename(c)
      BY <3>3, StoreWriter
    <3>. QED
      BY <2>1, <3>1, <3>2, <3>3 DEF Client
  <2>2. CASE \/ BeginPurge \/ (\E n \in Names : PurgeOne(n)) \/ Sweep
             \/ Tick \/ Restart \/ UNCHANGED vars
    BY <2>2, StoreRest
  <2>. QED
    BY <2>1, <2>2 DEF Next
<1>. QED
  BY <1>1, <1>2, Inductive, PTL DEF Spec, ImplementsStore, Store!Spec, Tiles

-----------------------------------------------------------------------------
(* What a sweep leaves behind.                                             *)

\* When everything has been met and removed, the files are those recorded and fresh ones.
LEMMA AllExplained ==
    ASSUME IInv, sweep # "idle", swalk = {}, victim = None
    PROVE  /\ DiskUse \in Nat /\ added \in Nat /\ total \in Nat
           /\ DiskUse <= total + added
           /\ found = {} => DiskUse <= added
<1>1. PICK new \in SUBSET Names : Fresh(new)
  BY DEF IInv, SweepInv
<1> DEFINE old == Names \ new
           sizes == SizesOf(found)
           g == [n \in old |-> CHOOSE e \in found : e.name = n /\ e.size = Bytes[n]]
<1>2. /\ \A n \in Names : Bytes[n] \in Nat
      /\ \A S \in SUBSET Names : IsFiniteSet(S) /\ SumFunctionOnSet(Bytes, S) \in Nat
  BY BytesTyped, Constants, Typed DEF IInv
<1>3. DiskUse = SumFunctionOnSet(Bytes, Names)
  BY DEF DiskUse, SumFunction, Bytes
<1>4. DiskUse = SumFunctionOnSet(Bytes, new) + SumFunctionOnSet(Bytes, old)
  <2>1. SumFunctionOnSet(Bytes, Names) = SumFunctionOnSet(Bytes, new) + SumFunctionOnSet(Bytes, old)
    BY <1>2, Constants, SumDisjoint
  <2>. QED
    BY <1>3, <2>1, Zenon
<1>5. found \subseteq Entries /\ IsFiniteSet(found)
  BY Typed DEF IInv, FoundInv, Entries
<1>6. SumFunctionOnSet(Bytes, old) <= SumFunctionOnSet(sizes, found)
  <2>1. \A n \in old : Bytes[n] # 0 => g[n] \in found /\ g[n].name = n /\ g[n].size = Bytes[n]
    <3> SUFFICES ASSUME NEW n \in old, Bytes[n] # 0
                 PROVE  g[n] \in found /\ g[n].name = n /\ g[n].size = Bytes[n]
      OBVIOUS
    <3>1. \E e \in found : e.name = n /\ e.size = Bytes[n]
      BY <1>1, Constants DEF Fresh
    <3>. QED
      BY <3>1
  <2>2. \A e \in found : sizes[e] = e.size /\ sizes[e] \in Nat
    BY <1>5 DEF SizesOf, Entries
  <2>3. IsFiniteSet(old) /\ \A n \in old : Bytes[n] \in Nat
    BY <1>2
  <2> HIDE DEF g, sizes, old
  <2>4. \A n \in old : Bytes[n] # 0 => g[n] \in found /\ Bytes[n] <= sizes[g[n]]
    BY <2>1, <2>2, <2>3
  <2>5. \A m, n \in old : Bytes[m] # 0 /\ Bytes[n] # 0 /\ g[m] = g[n] => m = n
    BY <2>1
  <2>. QED
    BY <1>5, <2>2, <2>3, <2>4, <2>5, SumInto
<1>7. /\ SumFunctionOnSet(sizes, found) \in Nat /\ SumFunctionOnSet(sizes, found) <= total
      /\ found = {} => SumFunctionOnSet(sizes, found) = 0
  <2>1. /\ SumFunction(sizes) = SumFunctionOnSet(sizes, found) /\ SumFunction(sizes) \in Nat
        /\ found = {} => SumFunction(sizes) = 0
    BY <1>5, EntriesAddUp
  <2>2. SumFunction(sizes) <= total
    BY DEF IInv, FoundInv, Recorded, SizesOf
  <2> HIDE DEF sizes
  <2>. QED
    BY <2>1, <2>2
<1>8. SumFunctionOnSet(Bytes, new) <= added /\ SumFunctionOnSet(Bytes, new) \in Nat
  BY <1>1, <1>2 DEF Fresh
<1>9. SumFunctionOnSet(Bytes, old) \in Nat /\ DiskUse \in Nat
  BY <1>2, <1>3
<1>10. total \in Nat /\ added \in Nat
  BY Typed, Constants DEF IInv
<1>. QED
  <2> HIDE DEF old, sizes, g
  <2>. QED BY <1>4, <1>6, <1>7, <1>8, <1>9, <1>10

\* A sweep ends, but for a crash, when it decides that nothing or no more has to go.
LEMMA OnlyTheEnd ==
    ASSUME [Next]_vars, sweep # "idle", sweep' = "idle", restarts' = restarts, IInv
    PROVE  /\ file' = file
           /\ \/ Walked /\ (MaxBytes = 0 \/ total <= MaxBytes)
              \/ sweep = "evict" /\ (total <= Target \/ found = {})
<1>1. sweep' # sweep
  OBVIOUS
<1>2. ~Restart
  BY Typed DEF Restart, IInv
<1>3. \A c \in Clients : ~Client(c)
  BY <1>1 DEF Client, Stat, DropExpired, ReadFile, CreateTemp, Write, SetFails, Rename, janitor
<1>4. ~BeginPurge /\ ~(\E n \in Names : PurgeOne(n)) /\ ~Tick /\ ~UNCHANGED vars
  BY <1>1 DEF BeginPurge, PurgeOne, Tick, vars, janitor
<1>5. Decide \/ EndSweep
  BY <1>1, <1>2, <1>3, <1>4 DEF Next, Sweep, BeginSweep, RemoveVictim, Visit, EvictOldest
<1>. QED
  BY <1>5 DEF Decide, EndSweep

\* A sweep that a crash does not cut short leaves no more than the limit, or the watermark
\* if it had to evict, and what was written meanwhile, disk.go:214-255.
THEOREM SweepsBounded == Spec => SweepBounds
<1> DEFINE A == MaxBytes > 0 /\ sweep # "idle" /\ sweep' = "idle" /\ restarts' = restarts
                => /\ DiskUse' <= MaxBytes + added
                   /\ sweep = "evict" => DiskUse' <= Target + added
<1>1. IInv /\ [Next]_vars => [A]_vars
  <2> SUFFICES ASSUME IInv, [Next]_vars, MaxBytes > 0, sweep # "idle", sweep' = "idle",
                      restarts' = restarts
               PROVE  /\ DiskUse' <= MaxBytes + added
                      /\ sweep = "evict" => DiskUse' <= Target + added
    OBVIOUS
  <2>1. DiskUse' = DiskUse
    <3>1. file' = file
      BY OnlyTheEnd
    <3>. QED
      BY <3>1 DEF DiskUse, Bytes
  <2>2. swalk = {} /\ victim = None
    BY OnlyTheEnd DEF Walked, IInv, FoundInv
  <2>3. /\ DiskUse \in Nat /\ added \in Nat /\ total \in Nat /\ DiskUse <= total + added
        /\ found = {} => DiskUse <= added
    BY <2>2, AllExplained
  <2>4. Target \in Nat /\ Target <= MaxBytes /\ MaxBytes \in Nat
    BY Constants, ConstantsAssumption
  <2>5. CASE Walked /\ (MaxBytes = 0 \/ total <= MaxBytes)
    BY <2>1, <2>3, <2>4, <2>5 DEF Walked
  <2>6. CASE sweep = "evict" /\ (total <= Target \/ found = {})
    BY <2>1, <2>3, <2>4, <2>6
  <2>. QED
    BY <2>5, <2>6, OnlyTheEnd
<1>. QED
  BY <1>1, Inductive, PTL DEF Spec, SweepBounds
=============================================================================
