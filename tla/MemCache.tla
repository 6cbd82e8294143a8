------------------------------ MODULE MemCache ------------------------------
(***************************************************************************)
(* The in-memory tier of the tile cache (internal/cache/cache.go): an LRU  *)
(* list with a map over it, a time to live per entry, and counters that    *)
(* are read without the lock.                                              *)
(*                                                                         *)
(* Every method runs under c.mu, so it is one step, with two exceptions:   *)
(* Set inserts before it evicts, keeping the lock, and Stats takes the     *)
(* lock only for Len.  Those are the steps somebody else can see between.  *)
(***************************************************************************)
EXTENDS Integers, SequencesExt

CONSTANTS
    Keys, Revs, NoTile,   \* as in TileStore
    Size,         \* length of a tile of each revision
    MaxEntries,   \* capacity (a cache of no capacity is not built, see NewTiered)
    TTL,          \* time to live; 0 means forever
    Scraped,      \* whether statistics are asked for meanwhile
    MaxCount      \* bound: lookups, and evictions, that are counted

Tile    == [key : Keys, rev : Revs]

ASSUME ConstantsAssumption ==
    /\ NoTile \notin Tile
    /\ IsFiniteSet(Revs) /\ Size \in [Revs -> Nat]
    /\ MaxEntries \in Nat \ {0}
    /\ TTL \in Nat
    /\ Scraped \in BOOLEAN
    /\ MaxCount \in Nat

Entry   == [tile : Tile, age : 0..(TTL + 1)]
NoEntry == [tile |-> NoTile, age |-> 0]

VARIABLES
    items,      \* c.items: the entry of each key, NoEntry if none
    ll,         \* c.ll: the keys, most recently used first
    evicting,   \* Set has inserted and still holds c.mu
    bytes, hits, misses, evictions,   \* the atomic counters
    answer,     \* the last lookup and what it returned
    bytesNext,  \* Stats has read Len and not yet the bytes
    report,     \* what Stats has read
    recent,     \* history: keys by last use since the last purge, latest first
    lapsed      \* history: keys dropped as expired since their last use

counters == <<bytes, hits, misses, evictions>>
history  == <<recent, lapsed>>
vars == <<items, ll, evicting, counters, answer, bytesNext, report, history>>

Present == {k \in Keys : items[k] # NoEntry}
Expired(e) == TTL > 0 /\ e.age > TTL
\* A list with k removed; with k moved, or put, to its front.
Without(list, k) ==
    IF k \in ToSet(list) THEN RemoveAt(list, CHOOSE i \in 1..Len(list) : list[i] = k) ELSE list
ToFront(list, k) == <<k>> \o Without(list, k)

TypeOK ==
    /\ items \in [Keys -> Entry \cup {NoEntry}]
    /\ ll \in Seq(Keys)
    /\ evicting \in BOOLEAN
    /\ bytes \in Nat /\ hits \in Nat /\ misses \in Nat /\ evictions \in Nat
    /\ answer \in [key : Keys \cup {NoTile}, tile : Tile \cup {NoTile}]
    /\ bytesNext \in BOOLEAN
    /\ report \in [entries : Nat, bytes : Nat]
    /\ recent \in Seq(Keys) /\ lapsed \in SUBSET Keys

Init ==
    /\ items = [k \in Keys |-> NoEntry]
    /\ ll = <<>>
    /\ evicting = FALSE
    /\ bytes = 0 /\ hits = 0 /\ misses = 0 /\ evictions = 0
    /\ answer = [key |-> NoTile, tile |-> NoTile]
    /\ bytesNext = FALSE /\ report = [entries |-> 0, bytes |-> 0]
    /\ recent = <<>> /\ lapsed = {}

-----------------------------------------------------------------------------
(* Get.                                                                    *)

\* k is used: history only.
Used(k) == recent' = ToFront(recent, k) /\ lapsed' = lapsed \ {k}

Counted == ~evicting /\ hits + misses < MaxCount

GetMiss(k) ==
    /\ Counted /\ k \notin Present
    /\ misses' = misses + 1
    /\ answer' = [key |-> k, tile |-> NoTile]
    /\ UNCHANGED <<items, ll, evicting, bytes, hits, evictions, bytesNext, report, history>>

\* Mutant: the bytes of an expired entry stay in the count.
GetExpiredUncounted(k) ==
    /\ Counted /\ k \in Present /\ Expired(items[k])
    /\ ll' = Without(ll, k)
    /\ items' = [items EXCEPT ![k] = NoEntry]
    /\ misses' = misses + 1
    /\ answer' = [key |-> k, tile |-> NoTile]
    /\ lapsed' = lapsed \cup {k}
    /\ UNCHANGED <<evicting, bytes, hits, evictions, bytesNext, report, recent>>

\* An expired entry is dropped by the lookup that meets it.
GetExpired(k) ==
    /\ Counted /\ k \in Present /\ Expired(items[k])
    /\ ll' = Without(ll, k)
    /\ items' = [items EXCEPT ![k] = NoEntry]
    /\ bytes' = bytes - Size[items[k].tile.rev]
    /\ misses' = misses + 1
    /\ answer' = [key |-> k, tile |-> NoTile]
    /\ lapsed' = lapsed \cup {k}
    /\ UNCHANGED <<evicting, hits, evictions, bytesNext, report, recent>>

\* Mutant: a hit does not count as a use.
GetHitUnmoved(k) ==
    /\ Counted /\ k \in Present /\ ~Expired(items[k])
    /\ hits' = hits + 1
    /\ answer' = [key |-> k, tile |-> items[k].tile]
    /\ Used(k)
    /\ UNCHANGED <<items, ll, evicting, bytes, misses, evictions, bytesNext, report>>

GetHit(k) ==
    /\ Counted /\ k \in Present /\ ~Expired(items[k])
    /\ ll' = ToFront(ll, k)
    /\ hits' = hits + 1
    /\ answer' = [key |-> k, tile |-> items[k].tile]
    /\ Used(k)
    /\ UNCHANGED <<items, evicting, bytes, misses, evictions, bytesNext, report>>

-----------------------------------------------------------------------------
(* Set.                                                                    *)

\* Mutant: an overwritten tile keeps the key it was first stored under.
EntryOfNeighbour(k, rev) == [tile |-> [key |-> CHOOSE j \in Keys : TRUE, rev |-> rev], age |-> 0]

NewEntry(k, rev) == [tile |-> [key |-> k, rev |-> rev], age |-> 0]

SetPresent(k, rev) ==
    /\ ~evicting /\ k \in Present
    /\ bytes' = bytes + Size[rev] - Size[items[k].tile.rev]
    /\ items' = [items EXCEPT ![k] = NewEntry(k, rev)]
    /\ ll' = ToFront(ll, k)
    /\ Used(k)
    /\ UNCHANGED <<evicting, hits, misses, evictions, answer, bytesNext, report>>

\* A new entry goes to the front; if that is one too many, c.mu is kept.
SetNew(k, rev) ==
    /\ ~evicting /\ k \notin Present /\ evictions < MaxCount
    /\ items' = [items EXCEPT ![k] = NewEntry(k, rev)]
    /\ ll' = ToFront(ll, k)
    /\ bytes' = bytes + Size[rev]
    /\ evicting' = (Len(ll') > MaxEntries)
    /\ Used(k)
    /\ UNCHANGED <<hits, misses, evictions, answer, bytesNext, report>>

\* One round of the loop: the least recently used entry goes.
Evict ==
    LET last == Last(ll) IN
    /\ evicting
    /\ ll' = Front(ll)
    /\ items' = [items EXCEPT ![last] = NoEntry]
    /\ bytes' = bytes - Size[items[last].tile.rev]
    /\ evictions' = evictions + 1
    /\ evicting' = (Len(ll') > MaxEntries)
    /\ UNCHANGED <<hits, misses, answer, bytesNext, report, history>>

-----------------------------------------------------------------------------
\* Purge keeps the counters of the process's life.
Purge ==
    /\ ~evicting
    /\ ll' = <<>>
    /\ items' = [k \in Keys |-> NoEntry]
    /\ bytes' = 0
    /\ recent' = <<>> /\ lapsed' = {}
    /\ UNCHANGED <<evicting, hits, misses, evictions, answer, bytesNext, report>>

\* Time passes: every entry grows older.
Tick ==
    /\ TTL > 0
    /\ \E k \in Present : items[k].age <= TTL
    /\ items' = [k \in Keys |-> IF k \in Present /\ items[k].age <= TTL
                                THEN [items[k] EXCEPT !.age = @ + 1]
                                ELSE items[k]]
    /\ UNCHANGED <<ll, evicting, counters, answer, bytesNext, report, history>>

-----------------------------------------------------------------------------
(* Stats.  Of the counters it reads one by one only two are told apart     *)
(* here: Len, under the lock, and the bytes, read some time later.         *)

\* Mutant: Len does not take the lock.
StatsEntriesUnlocked ==
    /\ Scraped /\ ~bytesNext
    /\ report' = [entries |-> Len(ll), bytes |-> 0]
    /\ bytesNext' = TRUE
    /\ UNCHANGED <<items, ll, evicting, counters, answer, history>>

StatsEntries ==
    /\ Scraped /\ ~bytesNext /\ ~evicting
    /\ report' = [entries |-> Len(ll), bytes |-> 0]
    /\ bytesNext' = TRUE
    /\ UNCHANGED <<items, ll, evicting, counters, answer, history>>

StatsBytes ==
    /\ bytesNext
    /\ report' = [report EXCEPT !.bytes = bytes]
    /\ bytesNext' = FALSE
    /\ UNCHANGED <<items, ll, evicting, counters, answer, history>>

Next ==
    \/ \E k \in Keys :
          \/ GetMiss(k) \/ GetExpired(k) \/ GetHit(k)
          \/ \E rev \in Revs : SetPresent(k, rev) \/ SetNew(k, rev)
    \/ Evict \/ Purge \/ Tick
    \/ StatsEntries \/ StatsBytes

Spec == Init /\ [][Next]_vars

-----------------------------------------------------------------------------
\* Sum of the lengths of the stored tiles.
StoredBytes == SumFunction([k \in Present |-> Size[items[k].tile.rev]])

\* Whenever c.mu is free, list and map hold the same keys, once each, within
\* the capacity, and the byte counter is exactly what is stored.
Accounting ==
    /\ ToSet(ll) = Present /\ Len(ll) = Cardinality(Present)
    /\ bytes = StoredBytes
    /\ ~evicting => Len(ll) <= MaxEntries

\* The guarantee of least-recently-used eviction: the MaxEntries keys used last
\* are in the cache, whatever was looked up, stored and evicted in between,
\* unless they expired.
KeepsRecent ==
    \A i \in 1..Len(recent) : i <= MaxEntries => recent[i] \in Present \cup lapsed

\* What a statistics request reports is never more than the capacity, and never
\* more bytes than that and the one tile Set may be storing meanwhile, although
\* the two figures are read at different moments and Set is over the capacity
\* for a moment.
ReportBounded ==
    /\ report.entries <= MaxEntries
    /\ report.bytes <= (MaxEntries + 1) * Max({Size[rev] : rev \in Revs} \cup {0})

Store == INSTANCE TileStore WITH stored <- [k \in Keys |-> items[k].tile]

\* The cache implements a TileStore: lookups are answered from what was stored
\* under the same key, or not at all, through evictions, expiry and purges.
ImplementsStore == Store!Spec
=============================================================================
