----------------------------- MODULE TileServer -----------------------------
(***************************************************************************)
(* One tile address served over the two-tier cache: serveTile of           *)
(* internal/server/tiles.go over Get, Set and Purge of                     *)
(* internal/cache/tiered.go, while sources are replaced under the same id, *)
(* their data changes, and an operator purges the cache.  Requests take a  *)
(* step per tier: nothing is locked across the two.                        *)
(*                                                                         *)
(* Each tier is what MemCache and DiskCache are shown to implement, the    *)
(* lossy store of TileStore: an entry may be gone at any moment (Forget:   *)
(* eviction, a sweep, a restart of the process for the memory).  The model *)
(* adds what TileStore has no notion of, the age of an entry.              *)
(*                                                                         *)
(* Revisions of the data are numbered as they come into being, whether the *)
(* data of the published backend changed or another backend was published. *)
(***************************************************************************)
EXTENDS Integers

CONSTANTS
    Requests,     \* concurrent requests for the tile
    MemTTL,       \* time to live in memory
    DiskTTL,      \* time to live on disk
    MaxRev        \* bound: revisions of the data

ASSUME ConstantsAssumption ==
    /\ MemTTL \in Nat \ {0} /\ DiskTTL \in Nat \ {0}
    /\ MaxRev \in Nat \ {0}

VARIABLES
    content,      \* the revision each backend reads; 0 if it does not exist
    cacheable,    \* TileInfo.Cacheable of each backend
    pub,          \* the backend published under the layer; 0 if none
    mem, disk,    \* the entry of each tier
    pc,           \* what each request does next
    via,          \* the backend it looked up
    got,          \* the tile it holds
    due,          \* history: least revision a purge before it promises
    purging,      \* the two halves of a purge
    mark,         \* history: the revision published when the purge began
    crossed,      \* history: a request ran during the purge
    floor,        \* history: [any, alone] marks of the purges so far: all, uncrossed
    served        \* the last tile sent: which, and to a request due what

data  == <<content, cacheable, pub>>
purge == <<purging, mark, crossed, floor>>
vars  == <<data, mem, disk, pc, via, got, due, purge, served>>

Revs     == 1..MaxRev
Backends == 1..MaxRev
\* Time since rendering is counted up to here.
MaxBorn  == MemTTL + DiskTTL + 1
Entry    == [rev : Revs, by : Backends, born : 0..MaxBorn, age : 0..MaxBorn]
Nothing  == [rev |-> 0]
Floors   == [any : 0..MaxRev, alone : 0..MaxRev]

TypeOK ==
    /\ content \in [Backends -> 0..MaxRev]
    /\ cacheable \in [Backends -> BOOLEAN]
    /\ pub \in 0..MaxRev
    /\ mem \in Entry \cup {Nothing} /\ disk \in Entry \cup {Nothing}
    /\ pc \in [Requests -> {"idle", "mem", "disk", "promote", "render", "setmem", "setdisk"}]
    /\ via \in [Requests -> 0..MaxRev]
    /\ \A r \in Requests : (via[r] = 0) <=> (pc[r] = "idle")
    /\ got \in [Requests -> Entry \cup {Nothing}]
    /\ due \in [Requests -> Floors]
    /\ purging \in BOOLEAN /\ mark \in 0..MaxRev /\ crossed \in BOOLEAN
    /\ floor \in Floors
    /\ served \in [tile : Entry \cup {Nothing}, via : 0..MaxRev, due : Floors]

NoFloor == [any |-> 0, alone |-> 0]

\* One backend is published, the cache is empty.
Init ==
    /\ content = [b \in Backends |-> IF b = 1 THEN 1 ELSE 0]
    /\ cacheable \in [Backends -> BOOLEAN]
    /\ pub = 1
    /\ mem = Nothing /\ disk = Nothing
    /\ pc = [r \in Requests |-> "idle"]
    /\ via = [r \in Requests |-> 0]
    /\ got = [r \in Requests |-> Nothing]
    /\ due = [r \in Requests |-> NoFloor]
    /\ purging = FALSE /\ mark = 0 /\ crossed = FALSE /\ floor = NoFloor
    /\ served = [tile |-> Nothing, via |-> 0, due |-> NoFloor]

-----------------------------------------------------------------------------
(* The data and the registry.                                              *)

\* The last revision there was, and the backends there were.
Newest == CHOOSE v \in 0..MaxRev :
             (\E b \in Backends : content[b] = v) /\ \A b \in Backends : content[b] <= v
Made   == {b \in Backends : content[b] # 0}

\* The data the published backend reads is edited.
DataChanges ==
    /\ pub # 0 /\ Newest < MaxRev
    /\ content' = [content EXCEPT ![pub] = Newest + 1]
    /\ UNCHANGED <<cacheable, pub, mem, disk, pc, via, got, due, purge, served>>

\* Registry.Put: a new backend takes the id; nothing is done about the cache.
Publish ==
    /\ Newest < MaxRev
    /\ LET b == CHOOSE x \in Backends : x \notin Made /\ \A y \in Backends \ Made : x <= y IN
       content' = [content EXCEPT ![b] = Newest + 1] /\ pub' = b
    /\ UNCHANGED <<cacheable, mem, disk, pc, via, got, due, purge, served>>

\* Registry.Remove.
Unpublish ==
    /\ pub # 0
    /\ pub' = 0
    /\ UNCHANGED <<content, cacheable, mem, disk, pc, via, got, due, purge, served>>

-----------------------------------------------------------------------------
(* A request.                                                              *)

Goto(r, where) == pc' = [pc EXCEPT ![r] = where]
Hold(r, e) == got' = [got EXCEPT ![r] = e]
\* The request ends; e is what it sends.
Send(r, e) ==
    /\ served' = [tile |-> e, via |-> via[r], due |-> due[r]]
    /\ pc' = [pc EXCEPT ![r] = "idle"]
    /\ via' = [via EXCEPT ![r] = 0]
    /\ got' = [got EXCEPT ![r] = Nothing]
    /\ due' = [due EXCEPT ![r] = NoFloor]
\* It ends without a tile: not found, or the backend failed.
Quit(r) ==
    /\ pc' = [pc EXCEPT ![r] = "idle"]
    /\ via' = [via EXCEPT ![r] = 0]
    /\ due' = [due EXCEPT ![r] = NoFloor]
    /\ UNCHANGED <<got, served>>

Live(e, ttl) == e # Nothing /\ e.age <= ttl

\* Mutant: an unknown layer is not refused.
BeginUnchecked(r) ==
    /\ pc[r] = "idle"
    /\ Goto(r, "mem")
    /\ via' = [via EXCEPT ![r] = pub]
    /\ due' = [due EXCEPT ![r] = floor]
    /\ crossed' = (crossed \/ purging)
    /\ UNCHANGED <<data, mem, disk, got, purging, mark, floor, served>>

\* The layer is looked up.  (One that is unknown is answered 404 at once.)
Begin(r) ==
    /\ pc[r] = "idle" /\ pub # 0
    /\ Goto(r, "mem")
    /\ via' = [via EXCEPT ![r] = pub]
    /\ due' = [due EXCEPT ![r] = floor]
    /\ crossed' = (crossed \/ purging)
    /\ UNCHANGED <<data, mem, disk, got, purging, mark, floor, served>>

\* The memory tier: a hit is sent, an expired entry dropped.
LookMem(r) ==
    /\ pc[r] = "mem"
    /\ IF Live(mem, MemTTL) THEN Send(r, mem) /\ UNCHANGED mem
       ELSE mem' = Nothing /\ Goto(r, "disk") /\ UNCHANGED <<via, got, due, served>>
    /\ UNCHANGED <<data, disk, purge>>

\* The disk tier: a hit is held, an expired entry dropped.
LookDisk(r) ==
    /\ pc[r] = "disk"
    /\ IF Live(disk, DiskTTL) THEN Hold(r, disk) /\ Goto(r, "promote") /\ UNCHANGED disk
       ELSE disk' = Nothing /\ Goto(r, "render") /\ UNCHANGED got
    /\ UNCHANGED <<data, mem, via, due, purge, served>>

\* Mutant: a disk hit is stored again in both tiers.
PromoteBoth(r) ==
    /\ pc[r] = "promote"
    /\ mem' = [got[r] EXCEPT !.age = 0]
    /\ disk' = [got[r] EXCEPT !.age = 0]
    /\ Send(r, got[r])
    /\ UNCHANGED <<data, purge>>

\* A disk hit is put into memory, where its life begins anew, and sent.
Promote(r) ==
    /\ pc[r] = "promote"
    /\ mem' = [got[r] EXCEPT !.age = 0]
    /\ Send(r, got[r])
    /\ UNCHANGED <<data, disk, purge>>

\* TileSource.Tile of the backend looked up at the beginning.
Rendered(r) == [rev |-> content[via[r]], by |-> via[r], born |-> 0, age |-> 0]
Render(r) ==
    /\ pc[r] = "render"
    /\ \/ /\ cacheable[via[r]]
          /\ Hold(r, Rendered(r)) /\ Goto(r, "setmem")
          /\ UNCHANGED <<via, due, served>>
       \/ ~cacheable[via[r]] /\ Send(r, Rendered(r))
       \/ Quit(r)
    /\ UNCHANGED <<data, mem, disk, purge>>

\* Tiered.Set, memory first.
SetMem(r) ==
    /\ pc[r] = "setmem"
    /\ mem' = got[r]
    /\ Goto(r, "setdisk")
    /\ UNCHANGED <<data, disk, via, got, due, purge, served>>

\* Disk.Set reports nothing when it fails: the file that was there stays.
SetDisk(r) ==
    /\ pc[r] = "setdisk"
    /\ disk' \in {got[r], disk}
    /\ Send(r, got[r])
    /\ UNCHANGED <<data, mem, purge>>

-----------------------------------------------------------------------------
(* Tiered.Purge, called by handlePurgeCache.                               *)

\* The memory tier is emptied.
PurgeMem ==
    /\ ~purging
    /\ purging' = TRUE
    /\ mem' = Nothing
    /\ mark' = Newest
    /\ crossed' = \E r \in Requests : pc[r] # "idle"
    /\ UNCHANGED <<data, disk, pc, via, got, due, floor, served>>

\* Mutant: the disk tier is left as it is.
PurgeMemOnly ==
    /\ purging
    /\ purging' = FALSE
    /\ floor' = [any |-> mark, alone |-> IF crossed THEN floor.alone ELSE mark]
    /\ UNCHANGED <<data, mem, disk, pc, via, got, due, mark, crossed, served>>

\* The disk tier is emptied and the operator has the answer.
PurgeDisk ==
    /\ purging
    /\ purging' = FALSE
    /\ disk' = Nothing
    /\ floor' = [any |-> mark, alone |-> IF crossed THEN floor.alone ELSE mark]
    /\ UNCHANGED <<data, mem, pc, via, got, due, mark, crossed, served>>

-----------------------------------------------------------------------------
\* A tier loses the entry (evicted, swept, or the process restarted).
Forget ==
    /\ \/ mem # Nothing /\ mem' = Nothing /\ UNCHANGED disk
       \/ disk # Nothing /\ disk' = Nothing /\ UNCHANGED mem
    /\ UNCHANGED <<data, pc, via, got, due, purge, served>>

\* Time passes, between requests (bound: a request takes no time).
Older(e) == IF e = Nothing THEN e
            ELSE [e EXCEPT !.born = IF @ < MaxBorn THEN @ + 1 ELSE @,
                           !.age  = IF @ < MaxBorn THEN @ + 1 ELSE @]
Tick ==
    /\ \A r \in Requests : pc[r] = "idle"
    /\ mem' = Older(mem) /\ disk' = Older(disk)
    /\ UNCHANGED <<data, pc, via, got, due, purge, served>>

Request(r) ==
    \/ Begin(r) \/ LookMem(r) \/ LookDisk(r) \/ Promote(r)
    \/ Render(r) \/ SetMem(r) \/ SetDisk(r)

Next ==
    \/ \E r \in Requests : Request(r)
    \/ DataChanges \/ Publish \/ Unpublish
    \/ PurgeMem \/ PurgeDisk
    \/ Forget \/ Tick

Spec == Init /\ [][Next]_vars

-----------------------------------------------------------------------------
\* A purge that no request crosses takes effect: a request that comes after it
\* is never sent data older than what was published when it began, from neither
\* tier, whatever happened before.
FreshAfterLonePurge == served.tile # Nothing => served.tile.rev >= served.due.alone

\* Without a purge a tile outlives its data by no more than both times to live
\* together: promotion renews it once, in memory, and not again.
StaleBound == served.tile # Nothing => served.tile.born <= MemTTL + DiskTTL

\* What the comment on Purge says ("Purging is idempotent and safe to call on a
\* live server: tiles are regenerated on the next request"): a request that
\* comes after any purge is sent no older data.
PurgeTakesEffect == served.tile # Nothing => served.tile.rev >= served.due.any

\* What the design says of sources that are not cacheable (they "skip the
\* cache"): a request for one is sent what that backend rendered.
UncacheableSkipsCache ==
    served.tile # Nothing /\ ~cacheable[served.via] => served.tile.by = served.via
=============================================================================
