----------------------------- MODULE DiskCache -----------------------------
(***************************************************************************)
(* The disk tier of the tile cache (internal/cache/disk.go): plain files   *)
(* in a directory that outlives the process, written as a temporary file   *)
(* and a rename, expired by their modification time, walked by Purge and   *)
(* by the janitor's Sweep.  There is no lock: every call to the file       *)
(* system is a step of its own, and the process may die between any two.   *)
(*                                                                         *)
(* A walk meets every name that existed all along once, at any moment; a   *)
(* name that appears meanwhile may be met or not.  Names are met in an     *)
(* arbitrary order, which covers both.                                     *)
(***************************************************************************)
EXTENDS Integers, FiniteSetsExt

CONSTANTS
    Keys, Revs, NoTile,   \* as in TileStore
    Size,          \* length of a tile of each revision
    Clients,       \* concurrent requests
    Purging,       \* whether the cache is purged meanwhile
    Sweeping,      \* whether the janitor runs
    Temps,         \* names os.CreateTemp may give (bound: files half written at once)
    Torn,          \* content of a file that is not written to its end
    None,
    TTL,           \* time to live; 0 means forever
    OrphanAge,     \* age at which the janitor takes a temporary file for an orphan
    MaxBytes,      \* size limit; 0 means none
    MaxLag,        \* bound: time that passes during one sweep
    MaxRestarts    \* bound: crashes

Tile    == [key : Keys, rev : Revs]
Names   == Keys \cup Temps
Content == Tile \cup {Torn}
\* Ages are counted up to here.
MaxAge  == Max({TTL, OrphanAge}) + MaxLag + 1
\* A name without a file.
Absent  == [is |-> NoTile, age |-> 0]

ASSUME ConstantsAssumption ==
    /\ IsFiniteSet(Keys) /\ IsFiniteSet(Temps) /\ Keys \cap Temps = {}
    /\ IsFiniteSet(Revs) /\ IsFiniteSet(Clients)
    /\ None \notin Names
    /\ Torn \notin Tile /\ NoTile \notin Tile /\ Torn # NoTile
    /\ Size \in [Revs -> Nat]
    /\ TTL \in Nat /\ OrphanAge \in Nat /\ MaxBytes \in Nat
    /\ MaxLag \in Nat /\ MaxRestarts \in Nat

VARIABLES
    file,      \* the directory: content and age (time since mtime) of each name
    pc,        \* what each client does next
    arg,       \* the key and revision it works on, NoTile if none
    tmp,       \* the temporary file it writes, None if none
    answer,    \* the last lookup and what it returned
    walk,      \* names the purge still has to meet; {} when there is none
    sweep,     \* what the janitor does next
    swalk,     \* names its walk still has to meet
    lag,       \* time since the sweep began
    found,     \* [name, size, age] of the entries it recorded
    total,     \* the bytes it believes are there
    victim,    \* a file it decided to remove
    restarts,
    added      \* history: bytes written since the sweep began, or not yet renamed then

janitor == <<sweep, swalk, lag, found, total, victim>>
vars == <<file, pc, arg, tmp, answer, walk, janitor, restarts, added>>

Exists(n) == file[n] # Absent
Length(c) == IF c \in Tile THEN Size[c.rev] ELSE 0
Capped(n) == IF n < MaxAge THEN n ELSE MaxAge
\* The bytes each file holds, and all of them together.
Bytes == [n \in Names |-> Length(file[n].is)]
DiskUse == SumFunction(Bytes)
\* Those of the files written and not yet renamed.
Renaming == {c \in Clients : pc[c] = "rename"}
Pending == SumFunction([c \in Renaming |-> Bytes[tmp[c]]])
\* The watermark a sweep goes down to.
Target == (MaxBytes * 9) \div 10
LongestTile == Max({Size[rev] : rev \in Revs} \cup {0})
MaxUse == Cardinality(Names) * LongestTile

Without(n) == [file EXCEPT ![n] = Absent]

TypeOK ==
    /\ file \in [Names -> [is : Content, age : 0..MaxAge] \cup {Absent}]
    /\ \A k \in Keys : Exists(k) => file[k].is \in Tile
    /\ pc \in [Clients -> {"idle", "drop", "read", "write", "rename"}]
    /\ arg \in [Clients -> Tile \cup {NoTile}]
    /\ tmp \in [Clients -> Temps \cup {None}]
    /\ answer \in [key : Keys \cup {NoTile}, tile : Content \cup {NoTile}]
    /\ walk \in SUBSET Names
    /\ sweep \in {"idle", "walk", "evict"}
    /\ swalk \in SUBSET Names
    /\ lag \in 0..MaxLag
    /\ found \in SUBSET [name : Names, size : Nat, age : Int]
    /\ total \in Nat
    /\ victim \in Names \cup {None}
    /\ restarts \in 0..MaxRestarts
    /\ added \in 0..MaxUse

Idle == /\ pc = [c \in Clients |-> "idle"]
        /\ arg = [c \in Clients |-> NoTile]
        /\ tmp = [c \in Clients |-> None]
Init ==
    /\ file = [n \in Names |-> Absent]
    /\ Idle
    /\ answer = [key |-> NoTile, tile |-> NoTile]
    /\ walk = {}
    /\ sweep = "idle" /\ swalk = {} /\ lag = 0 /\ found = {} /\ total = 0 /\ victim = None
    /\ restarts = 0
    /\ added = 0

-----------------------------------------------------------------------------
(* Get: stat, then remove or read.                                         *)

Goto(c, where) == pc' = [pc EXCEPT ![c] = where]
\* The call returns, and its local variables are gone.
Return(c) ==
    /\ Goto(c, "idle")
    /\ arg' = [arg EXCEPT ![c] = NoTile]
    /\ tmp' = [tmp EXCEPT ![c] = None]
Answer(k, what) == answer' = [key |-> k, tile |-> what]
Expired(age) == TTL > 0 /\ age > TTL

Stat(c, k) ==
    /\ pc[c] = "idle"
    /\ IF Exists(k)
       THEN /\ Goto(c, IF Expired(file[k].age) THEN "drop" ELSE "read")
            /\ arg' = [arg EXCEPT ![c] = CHOOSE t \in Tile : t.key = k]
            /\ UNCHANGED answer
       ELSE Answer(k, NoTile) /\ UNCHANGED <<pc, arg>>
    /\ UNCHANGED <<file, tmp, walk, janitor, restarts, added>>

\* os.Remove of whatever has the name by now.
DropExpired(c) ==
    /\ pc[c] = "drop"
    /\ file' = Without(arg[c].key)
    /\ Answer(arg[c].key, NoTile)
    /\ Return(c)
    /\ UNCHANGED <<walk, janitor, restarts, added>>

\* Mutant: an error of the read is not looked at.
ReadFileUnchecked(c) ==
    /\ pc[c] = "read"
    /\ Answer(arg[c].key, IF Exists(arg[c].key) THEN file[arg[c].key].is ELSE Torn)
    /\ Return(c)
    /\ UNCHANGED <<file, walk, janitor, restarts, added>>

\* A file that vanished since is a miss.
ReadFile(c) ==
    /\ pc[c] = "read"
    /\ Answer(arg[c].key, file[arg[c].key].is)
    /\ Return(c)
    /\ UNCHANGED <<file, walk, janitor, restarts, added>>

-----------------------------------------------------------------------------
(* Set: create a temporary file, write it, rename it.                      *)

\* os.CreateTemp makes a file that did not exist.  (A client that cannot
\* create one gives the tile up and changes nothing.)
CreateTemp(c, t) ==
    /\ pc[c] = "idle"
    /\ \E n \in Temps :
          /\ ~Exists(n) /\ \A d \in Clients : tmp[d] # n
          /\ file' = [file EXCEPT ![n] = [is |-> Torn, age |-> 0]]
          /\ tmp' = [tmp EXCEPT ![c] = n]
    /\ arg' = [arg EXCEPT ![c] = t]
    /\ Goto(c, "write")
    /\ UNCHANGED <<answer, walk, janitor, restarts, added>>

\* The tile is written.  If the name is gone, nobody will see it.
Write(c) ==
    /\ pc[c] = "write"
    /\ file' = IF Exists(tmp[c]) THEN [file EXCEPT ![tmp[c]] = [is |-> arg[c], age |-> 0]]
                                 ELSE file
    /\ added' = IF sweep = "idle" THEN 0
                ELSE LET a == added + Size[arg[c].rev] IN IF a < MaxUse THEN a ELSE MaxUse
    /\ Goto(c, "rename")
    /\ UNCHANGED <<arg, tmp, answer, walk, janitor, restarts>>

\* Mutant: the return is missing after a failed write.
SetFailsRenaming(c) ==
    /\ pc[c] \in {"write", "rename"}
    /\ file' = [file EXCEPT ![arg[c].key] = file[tmp[c]], ![tmp[c]] = Absent]
    /\ Return(c)
    /\ UNCHANGED <<answer, walk, janitor, restarts, added>>

\* Writing, closing or renaming fails: the temporary file is removed.
SetFails(c) ==
    /\ pc[c] \in {"write", "rename"}
    /\ file' = Without(tmp[c])
    /\ Return(c)
    /\ UNCHANGED <<answer, walk, janitor, restarts, added>>

\* os.Rename, which fails if a walk has removed the temporary file.
Rename(c) ==
    /\ pc[c] = "rename"
    /\ file' = IF Exists(tmp[c])
               THEN [file EXCEPT ![arg[c].key] = file[tmp[c]], ![tmp[c]] = Absent]
               ELSE file
    /\ Return(c)
    /\ UNCHANGED <<answer, walk, janitor, restarts, added>>

-----------------------------------------------------------------------------
(* Purge: a walk that removes every file it meets.                         *)

BeginPurge ==
    /\ Purging /\ walk = {}
    /\ walk' = Names
    /\ UNCHANGED <<file, pc, arg, tmp, answer, janitor, restarts, added>>

PurgeOne(n) ==
    /\ n \in walk
    /\ walk' = walk \ {n}
    /\ file' = Without(n)
    /\ UNCHANGED <<pc, arg, tmp, answer, janitor, restarts, added>>

-----------------------------------------------------------------------------
(* The janitor's Sweep.                                                    *)

BeginSweep ==
    /\ Sweeping /\ sweep = "idle"
    /\ sweep' = "walk" /\ swalk' = Names
    /\ lag' = 0 /\ found' = {} /\ total' = 0 /\ added' = Pending
    /\ UNCHANGED <<file, pc, arg, tmp, answer, walk, victim, restarts>>

\* Age of a file at the moment the sweep began.
AgeThen(n) == file[n].age - lag
Doomed(n) == (n \in Temps /\ AgeThen(n) > OrphanAge) \/ Expired(AgeThen(n))

\* Mutant: the janitor leaves temporary files alone.
VisitNoTemps(n) ==
    /\ sweep = "walk" /\ victim = None /\ n \in swalk
    /\ swalk' = swalk \ {n}
    /\ IF n \notin Keys \/ ~Exists(n) THEN UNCHANGED <<victim, found, total>>
       ELSE IF Doomed(n) THEN victim' = n /\ UNCHANGED <<found, total>>
       ELSE /\ found' = found \cup {[name |-> n, size |-> Length(file[n].is), age |-> AgeThen(n)]}
            /\ total' = total + Length(file[n].is)
            /\ UNCHANGED victim
    /\ UNCHANGED <<file, pc, arg, tmp, answer, walk, sweep, lag, restarts, added>>

\* Mutant: the sizes are assigned, not added up.
VisitLastSize(n) ==
    /\ sweep = "walk" /\ victim = None /\ n \in swalk
    /\ swalk' = swalk \ {n}
    /\ IF ~Exists(n) THEN UNCHANGED <<victim, found, total>>
       ELSE IF Doomed(n) THEN victim' = n /\ UNCHANGED <<found, total>>
       ELSE /\ found' = found \cup {[name |-> n, size |-> Length(file[n].is), age |-> AgeThen(n)]}
            /\ total' = Length(file[n].is)
            /\ UNCHANGED victim
    /\ UNCHANGED <<file, pc, arg, tmp, answer, walk, sweep, lag, restarts, added>>

\* The walk meets a name and looks at its file.
Visit(n) ==
    /\ sweep = "walk" /\ victim = None /\ n \in swalk
    /\ swalk' = swalk \ {n}
    /\ IF ~Exists(n) THEN UNCHANGED <<victim, found, total>>
       ELSE IF Doomed(n) THEN victim' = n /\ UNCHANGED <<found, total>>
       ELSE /\ found' = found \cup {[name |-> n, size |-> Length(file[n].is), age |-> AgeThen(n)]}
            /\ total' = total + Length(file[n].is)
            /\ UNCHANGED victim
    /\ UNCHANGED <<file, pc, arg, tmp, answer, walk, sweep, lag, restarts, added>>

\* os.Remove of whatever has the name by now.
RemoveVictim ==
    /\ victim # None
    /\ file' = Without(victim)
    /\ victim' = None
    /\ UNCHANGED <<pc, arg, tmp, answer, walk, sweep, swalk, lag, found, total, restarts, added>>

Walked == sweep = "walk" /\ swalk = {} /\ victim = None

\* Sweep returns, and its local variables are gone.
SweepDone ==
    /\ sweep' = "idle" /\ lag' = 0 /\ found' = {} /\ total' = 0 /\ added' = 0
    /\ UNCHANGED <<swalk, victim>>

\* The limit is kept, or entries have to go.
Decide ==
    /\ Walked
    /\ IF MaxBytes = 0 \/ total <= MaxBytes THEN SweepDone
       ELSE sweep' = "evict" /\ UNCHANGED <<swalk, lag, found, total, victim, added>>
    /\ UNCHANGED <<file, pc, arg, tmp, answer, walk, restarts>>

\* The oldest entry recorded goes; its size counts only if it was there.
EvictOldest(e) ==
    /\ sweep = "evict" /\ total > Target
    /\ e \in found /\ \A f \in found : f.age <= e.age
    /\ found' = found \ {e}
    /\ file' = Without(e.name)
    /\ total' = IF Exists(e.name) THEN total - e.size ELSE total
    /\ UNCHANGED <<pc, arg, tmp, answer, walk, sweep, swalk, lag, victim, restarts, added>>

EndSweep ==
    /\ sweep = "evict" /\ (total <= Target \/ found = {})
    /\ SweepDone
    /\ UNCHANGED <<file, pc, arg, tmp, answer, walk, restarts>>

Sweep ==
    \/ BeginSweep \/ RemoveVictim \/ Decide \/ EndSweep
    \/ \E n \in Names : Visit(n)
    \/ \E e \in found : EvictOldest(e)

-----------------------------------------------------------------------------
\* Time passes.
Tick ==
    /\ \E n \in Names : Exists(n) /\ file[n].age < MaxAge
    /\ sweep # "idle" => lag < MaxLag
    /\ lag' = IF sweep = "idle" THEN lag ELSE lag + 1
    /\ file' = [n \in Names |-> IF Exists(n) THEN [file[n] EXCEPT !.age = Capped(@ + 1)]
                                             ELSE Absent]
    /\ UNCHANGED <<pc, arg, tmp, answer, walk, sweep, swalk, found, total, victim, restarts, added>>

\* The process dies and another one opens the directory (NewDisk).
Restart ==
    /\ restarts < MaxRestarts
    /\ restarts' = restarts + 1
    /\ pc' = [c \in Clients |-> "idle"]
    /\ arg' = [c \in Clients |-> NoTile]
    /\ tmp' = [c \in Clients |-> None]
    /\ walk' = {}
    /\ sweep' = "idle" /\ swalk' = {} /\ lag' = 0 /\ found' = {} /\ total' = 0 /\ victim' = None
    /\ added' = 0
    /\ UNCHANGED <<file, answer>>

Client(c) ==
    \/ \E k \in Keys : Stat(c, k)
    \/ DropExpired(c) \/ ReadFile(c)
    \/ \E t \in Tile : CreateTemp(c, t)
    \/ Write(c) \/ SetFails(c) \/ Rename(c)

Next ==
    \/ \E c \in Clients : Client(c)
    \/ BeginPurge \/ \E n \in Names : PurgeOne(n)
    \/ Sweep
    \/ Tick \/ Restart

Spec == Init /\ [][Next]_vars

-----------------------------------------------------------------------------
Store == INSTANCE TileStore
         WITH stored <- [k \in Keys |-> file[k].is]

\* The directory implements a TileStore: a lookup returns a whole tile that was
\* stored under the same key, or nothing, whatever writers, expiries, walks and
\* crashes do to the files meanwhile.
ImplementsStore == Store!Spec

\* When a sweep ends, the files hold no more than the limit and what was being
\* written when it began or has been since; if it had to evict, no more than the
\* watermark and that.
SweepBounds ==
    [][ /\ MaxBytes > 0 /\ sweep # "idle" /\ sweep' = "idle" /\ restarts' = restarts
        => /\ DiskUse' <= MaxBytes + added
           /\ sweep = "evict" => DiskUse' <= Target + added ]_vars

\* Time goes on, the janitor's ticker fires again and again, and a sweep that
\* began goes on; nothing is assumed of clients or of purges.
Orphan(n) == Exists(n) /\ \A c \in Clients : tmp[c] # n
Fairness ==
    /\ SF_vars(Tick)
    /\ WF_vars(BeginSweep) /\ WF_vars(RemoveVictim) /\ WF_vars(Decide) /\ WF_vars(EndSweep)
    /\ WF_vars(\E n \in Names : Visit(n))
    /\ WF_vars(\E e \in found : EvictOldest(e))
FairSpec == Spec /\ Fairness

\* A temporary file that a crash left behind is removed in the end.
OrphansGo == \A n \in Temps : Orphan(n) ~> ~Orphan(n)
=============================================================================
