----------------------------- MODULE TileStore -----------------------------
(***************************************************************************)
(* What one tier of the tile cache promises (internal/cache): a store that *)
(* may lose an entry at any moment but never invents one.  Tiles are       *)
(* derived data, so losing is allowed; a tile of another address, or half  *)
(* a tile, is not.  MemCache and DiskCache are shown to implement it.      *)
(***************************************************************************)
CONSTANTS
    Keys,     \* tile addresses (layer/z/x/y)
    Revs,     \* contents a tile may have had
    NoTile    \* nothing

VARIABLES
    stored,   \* what a lookup of a key may find now
    answer    \* the last lookup: its key and what it returned

Tile == [key : Keys, rev : Revs]

Init ==
    /\ stored = [k \in Keys |-> NoTile]
    /\ answer = [key |-> NoTile, tile |-> NoTile]

\* A tile of that address becomes the one to be found.
Put(k) ==
    /\ \E t \in Tile : t.key = k /\ stored' = [stored EXCEPT ![k] = t]
    /\ UNCHANGED answer

\* Entries may be forgotten, any number of them at once.
Forget(gone) ==
    /\ stored' = [k \in Keys |-> IF k \in gone THEN NoTile ELSE stored[k]]
    /\ UNCHANGED answer

\* A lookup finds what is stored, or nothing; it may drop what it finds.
Look(k) ==
    /\ \E found \in {stored[k], NoTile} : answer' = [key |-> k, tile |-> found]
    /\ stored' \in {stored, [stored EXCEPT ![k] = NoTile]}

Next ==
    \/ \E k \in Keys : Put(k) \/ Look(k)
    \/ \E gone \in SUBSET Keys : Forget(gone)

Spec == Init /\ [][Next]_<<stored, answer>>
=============================================================================
