------------------------------ MODULE MCStores ------------------------------
(* Three stores, one at a time.  The slab allocator with three pages.  The *)
(* open file cache with two names and two inodes: a name can be another    *)
(* file and the old one again, and a number can come back as another file  *)
(* or a directory.  A memory pool whose blocks hold seven bytes.           *)
EXTENDS Slab, OpenFileCache, Pool
CONSTANTS n1, n2, i1, i2, r1, r2, e1, e2, e3
VARIABLES part
vars == << part, slabVars, cacheVars, pool >>
ChunksAndRuns == {2, 3, 8, 16, 32}
MCNames == {n1, n2}
MCRequests == {r1, r2}
MCEntries == {e1, e2, e3}
MCInodes == {i1, i2}
Two == {2}
Asked == {0}
Symmetric == Permutations(MCNames) \cup Permutations(MCRequests) \cup Permutations(MCInodes)

(* One of the parts moves, the others stay as it began. *)
Init == /\ part \in {"slab", "cache", "pool"} /\ SlabInit /\ PoolInit
        /\ CacheInit /\ (part # "cache" => disk = [n \in Names |-> None])
Next == \/ part = "slab" /\ SlabNext /\ UNCHANGED << part, cacheVars, pool >>
        \/ part = "cache" /\ CacheNext /\ UNCHANGED << part, slabVars, pool >>
        \/ part = "pool" /\ PoolNext /\ UNCHANGED << part, slabVars, cacheVars >>
Spec == Init /\ [][Next]_vars
=============================================================================
