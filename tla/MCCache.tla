------------------------------ MODULE MCCache -------------------------------
(***************************************************************************)
(* Instances of Cache for TLC.                                             *)
(***************************************************************************)
EXTENDS Cache

\* Hashes are 0, 1 and 2: one more than two keys need, so that a slot may stay unused.
SomeKeys   == 1 .. 2
MoreKeys   == 1 .. 3
SomeHashes == 0 .. 2

\* A hash without collisions, one under which all keys collide, and one under which two
\* of three do. The u64 of hash_key excludes none of them.
Scattered == [k \in SomeKeys |-> 3 - k]
Colliding == [k \in SomeKeys |-> 1]
Paired    == [k \in MoreKeys |-> k \div 2]

\* "Different keys allow independent retrieval": not if their hashes are equal.
LookupIsOfKey ==
    \A t \in Types, k \in Keys : Lookup(t, k) # None => Lookup(t, k).key = k
=============================================================================
