----------------------------- MODULE BlockPool -----------------------------
(***************************************************************************)
(* What the block allocator promises to the rest of the file system: a     *)
(* pool of free blocks from which a request takes a contiguous, non-empty  *)
(* run of at most the requested length, and to which a contiguous run the  *)
(* caller owns is returned.  No list, tree, pointer or counter appears.    *)
(* Module Balloc is shown to implement this specification.                 *)
(***************************************************************************)
EXTENDS Integers

CONSTANTS NumBlocks, MaxRequest

VARIABLES free, held, lost

poolVars == <<free, held, lost>>

Run(b, num) == b .. b + num - 1

PoolInit ==
    /\ free \subseteq 0 .. NumBlocks - 1
    /\ held \subseteq 0 .. NumBlocks - 1
    /\ free \cap held = {}
    /\ lost = {}

\* A caller receives a run of free blocks, no longer than the longest request.
Allocate(b, num) ==
    /\ Run(b, num) \subseteq free
    /\ free' = free \ Run(b, num)
    /\ held' = held \cup Run(b, num)
    /\ UNCHANGED lost

\* A caller gives a run back.
Release(b, num) ==
    /\ Run(b, num) \subseteq held
    /\ held' = held \ Run(b, num)
    /\ free' = free \cup Run(b, num)
    /\ UNCHANGED lost

\* A caller gives a run up and the allocator fails to take it back.
Leak(b, num) ==
    /\ Run(b, num) \subseteq held
    /\ held' = held \ Run(b, num)
    /\ lost' = lost \cup Run(b, num)
    /\ UNCHANGED free

PoolNext ==
    \E b \in 0 .. NumBlocks - 1, num \in 1 .. NumBlocks :
        \/ num <= MaxRequest /\ Allocate(b, num)
        \/ Release(b, num)
        \/ Leak(b, num)

PoolSpec == PoolInit /\ [][PoolNext]_poolVars
=============================================================================
