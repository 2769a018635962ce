------------------------------ MODULE MCBalloc ------------------------------
(* Model-checking instances of the block allocator. *)
EXTENDS Balloc, TLC

ProcSymmetry == Permutations(Proc)

\* Node names are only compared for equality, so states that differ by a
\* renaming of nodes are the same state.  A pointer is seen as the range it
\* points to, and a dangling one as itself.
Seen(l, n) == IF n \in tree[l] THEN <<low[n], high[n]>> ELSE <<n>>

NamelessView ==
    <<[l \in List |-> {Seen(l, n) : n \in tree[l]}],
      [l \in List |-> Seen(l, first_node[l])],
      [l \in List |-> Seen(l, p_node[l])],
      num_free_blocks, num_blocknode, call, held, lost>>
=============================================================================
