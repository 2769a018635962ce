------------------------------ MODULE MCDirOps ------------------------------
(* Instances of DirOps for TLC. *)
EXTENDS DirOps

CONSTANTS First, Second   \* two inode numbers, the ones of the files in LongInit

\* The page was zero, or it held other bytes.
ZeroBytes == {<<FALSE, FALSE>>}
AnyBytes == {<<FALSE, FALSE>>, <<TRUE, TRUE>>}

Symmetry == Permutations(Inos \ {Root}) \cup Permutations(Names)

\* Nothing is promised once an operation ran out of memory or a removal that was
\* not durable was collected: such states are checked and not continued.
Explored == faults = 0 /\ ~spoilt

\* Histories of the root directory: names of files that are created and removed
\* in turn, so that the odd occurrences of a name add it and the even remove it.
Histories == {h \in [1 .. 4 -> Names] : h[1] # h[2]}

\* A root directory with such a history: six entries in four pages.  When the
\* log was extended, at its third and its fifth entry, no page was dead.  The
\* removed files are freed, the others in DRAM.
LongInit ==
    \E h \in Histories :
      LET upto(p) == {k \in 1 .. p : h[k] = h[p]}
          adds(p) == Cardinality(upto(p)) % 2 = 1
          dead(p) == \E k \in p + 1 .. 4 : h[k] = h[p]
          live == {p \in 1 .. 4 : adds(p) /\ ~dead(p)}
          file(p) == IF h[p] = h[1] THEN First ELSE Second
          entry(p) == [Entry("dentry", h[p], IF adds(p) THEN file(p) ELSE NoIno, 2)
                         EXCEPT !.invalid = adds(p) /\ dead(p)]
          files == {file(p) : p \in live}
      IN  /\ inode = [i \in Inos |->
               CASE i = Root -> [valid |-> TRUE, mode |-> "dir", links |-> 2,
                                 tail |-> 6, pages |-> 4, room |-> 8]
                 [] i \in files -> [NoInode EXCEPT !.valid = TRUE, !.links = 1]
                 [] OTHER -> NoInode]
          /\ log = [i \in Inos |-> IF i # Root THEN <<>> ELSE
               nova_append_dir_init_entries(Root, Root, <<FALSE, FALSE>>)
                 \o [p \in 1 .. 4 |-> entry(p)]]
          /\ sih = [i \in Inos |->
               CASE i = Root -> [cached |-> TRUE, nlink |-> 2, link |-> 0,
                      tree |-> [n \in Names |->
                        IF \E p \in live : h[p] = n
                        THEN 2 + (CHOOSE p \in live : h[p] = n) ELSE 0]]
                 [] i \in files -> [NotCached EXCEPT !.cached = TRUE, !.nlink = 1]
                 [] OTHER -> NotCached]
          /\ flagged = {<<Root, p + 2>> : p \in {q \in 1 .. 4 : entry(q).invalid}}
          /\ unused = Inos \ ({Root} \cup files)
          /\ names = {<<Root, h[p], file(p)>> : p \in live}
          /\ op = Idle /\ spoilt = FALSE /\ torn = FALSE
          /\ faults = 0 /\ crashes = 0

LongSpec == LongInit /\ [][Next]_vars
=============================================================================
