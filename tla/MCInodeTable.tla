---------------------------- MODULE MCInodeTable ----------------------------
(* Instances of InodeTable for TLC. *)
EXTENDS InodeTable, TLC

Symmetry == Permutations(Threads)

\* The file system has been in use (two CPUs, two inodes to a page): inode 2 of map
\* 0, and 3 and 7 of map 1, where 5 was removed; map 1 has a second page.
UsedInit ==
    LET made == {2, 3, 7}
        page(c, k) == IF k = 0 THEN c + 1 ELSE IF c = 1 /\ k = 1 THEN 3 ELSE 0
        fields == [i \in Inos |-> IF i \in made THEN [ino |-> TRUE, valid |-> TRUE, val |-> 1]
                                  ELSE Zero]
    IN  /\ inuse = [c \in Maps |-> IF c = 0 THEN {<<0, 1>>} ELSE {<<0, 1>>, <<3, 3>>}]
        /\ nodes = [c \in Maps |-> c + 1] /\ dangling = {}
        /\ map_id \in Maps
        /\ table = [c \in Maps |-> [k \in Blocks |-> page(c, k)]]
        /\ mem = [p \in 1 .. NumPages |-> [i \in Inos |->
                    IF page(cpuid(i), superpage_count(i)) = p THEN fields[i] ELSE Zero]]
        /\ free = 4 .. NumPages
        /\ tmutex = [c \in Maps |-> NoThread] /\ mlock = [c \in Maps |-> NoThread]
        /\ plock = [l \in Maps \X Blocks |-> NoThread]
        /\ thr = [t \in Threads |-> Idle]
        /\ live = made /\ latest = fields
        /\ overlap = {} /\ leaked = {} /\ ops = 0 /\ faults = 0

UsedSpec == UsedInit /\ [][Next]_vars
=============================================================================
