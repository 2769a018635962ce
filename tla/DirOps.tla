------------------------------- MODULE DirOps -------------------------------
(***************************************************************************)
(* The directory operations: create, mknod, symlink, mkdir, link, unlink,  *)
(* rmdir, rename (namei.c), the entries they append to directory logs and  *)
(* the tree of names kept in DRAM (dir.c), the link counts, the eviction   *)
(* of an inode and its rebuilding from the log (inode.c, bbuild.c).        *)
(*                                                                         *)
(* A log is a sequence of entries in pages of PageCap entries.  inode and  *)
(* log are the NVM as the CPUs see it; flagged holds the entries whose     *)
(* invalid byte was set in place and not flushed, so that a power failure  *)
(* may undo it.  An operation first changes DRAM and appends beyond the    *)
(* committed tails, then commits with a journaled transaction, which is    *)
(* one step here (LiteJournal models its steps).  The log may be collected *)
(* while an operation appends.                                             *)
(*                                                                         *)
(* The VFS is external: it holds the i_mutex of the directories and files  *)
(* an operation changes, so the operations on one directory are serial;    *)
(* it calls create and link for names that are not there, the others for   *)
(* names that are, and renames a directory neither over a file nor below   *)
(* itself.  Names stand for their hash values: two names never collide.    *)
(***************************************************************************)
EXTENDS Integers, Sequences, SequencesExt, FiniteSets

CONSTANTS
    Inos,          \* inode numbers
    Root,          \* NOVA_ROOT_INO
    NoIno,         \* the ino of an entry that removes a name
    Names,         \* the names used
    Kinds,         \* what is created
    PageCap,       \* entries in a log page
    NOVA_LINK_MAX, \* the most links an inode may have
    InitBytes,     \* what a recycled page may hold in the two bytes of invalid
    MaxRootLog,    \* bound on the entries of the log of Root
    MaxLog,        \* bound on the entries of another log
    Flaggable,     \* bound: the inodes whose flags are set by ioctl
    MaxFaults,     \* bound on the operations that run out of memory
    MaxCrashes     \* bound on the power failures

ASSUME DirAssumption ==
    /\ Root \in Inos /\ NoIno \notin Inos
    /\ Kinds \subseteq {"reg", "node", "symlink", "dir"}
    /\ PageCap \in Nat \ {0, 1} /\ MaxRootLog \in Nat /\ MaxLog \in Nat /\ NOVA_LINK_MAX \in Nat
    /\ InitBytes \subseteq BOOLEAN \X BOOLEAN /\ InitBytes # {}
    /\ MaxFaults \in Nat /\ MaxCrashes \in Nat

VARIABLES
    inode,    \* NVM inodes: valid, i_mode, i_links_count, log_tail, log pages
    log,      \* NVM logs
    flagged,  \* <<inode, position>> of the invalid bytes not written back
    sih,      \* inodes in DRAM: i_nlink, tree of names, last_link_change
    unused,   \* inode numbers that may be given out
    op,       \* the operation in progress
    names,    \* the bindings that completed operations and mounts have left
    spoilt,   \* a removal was collected that is not durable
    torn,     \* a power failure kept part of a removal
    faults, crashes

vars == <<inode, log, flagged, sih, unused, op, names, spoilt, torn, faults,
          crashes>>

\* Log entries: DIR_LOG (ino = NoIno removes the name), LINK_CHANGE, FILE_WRITE.
\* NoName is the name of an entry without one, "." and ".." the first two of a
\* directory.  Gone is an entry of a page that was freed.
NoName == ""
Entry(type, name, ino, links) ==
    [type |-> type, name |-> name, ino |-> ino, links |-> links,
     invalid |-> FALSE]
Gone == Entry("gone", NoName, NoIno, 0)

NoInode == [valid |-> FALSE, mode |-> "file", links |-> 0, tail |-> 0,
            pages |-> 0, room |-> 0]
Bounded(l) == \A i \in Inos : Len(l[i]) <= IF i = Root THEN MaxRootLog ELSE MaxLog
NoTree == [n \in Names |-> 0]
NotCached == [cached |-> FALSE, nlink |-> 0, tree |-> NoTree, link |-> 0]

\* No operation, and the record of one: what its transaction stores.
Idle == [cmd |-> "none", tail |-> <<>>, set |-> {}, clear |-> {},
         parent |-> <<>>, del |-> {}, add |-> {}]

Cached == {i \in Inos : sih[i].cached}
IsDir(i) == inode[i].mode = "dir"
Page(p) == (p - 1) \div PageCap
-----------------------------------------------------------------------------
(* The state an operation works on: the variables it changes before its    *)
(* transaction, and the tails it has reached in the logs it appends to.    *)

World == [inode |-> inode, log |-> log, flagged |-> flagged, sih |-> sih,
          tail |-> [i \in Inos |-> inode[i].tail], spoilt |-> spoilt]

\* Mutant: the test of the invalid byte is inverted.
EntryValidInverted(w, i, p) ==
    LET e == w.log[i][p]
    IN  IF e.type = "dentry" THEN e.ino # NoIno /\ e.invalid
        ELSE e.type = "write" \/ (e.type = "link" /\ w.sih[i].link = p)
\* Does the entry keep its page from being freed?
curr_log_entry_valid(w, i, p) ==
    LET e == w.log[i][p]
    IN  CASE e.type = "dentry" -> e.ino # NoIno /\ ~e.invalid
          [] e.type = "link" -> w.sih[i].link = p
          [] e.type = "write" -> TRUE
          [] e.type = "gone" -> FALSE

\* Pages before the tail page in which no entry is live.  (A page that is kept
\* has a live entry: with two entries to a page the live ones always fill half
\* of the pages kept, so that a thorough collection is never needed.)
DeadPages(w, i) ==
    LET page(k) == k * PageCap + 1 .. (k + 1) * PageCap
    IN  {k \in 0 .. Page(w.inode[i].tail) - 1 :
          /\ \E p \in page(k) : w.log[i][p] # Gone
          /\ \A p \in page(k) : ~curr_log_entry_valid(w, i, p)}

\* The dead pages hold the removal of a name, and an entry that stays and added it
\* would be valid again after a power failure, with no other removal behind it.
Undurable(w, i, dead) ==
    LET l == w.log[i]
        dentries == {p \in 1 .. w.inode[i].tail : l[p].type = "dentry"}
        adds == {p \in dentries : /\ l[p].ino # NoIno /\ Page(p) \notin dead
                                  /\ <<i, p>> \in w.flagged \/ ~l[p].invalid}
        removals == {p \in dentries : l[p].ino = NoIno}
        after(S, p) == {q \in S : q > p /\ l[q].name = l[p].name}
    IN  \E p \in adds :
          /\ \E q \in after(removals, p) : Page(q) \in dead
          /\ \A q \in after(removals, p) :
               Page(q) \in dead \/ \E r \in after(adds, p) : r < q

nova_inode_log_fast_gc(w, i, num) ==
    LET dead == DeadPages(w, i)
    IN  [w EXCEPT
          !.log[i] = [p \in DOMAIN @ |-> IF Page(p) \in dead THEN Gone ELSE @[p]],
          !.flagged = {f \in @ : f[1] = i => Page(f[2]) \notin dead},
          !.inode[i].pages = @ + num - Cardinality(dead),
          !.inode[i].room = @ + num * PageCap,
          !.spoilt = @ \/ Undurable(w, i, dead)]

\* The log is extended when no page follows: by one page when it is empty, else
\* by as many as it has, and then it is collected.
nova_extend_inode_log(w, i) ==
    IF w.inode[i].room = 0
    THEN [w EXCEPT !.inode[i].pages = 1, !.inode[i].room = PageCap]
    ELSE nova_inode_log_fast_gc(w, i, w.inode[i].pages)

\* Append e behind the tail the operation has reached in the log of i.
nova_append(w, i, e) ==
    LET p == w.tail[i] + 1
        x == IF p > w.inode[i].room THEN nova_extend_inode_log(w, i) ELSE w
        l == x.log[i]
    IN  [x EXCEPT
          !.log[i] = SubSeq(l, 1, p - 1) \o <<e>> \o SubSeq(l, p + 1, Len(l)),
          !.flagged = @ \ {<<i, p>>},
          !.tail[i] = p]
-----------------------------------------------------------------------------
(* Entries of directory logs and the tree of names.                        *)

\* Mutant: the entry records the count before the operation.
EntryLinksBefore(w, d, change) == w.sih[d].nlink
\* The link count recorded in an entry of directory d.
EntryLinks(w, d, change) ==
    IF w.sih[d].nlink = 0 /\ change = -1 THEN 0 ELSE w.sih[d].nlink + change

\* Append an entry that adds the name, then enter it in the tree.
nova_add_dentry(w, d, n, i, inc) ==
    LET x == nova_append(w, d, Entry("dentry", n, i, EntryLinks(w, d, inc)))
    IN  [x EXCEPT !.sih[d].tree[n] = x.tail[d]]

\* Mutant: the entry is not marked.
RemoveUnmarked(w, d, n) == [w EXCEPT !.sih[d].tree[n] = 0]
\* Take the name out of the tree.  An entry that does match is marked invalid in
\* place, which is not flushed; the error for one that does not is ignored.
nova_remove_dir_radix_tree(w, d, n) ==
    LET p == w.sih[d].tree[n]
        x == [w EXCEPT !.sih[d].tree[n] = 0]
        match == /\ p # 0
                 /\ w.log[d][p].ino # NoIno
                 /\ ~w.log[d][p].invalid
                 /\ w.log[d][p].name = n
    IN  IF match THEN [x EXCEPT !.log[d][p].invalid = TRUE,
                                !.flagged = @ \cup {<<d, p>>}]
        ELSE x

\* Append an entry that removes the name, then take it out of the tree.
nova_remove_dentry(w, d, n, dec) ==
    nova_remove_dir_radix_tree(
        nova_append(w, d, Entry("dentry", n, NoIno, EntryLinks(w, d, dec))),
        d, n)

\* Append the inode's link count to its log.
nova_append_link_change_entry(w, i) ==
    LET x == nova_append(w, i, Entry("link", NoName, NoIno, w.sih[i].nlink))
    IN  [x EXCEPT !.sih[i].link = x.tail[i]]

SetLinks(w, i, n) == [w EXCEPT !.sih[i].nlink = n]
DropLinks(w, i, n) ==
    SetLinks(w, i, IF w.sih[i].nlink > n THEN w.sih[i].nlink - n ELSE 0)

\* The first two entries of a directory.  The log page is not zeroed and the
\* invalid bytes of these two are never set.
nova_append_dir_init_entries(i, parent, inv) ==
    <<[Entry("dentry", ".", i, 1) EXCEPT !.invalid = inv[1]],
      [Entry("dentry", "..", parent, 2) EXCEPT !.invalid = inv[2]]>>

\* The record in which a change of parent is stored: the second of the first
\* page of the log, whatever that is.
FatherEntry(w, i) ==
    LET l == w.log[i]
        kept == {p \in DOMAIN l : l[p] # Gone}
    IN  (CHOOSE k \in {Page(p) : p \in kept} :
            \A p \in kept : k <= Page(p)) * PageCap + 2
-----------------------------------------------------------------------------
(* Rebuilding from the log.                                                *)

\* Entries that a replay enters in the tree and those that take a name out.
nova_replay_add_dentry(e) ==
    e.type = "dentry" /\ e.name \in Names /\ e.ino # NoIno /\ ~e.invalid
\* Mutant: a replay relies on the invalid bytes alone.
ReplayNoRemoval(e) == FALSE
nova_replay_remove_dentry(e) ==
    e.type = "dentry" /\ e.name \in Names /\ e.ino = NoIno

\* The name entered at p is still in the tree when the replay comes to q.
Holds(l, p, q) ==
    /\ nova_replay_add_dentry(l[p])
    /\ \A k \in p + 1 .. q - 1 :
         ~(nova_replay_remove_dentry(l[k]) /\ l[k].name = l[p].name)

\* Where the replay of l ends: at a name that is already there it gives up.
ReplayEnd(l) ==
    LET again == {q \in DOMAIN l :
                    /\ nova_replay_add_dentry(l[q])
                    /\ \E p \in 1 .. q - 1 : l[p].name = l[q].name /\ Holds(l, p, q)}
    IN  IF again = {} THEN Len(l) + 1 ELSE Min(again)

\* The header rebuilt from the log l of inode i.  The link count is the one of the
\* last entry that has one.
nova_rebuild_dir_inode_tree(i, l) ==
    LET end == ReplayEnd(l)
        held(n) == {p \in 1 .. end - 1 : l[p].name = n /\ Holds(l, p, end)}
        last(types) == {p \in 1 .. end - 1 : l[p].type \in types}
        count == last({"dentry", "link"})
        change == last({"link"})
    IN  [cached |-> TRUE,
         nlink |-> IF count = {} THEN inode[i].links ELSE l[Max(count)].links,
         tree |-> [n \in Names |-> IF held(n) = {} THEN 0 ELSE Max(held(n))],
         link |-> IF change = {} THEN 0 ELSE Max(change)]

nova_rebuild_inode(i) == nova_rebuild_dir_inode_tree(i, SubSeq(log[i], 1, inode[i].tail))

\* The log after a power failure that keeps the invalid bytes in kept, and the
\* one that keeps none.
Survives(i, kept) ==
    [p \in 1 .. inode[i].tail |->
        IF <<i, p>> \in flagged \ kept
        THEN [log[i][p] EXCEPT !.invalid = FALSE] ELSE log[i][p]]

\* The names a mount finds in the logs l.
Found(l) ==
    UNION {LET t == nova_rebuild_dir_inode_tree(d, l[d]).tree
           IN  {<<d, n, l[d][t[n]].ino>> : n \in {m \in Names : t[m] # 0}} :
           d \in {i \in Inos : inode[i].valid /\ IsDir(i)}}
-----------------------------------------------------------------------------
(* The operations, up to the transaction.  ok says whether the last        *)
(* allocation succeeds: when it does not the operation returns an error    *)
(* and nothing it did before is undone.                                    *)

\* A live directory the VFS has locked, and what a name in it refers to.
InDir(d) == op = Idle /\ d \in Cached /\ IsDir(d) /\ sih[d].nlink > 0
Target(d, n) == log[d][sih[d].tree[n]].ino
There(d, n) == sih[d].tree[n] # 0 /\ Target(d, n) \in Cached

\* The operation has reached w; its transaction is described by c.  Logs are
\* bounded here.
Reach(world, c, ok) ==
  \E w \in {world} :
    /\ Bounded(w.log)
    /\ ~ok => faults < MaxFaults
    /\ faults' = IF ok THEN faults ELSE faults + 1
    /\ op' = IF ok THEN [c EXCEPT !.tail = [i \in {j \in Inos :
                             w.tail[j] # w.inode[j].tail} |-> w.tail[i]]]
             ELSE Idle
    /\ inode' = w.inode /\ log' = w.log /\ flagged' = w.flagged
    /\ sih' = w.sih /\ spoilt' = w.spoilt
    /\ UNCHANGED <<names, torn, crashes>>

\* A new inode i in NVM and in DRAM; its valid byte is not set yet.
nova_new_vfs_inode(w, i, kind, l) ==
    LET links == IF kind = "dir" THEN 2 ELSE 1
    IN  [w EXCEPT
          !.inode[i] = [valid |-> FALSE, mode |-> kind, links |-> links,
                        tail |-> Len(l), pages |-> IF l = <<>> THEN 0 ELSE 1,
                        room |-> IF l = <<>> THEN 0 ELSE PageCap],
          !.log[i] = l,
          !.tail[i] = Len(l),
          !.sih[i] = [NotCached EXCEPT !.cached = TRUE, !.nlink = links]]

\* Common to create, mknod and symlink: the log of the new inode is l.
NewName(d, n, i, l, ok) ==
    /\ InDir(d) /\ sih[d].tree[n] = 0 /\ i \in unused
    /\ unused' = unused \ {i}
    /\ \E w \in {nova_add_dentry(World, d, n, i, 0)} :
          Reach(IF ok THEN nova_new_vfs_inode(w, i, "file", l) ELSE w,
                 [Idle EXCEPT !.cmd = "new", !.set = {i}, !.add = {<<d, n, i>>}],
                 ok)

nova_create(d, n, i, ok) == "reg" \in Kinds /\ NewName(d, n, i, <<>>, ok)

nova_mknod(d, n, i, ok) == "node" \in Kinds /\ NewName(d, n, i, <<>>, ok)

nova_symlink(d, n, i, ok) ==
    /\ "symlink" \in Kinds
    /\ NewName(d, n, i, <<Entry("write", NoName, NoIno, 0)>>, ok)

nova_mkdir(d, n, i, inv, ok) ==
    /\ InDir(d) /\ sih[d].tree[n] = 0 /\ i \in unused /\ "dir" \in Kinds
    /\ sih[d].nlink < NOVA_LINK_MAX
    /\ unused' = unused \ {i}
    /\ \E w \in {nova_add_dentry(World, d, n, i, 1)} :
       \E x \in {nova_new_vfs_inode(w, i, "dir", nova_append_dir_init_entries(i, d, inv))} :
          Reach(IF ok THEN SetLinks(x, d, x.sih[d].nlink + 1) ELSE w,
                 [Idle EXCEPT !.cmd = "new", !.set = {i}, !.add = {<<d, n, i>>}],
                 ok)

nova_link(i, d, n, ok) ==
    /\ InDir(d) /\ sih[d].tree[n] = 0
    /\ i \in Cached /\ ~IsDir(i) /\ sih[i].nlink \in 1 .. NOVA_LINK_MAX - 1
    /\ \E w \in {nova_add_dentry(World, d, n, i, 0)} :
       \E x \in {SetLinks(w, i, w.sih[i].nlink + 1)} :
          Reach(IF ok THEN nova_append_link_change_entry(x, i) ELSE x,
                [Idle EXCEPT !.cmd = "link", !.add = {<<d, n, i>>}], ok)
    /\ UNCHANGED unused

nova_unlink(d, n, ok) ==
    /\ InDir(d) /\ There(d, n) /\ ~IsDir(Target(d, n))
    /\ \E i \in {Target(d, n)} :
       \E w \in {nova_remove_dentry(World, d, n, 0)} :
       \E x \in {DropLinks(w, i, 1)} :
           Reach(IF ok THEN nova_append_link_change_entry(x, i) ELSE x,
                 [Idle EXCEPT !.cmd = "unlink", !.del = {<<d, n, i>>},
                              !.clear = IF sih[i].nlink = 1 THEN {i} ELSE {}], ok)
    /\ UNCHANGED unused

nova_empty_dir(i) == sih[i].tree = NoTree

nova_rmdir(d, n, ok) ==
    /\ InDir(d) /\ There(d, n) /\ IsDir(Target(d, n))
    /\ nova_empty_dir(Target(d, n))
    /\ \E i \in {Target(d, n)} :
       \E w \in {SetLinks(nova_remove_dentry(World, d, n, -1), i, 0)} :
       \E x \in {DropLinks(w, d, 1)} :
           Reach(IF ok THEN nova_append_link_change_entry(x, i) ELSE x,
                 [Idle EXCEPT !.cmd = "rmdir", !.del = {<<d, n, i>>},
                              !.clear = {i}], ok)
    /\ UNCHANGED unused

\* The directories above d, d included.
Above(d) ==
    FoldLeft(LAMBDA S, k : S \cup {b[1] : b \in {c \in names : c[3] \in S}},
             {d}, [k \in 1 .. Cardinality(Inos) |-> k])

\* Rename i from on in od to nn in nd, where j (NoIno if none) is replaced.
nova_rename(od, on, nd, nn, ok) ==
    /\ InDir(od) /\ InDir(nd) /\ There(od, on)
    /\ LET i == Target(od, on)
           over == sih[nd].tree[nn] # 0
           j == IF over THEN Target(nd, nn) ELSE NoIno
           isdir == IsDir(i)
           inc == IF isdir /\ ~over THEN 1 ELSE 0
           dec == IF isdir THEN -1 ELSE 0
       IN  /\ <<od, on>> # <<nd, nn>> /\ i # j
           /\ isdir => i \notin Above(nd)
           /\ over => j \in Cached /\ (IsDir(j) <=> isdir)
           /\ isdir /\ over => nova_empty_dir(j)
           /\ isdir /\ ~over => sih[nd].nlink < NOVA_LINK_MAX
           /\ ~ok => over
           /\ \E w1 \in {nova_append_link_change_entry(World, i)} :
              \E w2 \in {IF over THEN nova_remove_dentry(w1, nd, nn, 0) ELSE w1} :
              \E w3 \in {nova_add_dentry(w2, nd, nn, i, inc)} :
              \E w4 \in {SetLinks(w3, nd, w3.sih[nd].nlink + inc)} :
              \E w5 \in {nova_remove_dentry(w4, od, on, dec)} :
              \E w6 \in {IF isdir THEN DropLinks(w5, od, 1) ELSE w5} :
              \E w7 \in {IF over THEN DropLinks(w6, j, IF isdir THEN 2 ELSE 1)
                                  ELSE w6} :
                Reach(IF over /\ ok THEN nova_append_link_change_entry(w7, j) ELSE w7,
                  [Idle EXCEPT !.cmd = "rename",
                     !.del = {<<od, on, i>>} \cup
                             (IF over THEN {<<nd, nn, j>>} ELSE {}),
                     !.add = {<<nd, nn, i>>},
                     !.clear = IF over /\ w7.sih[j].nlink = 0 THEN {j} ELSE {},
                     !.parent = IF isdir /\ od # nd
                                THEN <<i, FatherEntry(w1, i), nd>> ELSE <<>>], ok)
    /\ UNCHANGED unused
-----------------------------------------------------------------------------
(* Transactions, and the steps that are not part of an operation.          *)

\* A transaction stores the tails the operation has reached, sets the valid byte
\* of the inodes in set and clears that of the inodes in clear, all at once.
Transaction(set, clear) ==
    /\ inode' = [i \in Inos |->
          [inode[i] EXCEPT
             !.tail = IF i \in DOMAIN op.tail THEN op.tail[i] ELSE @,
             !.valid = (@ \/ i \in set) /\ i \notin clear]]
    /\ names' = (names \ op.del) \cup op.add
    /\ op' = Idle
    /\ UNCHANGED <<flagged, sih, unused, spoilt, torn, faults, crashes>>

nova_lite_transaction_for_new_inode ==
    /\ op.cmd = "new"
    /\ Transaction(op.set, {})
    /\ UNCHANGED log

nova_lite_transaction_for_time_and_link ==
    /\ op.cmd \in {"link", "unlink", "rmdir"}
    /\ Transaction({}, op.clear)
    /\ UNCHANGED log

\* Mutant: the parent is not stored.
RenameKeepsParent ==
    op.cmd = "rename" /\ Transaction({}, op.clear) /\ UNCHANGED log
\* A rename of a directory to another parent also stores the parent.
RenameTransaction ==
    /\ op.cmd = "rename"
    /\ Transaction({}, op.clear)
    /\ log' = IF op.parent = <<>> THEN log
              ELSE [log EXCEPT ![op.parent[1]][op.parent[2]].ino = op.parent[3]]

\* FS_IOC_SETFLAGS and FS_IOC_SETVERSION log the link count with the flags.
nova_ioctl(i) ==
    /\ op = Idle /\ i \in Cached \cap Flaggable
    /\ \E w \in {nova_append_link_change_entry(World, i)} :
        /\ Bounded(w.log)
        /\ inode' = [w.inode EXCEPT ![i].tail = w.tail[i]]
        /\ log' = w.log /\ flagged' = w.flagged /\ sih' = w.sih
        /\ spoilt' = w.spoilt
    /\ UNCHANGED <<unused, op, names, torn, faults, crashes>>

\* The names that one call with a large buffer lists: those of the entries that
\* are not marked invalid, in the order of the log, whatever removes them.
nova_readdir(d) ==
    LET shown(e) == e.type = "dentry" /\ e.name \in Names /\ e.ino # NoIno /\ ~e.invalid
        walk == SelectSeq(SubSeq(log[d], 1, inode[d].tail), shown)
    IN  [k \in DOMAIN walk |-> walk[k].name]

\* Look a name up and rebuild its inode, unless that is not valid.
nova_iget(i) ==
    /\ i \notin Cached /\ inode[i].valid
    /\ sih' = [sih EXCEPT ![i] = nova_rebuild_inode(i)]
    /\ inode' = [inode EXCEPT ![i].links = sih'[i].nlink]

nova_lookup(d, n) ==
    /\ d \in Cached /\ IsDir(d) /\ sih[d].tree[n] # 0 /\ Target(d, n) # NoIno
    /\ nova_iget(Target(d, n))
    /\ UNCHANGED <<log, flagged, unused, op, names, spoilt, torn, faults,
                   crashes>>

\* Mutant: an inode with one link is freed.
EvictLastLink(i) ==
    /\ i \in Cached \ {Root}
    /\ i \notin DOMAIN op.tail \cup op.set \cup op.clear
    /\ sih' = [sih EXCEPT ![i] = NotCached]
    /\ inode' = [inode EXCEPT ![i] = IF sih[i].nlink <= 1 THEN NoInode ELSE @]
    /\ log' = [log EXCEPT ![i] = IF sih[i].nlink <= 1 THEN <<>> ELSE @]
    /\ flagged' = {f \in flagged : f[1] # i}
    /\ unused' = IF sih[i].nlink <= 1 THEN unused \cup {i} ELSE unused
    /\ UNCHANGED <<op, names, spoilt, torn, faults, crashes>>
\* The VFS drops an inode no operation holds.  Without links it is freed.
nova_evict_inode(i) ==
    /\ i \in Cached \ {Root}
    /\ i \notin DOMAIN op.tail \cup op.set \cup op.clear
    /\ sih' = [sih EXCEPT ![i] = NotCached]
    /\ IF sih[i].nlink = 0
       THEN /\ inode' = [inode EXCEPT ![i] = NoInode]
            /\ log' = [log EXCEPT ![i] = <<>>]
            /\ flagged' = {f \in flagged : f[1] # i}
            /\ unused' = unused \cup {i}
       ELSE UNCHANGED <<inode, log, flagged, unused>>
    /\ UNCHANGED <<op, names, spoilt, torn, faults, crashes>>

\* The power fails and the file system is mounted again: the logs end at their
\* tails, inodes that are not valid are free, and of the invalid bytes that were
\* not written back any may be kept.
Crash ==
    /\ crashes < MaxCrashes
    /\ crashes' = crashes + 1
    /\ \E kept \in SUBSET flagged :
       \E l \in {[i \in Inos |-> IF inode[i].valid THEN Survives(i, kept) ELSE <<>>]} :
             /\ log' = l
             /\ names' = Found(l)
             /\ sih' = [i \in Inos |-> IF i = Root THEN nova_rebuild_dir_inode_tree(i, l[i])
                                       ELSE NotCached]
    /\ inode' = [i \in Inos |-> IF inode[i].valid THEN inode[i] ELSE NoInode]
    /\ unused' = {i \in Inos : ~inode[i].valid}
    /\ flagged' = {}
    /\ torn' = (torn \/ ~(op.del \subseteq names'))
    /\ op' = Idle
    /\ UNCHANGED <<spoilt, faults>>

Init ==
    \E inv \in InitBytes :
      /\ inode = [i \in Inos |-> IF i # Root THEN NoInode ELSE
                   [valid |-> TRUE, mode |-> "dir", links |-> 2, tail |-> 2,
                    pages |-> 1, room |-> PageCap]]
      /\ log = [i \in Inos |-> IF i # Root THEN <<>>
                               ELSE nova_append_dir_init_entries(Root, Root, inv)]
      /\ sih = [i \in Inos |-> IF i # Root THEN NotCached ELSE
                 [NotCached EXCEPT !.cached = TRUE, !.nlink = 2]]
      /\ flagged = {} /\ unused = Inos \ {Root}
      /\ op = Idle /\ names = {} /\ spoilt = FALSE /\ torn = FALSE /\ faults = 0 /\ crashes = 0

Next ==
    \/ \E d \in Inos, n \in Names, ok \in BOOLEAN :
         \/ \E i \in unused : \/ nova_create(d, n, i, ok)
                              \/ nova_mknod(d, n, i, ok)
                              \/ nova_symlink(d, n, i, ok)
                              \/ \E inv \in InitBytes :
                                    nova_mkdir(d, n, i, inv, ok)
         \/ \E i \in Inos : nova_link(i, d, n, ok)
         \/ nova_unlink(d, n, ok)
         \/ nova_rmdir(d, n, ok)
         \/ \E nd \in Inos, nn \in Names : nova_rename(d, n, nd, nn, ok)
    \/ nova_lite_transaction_for_new_inode
    \/ nova_lite_transaction_for_time_and_link
    \/ RenameTransaction
    \/ \E i \in Inos : nova_ioctl(i) \/ nova_evict_inode(i)
    \/ \E d \in Inos, n \in Names : nova_lookup(d, n)
    \/ Crash

Spec == Init /\ [][Next]_vars
-----------------------------------------------------------------------------
Quiet == op = Idle /\ faults = 0 /\ ~spoilt

TypeOK ==
    /\ inode \in [Inos -> [valid : BOOLEAN, mode : {"file", "dir"},
                           links : Nat, tail : Nat, pages : Nat, room : Nat]]
    /\ \A i \in Inos : inode[i].tail <= Len(log[i]) /\ Len(log[i]) <= inode[i].room
    /\ sih \in [Inos -> [cached : BOOLEAN, nlink : Nat, tree : [Names -> Nat],
                         link : Nat]]
    /\ flagged \subseteq {f \in Inos \X Nat : f[2] \in DOMAIN log[f[1]]}
    /\ unused \subseteq Inos \ {Root}
    /\ names \subseteq Inos \X Names \X Inos
    /\ spoilt \in BOOLEAN /\ torn \in BOOLEAN
    /\ faults \in 0 .. MaxFaults /\ crashes \in 0 .. MaxCrashes

\* The tree of a directory in DRAM is the one a rebuild from its log gives, after
\* any sequence of operations, evictions, collections and power failures.
TreeExact ==
    Quiet => \A d \in Cached : IsDir(d) =>
        nova_rebuild_inode(d).tree = sih[d].tree

\* The link count of an inode, in DRAM or as a rebuild would find it, is the number
\* of names of a file, and two and the number of subdirectories of a directory; a
\* removal that a power failure tore leaves it too high, never too low.
LinksExact ==
    LET named(i) == {b \in names : b[3] = i}
        subdirs(d) == {b \in names : b[1] = d /\ IsDir(b[3])}
        links(i) == IF sih[i].cached THEN {sih[i].nlink, nova_rebuild_inode(i).nlink}
                    ELSE {nova_rebuild_inode(i).nlink}
    IN  Quiet => \A i \in Inos : inode[i].valid =>
          LET exact == IF IsDir(i) THEN 2 + Cardinality(subdirs(i))
                       ELSE Cardinality(named(i))
          IN  \A k \in links(i) : k = exact \/ (torn /\ k > exact)

\* A name that a mount would find is bound to an inode that exists and whose number
\* is not given out again.
NamesBound ==
    faults = 0 /\ ~spoilt =>
        \A b \in names : inode[b[3]].valid /\ b[3] \notin unused

\* The ".." of a directory that has a name is the directory the name is in.
ParentExact ==
    Quiet => \A b \in names : IsDir(b[3]) /\ log[b[3]][2] # Gone =>
        log[b[3]][2].ino = b[1]

\* A listing of a directory shows every name that a lookup finds, each once and no
\* other, as long as no invalid byte was lost in a power failure.
ListingExact ==
    Quiet /\ crashes = 0 => \A d \in Cached : IsDir(d) =>
        LET listed == nova_readdir(d)
        IN  /\ Range(listed) = {n \in Names : sih[d].tree[n] # 0}
            /\ IsInjective(listed)

\* "Each directory operation is atomic" (README.md): a power failure leaves the
\* names as they were before the operation in progress or as they are after it.
OpAtomic ==
    [][crashes' # crashes /\ faults = 0 /\ ~spoilt =>
         names' \in {names, (names \ op.del) \cup op.add}]_vars

\* "restore to a consistent state" (README.md): when no operation is in progress
\* a power failure brings back the names as the operations left them.
NamesRestored ==
    op = Idle /\ faults = 0 =>
        Found([i \in Inos |-> Survives(i, {})]) = names

\* The directory operations implement Namespace, until an operation runs out of
\* memory or a removal that is not durable is collected.
NS == INSTANCE Namespace WITH
        todo <- [del |-> op.del, add |-> op.add],
        sound <- faults = 0 /\ ~spoilt
NamespaceImplemented == NS!NsSpec
=============================================================================
