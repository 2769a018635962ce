------------------------------ MODULE InodeLog ------------------------------
(***************************************************************************)
(* The log of one regular file: appending write and attribute entries,     *)
(* extending the log, fast and thorough garbage collection (inode.c), the  *)
(* commit of a log tail, the index kept in DRAM, and what a mount rebuilds *)
(* from the log after a power failure.                                     *)
(*                                                                         *)
(* The NVM is a record: log_head, log_tail and i_mode of the inode, the    *)
(* next_page of every log page and the entries of every page.  log is what *)
(* the CPUs see; dur is what has been fenced.  A power failure keeps dur   *)
(* and any of the cache lines changed since: the inode's line (head and    *)
(* tail share one), a page tail, an entry.  invalid_pages is updated in    *)
(* place and never flushed, so a fence does not make it durable.  (Of a    *)
(* count increased twice only the first and the last value are kept: the   *)
(* first and a value between them agree on whether the entry is dead.)     *)
(*                                                                         *)
(* The inode lock serialises the operations on a file: an operation's      *)
(* steps are separate only where a power failure can tell them apart.      *)
(* Sizes and offsets of the file are in pages, sizes of entries in units.  *)
(* A data block is freed exactly when invalid_pages of its entry grows, so *)
(* data blocks are identified with the pages of write entries.             *)
(***************************************************************************)
EXTENDS Integers, Sequences, FiniteSets

CONSTANTS
    NumPages,          \* log pages this inode can get from the allocator
    LAST_ENTRY,        \* room for entries in a log page
    WriteSize,         \* sizeof(struct nova_file_write_entry)
    AttrSize,          \* sizeof(struct nova_setattr_logentry), the smallest
    EXTEND_THRESHOLD,  \* most pages added at once
    Ranges,            \* the <<pgoff, pages>> that are written
    Fills,             \* the <<pgoff, pages>> of the holes that direct I/O fills
    Sizes,             \* the sizes files are truncated to
    Modes,             \* the values of i_mode
    FilePages,         \* bound on the size of the file
    MaxOps,            \* bound on the operations started
    MaxFails,          \* bound on the allocations refused
    MaxCrashes         \* bound on the power failures

ASSUME LogAssumption ==
    /\ NumPages \in Nat /\ FilePages \in Nat /\ EXTEND_THRESHOLD \in Nat \ {0}
    /\ AttrSize \in Nat \ {0} /\ WriteSize >= AttrSize /\ LAST_ENTRY >= WriteSize
    /\ Ranges \cup Fills \subseteq (0 .. FilePages - 1) \X (1 .. FilePages)
    /\ \A r \in Ranges \cup Fills : r[1] + r[2] <= FilePages
    /\ Sizes \subseteq 0 .. FilePages
    /\ MaxOps \in Nat /\ MaxFails \in Nat /\ MaxCrashes \in Nat

LogPage == 1 .. NumPages
NULL == 0
Pgoff == 0 .. FilePages - 1
Slot == 0 .. LAST_ENTRY - 1

VARIABLES
    log,    \* the NVM as the CPUs see it
    dur,    \* the NVM as of the last fence
    sih,    \* the header in DRAM: tree, i_size, i_mode, last_setattr, log_pages
    free,   \* log pages in the free lists
    op,     \* the operation that holds the inode lock
    ops, fails, crashes

\* The allocator refuses n log pages, because they are not there or because
\* other files took them.
Refused(n) ==
    LET there == n <= Cardinality(free)
    IN  /\ there => fails < MaxFails
        /\ fails' = IF there THEN fails + 1 ELSE fails

vars == <<log, dur, sih, free, op, ops, fails, crashes>>

Least(S) == CHOOSE n \in S : \A m \in S : n <= m
At(p, l) == [page |-> p, loc |-> l]
NoAddr == At(NULL, 0)

\* Log entries.  A "setsize" is a SET_ATTR entry with ATTR_SIZE; id stands for
\* the data written.
Entry(type, lo, num, size, mode, id) ==
    [type |-> type, lo |-> lo, num |-> num, size |-> size, mode |-> mode,
     id |-> id, inv |-> 0]
Blank == Entry("blank", 0, 0, 0, 0, 0)
NextPage == Entry("next", 0, 0, 0, 0, 0)
IsAttr(e) == e.type \in {"attr", "setsize"}
EntrySize(e) == IF IsAttr(e) THEN AttrSize ELSE WriteSize
EntryAt(img, a) == img.ent[a.page][a.loc]

-----------------------------------------------------------------------------
(* Walking a log *)

GotoNextPage(img, a) ==
    \/ a.loc + AttrSize > LAST_ENTRY
    \/ EntryAt(img, a).type = "next"

\* The pages linked from p on; longer than NumPages if the links form a cycle.
ChainFrom(img, p) ==
    LET walk[n \in 0 .. NumPages] ==
          IF n = 0 THEN <<p>>
          ELSE LET s == walk[n - 1]
                   q == img.next[s[Len(s)]]
               IN  IF q = NULL THEN s ELSE Append(s, q)
    IN  IF p = NULL THEN <<>> ELSE walk[NumPages]

\* The entries of page p from position l on: up to the log tail, or to where
\* goto_next_page leaves the page.
InPage(img, p, l) ==
    LET rest[i \in 0 .. LAST_ENTRY + WriteSize] ==
          IF At(p, i) = img.tail THEN [seq |-> <<>>, end |-> TRUE]
          ELSE IF GotoNextPage(img, At(p, i)) THEN [seq |-> <<>>, end |-> FALSE]
          ELSE LET r == rest[i + EntrySize(EntryAt(img, At(p, i)))]
               IN  [r EXCEPT !.seq = <<At(p, i)>> \o @]
    IN  rest[l]

\* The addresses of the entries from log_head up to log_tail.  ok is FALSE if
\* the walk does not get there: a null dereference, BUG() or an endless loop.
Walk(img) ==
    LET upto[n \in 0 .. NumPages] ==
          IF n = 0
          THEN LET r == InPage(img, img.head, 0)
               IN  [page |-> img.head, ok |-> TRUE, end |-> r.end, seq |-> r.seq]
          ELSE LET s == upto[n - 1]
                   q == img.next[s.page]
                   first == At(q, 0)
                   r == InPage(img, q, EntrySize(EntryAt(img, first)))
               IN  IF s.end THEN s
                   ELSE IF q = NULL THEN [s EXCEPT !.end = TRUE, !.ok = FALSE]
                   ELSE [page |-> q, ok |-> TRUE, end |-> r.end,
                         seq |-> s.seq \o <<first>> \o r.seq]
        last == upto[NumPages]
    IN  IF img.head = NULL THEN [seq |-> <<>>, ok |-> img.tail = NoAddr]
        ELSE [seq |-> last.seq, ok |-> last.ok /\ last.end]

-----------------------------------------------------------------------------
(* nova_rebuild_file_inode_tree *)

NewHeader == [tree |-> [i \in Pgoff |-> NoAddr], i_size |-> 0,
              i_mode |-> Least(Modes), last_setattr |-> NoAddr,
              log_pages |-> 0]

\* Mutant: the replay of a truncation keeps one page too many.
ApplySetattrShort(h, a, e) ==
    [h EXCEPT !.tree = [i \in Pgoff |->
                 IF e.size < i /\ i < h.i_size THEN NoAddr ELSE h.tree[i]],
              !.i_size = e.size, !.i_mode = e.mode, !.last_setattr = a]

\* An attribute entry truncates what lies beyond its size.
ApplySetattr(h, a, e) ==
    [h EXCEPT !.tree = [i \in Pgoff |->
                 IF e.size <= i /\ i < h.i_size THEN NoAddr ELSE h.tree[i]],
              !.i_size = e.size, !.i_mode = e.mode, !.last_setattr = a]

ApplyWrite(h, a, e) ==
    [h EXCEPT !.tree = [i \in Pgoff |->
                 IF e.num # e.inv /\ e.lo <= i /\ i < e.lo + e.num
                 THEN a ELSE h.tree[i]],
              !.i_size = e.size]

Rebuild(img) ==
    LET seq == Walk(img).seq
        apply[n \in 0 .. Len(seq)] ==
          IF n = 0 THEN [NewHeader EXCEPT !.i_mode = img.mode,
                           !.log_pages = Len(ChainFrom(img, img.head))]
          ELSE LET a == seq[n]
                   e == EntryAt(img, a)
               IN  CASE IsAttr(e) -> ApplySetattr(apply[n - 1], a, e)
                     [] e.type = "write" -> ApplyWrite(apply[n - 1], a, e)
                     [] OTHER -> apply[n - 1]
    IN  apply[Len(seq)]

\* What a reader of the file can see.
View(img, h) ==
    [data |-> [i \in Pgoff |-> IF h.tree[i] = NoAddr THEN 0
                               ELSE EntryAt(img, h.tree[i]).id],
     size |-> h.i_size]

-----------------------------------------------------------------------------
(* Fences and power failures *)

SameEntry(e, f) == [e EXCEPT !.inv = 0] = [f EXCEPT !.inv = 0]

\* A fence drains the flushes and the non-temporal stores before it.
Fenced(img) ==
    [img EXCEPT !.ent = [p \in LogPage |-> [l \in Slot |->
        IF SameEntry(img.ent[p][l], dur.ent[p][l]) THEN dur.ent[p][l]
                                                   ELSE img.ent[p][l]]]]

Changed ==
    {<<"inode", 0, 0>>}
    \cup {<<"next", p, 0>> : p \in {q \in LogPage : log.next[q] # dur.next[q]}}
    \cup {<<"entry", s[1], s[2]>> : s \in
            {t \in LogPage \X Slot : log.ent[t[1]][t[2]] # dur.ent[t[1]][t[2]]}}

\* The NVM after a power failure if just the lines of kept were written back.
Image(kept) ==
    LET inode == IF <<"inode", 0, 0>> \in kept THEN log ELSE dur
    IN  [head |-> inode.head, tail |-> inode.tail, mode |-> log.mode,
         next |-> [p \in LogPage |-> IF <<"next", p, 0>> \in kept
                                     THEN log.next[p] ELSE dur.next[p]],
         ent |-> [p \in LogPage |-> [l \in Slot |->
                    IF <<"entry", p, l>> \in kept
                    THEN log.ent[p][l] ELSE dur.ent[p][l]]]]

-----------------------------------------------------------------------------
Idle == [pc |-> "idle", entry |-> Blank, lo |-> 0, left |-> 0,
         temp |-> NoAddr, done |-> <<>>, new |-> NULL, num |-> 0,
         curr |-> NULL, last |-> NULL, found |-> NULL, drop |-> NULL,
         valid |-> 0, checked |-> 0, freed |-> 0, blocks |-> 0,
         old |-> <<>>]

Init ==
    /\ log = [head |-> NULL, tail |-> NoAddr, mode |-> Least(Modes),
              next |-> [p \in LogPage |-> NULL],
              ent |-> [p \in LogPage |-> [l \in Slot |-> Blank]]]
    /\ dur = log
    /\ sih = NewHeader
    /\ free = LogPage
    /\ op = Idle
    /\ ops = 0 /\ fails = 0 /\ crashes = 0

-----------------------------------------------------------------------------
(* Starting an operation: what will be appended *)

Begin(o) ==
    /\ op.pc = "idle" /\ ops < MaxOps
    /\ op' = o /\ ops' = ops + 1
    /\ UNCHANGED <<log, dur, free, fails, crashes>>

\* nova_cow_file_write
StartWrite(r) ==
    /\ Begin([Idle EXCEPT !.pc = "alloc", !.lo = r[1], !.left = r[2],
                          !.temp = log.tail])
    /\ UNCHANGED sih

\* The allocator may give fewer blocks than asked for: one entry for each run.
AllocData(n) ==
    LET end == op.lo + n
    IN  /\ op.pc = "alloc" /\ n <= op.left
        /\ op' = [op EXCEPT !.pc = "append", !.lo = end, !.left = @ - n,
              !.entry = Entry("write", op.lo, n,
                              IF end > sih.i_size THEN end ELSE sih.i_size,
                              0, ops)]
        /\ UNCHANGED <<log, dur, sih, free, ops, fails, crashes>>

\* No blocks: the entries appended so far stay behind the tail.
AllocDataFails ==
    /\ op.pc = "alloc" /\ Refused(0)
    /\ op' = Idle
    /\ UNCHANGED <<log, dur, sih, free, ops, crashes>>

\* nova_dax_get_blocks fills a hole within the file, at most up to the start of
\* the next entry.
NextMapped(lo) == {i \in Pgoff : /\ i > lo /\ sih.tree[i] # NoAddr
                                 /\ \A j \in lo .. i - 1 : sih.tree[j] = NoAddr}
StartFill(r) ==
    /\ sih.tree[r[1]] = NoAddr /\ r[1] + r[2] <= sih.i_size
    /\ \A i \in NextMapped(r[1]) : r[1] + r[2] <= EntryAt(log, sih.tree[i]).lo
    /\ Begin([Idle EXCEPT !.pc = "append", !.temp = log.tail,
              !.entry = Entry("write", r[1], r[2], sih.i_size, 0, ops + 1)])
    /\ UNCHANGED sih

\* nova_notify_change: the mode changes in DRAM before the entry is appended.
StartSetattr(m) ==
    /\ Begin([Idle EXCEPT !.pc = "append", !.temp = log.tail,
              !.entry = Entry("attr", 0, 0, sih.i_size, m, 0)])
    /\ sih' = [sih EXCEPT !.i_mode = m]

StartSetsize(s) ==
    /\ Begin([Idle EXCEPT !.pc = "append", !.temp = log.tail,
              !.entry = Entry("setsize", 0, 0, s, sih.i_mode, 0)])
    /\ UNCHANGED sih

-----------------------------------------------------------------------------
(* nova_get_append_head and the store of the entry *)

Fits(a) == a.page # NULL /\ a.loc + EntrySize(op.entry) <= LAST_ENTRY

\* nova_set_next_page_flag, with its fence; what lies behind it is dead.
Flag(img, a) ==
    IF a.page = NULL \/ a.loc >= LAST_ENTRY THEN img
    ELSE [img EXCEPT !.ent[a.page] = [l \in Slot |->
            IF l < a.loc THEN @[l] ELSE IF l = a.loc THEN NextPage ELSE Blank]]
FlagFence(img) == IF img = log THEN dur ELSE Fenced(img)

AppendAt(img, a) ==
    LET end == a.loc + EntrySize(op.entry)
    IN  /\ log' = [img EXCEPT !.ent[a.page] = [l \in Slot |->
              IF l = a.loc THEN op.entry
              ELSE IF a.loc < l /\ l < end THEN Blank ELSE @[l]]]
        /\ op' = [op EXCEPT !.pc = IF op.left > 0 THEN "alloc" ELSE "commit",
                            !.temp = At(a.page, end), !.done = Append(@, a)]
        /\ sih' = IF IsAttr(op.entry) THEN [sih EXCEPT !.last_setattr = a]
                                      ELSE sih
        /\ UNCHANGED <<free, ops, fails, crashes>>

AppendHere ==
    /\ op.pc = "append" /\ Fits(op.temp)
    /\ AppendAt(log, op.temp)
    /\ UNCHANGED dur

AppendNextPage ==
    /\ op.pc = "append" /\ op.temp.page # NULL /\ ~Fits(op.temp)
    /\ log.next[op.temp.page] # NULL
    /\ AppendAt(Flag(log, op.temp), At(log.next[op.temp.page], 0))
    /\ dur' = FlagFence(Flag(log, op.temp))

-----------------------------------------------------------------------------
(* nova_extend_inode_log *)

NeedsPage ==
    /\ op.pc = "append" /\ ~Fits(op.temp)
    /\ op.temp.page # NULL => log.next[op.temp.page] = NULL

\* The nth page of the free lists; the allocator takes the lowest first.
Nth(n) == CHOOSE p \in free : Cardinality({q \in free : q < p}) = n - 1
Pages(k) == {Nth(n) : n \in 1 .. k}

\* nova_coalesce_log_pages: the first k free pages, linked; the last to end.
Link(img, k, end) ==
    [img EXCEPT !.next = [p \in LogPage |->
        IF p \notin Pages(k) THEN @[p]
        ELSE IF p = Nth(k) THEN end
        ELSE Nth(CHOOSE n \in 2 .. k : Nth(n - 1) = p)]]

\* Freed pages may be reused: nothing is left in them to rely on.
Wipe(img, S) ==
    [img EXCEPT !.next = [p \in LogPage |-> IF p \in S THEN NULL ELSE @[p]],
                !.ent = [p \in LogPage |-> IF p \in S THEN [l \in Slot |-> Blank]
                                           ELSE @[p]]]

\* The first page of a log: log_tail is stored before log_head.
FirstPage ==
    LET linked == Link(log, 1, NULL)
    IN  /\ NeedsPage /\ op.temp.page = NULL /\ free # {}
        /\ dur' = Fenced(linked)
        /\ log' = [linked EXCEPT !.tail = At(Nth(1), 0)]
        /\ free' = free \ Pages(1)
        /\ op' = [op EXCEPT !.pc = "first", !.temp = At(Nth(1), 0)]
        /\ UNCHANGED <<sih, ops, fails, crashes>>

FirstPageHead ==
    /\ op.pc = "first"
    /\ log' = [log EXCEPT !.head = op.temp.page]
    /\ dur' = Fenced(log')
    /\ sih' = [sih EXCEPT !.log_pages = 1]
    /\ op' = [op EXCEPT !.pc = "append"]
    /\ UNCHANGED <<free, ops, fails, crashes>>

\* Back in the append, at a; the collector's local variables are gone.
Resume(a) == [Idle EXCEPT !.pc = "append", !.entry = op.entry, !.lo = op.lo,
                          !.left = op.left, !.done = op.done, !.temp = a]

\* As many pages as the log has, or as many of them as the allocator gives.
ExtendLog(k) ==
    LET linked == Link(Flag(log, op.temp), k, NULL)
    IN  /\ NeedsPage /\ op.temp.page # NULL
        /\ k <= sih.log_pages /\ k <= EXTEND_THRESHOLD
        /\ k <= Cardinality(free)
        /\ log' = linked /\ dur' = Fenced(linked)
        /\ free' = free \ Pages(k)
        /\ op' = [op EXCEPT !.pc = "fast", !.new = Nth(1), !.num = k,
                            !.curr = log.head]
        /\ UNCHANGED <<sih, ops, fails, crashes>>

\* No page: a write is given up, an attribute change runs into BUG().
ExtendFails ==
    /\ NeedsPage /\ Refused(1)
    /\ log' = Flag(log, op.temp) /\ dur' = FlagFence(Flag(log, op.temp))
    /\ op' = IF IsAttr(op.entry) THEN [Idle EXCEPT !.pc = "bug"] ELSE Idle
    /\ UNCHANGED <<sih, free, ops, crashes>>

-----------------------------------------------------------------------------
(* nova_inode_log_fast_gc: free the pages without a live entry *)

\* curr_log_entry_invalid
EntryInvalid(a) ==
    LET e == EntryAt(log, a)
    IN  CASE e.type = "attr" -> sih.last_setattr # a
          [] e.type = "setsize" -> FALSE
          [] e.type = "write" -> e.num = e.inv
          [] OTHER -> TRUE

\* The live entries of a page, and the bytes they take.
Live(p) == {l \in Slot : ~EntryInvalid(At(p, l))}
LiveWrites(p) == {l \in Live(p) : EntryAt(log, At(p, l)).type = "write"}
ValidBytes(p) == WriteSize * Cardinality(LiveWrites(p))
                 + AttrSize * Cardinality(Live(p) \ LiveWrites(p))

FastStep ==
    /\ op.pc = "fast" /\ op.curr # log.tail.page
    /\ UNCHANGED <<sih, ops, fails, crashes>>

FastKeep ==
    /\ FastStep /\ Live(op.curr) # {}
    /\ op' = [op EXCEPT !.last = op.curr, !.curr = log.next[op.curr],
                        !.found = IF @ = NULL THEN op.curr ELSE @,
                        !.valid = @ + ValidBytes(op.curr),
                        !.checked = @ + 1]
    /\ UNCHANGED <<log, dur, free>>

\* An invalid head page is freed at the end, once log_head has moved.
FastDropHead ==
    /\ FastStep /\ Live(op.curr) = {} /\ op.curr = log.head
    /\ op' = [op EXCEPT !.last = op.curr, !.curr = log.next[op.curr],
                        !.drop = op.curr, !.freed = @ + 1]
    /\ UNCHANGED <<log, dur, free>>

\* Mutant: the page is freed and stays linked.
FastDropLinked ==
    /\ FastStep /\ Live(op.curr) = {} /\ op.curr # log.head
    /\ free' = free \cup {op.curr}
    /\ op' = [op EXCEPT !.curr = log.next[op.curr], !.freed = @ + 1]
    /\ UNCHANGED <<log, dur>>

\* free_curr_page: unlink, fence, free.
FastDrop ==
    LET unlinked == [log EXCEPT !.next[op.last] = log.next[op.curr]]
    IN  /\ FastStep /\ Live(op.curr) = {} /\ op.curr # log.head
        /\ log' = Wipe(unlinked, {op.curr})
        /\ dur' = Wipe(Fenced(unlinked), {op.curr})
        /\ free' = free \cup {op.curr}
        /\ op' = [op EXCEPT !.curr = log.next[op.curr], !.freed = @ + 1]

\* The tail page is never recycled: link the new pages, move log_head.
FastLink ==
    LET linked == [log EXCEPT !.next[op.temp.page] = op.new]
    IN  /\ op.pc = "fast" /\ op.curr = log.tail.page
        /\ dur' = Fenced(linked)
        /\ log' = [linked EXCEPT !.head = IF op.found = NULL THEN op.curr
                                                            ELSE op.found]
        /\ op' = [op EXCEPT !.pc = "head"]
        /\ UNCHANGED <<sih, free, ops, fails, crashes>>

\* The entries a thorough collection looks at: those before the tail page.
BeforeTailPage(a) == a.page # log.tail.page
Old == SelectSeq(Walk(log).seq, BeforeTailPage)

PagesAdded == op.num - op.freed

\* The fence of log_head, the free of the old head page, need_thorough_gc.
FastHead ==
    LET blocks == (op.valid + LAST_ENTRY - 1) \div LAST_ENTRY
        dropped == {op.drop} \ {NULL}
    IN  /\ op.pc = "head"
        /\ log' = Wipe(log, dropped) /\ dur' = Wipe(Fenced(log), dropped)
        /\ free' = free \cup dropped
        /\ sih' = [sih EXCEPT !.log_pages = @ + PagesAdded]
        /\ op' = IF blocks > 0 /\ blocks * 2 < op.checked
                 THEN [op EXCEPT !.pc = "thorough", !.blocks = blocks,
                                 !.old = Old]
                 ELSE Resume(At(op.new, 0))
        /\ UNCHANGED <<ops, fails, crashes>>

-----------------------------------------------------------------------------
(* nova_inode_log_thorough_gc: copy the live entries to a new log *)

\* Copying a SET_ATTR entry sets last_setattr to the copy
\* (nova_gc_assign_new_entry), so an attribute entry met later is not the
\* last one any more.
Copied(n) ==
    /\ ~EntryInvalid(op.old[n])
    /\ EntryAt(log, op.old[n]).type = "attr" =>
          \A m \in 1 .. n - 1 : EntryAt(log, op.old[m]).type # "setsize"

\* The page, counted from the new head, and the position after the first n
\* entries of the old log were dealt with.
Placed ==
    LET place[n \in 0 .. Len(op.old)] ==
          IF n = 0 THEN [idx |-> 1, end |-> 0]
          ELSE LET at == place[n - 1]
                   size == EntrySize(EntryAt(log, op.old[n]))
               IN  IF ~Copied(n) THEN at
                   ELSE IF at.end + size <= LAST_ENTRY
                   THEN [at EXCEPT !.end = @ + size]
                   ELSE [idx |-> at.idx + 1, end |-> size]
    IN  [n \in 0 .. Len(op.old) |-> place[n]]

PagesNeeded == Placed[Len(op.old)].idx
Moves == LET placed == Placed
         IN  {[from |-> op.old[n],
               to |-> At(Nth(placed[n].idx), placed[n].end
                                  - EntrySize(EntryAt(log, op.old[n])))] :
                n \in {m \in 1 .. Len(op.old) : Copied(m)}}

\* The new pages: the copies, and a NEXT_PAGE flag behind the last of a page.
NewLog(moves) ==
    [p \in LogPage |-> [l \in Slot |->
        IF p \notin Pages(PagesNeeded) THEN log.ent[p][l]
        ELSE IF \E m \in moves : m.to = At(p, l)
        THEN EntryAt(log, (CHOOSE m \in moves : m.to = At(p, l)).from)
        ELSE IF \E m \in moves :
                  /\ m.to.page = p
                  /\ m.to.loc + EntrySize(EntryAt(log, m.from)) = l
                  /\ \A k \in moves : k.to.page = p => k.to.loc <= m.to.loc
        THEN NextPage ELSE Blank]]

\* Mutant: the tree keeps pointing to the old entries.
MovedNowhere(moves, a) == a

MovedTo(moves, a) ==
    IF \E m \in moves : m.from = a THEN (CHOOSE m \in moves : m.from = a).to
                                  ELSE a

\* last_setattr ends at the last copy of a SET_ATTR entry.
LastCopied(moves) ==
    LET attrs == {m \in moves : IsAttr(EntryAt(log, m.from))}
        later(a, b) == \E i, j \in 1 .. Len(op.old) :
                          i > j /\ op.old[i] = a /\ op.old[j] = b
    IN  IF attrs = {} THEN sih.last_setattr
        ELSE (CHOOSE m \in attrs :
                \A k \in attrs : ~later(k.from, m.from)).to

\* if (extended) blocks++
Extended == IF op.blocks < PagesNeeded THEN PagesNeeded ELSE op.blocks

\* Copy, link to the tail page, store log_head.  The fence of the last flag, if
\* there is room for one, covers the copies but not the link.  (Without it also
\* copies that an earlier flag fenced are taken to be pending.)
ThoroughCopy ==
    LET moves == Moves
        fresh == Link(log, PagesNeeded, NULL)
        filled == [fresh EXCEPT !.ent = NewLog(moves)]
    IN  /\ op.pc = "thorough"
        /\ op.blocks <= Cardinality(free) /\ PagesNeeded <= Cardinality(free)
        /\ dur' = Fenced(IF Placed[Len(op.old)].end < LAST_ENTRY THEN filled
                                                             ELSE fresh)
        /\ log' = [filled EXCEPT !.head = Nth(1),
                                 !.next[Nth(PagesNeeded)] = log.tail.page]
        /\ sih' = [sih EXCEPT !.tree = [i \in Pgoff |-> MovedTo(moves, @[i])],
                              !.last_setattr = LastCopied(moves)]
        /\ free' = free \ Pages(PagesNeeded)
        /\ op' = [op EXCEPT !.pc = "switched", !.found = log.head,
                            !.blocks = Extended]
        /\ UNCHANGED <<ops, fails, crashes>>

FreeOld(old, fenced) ==
    /\ op.pc = "switched"
    /\ log' = Wipe(log, old) /\ dur' = Wipe(fenced, old)
    /\ free' = free \cup old
    /\ sih' = [sih EXCEPT !.log_pages = @ + op.blocks - op.checked]
    /\ op' = Resume(At(op.new, 0))
    /\ UNCHANGED <<ops, fails, crashes>>

\* Mutant: the old log is freed before log_head is fenced.
FreeOldUnfenced(old) == FreeOld(old, dur)

\* Mutant: the old log is freed without being unlinked from the tail page.
OldChainLinked(chain) == {chain[n] : n \in DOMAIN chain}

\* The pages from the old log_head to the page before the tail page.
OldChain(chain) == {chain[n] : n \in {i \in DOMAIN chain :
                      \A m \in 1 .. i : chain[m] # log.tail.page}}
FreeOldFenced(old) == FreeOld(old, Fenced(log))

\* The fence of log_head; the old log is unlinked and freed.
ThoroughFree == FreeOldFenced(OldChain(ChainFrom(log, op.found)))

\* Fewer pages than asked for: given up, and the k pages obtained are lost.
ThoroughFails(k) ==
    /\ op.pc = "thorough" /\ k < op.blocks /\ k <= Cardinality(free)
    /\ Refused(op.blocks)
    /\ free' = free \ Pages(k)
    /\ op' = Resume(At(op.new, 0))
    /\ UNCHANGED <<log, dur, sih, ops, crashes>>

\* The copies need another page and there is none: nova_get_append_head
\* returns 0 and the copy goes to address 0.
ThoroughFaults ==
    /\ op.pc = "thorough" /\ op.blocks < PagesNeeded
    /\ op.blocks <= Cardinality(free) /\ Refused(PagesNeeded)
    /\ op' = [Idle EXCEPT !.pc = "bug"]
    /\ UNCHANGED <<log, dur, sih, free, ops, crashes>>

-----------------------------------------------------------------------------
(* nova_update_tail_wwb, and what an operation does once it is committed *)

\* Mutant: the tail is stored without the barrier before it.
CommitTailEarly ==
    /\ op.pc = "commit"
    /\ log' = [log EXCEPT !.tail = op.temp]
    /\ op' = [op EXCEPT !.pc = "tail"]
    /\ UNCHANGED <<dur, sih, free, ops, fails, crashes>>

CommitTail ==
    /\ op.pc = "commit"
    /\ dur' = Fenced(log)
    /\ log' = [log EXCEPT !.tail = op.temp]
    /\ op' = [op EXCEPT !.pc = "tail"]
    /\ UNCHANGED <<sih, free, ops, fails, crashes>>

\* The pages of S lose their entries: invalid_pages grows, data is freed.
Unmap(img, S) ==
    [img EXCEPT !.ent = [p \in LogPage |-> [l \in Slot |->
        [@[p][l] EXCEPT !.inv =
           @ + Cardinality({i \in S : sih.tree[i] = At(p, l)})]]]]

\* nova_reassign_file_tree with nova_assign_write_entry
Written(n) == LET e == EntryAt(log, op.done[n]) IN e.lo .. e.lo + e.num - 1

\* Mutant: the blocks written over are not freed (free = false).
AssignKeeps ==
    LET new == UNION {Written(n) : n \in DOMAIN op.done}
    IN  [log |-> log,
         sih |-> [sih EXCEPT !.tree = [i \in Pgoff |-> IF i \notin new THEN @[i]
                    ELSE op.done[CHOOSE n \in DOMAIN op.done :
                                    i \in Written(n)]]]]

Assign ==
    LET new == UNION {Written(n) : n \in DOMAIN op.done}
        last == EntryAt(log, op.done[Len(op.done)])
    IN  [log |-> Unmap(log, {i \in new : sih.tree[i] # NoAddr}),
         sih |-> [sih EXCEPT !.i_size = last.size,
                    !.tree = [i \in Pgoff |-> IF i \notin new THEN @[i]
                      ELSE op.done[CHOOSE n \in DOMAIN op.done :
                                      i \in Written(n)]]]]

\* Mutant: the last block is left out.
CutShort == {i \in Pgoff : /\ op.entry.size <= i /\ i < sih.i_size - 1
                           /\ sih.tree[i] # NoAddr}

\* nova_truncate_file_blocks: the blocks from the new size to the old one.
Cut == {i \in Pgoff : /\ op.entry.size <= i /\ i < sih.i_size
                      /\ sih.tree[i] # NoAddr}

Unmaps(i) == i \in Cut

\* nova_setsize
Truncate ==
    [log |-> Unmap(log, Cut),
     sih |-> [sih EXCEPT !.i_size = op.entry.size,
                !.tree = [i \in Pgoff |-> IF Unmaps(i) THEN NoAddr ELSE @[i]]]]

Applied == CASE op.entry.type = "write" -> Assign
             [] op.entry.type = "setsize" -> Truncate
             [] OTHER -> [log |-> log, sih |-> sih]

CommitDone ==
    /\ op.pc = "tail"
    /\ dur' = Fenced(log)
    /\ log' = Applied.log /\ sih' = Applied.sih
    /\ op' = Idle
    /\ UNCHANGED <<free, ops, fails, crashes>>

-----------------------------------------------------------------------------
(* Eviction and a new iget; power failure, mount and iget *)

\* The rebuild leaves the i_mode it found in the inode.
Reload ==
    /\ op.pc = "idle"
    /\ sih' = Rebuild(log)
    /\ log' = [log EXCEPT !.mode = sih'.i_mode]
    /\ dur' = [dur EXCEPT !.mode = sih'.i_mode]
    /\ UNCHANGED <<free, op, ops, fails, crashes>>

\* Recovery keeps the pages linked from log_head and frees all others.
Crash(kept) ==
    LET img == Image(kept)
        chain == ChainFrom(img, img.head)
        lost == LogPage \ {chain[n] : n \in DOMAIN chain}
        h == Rebuild(img)
    IN  /\ crashes < MaxCrashes /\ op.pc # "dead"
        /\ log' = [Wipe(img, lost) EXCEPT !.mode = h.i_mode]
        /\ dur' = log'
        /\ sih' = h
        /\ free' = lost
        /\ op' = IF Walk(img).ok THEN Idle ELSE [Idle EXCEPT !.pc = "dead"]
        /\ crashes' = crashes + 1
        /\ UNCHANGED <<ops, fails>>

\* No operation follows a BUG() or a log that cannot be walked.
Stopped == op.pc \in {"bug", "dead"} /\ UNCHANGED vars

Next ==
    \/ \E r \in Ranges : StartWrite(r)
    \/ \E n \in 1 .. FilePages : AllocData(n)
    \/ AllocDataFails
    \/ \E r \in Fills : StartFill(r)
    \/ \E m \in Modes : StartSetattr(m)
    \/ \E s \in Sizes : StartSetsize(s)
    \/ AppendHere \/ AppendNextPage
    \/ FirstPage \/ FirstPageHead
    \/ \E k \in LogPage : ExtendLog(k)
    \/ ExtendFails
    \/ FastKeep \/ FastDropHead \/ FastDrop \/ FastLink \/ FastHead
    \/ ThoroughCopy \/ ThoroughFree
    \/ \E k \in 0 .. NumPages : ThoroughFails(k)
    \/ ThoroughFaults
    \/ CommitTail \/ CommitDone
    \/ Reload
    \/ \E kept \in SUBSET Changed : Crash(kept)
    \/ Stopped

Spec == Init /\ [][Next]_vars

-----------------------------------------------------------------------------
(* Properties *)

Addr == [page : LogPage \cup {NULL}, loc : 0 .. LAST_ENTRY]
EntryOK(e) ==
    /\ e.type \in {"blank", "next", "write", "attr", "setsize"}
    /\ e.lo + e.num <= FilePages /\ e.size \in 0 .. FilePages
    /\ e.mode \in Modes \cup {0} /\ e.id \in 0 .. MaxOps /\ e.inv \in 0 .. e.num
ImageOK(img) ==
    /\ img.head \in LogPage \cup {NULL} /\ img.tail \in Addr /\ img.mode \in Modes
    /\ \A p \in LogPage : /\ img.next[p] \in LogPage \cup {NULL}
                          /\ \A l \in Slot : EntryOK(img.ent[p][l])

\* The variables have their types; invalid_pages never exceeds num_pages.
TypeOK ==
    /\ ImageOK(log) /\ ImageOK(dur)
    /\ sih.tree \in [Pgoff -> Addr] /\ sih.i_size \in 0 .. FilePages
    /\ sih.i_mode \in Modes /\ sih.last_setattr \in Addr
    /\ sih.log_pages \in 0 .. NumPages
    /\ free \subseteq LogPage /\ op.temp \in Addr
    /\ ops \in 0 .. MaxOps /\ fails \in 0 .. MaxFails /\ crashes \in 0 .. MaxCrashes

\* Evicting the inode loses nothing: between operations a walk of the log gives
\* the radix tree, the size and the page count that are kept in DRAM, whatever
\* the collectors dropped or moved and however operations failed.
RebuildExact ==
    op.pc = "idle" => LET h == Rebuild(log)
                      IN  /\ Walk(log).ok
                          /\ h.tree = sih.tree /\ h.i_size = sih.i_size
                          /\ h.log_pages = sih.log_pages

\* The collectors never take an entry for dead that the tree points to:
\* invalid_pages counts at most the pages of an entry that no longer map to it.
\* Before a power failure it counts all of them.
InvalidPagesExact ==
    op.pc = "idle" =>
      \A n \in DOMAIN Walk(log).seq :
        LET a == Walk(log).seq[n]
            e == EntryAt(log, a)
            unused == e.num - Cardinality({i \in Pgoff : sih.tree[i] = a})
        IN  e.type = "write" => /\ e.inv <= unused
                                /\ crashes = 0 => e.inv = unused

\* No page reachable from the inode, now or after a power failure, is in the
\* free lists; the links form no cycle and lead to the page of the log tail.
PagesOwned ==
    op.pc # "dead" => \A img \in {log, dur} :
      LET chain == ChainFrom(img, img.head)
          pages == {chain[n] : n \in DOMAIN chain}
      IN  /\ Cardinality(pages) = Len(chain)
          /\ pages \cap free = {}
          /\ img.head # NULL => img.tail.page \in pages

\* The windows in which the order of two stores is left to the cache.
Windows == {"first", "switched"}

\* A power failure at any step of an append, an extension, a fast collection or
\* a commit leaves the file as it was before the operation, or as it is after
\* it once log_tail is stored.
CrashAtomic ==
    [][crashes' # crashes /\ op.pc \notin Windows \cup {"bug"} =>
         /\ op'.pc = "idle"
         /\ View(log', sih') \in
              {View(log, sih)} \cup (IF op.pc = "tail"
                THEN {View(Applied.log, Applied.sih)} ELSE {})]_vars

\* The same for the first page of a log (nova_extend_inode_log).
FirstPageAtomic ==
    [][crashes' # crashes /\ op.pc = "first" => op'.pc = "idle"]_vars

\* The same for the switch to the log of live entries
\* (nova_inode_log_thorough_gc).
SwitchAtomic ==
    [][crashes' # crashes /\ op.pc = "switched" =>
         op'.pc = "idle" /\ View(log', sih') = View(log, sih)]_vars

\* Evicting the inode keeps its mode.
ModeSurvives == op.pc = "idle" => Rebuild(log).i_mode = sih.i_mode

\* nova_dax_get_blocks finds no entry that starts at or before a hole:
\* the BUG() under next_pgoff <= iblock cannot fire.
HoleFillSafe ==
    \A lo \in Pgoff : sih.tree[lo] = NoAddr =>
      \A i \in NextMapped(lo) : EntryAt(log, sih.tree[i]).lo > lo
=============================================================================
