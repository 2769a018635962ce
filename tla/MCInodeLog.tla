----------------------------- MODULE MCInodeLog -----------------------------
(* Instances of InodeLog for TLC. *)
EXTENDS InodeLog

OnePage == {<<0, 1>>}
LastPage == {<<1, 1>>, <<0, 2>>}
EachPage == {<<0, 1>>, <<1, 1>>}
None == {}

CONSTANT LongLog    \* pages of the log that LongSpec starts from

\* A long log without the history that made it: every page holds a write of one
\* page and a truncation to two pages.  Every page had a live entry whenever the
\* log was extended, so a fast collection has freed none; the thorough ones
\* found no free pages.  Later writes of a page made the earlier ones dead.
LongInit ==
    \E lo \in [1 .. LongLog -> {0, 1}] :
      LET dead(p) == \E q \in p + 1 .. LongLog : lo[q] = lo[p]
          write(p) == [Entry("write", lo[p], 1, IF p = 1 THEN lo[p] + 1 ELSE 2,
                             0, p)
                         EXCEPT !.inv = IF dead(p) THEN 1 ELSE 0]
          page(p) == [l \in Slot |->
                        CASE p > LongLog -> Blank
                          [] l = 0 -> write(p)
                          [] l = WriteSize -> Entry("setsize", 0, 0, 2,
                                                    Least(Modes), 0)
                          [] OTHER -> Blank]
      IN  /\ log = [head |-> 1, tail |-> At(LongLog, WriteSize + AttrSize),
                    mode |-> Least(Modes),
                    next |-> [p \in LogPage |->
                                IF p < LongLog THEN p + 1 ELSE NULL],
                    ent |-> [p \in LogPage |-> page(p)]]
          /\ dur = log
          /\ sih = Rebuild(log)
          /\ free = LogPage \ 1 .. LongLog
          /\ op = Idle
          /\ ops = 2 * LongLog /\ fails = 0 /\ crashes = 0

LongSpec == LongInit /\ [][Next]_vars
=============================================================================
