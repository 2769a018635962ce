----------------------------- MODULE Namespace -----------------------------
(***************************************************************************)
(* What the directory operations promise to the users of the file system.  *)
(* The namespace is a set of <<directory, name, inode>>.  An operation     *)
(* removes some bindings and adds some, all at once when it completes; a   *)
(* power failure in the middle of an operation may lose names that the     *)
(* operation was removing and changes nothing else.  Once sound is FALSE   *)
(* nothing is promised.  Module DirOps is shown to implement this.         *)
(***************************************************************************)
CONSTANTS Inos, Names

VARIABLES names, todo, sound

nsVars == <<names, todo, sound>>

Binding == Inos \X Names \X Inos
Nothing == [del |-> {}, add |-> {}]

\* No name of a directory is bound twice.
Function(bs) == \A b, c \in bs : b[1] = c[1] /\ b[2] = c[2] => b = c

NsInit ==
    /\ names \subseteq Binding /\ Function(names)
    /\ todo = Nothing
    /\ sound = TRUE

\* An operation begins: it removes names that exist and adds names that are
\* not taken.
Start ==
    /\ todo = Nothing
    /\ todo' \in [del : SUBSET names, add : SUBSET Binding]
    /\ Function((names \ todo'.del) \cup todo'.add)
    /\ UNCHANGED <<names, sound>>

\* The operation takes effect.
Finish ==
    /\ names' = (names \ todo.del) \cup todo.add
    /\ todo' = Nothing
    /\ UNCHANGED sound

\* The power fails: the operation in progress is forgotten.
PowerFailure ==
    /\ \E lost \in SUBSET todo.del : names' = names \ lost
    /\ todo' = Nothing
    /\ UNCHANGED sound

\* The file system can no longer keep the promise.
Spoil == sound' = FALSE

NsNext ==
    \/ sound = TRUE /\ Start
    \/ sound = TRUE /\ Finish
    \/ sound = TRUE /\ PowerFailure
    \/ Spoil

NsSpec == NsInit /\ [][NsNext]_nsVars
=============================================================================
