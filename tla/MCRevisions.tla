---------------------------- MODULE MCRevisions -----------------------------
(***************************************************************************)
(* Model-checking instances of Revisions: from the empty repository, and   *)
(* from repositories with a short history.                                 *)
(***************************************************************************)
EXTENDS Revisions, TLC

CONSTANTS n1, b1, b2

TopFile == {<<n1>>}
Nested  == {<<n1>>, <<n1, n1>>}

(***************************************************************************)
(* Repositories a few commits old, each reached by the commands beside it. *)
(***************************************************************************)
FileIs(b)        == [EmptyTree EXCEPT ![n1] = Blob(b)]
Put(id, parents, tree) == Snapshot(id, parents, tree, "commit")

Root   == Put(1, <<>>, EmptyTree)              \* commit
Second == Put(2, <<Root>>, FileIs(b1))         \* commit --new
Third  == Put(3, <<Root>>, FileIs(b2))         \* commit --new, from the root again
Child3 == Put(3, <<Second>>, FileIs(b2))       \* commit --new on 2
Newer2 == Put(2, <<Root>>, FileIs(b2))         \* amend of 2 under its child 3

(* A conflict and a child that carries it: in the file, and in a directory. *)
InDir(b)        == [EmptyTree EXCEPT ![n1] = Dir(FileIs(b))]
Branched(t)     == Put(2, <<Root>>, t)                        \* commit --new
NewerRoot(t)    == Put(1, <<>>, t)                            \* amend of 1 under its child 2
Moved(t, u)     == Rebased(Branched(t), NewerRoot(u))         \* rebase 2 --onto 1
Carrier(t, u)   == Put(3, <<Moved(t, u)>>, Moved(t, u).tree)  \* commit --new, nothing changed
Conflicted(t, u) == <<NewerRoot(u), Moved(t, u), Carrier(t, u)>>

Repository(old, current) ==
  /\ snapshots = old \cup {current[i] : i \in DOMAIN current}
  /\ revisions = [i \in DOMAIN current |-> Row(current[i], None)]
  /\ nextId = Len(current) + 1

Quiet(n) ==
  /\ refs = <<>>
  /\ ops = n
  /\ proc = [p \in Procs |-> Idle]

(* Small enough for two processes. *)
InitTwo ==
  \/ Repository({}, <<Root, Second>>) /\ Quiet(0)
  \/ Repository({Root, Second}, Conflicted(FileIs(b1), FileIs(b2))) /\ Quiet(0)

(* With a directory there is one operation less. *)
InitSome ==
  \/ /\ \/ Repository({}, <<Root, Second, Third>>)
        \/ Repository({Root, Second}, Conflicted(FileIs(b1), FileIs(b2)))
        \/ Repository({}, <<Root, Second, Child3>>)
        \/ Repository({Second}, <<Root, Newer2, Child3>>)
     /\ Quiet(0)
  \/ /\ Repository({Root, Branched(InDir(b1))}, Conflicted(InDir(b1), InDir(b2)))
     /\ Quiet(1)

SpecTwo  == InitTwo /\ [][Next]_vars
SpecSome == InitSome /\ [][Next]_vars
=============================================================================
