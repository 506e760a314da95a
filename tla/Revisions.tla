----------------------------- MODULE Revisions ------------------------------
(***************************************************************************)
(* The semantic layer of EasyVCS (package revision) over one repository of *)
(* the central store, at the granularity of database statements.           *)
(*                                                                         *)
(* A process is a CLI invocation or a request of an embedding server; all  *)
(* share the database.  An operation reads some rows when it starts and    *)
(* leaves a list of statements to execute; each statement is one step, so  *)
(* the statements of different processes interleave and a process can die  *)
(* between any two of them.  Snapshots are immutable and content-addressed *)
(* (snapshotID hashes every field that matters), so a snapshot hash is     *)
(* modelled by the snapshot itself and GetSnapshot(h) by h \in snapshots.  *)
(***************************************************************************)
EXTENDS Merge3, FiniteSets

CONSTANTS Procs,      \* processes working on the repository
          Messages,   \* descriptions a user may give
          RefNames,   \* names of branches and tags
          Paths,      \* paths users edit
          MaxRevs,    \* bound on the revision ids ever generated
          MaxOps      \* bound on the operations ever started

ASSUME BoundsAssumption == MaxRevs \in Nat /\ MaxOps \in Nat

(* Paths of files at the root and of files in its directories (see Merge3). *)
ASSUME PathsAssumption ==
  Paths \subseteq {<<n>> : n \in Names} \cup {<<n, m>> : n \in Names, m \in Names}

VARIABLES snapshots,  \* the snapshots table: the set of stored snapshots
          revisions,  \* the revisions table: id -> [hash, forkFrom]
          refs,       \* the refs table: name -> [kind, target]
          nextId,     \* the next fresh revision id (RandomRevisionID)
          ops,        \* how many operations were started
          proc        \* what each process is doing

store == <<snapshots, revisions, refs>>
vars  == <<snapshots, revisions, refs, nextId, ops, proc>>

None == 0                                  \* "no revision": the empty id string
RevIds == 1..MaxRevs

-----------------------------------------------------------------------------
(* Rows and snapshots.  The author is the same everywhere and is left out.  *)
Snapshot(id, parents, tree, desc) ==
  [rev |-> id, parents |-> parents, tree |-> tree, desc |-> desc]

Row(hash, fork) == [hash |-> hash, forkFrom |-> fork]

(* newSnapshotFor: the same revision and place in history, another tree. *)
WithTree(s, tree) == Snapshot(s.rev, s.parents, tree, s.desc)

IsRoot(s)   == s.parents = <<>>
Parent(s)   == s.parents[1]
Current(id) == revisions[id].hash
Known       == DOMAIN revisions

(* The tree a revision's own change is measured from (mustTree of no tree). *)
BaseTree(s) == IF IsRoot(s) THEN EmptyTree ELSE Parent(s).tree

(* Faulty: takes the new parent's tree as it is. *)
FaultyRebased(cur, onto) == Snapshot(cur.rev, <<onto>>, onto.tree, cur.desc)

(***************************************************************************)
(* The snapshot Rebase writes: the revision's own change re-applied onto   *)
(* the new parent by a three-way merge.                                    *)
(***************************************************************************)
Rebased(cur, onto) ==
  Snapshot(cur.rev, <<onto>>, MergeTrees(BaseTree(cur), cur.tree, onto.tree), cur.desc)

(***************************************************************************)
(* Revisions whose current snapshot stands, directly or through other      *)
(* current snapshots, on the snapshot h: level n of the breadth-first walk *)
(* of DescendantsOf and descendantsFromSnapshot.                           *)
(***************************************************************************)
Children(hs) == {d \in Known : ~IsRoot(Current(d)) /\ Parent(Current(d)) \in hs}

Levels(h) ==
  LET level[n \in Nat] ==
        IF n = 0 THEN {h} ELSE {Current(d) : d \in Children(level[n - 1])}
  IN  level

Descendants(h) == UNION {Children({x}) : x \in UNION {Levels(h)[n] : n \in 0..MaxRevs}}

(* The orders some descendants of h may be listed in: parents before children. *)
AncestorFirst(h, ds) ==
  LET depth(d) == CHOOSE n \in 0..MaxRevs : d \in Children(Levels(h)[n])
  IN  {q \in [1..Cardinality(ds) -> ds] :
         /\ \A d \in ds : \E i \in DOMAIN q : q[i] = d
         /\ \A i, j \in DOMAIN q : i < j => depth(q[i]) =< depth(q[j])}

-----------------------------------------------------------------------------
(***************************************************************************)
(* Statements.  "snapshot", "revision" and "ref" are the upserts           *)
(* PutSnapshot, PutRevision and PutRef; "commit" is the transaction that   *)
(* ends CommitFromChanges; "repoint" is the read half of                   *)
(* UpdateRevisionHash (expect = {}) and UpdateRevisionHashCAS              *)
(* (expect = {h}), whose write half becomes a "revision" statement that    *)
(* remembers what it is meant to write over.                               *)
(***************************************************************************)
PutSnapshot(s)        == [do |-> "snapshot", snap |-> s]
PutOver(id, expect, row) == [do |-> "revision", id |-> id, over |-> expect, row |-> row]
PutRevision(id, row)  == PutOver(id, {}, row)
Commit(id, row)       == [do |-> "commit", id |-> id, row |-> row]
Repoint(id, expect, h) == [do |-> "repoint", id |-> id, expect |-> expect, hash |-> h]
PutRef(name, kind, id) == [do |-> "ref", name |-> name, kind |-> kind, target |-> id]

(* Steps of an operation that read rows again before they can go on. *)
RebaseRest(ids, onto) == [do |-> "rebase", ids |-> ids, onto |-> onto]
AmendWith(id, tree, desc, again) ==
  [do |-> "amend", id |-> id, tree |-> tree, desc |-> desc, again |-> again]
SquashInto(child)     == [do |-> "squash", child |-> child]
RepairRest(list, path, e) == [do |-> "repair", list |-> list, path |-> path, entry |-> e]
Visit(s, path)        == [do |-> "visit", snap |-> s, path |-> path]
Clean(s, path)        == [do |-> "clean", snap |-> s, path |-> path]
TagOrFail(name, id)   == [do |-> "tag", name |-> name, target |-> id]

Idle == [op |-> "idle", id |-> None, before |-> <<>>, memo |-> <<>>, first |-> [do |-> "nothing"], todo |-> <<>>]

Todo(p)    == proc[p].todo
Running(p) == Todo(p) # <<>>
Stmt(p)   == Head(Todo(p))

(* The process has executed its next statement and goes on with more, if any. *)
Continue(p, more) == proc' = [proc EXCEPT ![p].todo = more \o Tail(@)]
Abort(p)          == proc' = [proc EXCEPT ![p] = Idle]

(***************************************************************************)
(* Starting an operation: p remembers which revision it works on, the      *)
(* revisions table it found (ListRevisions), what it was asked for (its    *)
(* first statement) and, for the ignore rewrite, the new snapshot of each  *)
(* old one (memo).                                                         *)
(***************************************************************************)
Start(p, op, id, todo) ==
  /\ ~Running(p)
  /\ ops < MaxOps
  /\ ops' = ops + 1
  /\ proc' = [proc EXCEPT ![p] = [op |-> op, id |-> id, before |-> revisions,
                               memo |-> <<>>, first |-> Head(todo), todo |-> todo]]
  /\ UNCHANGED store

(* RandomRevisionID never repeats an id. *)
Fresh == nextId \in RevIds /\ nextId' = nextId + 1

-----------------------------------------------------------------------------
Init ==
  /\ snapshots = {}
  /\ revisions = <<>>
  /\ refs = <<>>
  /\ nextId = 1
  /\ ops = 0
  /\ proc = [p \in Procs |-> Idle]

(* What a working directory may hold: what was checked out, or that with one
   file written or deleted. *)
Edits(tree) ==
  {tree} \cup
  {ResolvePath(tree, path, e) : path \in Paths, e \in {NoEntry} \cup {Blob(b) : b \in Blobs}}

(* commit --new: a fresh revision on top of an existing one, or a root. *)
CommitNew(p, parents) ==
  \E tree \in Edits(IF parents = <<>> THEN EmptyTree ELSE parents[1].tree) :
    LET s == Snapshot(nextId, parents, tree, "commit")
    IN  Fresh /\ Start(p, "commit", nextId, <<Commit(nextId, Row(s, None))>>)

CommitRoot(p) == CommitNew(p, <<>>)
CommitOn(p, id) == CommitNew(p, <<Current(id)>>)

(* commit (default): amend the current revision, with the fixed message. *)
CommitCurrent(p, id) ==
  \E tree \in Edits(Current(id).tree) :
    /\ Start(p, "amend", id, <<AmendWith(id, tree, "commit", FALSE)>>)
    /\ UNCHANGED nextId

(* amend: keeps the message, and repoints the revision once more at the end. *)
Amend(p, id) ==
  \E tree \in Edits(Current(id).tree) :
    /\ Start(p, "amend", id, <<AmendWith(id, tree, Current(id).desc, TRUE)>>)
    /\ UNCHANGED nextId

(* rebase: any stored snapshot may be given as the new parent. *)
Rebase(p, id, onto) ==
  /\ Start(p, "rebase", id, <<RebaseRest(<<id>>, onto)>>)
  /\ UNCHANGED nextId

(* Drop: the descendants are rebased, one after the other, onto the parent. *)
Drop(p, id) ==
  /\ ~IsRoot(Current(id))
  /\ \E order \in AncestorFirst(Current(id), Descendants(Current(id))) :
       /\ Len(order) > 0
       /\ Start(p, "drop", id, <<RebaseRest(order, Parent(Current(id)))>>)
  /\ UNCHANGED nextId

(* Revert: a new revision on onto that undoes the revision's change. *)
Revert(p, id, onto) ==
  LET cur == Current(id)
      s == Snapshot(nextId, <<onto>>, MergeTrees(cur.tree, BaseTree(cur), onto.tree), "revert")
  IN  /\ Fresh
      /\ Start(p, "revert", nextId, <<PutSnapshot(s), PutRevision(nextId, Row(s, None))>>)

Squash(p, id) ==
  /\ ~IsRoot(Current(id))
  /\ Start(p, "squash", Parent(Current(id)).rev, <<SquashInto(Current(id))>>)
  /\ UNCHANGED nextId

(***************************************************************************)
(* Resolve: the conflict at a path is replaced by one of its sides, in the *)
(* revision and in every descendant that carries the same conflict.        *)
(***************************************************************************)
Resolution(s, path, e) == WithTree(s, ResolvePath(s.tree, path, e))

(* dropIgnored: the tree without the path, and without the directory if it held
   nothing else.  A file in the place of the directory is kept. *)
DropIgnored(tree, path) ==
  IF Len(path) > 1 /\ ~IsTree(tree[path[1]]) THEN tree ELSE ResolvePath(tree, path, NoEntry)

Resolve(p, id, path) ==
  LET cur == Current(id)
      e   == FindEntry(cur.tree, path)
      same == {d \in Descendants(cur) \ {id} : FindEntry(Current(d).tree, path) = e}
  IN  /\ IsConflict(e)
      /\ \E side \in Sides(e), order \in AncestorFirst(cur, same) :
           LET new  == Resolution(cur, path, Chosen(e, side))
               list == [i \in DOMAIN order |-> Current(order[i])]
           IN  Start(p, "resolve", id,
                     <<PutSnapshot(new), Repoint(id, {cur}, new),
                       RepairRest(list, path, Chosen(e, side))>>)
      /\ UNCHANGED nextId

(***************************************************************************)
(* RewriteHistoryWithIgnores, for a matcher that ignores one path: the     *)
(* revision and its ancestors, as long as each parent is some revision's   *)
(* current snapshot, are rewritten without the path, parents first.        *)
(***************************************************************************)
RewriteIgnored(p, id, path) ==
  /\ Start(p, "ignore", id, <<Visit(Current(id), path)>>)
  /\ UNCHANGED nextId

(* Faulty: the row is written before the snapshot it points at. *)
FaultySetDescription(p, id, desc) ==
  LET cur == Current(id)
      new == Snapshot(cur.rev, cur.parents, cur.tree, desc)
  IN  /\ Start(p, "message", id,
               <<PutRevision(id, Row(new, revisions[id].forkFrom)), PutSnapshot(new)>>)
      /\ UNCHANGED nextId

(* message: rewrites the description, without a guard on the old hash. *)
SetDescription(p, id, desc) ==
  LET cur == Current(id)
      new == Snapshot(cur.rev, cur.parents, cur.tree, desc)
  IN  /\ Start(p, "message", id,
               <<PutSnapshot(new), PutRevision(id, Row(new, revisions[id].forkFrom))>>)
      /\ UNCHANGED nextId

(* Faulty: the name is put before the revision it names. *)
FaultyBranchEarly(p, name, id) ==
  LET s == Snapshot(nextId, Current(id).parents, Current(id).tree, Current(id).desc)
  IN  /\ Fresh
      /\ Start(p, "branch", nextId,
               <<PutRef(name, "branch", nextId), PutSnapshot(s), PutRevision(nextId, Row(s, id))>>)

(* Faulty: the new branch names the revision it starts from. *)
FaultyBranchShared(p, name, id) ==
  /\ Start(p, "branch", id, <<PutRef(name, "branch", id)>>)
  /\ UNCHANGED nextId

(***************************************************************************)
(* branch: a name that is already a branch keeps its target; any other     *)
(* gets a derived revision of its own, then the ref.                       *)
(***************************************************************************)
Branch(p, name, id) ==
  IF name \in DOMAIN refs /\ refs[name].kind = "branch"
  THEN /\ Start(p, "branch", id, <<PutRef(name, "branch", refs[name].target)>>)
       /\ UNCHANGED nextId
  ELSE LET s == Snapshot(nextId, Current(id).parents, Current(id).tree, Current(id).desc)
       IN  /\ Fresh
           /\ Start(p, "branch", nextId,
                    <<PutSnapshot(s), PutRevision(nextId, Row(s, id)),
                      PutRef(name, "branch", nextId)>>)

(* tag: SetRef first looks whether the name is taken. *)
Tag(p, name, id) ==
  /\ Start(p, "tag", id, <<TagOrFail(name, id)>>)
  /\ UNCHANGED nextId

DeleteRef(p, name) ==
  /\ ~Running(p)
  /\ ops < MaxOps
  /\ name \in DOMAIN refs
  /\ ops' = ops + 1
  /\ refs' = [n \in DOMAIN refs \ {name} |-> refs[n]]
  /\ UNCHANGED <<snapshots, revisions, nextId, proc>>

-----------------------------------------------------------------------------
(* Executing the next statement. *)

DoPutSnapshot(p) ==
  /\ Running(p) /\ Stmt(p).do = "snapshot"
  /\ snapshots' = snapshots \cup {Stmt(p).snap}
  /\ Continue(p, <<>>)
  /\ UNCHANGED <<revisions, refs, nextId, ops>>

Upsert(f, key, value) ==
  [k \in DOMAIN f \cup {key} |-> IF k = key THEN value ELSE f[k]]

DoPutRevision(p) ==
  /\ Running(p) /\ Stmt(p).do = "revision"
  /\ revisions' = Upsert(revisions, Stmt(p).id, Stmt(p).row)
  /\ Continue(p, <<>>)
  /\ UNCHANGED <<snapshots, refs, nextId, ops>>

(* Faulty: the transaction leaves out the snapshot. *)
FaultyDoCommit(p) ==
  /\ Running(p) /\ Stmt(p).do = "commit"
  /\ revisions' = Upsert(revisions, Stmt(p).id, Stmt(p).row)
  /\ Continue(p, <<>>)
  /\ UNCHANGED <<snapshots, refs, nextId, ops>>

(* The transaction of CommitFromChanges: snapshot and revision together. *)
DoCommit(p) ==
  /\ Running(p) /\ Stmt(p).do = "commit"
  /\ snapshots' = snapshots \cup {Stmt(p).row.hash}
  /\ revisions' = Upsert(revisions, Stmt(p).id, Stmt(p).row)
  /\ Continue(p, <<>>)
  /\ UNCHANGED <<refs, nextId, ops>>

(* The read half of UpdateRevisionHash[CAS]; ErrRevisionChanged ends the
   operation. *)
DoRepoint(p) ==
  LET st  == Stmt(p)
      row == revisions[st.id]
  IN  /\ Running(p) /\ st.do = "repoint"
      /\ IF st.expect = {} \/ row.hash \in st.expect
         THEN Continue(p, <<PutOver(st.id, st.expect, Row(st.hash, row.forkFrom))>>)
         ELSE Abort(p)
      /\ UNCHANGED <<store, nextId, ops>>

(* Faulty: every revision of a chain is rebased onto the same snapshot. *)
FaultyDoRebase(p) ==
  LET st  == Stmt(p)
      id  == Head(st.ids)
      cur == Current(id)
      new == Rebased(cur, st.onto)
  IN  /\ Running(p) /\ st.do = "rebase"
      /\ Continue(p, <<PutSnapshot(new), Repoint(id, {cur}, new)>>
                     \o (IF Len(st.ids) > 1 THEN <<RebaseRest(Tail(st.ids), st.onto)>> ELSE <<>>))
      /\ UNCHANGED <<store, nextId, ops>>

(* One Rebase of a chain: read the revision, merge, write the snapshot, CAS,
   and put the row read at the beginning once more (with its changed paths). *)
DoRebase(p) ==
  LET st  == Stmt(p)
      id  == Head(st.ids)
      cur == Current(id)
      new == Rebased(cur, st.onto)
  IN  /\ Running(p) /\ st.do = "rebase"
      /\ Continue(p, <<PutSnapshot(new), Repoint(id, {cur}, new),
                       PutRevision(id, Row(new, revisions[id].forkFrom))>>
                     \o (IF Len(st.ids) > 1 THEN <<RebaseRest(Tail(st.ids), new)>> ELSE <<>>))
      /\ UNCHANGED <<store, nextId, ops>>

(* Faulty: the amended snapshot gets its predecessor as parent. *)
FaultyDoAmend(p) ==
  LET st  == Stmt(p)
      new == Snapshot(st.id, <<Current(st.id)>>, st.tree, st.desc)
  IN  /\ Running(p) /\ st.do = "amend"
      /\ Continue(p, <<Commit(st.id, Row(new, None))>>)
      /\ UNCHANGED <<store, nextId, ops>>

(* The amending half of CommitFromChanges: the parents are those of the
   revision's snapshot now; the row is written anew. *)
DoAmend(p) ==
  LET st  == Stmt(p)
      new == Snapshot(st.id, Current(st.id).parents, st.tree, st.desc)
  IN  /\ Running(p) /\ st.do = "amend"
      /\ Continue(p, <<Commit(st.id, Row(new, None))>>
                     \o (IF st.again THEN <<Repoint(st.id, {}, new)>> ELSE <<>>))
      /\ UNCHANGED <<store, nextId, ops>>

(* Faulty: the squashed snapshot stands where the child stood. *)
FaultyDoSquash(p) ==
  LET c   == Stmt(p).child
      new == Snapshot(Parent(c).rev, c.parents, c.tree, c.desc)
  IN  /\ Running(p) /\ Stmt(p).do = "squash"
      /\ Continue(p, <<PutSnapshot(new), Repoint(new.rev, {}, new)>>)
      /\ UNCHANGED <<store, nextId, ops>>

(* The second half of Squash: the parent's row is read, but its new snapshot is
   made from the parent snapshot the child points at.  The parent snapshot may
   belong to no revision: a crash can leave a snapshot without its row. *)
DoSquash(p) ==
  LET c   == Stmt(p).child
      old == Parent(c)
      new == WithTree(old, MergeTrees(old.tree, old.tree, c.tree))
  IN  /\ Running(p) /\ Stmt(p).do = "squash"
      /\ IF old.rev \in Known
         THEN Continue(p, <<PutSnapshot(new), Repoint(old.rev, {Current(old.rev)}, new)>>)
         ELSE Abort(p)
      /\ UNCHANGED <<store, nextId, ops>>

(* Faulty: descendants are left with their conflict. *)
FaultyDoRepair(p) ==
  /\ Running(p) /\ Stmt(p).do = "repair"
  /\ Continue(p, <<>>)
  /\ UNCHANGED <<store, nextId, ops>>

(* One descendant of a resolved revision: as it was listed, with the same
   parents; its row is repointed without a guard. *)
DoRepair(p) ==
  LET st  == Stmt(p)
      d   == Head(st.list)
      new == Resolution(d, st.path, st.entry)
  IN  /\ Running(p) /\ st.do = "repair"
      /\ Continue(p, IF st.list = <<>> THEN <<>>
                     ELSE <<PutSnapshot(new), Repoint(d.rev, {}, new),
                            RepairRest(Tail(st.list), st.path, st.entry)>>)
      /\ UNCHANGED <<store, nextId, ops>>

(* The snapshot was some revision's current one when the operation began. *)
Owned(p, s) == s.rev \in DOMAIN proc[p].before /\ proc[p].before[s.rev].hash = s

(* Faulty: only the revision that was named is cleaned. *)
FaultyDoVisit(p) ==
  LET st == Stmt(p)
  IN  /\ Running(p) /\ st.do = "visit"
      /\ Continue(p, <<Clean(st.snap, st.path)>>)
      /\ UNCHANGED <<store, nextId, ops>>

(* visit: an owned parent is visited before the snapshot itself is cleaned. *)
DoVisit(p) ==
  LET st == Stmt(p)
  IN  /\ Running(p) /\ st.do = "visit"
      /\ Continue(p, (IF ~IsRoot(st.snap) /\ Owned(p, Parent(st.snap))
                      THEN <<Visit(Parent(st.snap), st.path)>> ELSE <<>>)
                     \o <<Clean(st.snap, st.path)>>)
      /\ UNCHANGED <<store, nextId, ops>>

(* The snapshot without the ignored path and on its parent's new snapshot;
   nothing is written if that changes nothing. *)
DoClean(p) ==
  LET st   == Stmt(p)
      s    == st.snap
      memo == proc[p].memo
      onto == IF ~IsRoot(s) /\ Parent(s) \in DOMAIN memo
              THEN <<memo[Parent(s)]>> ELSE s.parents
      new  == Snapshot(s.rev, onto, DropIgnored(s.tree, st.path), s.desc)
  IN  /\ Running(p) /\ st.do = "clean"
      /\ proc' = [proc EXCEPT
           ![p].memo = Upsert(@, s, new),
           ![p].todo = (IF new = s THEN <<>>
                        ELSE <<PutSnapshot(new), Repoint(s.rev, {}, new)>>) \o Tail(@)]
      /\ UNCHANGED <<store, nextId, ops>>

(* Faulty: the kind of the new ref is forgotten. *)
FaultyDoTag(p) ==
  /\ Running(p) /\ Stmt(p).do = "tag"
  /\ Continue(p, <<PutRef(Stmt(p).name, "", Stmt(p).target)>>)
  /\ UNCHANGED <<store, nextId, ops>>

DoTag(p) ==
  /\ Running(p) /\ Stmt(p).do = "tag"
  /\ IF Stmt(p).name \in DOMAIN refs
     THEN Abort(p)
     ELSE Continue(p, <<PutRef(Stmt(p).name, "tag", Stmt(p).target)>>)
  /\ UNCHANGED <<store, nextId, ops>>

DoPutRef(p) ==
  /\ Running(p) /\ Stmt(p).do = "ref"
  /\ refs' = Upsert(refs, Stmt(p).name,
                    [kind |-> Stmt(p).kind, target |-> Stmt(p).target])
  /\ Continue(p, <<>>)
  /\ UNCHANGED <<snapshots, revisions, nextId, ops>>

(* The process is killed between two statements. *)
Crash(p) ==
  /\ Running(p)
  /\ Abort(p)
  /\ UNCHANGED <<store, nextId, ops>>

-----------------------------------------------------------------------------
Begin(p) ==
  \/ CommitRoot(p)
  \/ \E id \in Known :
       \/ CommitOn(p, id) \/ CommitCurrent(p, id) \/ Amend(p, id)
       \/ Drop(p, id) \/ Squash(p, id)
       \/ \E onto \in snapshots : Rebase(p, id, onto) \/ Revert(p, id, onto)
       \/ \E path \in Paths : Resolve(p, id, path) \/ RewriteIgnored(p, id, path)
       \/ \E desc \in Messages : SetDescription(p, id, desc)
       \/ \E name \in RefNames : Branch(p, name, id) \/ Tag(p, name, id)
  \/ \E name \in RefNames : DeleteRef(p, name)

Execute(p) ==
  \/ DoPutSnapshot(p) \/ DoPutRevision(p) \/ DoCommit(p) \/ DoRepoint(p)
  \/ DoRebase(p) \/ DoAmend(p) \/ DoSquash(p) \/ DoRepair(p) \/ DoVisit(p) \/ DoClean(p)
  \/ DoTag(p) \/ DoPutRef(p)

Next == \E p \in Procs : Begin(p) \/ Execute(p) \/ Crash(p)

Spec == Init /\ [][Next]_vars

-----------------------------------------------------------------------------
(* The type invariant: ids are those RandomRevisionID gave out, a row's origin is
   the id of a revision, a name is a branch or a tag. *)
OpNames == {"idle", "commit", "amend", "rebase", "drop", "revert", "squash", "resolve",
            "ignore", "message", "branch", "tag"}

TypeOK ==
  /\ nextId \in 1..(MaxRevs + 1) /\ ops \in 0..MaxOps
  /\ Known \subseteq RevIds
  /\ \A id \in Known : revisions[id] = Row(Current(id), revisions[id].forkFrom)
                       /\ revisions[id].forkFrom \in Known \cup {None}
  /\ DOMAIN refs \subseteq RefNames
  /\ \A name \in DOMAIN refs : refs[name].kind \in {"branch", "tag"}
  /\ DOMAIN proc = Procs /\ \A p \in Procs : proc[p].op \in OpNames

(* Properties of every interleaving. *)

(***************************************************************************)
(* Every revision points at a stored snapshot, and at one of its own: the  *)
(* two rules at the head of package revision.  A crash or another process  *)
(* between the statements of a rewrite must not break it.                  *)
(***************************************************************************)
CurrentSnapshotIsOwn ==
  \A id \in Known : Current(id) \in snapshots /\ Current(id).rev = id

(***************************************************************************)
(* The history of a stored snapshot is stored: no parent edge dangles, so  *)
(* GetSnapshot of a parent never fails inside one repository.              *)
(***************************************************************************)
HistoryIsStored ==
  \A s \in snapshots : ~IsRoot(s) => Parent(s) \in snapshots

(* A branch is a name of an existing revision (cmdBranch derives first). *)
BranchesResolve ==
  \A name \in DOMAIN refs : refs[name].kind = "branch" => refs[name].target \in Known

(***************************************************************************)
(* A branch owns the revision it names, so that amending on one branch     *)
(* never moves another (cmdBranch: "a branch always owns a distinct        *)
(* revision id"), also when two processes create or delete the same name.  *)
(***************************************************************************)
BranchesOwnTheirRevision ==
  \A n, m \in DOMAIN refs :
     n # m /\ refs[n].kind = "branch" /\ refs[m].kind = "branch" =>
       refs[n].target # refs[m].target

(***************************************************************************)
(* The repository implements the abstract store of stable revisions.       *)
(***************************************************************************)
Stable == INSTANCE StableRevisions WITH
            published <- snapshots,
            at        <- [id \in Known |-> revisions[id].hash]

StableIds == Stable!Spec

-----------------------------------------------------------------------------
(* Properties of one operation at a time: with a single process.           *)

Done(p, op) == proc[p].op = op /\ ~Running(p)
Before(p, id) == proc[p].before[id].hash

(***************************************************************************)
(* An amended, re-described or resolved revision keeps its place: its      *)
(* parents are those it had (commit_from_changes.go 55-58: otherwise an    *)
(* amended snapshot "would point at its own previous snapshot").  And work *)
(* on one revision leaves every other alone, even half-way: only drop,     *)
(* resolve and the ignore rewrite may touch others (derive.go: an in-place *)
(* amend must not "leak across branches").                                 *)
(***************************************************************************)
RewritesStayInPlace ==
  \A p \in Procs :
    /\ \A op \in {"amend", "message", "resolve"} :
         Done(p, op) => Current(proc[p].id).parents = Before(p, proc[p].id).parents
    /\ proc[p].op \notin {"idle", "drop", "resolve", "ignore"} =>
         \A d \in DOMAIN proc[p].before \ {proc[p].id} : revisions[d] = proc[p].before[d]

(* What stood on a snapshot when p's operation started. *)
Under(p, h) ==
  {d \in DOMAIN proc[p].before : ~IsRoot(Before(p, d)) /\ Parent(Before(p, d)) = h}

(***************************************************************************)
(* Resolving a conflict resolves it in the children that carried it, and   *)
(* the same side everywhere (revision_ops.go 358-360).                     *)
(***************************************************************************)
ResolutionPropagates ==
  \A p \in Procs : Done(p, "resolve") =>
     \A path \in Paths, d \in Under(p, Before(p, proc[p].id)) :
        LET old(r) == FindEntry(Before(p, r).tree, path)
            new(r) == FindEntry(Current(r).tree, path)
        IN  IsConflict(old(proc[p].id)) /\ old(d) = old(proc[p].id) => new(d) = new(proc[p].id)

(* No side has a directory at the path: there a file counts as empty. *)
NoDirectoryAt(path, trees) == \A t \in trees : ~IsTree(FindEntry(t, path))

(***************************************************************************)
(* A rebased revision keeps its own change: what it had changed against    *)
(* its old parent, deletions included, is in the new tree, or in a         *)
(* conflict there.                                                         *)
(***************************************************************************)
HoldsId(e, id) == e.id = id \/ (IsConflict(e) /\ \E i \in Sides(e) : e.id.adds[i].id = id)

RebaseReappliesChange ==
  \A p \in Procs : Done(p, "rebase") =>
     LET old == Before(p, proc[p].id)  new == Current(proc[p].id)
     IN  \A path \in Paths :
           LET mine == FindEntry(old.tree, path)
           IN  NoDirectoryAt(path, {old.tree, BaseTree(old), BaseTree(new)})
                 /\ mine.id # FindEntry(BaseTree(old), path).id =>
                 HoldsId(FindEntry(new.tree, path), mine.id)

(***************************************************************************)
(* Squash leaves the child's content in the parent's revision, in the      *)
(* place the child's parent snapshot had (revision_ops.go 530-531).        *)
(***************************************************************************)
SquashAbsorbsTheChild ==
  \A p \in Procs : Done(p, "squash") /\ Current(proc[p].id) # Before(p, proc[p].id) =>
     \E d \in DOMAIN proc[p].before :
        LET child == Before(p, d)  new == Current(proc[p].id)
        IN  /\ ~IsRoot(child) /\ Parent(child).rev = proc[p].id
            /\ Parent(child).parents = new.parents
            /\ \A path \in Paths :
                 NoDirectoryAt(path, {child.tree, Parent(child).tree}) =>
                   FindEntry(new.tree, path).id = FindEntry(child.tree, path).id

(***************************************************************************)
(* Dropping a revision from a chain closes the gap: each revision after it *)
(* keeps its predecessor, the first one takes the dropped one's.           *)
(***************************************************************************)
Predecessor(p, d) ==
  LET q == Parent(Before(p, d))
  IN  IF q = Before(p, proc[p].id) THEN Parent(q).rev ELSE q.rev

DropClosesTheGap(p) ==
  \A d \in DOMAIN proc[p].before :
     revisions[d] # proc[p].before[d] => Parent(Current(d)).rev = Predecessor(p, d)

Linear(p) ==
  \A d, e \in DOMAIN proc[p].before : e \in Under(p, Before(p, d)) => Under(p, Before(p, d)) = {e}

DropClosesTheGapInAChain ==
  \A p \in Procs : Done(p, "drop") /\ Linear(p) => DropClosesTheGap(p)

(***************************************************************************)
(* The lineage of the revision an operation was asked for: the revision    *)
(* and, as long as the parent was some revision's current snapshot when    *)
(* the operation started, those before it.                                 *)
(***************************************************************************)
GoesBack(p, S) ==
  \A d \in S, e \in DOMAIN proc[p].before : d \in Under(p, Before(p, e)) => e \in S

Ancestry(p) ==
  {d \in DOMAIN proc[p].before :
     \A S \in SUBSET DOMAIN proc[p].before : proc[p].id \in S /\ GoesBack(p, S) => d \in S}

(* Neither path is the other one or leads to it. *)
Apart(q, path) == q[1] # path[1] \/ (Len(q) > 1 /\ Len(path) > 1 /\ q # path)

(***************************************************************************)
(* After the ignore rewrite no revision of the lineage holds the path that *)
(* was to be ignored (ignore_history.go 15-19: it is "removed from every   *)
(* affected snapshot's tree"), rewritten or not; each stands on what its   *)
(* parent was rewritten to; and nothing else of it is lost.                *)
(***************************************************************************)
IgnoreRewriteKeepsLineage ==
  \A p \in Procs : Done(p, "ignore") =>
     LET path == proc[p].first.path
     IN  \A d \in Ancestry(p) :
           /\ ~Present(FindEntry(Current(d).tree, path))
           /\ \A e \in DOMAIN proc[p].before :
                d \in Under(p, Before(p, e)) => Parent(Current(d)) = Current(e)
           /\ Current(d).desc = Before(p, d).desc
           /\ \A q \in Paths : Apart(q, path) =>
                FindEntry(Current(d).tree, q) = FindEntry(Before(p, d).tree, q)
=============================================================================
