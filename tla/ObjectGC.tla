------------------------------ MODULE ObjectGC ------------------------------
(***************************************************************************)
(* The shared object store under its three users: a writer that stores the *)
(* objects of a commit one by one before the transaction that refers to    *)
(* them, a rebase, and the collector `easyvcs gc` of revision/gc.go, which *)
(* marks what the repositories' revisions reach and then deletes the rest  *)
(* one object at a time.  Every command can be killed between two steps.   *)
(* The check of revision/verify.go is an operator on the states.           *)
(*                                                                         *)
(* Nothing keeps a collection from running while somebody commits.         *)
(* Where exclusive is TRUE an administrator sees to it.                    *)
(***************************************************************************)
EXTENDS Merge3, FiniteSets, SequencesExt

CONSTANTS Repos,      \* the repositories; objects are shared between them
          Revs,       \* revision ids
          MaxSteps    \* bound on the commands of a behaviour

ASSUME MaxStepsAssumption == MaxSteps \in Nat
ASSUME NamesAssumption == IsFiniteSet(Names)

VARIABLES objects,    \* ids of the stored objects: blobs, trees, conflicts
          tip,        \* repository -> revision -> [tree, parents]
          job,        \* the writer under way
          gc,         \* the collection under way
          exclusive,  \* whether collections and writers exclude each other
          steps

vars == <<objects, tip, job, gc, exclusive, steps>>

NoJob == [phase |-> "idle"]
NoGC  == [phase |-> "idle"]

(* The root tree objects are named like those of subdirectories. *)
TreeId(t) == [entries |-> t]

Entries(id) == {id.entries[n] : n \in {m \in Names : Present(id.entries[m])}}
EntryIds(id) == {e.id : e \in Entries(id)}

(* mustTree: a tree object that cannot be read counts as an empty tree. *)
Stored(t) == IF TreeId(t) \in objects THEN t ELSE EmptyTree

Current == {c \in Repos \X Revs : c[2] \in DOMAIN tip[c[1]]}
RootOf(c) == tip[c[1]][c[2]].tree

Init ==
  /\ objects = {}
  /\ tip = [p \in Repos |-> <<>>]
  /\ job = NoJob
  /\ gc = NoGC
  /\ exclusive \in BOOLEAN
  /\ steps = 0

Spend == steps < MaxSteps /\ steps' = steps + 1

-----------------------------------------------------------------------------
(* What a resolvePath on a base tree stores below the root: the rewritten
   subdirectory, unless the removal emptied it. *)
Below(t, path) ==
  IF Len(path) = 2 /\ IsTree(t[path[1]]) THEN <<t[path[1]].id>> ELSE <<>>

(* The base tree as the writer can read it. *)
Readable(t) ==
  [n \in Names |-> IF IsTree(t[n]) THEN Dir(Stored(SubTree(t[n]))) ELSE t[n]]

(* commit of one change, or with new an own revision: the blob, the trees of
   resolvePath, and what ReadBack and Record make of them. *)
BeginCommit(p, base, r, parents, path, e) ==
  LET t == ResolvePath(Readable(base), path, e)
  IN  /\ job = NoJob /\ (exclusive => gc = NoGC) /\ Spend
      /\ job' = [phase |-> "write", repo |-> p, rev |-> r, parents |-> parents, tree |-> t,
                 todo |-> (IF Present(e) THEN <<e.id>> ELSE <<>>) \o Below(t, path) \o <<TreeId(t)>>]
      /\ UNCHANGED <<objects, tip, gc, exclusive>>

CommitFirst(p, r, path, e) ==
  r \notin DOMAIN tip[p] /\ BeginCommit(p, EmptyTree, r, <<>>, path, e)

CommitNew(p, r, path, e) ==
  /\ r \notin DOMAIN tip[p]
  /\ \E q \in DOMAIN tip[p] :
       BeginCommit(p, Stored(tip[p][q].tree), r, <<tip[p][q].tree>>, path, e)

Amend(p, r, path, e) ==
  /\ r \in DOMAIN tip[p]
  /\ BeginCommit(p, Stored(tip[p][r].tree), r, tip[p][r].parents, path, e)

(* The objects of a merged tree: conflicts, subdirectories, the root. *)
MergedObjects(t) ==
  LET at(kind) == {e \in Entries(TreeId(t)) : e.kind = kind}
      subs == at("tree")
      conflicts == at("conflict") \cup
        UNION {{e \in Entries(s.id) : e.kind = "conflict"} : s \in subs}
      ids(S) == SetToSeq({e.id : e \in S})
  IN  ids(conflicts) \o ids(subs) \o <<TreeId(t)>>

Whole(t) == {TreeId(t)} \cup {e.id : e \in {x \in Entries(TreeId(t)) : IsTree(x)}} \subseteq objects

(* rebase of r onto q, both and the parent readable: a damaged tree is left
   alone. *)
BeginRebase(p, r, q) ==
  LET mine == tip[p][r]
      base == IF mine.parents = <<>> THEN EmptyTree ELSE mine.parents[1]
      t == MergeTrees(base, mine.tree, tip[p][q].tree)
  IN  /\ job = NoJob /\ (exclusive => gc = NoGC) /\ Spend
      /\ Whole(mine.tree) /\ Whole(tip[p][q].tree) /\ (mine.parents # <<>> => Whole(base))
      /\ job' = [phase |-> "merge", repo |-> p, rev |-> r, parents |-> <<tip[p][q].tree>>,
                 tree |-> t, todo |-> MergedObjects(t)]
      /\ UNCHANGED <<objects, tip, gc, exclusive>>

WriteObject ==
  /\ job # NoJob /\ job.todo # <<>>
  /\ objects' = objects \cup {Head(job.todo)}
  /\ job' = [job EXCEPT !.todo = Tail(@)]
  /\ UNCHANGED <<tip, gc, steps, exclusive>>

(* commit reads the tree it has just built before it names the snapshot after it. *)
ReadBack ==
  /\ job.phase = "write" /\ job.todo = <<>>
  /\ objects' = objects \cup {TreeId(Stored(job.tree))}
  /\ job' = [job EXCEPT !.phase = "record", !.tree = Stored(job.tree)]
  /\ UNCHANGED <<tip, gc, steps, exclusive>>

(* The transaction of a commit, which stores the root tree once more, and the
   last calls of a rebase. *)
Record ==
  /\ job.phase \in {"record", "merge"} /\ job.todo = <<>>
  /\ objects' = IF job.phase = "record" THEN objects \cup {TreeId(Stored(job.tree))} ELSE objects
  /\ tip' = [tip EXCEPT ![job.repo] = [r \in DOMAIN tip[job.repo] \cup {job.rev} |->
               IF r = job.rev THEN [tree |-> job.tree, parents |-> job.parents] ELSE tip[job.repo][r]]]
  /\ gc' = IF gc = NoGC THEN gc ELSE [gc EXCEPT !.still = @ \ {<<job.repo, job.rev>>}]
  /\ job' = NoJob
  /\ UNCHANGED <<exclusive, steps>>

KillWriter ==
  /\ job # NoJob
  /\ job' = NoJob
  /\ UNCHANGED <<objects, tip, gc, steps, exclusive>>

-----------------------------------------------------------------------------
(***************************************************************************)
(* collectTreeReachable.  An id that is marked is not visited again, and   *)
(* the entry of a subdirectory is marked before the subdirectory is        *)
(* visited.                                                                *)
(***************************************************************************)
VisitSubtree(marked, id) ==
  IF id \in marked THEN marked
  ELSE marked \cup {id} \cup (IF id \in objects THEN EntryIds(id) ELSE {})

MarkEntry(marked, e) ==
  LET seen == marked \cup {e.id}
  IN  IF IsTree(e) THEN VisitSubtree(seen, e.id) ELSE seen

(* Faulty: marks the tree and not what it refers to. *)
FaultyMarkTree(marked, id) == marked \cup {id}

MarkTree(marked, id) ==
  IF id \in marked THEN marked
  ELSE LET seen == marked \cup {id}
       IN  IF id \in objects THEN seen \cup UNION {MarkEntry(seen, e) : e \in Entries(id)} ELSE seen

(* GCRun.  The revisions that are not recorded anew while it runs are still. *)
BeginGC ==
  /\ gc = NoGC /\ (exclusive => job = NoJob) /\ Spend
  /\ gc' = [phase |-> "mark", repos |-> Repos, roots |-> {}, marked |-> {}, still |-> Current]
  /\ UNCHANGED <<objects, tip, job, exclusive>>

ListRevisions(p) ==
  /\ gc.phase = "mark" /\ gc.roots = {} /\ p \in gc.repos
  /\ gc' = [gc EXCEPT !.repos = @ \ {p}, !.roots = {TreeId(tip[p][r].tree) : r \in DOMAIN tip[p]}]
  /\ UNCHANGED <<objects, tip, job, steps, exclusive>>

Mark(id) ==
  /\ gc.phase = "mark" /\ id \in gc.roots
  /\ gc' = [gc EXCEPT !.roots = @ \ {id}, !.marked = MarkTree(@, id)]
  /\ UNCHANGED <<objects, tip, job, steps, exclusive>>

(* Faulty: blobs are not swept. *)
FaultyListObjects ==
  /\ gc.phase = "mark" /\ gc.roots = {} /\ gc.repos = {}
  /\ gc' = [phase |-> "sweep", todo |-> (objects \ gc.marked) \ Blobs, still |-> gc.still]
  /\ UNCHANGED <<objects, tip, job, steps, exclusive>>

ListObjects ==
  /\ gc.phase = "mark" /\ gc.roots = {} /\ gc.repos = {}
  /\ gc' = [phase |-> "sweep", todo |-> objects \ gc.marked, still |-> gc.still]
  /\ UNCHANGED <<objects, tip, job, steps, exclusive>>

DeleteObject(id) ==
  /\ gc.phase = "sweep" /\ id \in gc.todo
  /\ objects' = objects \ {id}
  /\ gc' = [gc EXCEPT !.todo = @ \ {id}]
  /\ UNCHANGED <<tip, job, steps, exclusive>>

EndGC ==
  /\ gc.phase = "sweep" /\ gc.todo = {}
  /\ gc' = NoGC
  /\ UNCHANGED <<objects, tip, job, steps, exclusive>>

KillGC ==
  /\ gc # NoGC
  /\ gc' = NoGC
  /\ UNCHANGED <<objects, tip, job, steps, exclusive>>

Writes ==
  \E p \in Repos, r \in Revs :
     \/ \E path \in {<<n>> : n \in Names} \cup (Names \X Names),
           e \in {NoEntry} \cup {Blob(b) : b \in Blobs} :
          CommitFirst(p, r, path, e) \/ CommitNew(p, r, path, e) \/ Amend(p, r, path, e)
     \/ r \in DOMAIN tip[p] /\ \E q \in DOMAIN tip[p] \ {r} : BeginRebase(p, r, q)

Collects ==
  \/ BeginGC
  \/ \E p \in Repos : ListRevisions(p)
  \/ gc.phase = "mark" /\ \E id \in gc.roots : Mark(id)
  \/ ListObjects
  \/ gc.phase = "sweep" /\ \E id \in gc.todo : DeleteObject(id)
  \/ EndGC
  \/ KillGC

Next == Writes \/ WriteObject \/ ReadBack \/ Record \/ KillWriter \/ Collects

Spec == Init /\ [][Next]_vars

-----------------------------------------------------------------------------
(* verifyTree: how many objects of a tree are missing, each counted at every
   place that refers to it.  The terms of a conflict are not looked at. *)
Missing(id) == id \notin objects

MissingAt(n, e) ==
  CASE IsTree(e) /\ ~Missing(e.id) ->
         {<<n, m>> : m \in {k \in Names : LET x == e.id.entries[k] IN Present(x) /\ Missing(x.id)}}
    [] Missing(e.id) -> {<<n>>}
    [] OTHER         -> {}

MissingPlaces(t) == UNION {MissingAt(n, t[n]) : n \in {k \in Names : Present(t[k])}}

VerifyTree(id) == IF Missing(id) THEN 1 ELSE Cardinality(MissingPlaces(id.entries))

-----------------------------------------------------------------------------
(* What a tree refers to: all its entries, and the objects they name with its
   own.  The sides of conflicts are left out, as the collector leaves them out. *)
Inside(t) ==
  LET top == Entries(TreeId(t))
  IN  top \cup UNION {Entries(e.id) : e \in {x \in top : IsTree(x)}}

Referenced(t) == {TreeId(t)} \cup {e.id : e \in Inside(t)}

Subdirectories == UNION {{e.id : e \in {x \in Entries(TreeId(RootOf(c))) : IsTree(x)}} : c \in Current}

(***************************************************************************)
(* A collection never takes the root tree of a revision that stood still   *)
(* since it began, whatever is committed meanwhile, in which order it      *)
(* visits repositories that share trees, and wherever it is killed.  With  *)
(* nobody writing it does not take the top-level files of a revision       *)
(* either, unless the revision's root is also somebody's subdirectory.     *)
(***************************************************************************)
SweepSparesTheLiving ==
  [][/\ gc # NoGC => \A c \in gc.still :
          TreeId(RootOf(c)) \in objects => TreeId(RootOf(c)) \in objects'
     /\ exclusive => \A c \in Current : TreeId(RootOf(c)) \notin Subdirectories =>
          EntryIds(TreeId(RootOf(c))) \cap objects \subseteq objects']_vars

(***************************************************************************)
(* When a collection nobody disturbed comes to its end, every object left  *)
(* is one that some revision refers to: the leftovers of killed commands   *)
(* and of amended revisions are gone.  And verify reports a tree as whole  *)
(* exactly if every object it refers to is there, also while a collection  *)
(* runs and after one was killed.                                          *)
(***************************************************************************)
StoreMatchesReferences ==
  /\ exclusive /\ gc.phase = "sweep" /\ gc.todo = {} =>
       objects \subseteq UNION {Referenced(RootOf(c)) : c \in Current}
  /\ \A c \in Current : VerifyTree(TreeId(RootOf(c))) = 0 <=> Referenced(RootOf(c)) \subseteq objects

(***************************************************************************)
(* gc.go 22: a collection prunes "any object not reachable" from the       *)
(* snapshots of the repositories, and with nobody writing no other one.    *)
(***************************************************************************)
ReachableObjectsSurvive ==
  exclusive => \A c \in Current : Referenced(RootOf(c)) \subseteq objects
=============================================================================
