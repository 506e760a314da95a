----------------------------- MODULE WorkingCopy ----------------------------
(***************************************************************************)
(* One workspace: a directory of files, the marker that names the current  *)
(* revision, and the commands that go between the two: commit (scan the    *)
(* directory, diff it with the current tree, apply the differences, record *)
(* them, move the marker), checkout, and rebase of a revision under it.    *)
(*                                                                         *)
(* The scan builds its trees in memory (scan.go), so whether the diff sees *)
(* a directory depends on which tree objects happen to be in the store:    *)
(* the model keeps that set.  The user works on while a commit runs, and a *)
(* command can be killed between its steps.                                *)
(***************************************************************************)
EXTENDS Merge3, FiniteSets

CONSTANTS Revs,       \* revision ids
          MaxSteps    \* bound on the edits and commands of a behaviour

ASSUME MaxStepsAssumption == MaxSteps \in Nat

VARIABLES work,       \* the working directory
          trees,      \* the tree objects in the store
          tip,        \* revision -> [tree, base]: its tree and its parent's
          current,    \* the revision the workspace marker names
          job,        \* the commit under way
          steps       \* how many edits and commands were begun

vars == <<work, trees, tip, current, job, steps>>

None == "none"
NoJob == [phase |-> "idle"]

(* The tree objects a stored tree consists of. *)
Tables(t) == {t} \cup {t[n].id.entries : n \in {m \in Names : IsTree(t[m])}}

(* The text a conflict is checked out as: a blob like any other. *)
Rendered(c) == [text |-> c]

Spend == steps < MaxSteps /\ steps' = steps + 1
Idle  == job = NoJob

Init ==
  /\ work = EmptyTree
  /\ trees = {}
  /\ tip = <<>>
  /\ current = None
  /\ job = NoJob
  /\ steps = 0

-----------------------------------------------------------------------------
(* The user writes, removes or replaces a file, at any time.  An emptied
   directory stays, a file in the way of a directory is replaced. *)
Edit(n, e) ==
  /\ Spend
  /\ work' = [work EXCEPT ![n] = e]
  /\ UNCHANGED <<trees, tip, current, job>>

EditBelow(n, m, e) == Edit(n, Dir([SubTree(work[n]) EXCEPT ![m] = e]))

-----------------------------------------------------------------------------
(* diffSpecs: the file changes that are to turn the tree a into the scanned b. *)
Write(path, e) == {[path |-> path, entry |-> e]}
Delete(path)   == {[path |-> path, entry |-> NoEntry]}

IsFile(e) == e.kind = "blob" /\ Present(e)

(* Faulty: a file that is gone is not noticed. *)
FaultyLeafChange(path, ea, eb) == IF IsFile(eb) /\ ea # eb THEN Write(path, eb) ELSE {}

LeafChange(path, ea, eb) ==
  IF IsFile(eb) THEN (IF ea = eb THEN {} ELSE Write(path, eb))
  ELSE IF IsFile(ea) THEN Delete(path) ELSE {}

(* readTreeOrNil: a directory counts as one only if its object is stored. *)
IsKnownTree(e) == IsTree(e) /\ e.id.entries \in trees

AllDeleted(n, sub) == UNION {Delete(<<n, m>>) : m \in {k \in Names : Present(sub[k])}}
AllAdded(n, sub)   == UNION {Write(<<n, m>>, sub[m]) : m \in {k \in Names : Present(sub[k])}}

ChangesAt(n, ea, eb) ==
  CASE IsKnownTree(ea) /\ IsKnownTree(eb) ->
         UNION {LeafChange(<<n, m>>, ea.id.entries[m], eb.id.entries[m]) : m \in Names}
    [] IsKnownTree(ea) /\ ~IsKnownTree(eb) -> AllDeleted(n, ea.id.entries)
    [] ~IsKnownTree(ea) /\ IsKnownTree(eb) -> AllAdded(n, eb.id.entries)
    [] OTHER -> LeafChange(<<n>>, ea, eb)

Changes(a, b) == UNION {ChangesAt(n, a[n], b[n]) : n \in Names}

(* commit: resolve the parent, scan the directory, list the changes. *)
BeginCommit(isNew) ==
  LET base == IF current = None THEN EmptyTree ELSE tip[current].tree
      amends == ~isNew /\ current # None
  IN  /\ Idle /\ Spend
      /\ \E r \in (IF amends THEN {current} ELSE Revs \ DOMAIN tip) :
           job' = [phase |-> "apply", rev |-> r, new |-> ~amends, base |-> base, scan |-> work,
                   known |-> trees, tree |-> base, todo |-> Changes(base, work)]
      /\ UNCHANGED <<work, trees, tip, current>>

(* One change of CommitFromChanges: resolvePath stores the rewritten
   subdirectory and the rewritten root. *)
ApplyChange ==
  /\ job.phase = "apply"
  /\ \E c \in job.todo :
       LET t == ResolvePath(job.tree, c.path, c.entry)
       IN  /\ trees' = trees \cup {t}
                 \cup (IF IsTree(t[c.path[1]]) THEN {t[c.path[1]].id.entries} ELSE {})
           /\ job' = [job EXCEPT !.tree = t, !.todo = @ \ {c}]
  /\ UNCHANGED <<work, tip, current, steps>>

(* Faulty: only the trees that changes rewrote are stored. *)
FaultyRecord ==
  /\ job.phase = "apply" /\ job.todo = {}
  /\ tip' = [r \in DOMAIN tip \cup {job.rev} |->
               IF r = job.rev
               THEN [tree |-> job.tree, base |-> IF job.new THEN job.base ELSE tip[r].base]
               ELSE tip[r]]
  /\ job' = [job EXCEPT !.phase = "mark"]
  /\ UNCHANGED <<work, trees, current, steps>>

(* The transaction: the root tree, the snapshot and the revision. *)
Record ==
  /\ job.phase = "apply" /\ job.todo = {}
  /\ trees' = trees \cup {job.tree}
  /\ tip' = [r \in DOMAIN tip \cup {job.rev} |->
               IF r = job.rev
               THEN [tree |-> job.tree, base |-> IF job.new THEN job.base ELSE tip[r].base]
               ELSE tip[r]]
  /\ job' = [job EXCEPT !.phase = "mark"]
  /\ UNCHANGED <<work, current, steps>>

MoveMarker ==
  /\ job.phase = "mark"
  /\ current' = job.rev
  /\ job' = NoJob
  /\ UNCHANGED <<work, trees, tip, steps>>

Crash ==
  /\ ~Idle
  /\ job' = NoJob
  /\ UNCHANGED <<work, trees, tip, current, steps>>

-----------------------------------------------------------------------------
(* What Materialize makes of a directory entry old that is to become e.  Entries
   the tree does not have are left as they are. *)
Rendering(e) ==
  IF IsConflict(e) THEN Blob(Rendered(e.id)) ELSE e

Overlay(old, new) == [m \in Names |-> IF Present(new[m]) THEN Rendering(new[m]) ELSE old[m]]

Materialized(old, e) ==
  CASE ~Present(e) -> old
    [] IsTree(e)   -> Dir(Overlay(SubTree(old), e.id.entries))
    [] OTHER       -> Rendering(e)

(* renderConflict fails on a side that is not a blob; the file system refuses a
   file where a directory is and the other way round. *)
CanRender(e) ==
  IsConflict(e) => \A i \in Sides(e) : e.id.adds[i].id \in Blobs \cup {Zero}

Fits(old, e) ==
  /\ IF IsTree(e) THEN \A m \in Names : CanRender(e.id.entries[m]) ELSE CanRender(e)
  /\ Present(e) /\ Present(old) => IsTree(e) = IsTree(old)

(* checkout: entries are written in order until one fails; the marker moves only
   if none does. *)
Checkout(r) ==
  LET t == tip[r].tree
      good == {n \in Names : Fits(work[n], t[n])}
  IN  /\ Idle /\ Spend
      /\ \E done \in IF good = Names THEN {Names} ELSE SUBSET good :
           work' = [n \in Names |-> IF n \in done THEN Materialized(work[n], t[n]) ELSE work[n]]
      /\ current' = IF good = Names THEN r ELSE current
      /\ UNCHANGED <<trees, tip, job>>

(* rebase of one revision onto another: the merged trees are stored. *)
Rebase(r, onto) ==
  LET t == MergeTrees(tip[r].base, tip[r].tree, tip[onto].tree)
  IN  /\ Idle /\ Spend
      /\ trees' = trees \cup Tables(t)
      /\ tip' = [tip EXCEPT ![r] = [tree |-> t, base |-> tip[onto].tree]]
      /\ UNCHANGED <<work, current, job>>

Next ==
  \/ \E n \in Names, e \in {NoEntry} \cup {Blob(b) : b \in Blobs} :
        \/ Edit(n, e)
        \/ \E m \in Names : EditBelow(n, m, e)
  \/ \E isNew \in BOOLEAN : BeginCommit(isNew)
  \/ ApplyChange
  \/ Record
  \/ MoveMarker
  \/ Crash
  \/ \E r \in DOMAIN tip : Checkout(r) \/ \E onto \in DOMAIN tip \ {r} : Rebase(r, onto)

Spec == Init /\ [][Next]_vars

-----------------------------------------------------------------------------
Recorded == job.phase = "mark"
Result(n) == tip[job.rev].tree[n]
HasConflict(e) == IsTree(e) /\ \E m \in Names : IsConflict(e.id.entries[m])

(***************************************************************************)
(* A commit keeps what the user did not touch: an entry the scan found as  *)
(* the current tree has it is in the new tree unchanged, whatever other    *)
(* changes were applied before it and in whatever order.  Files at the top *)
(* are recorded as scanned: written, changed and deleted ones; and so is a *)
(* directory whose content the store has seen before, also in place of     *)
(* another directory or a file.                                            *)
(***************************************************************************)
ScanIsCommitted ==
  Recorded => \A n \in Names :
    \/ Result(n) = job.scan[n]
    \/ /\ job.scan[n] # job.base[n]
       /\ IsTree(job.scan[n]) \/ IsTree(job.base[n]) \/ IsConflict(job.base[n])
       /\ ~(IsTree(job.scan[n]) /\ job.scan[n].id.entries \in job.known \ {EmptyTree}) \/ HasConflict(job.base[n])

(***************************************************************************)
(* The marker of the workspace names a revision that exists, and every     *)
(* tree a revision refers to is in the store, also after a crash in the    *)
(* middle of a commit: mustTree never has to make up an empty one.         *)
(***************************************************************************)
RevisionTreesAreStored ==
  /\ current \in DOMAIN tip \cup {None}
  /\ \A r \in DOMAIN tip : Tables(tip[r].tree) \subseteq trees

(***************************************************************************)
(* scan.go 94-95: the diff yields a change "for every path that differs",  *)
(* so a commit records the directories of the working directory.           *)
(***************************************************************************)
SubdirectoriesAreCommitted ==
  Recorded => \A n \in Names :
     IsTree(job.scan[n]) /\ job.scan[n].id.entries # EmptyTree /\ ~HasConflict(job.base[n])
       => Result(n) = job.scan[n]
=============================================================================
