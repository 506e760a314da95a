----------------------------- MODULE MergeWalk ------------------------------
(***************************************************************************)
(* One revision ("ours") that is edited, rebased again and again onto a    *)
(* moving tip ("theirs") and has its conflicts resolved: the life of a     *)
(* tree through revision.Rebase, revision.Resolve and the commits between  *)
(* them.  base is the tree of the revision's current parent.               *)
(***************************************************************************)
EXTENDS Merge3

CONSTANT MaxEdits    \* bound on the edits of a behaviour

VARIABLES tree,      \* the trees of "ours" and "theirs"
          base,      \* the tree "ours" was last rebased onto
          edits      \* how many edits were made (bounded by MaxEdits)

walkVars == <<tree, base, edits>>

Holders == {"ours", "theirs"}
Paths  == {<<n>> : n \in Names} \cup {<<n, m>> : n \in Names, m \in Names}

WalkInit ==
  /\ tree = [s \in Holders |-> EmptyTree]
  /\ base = EmptyTree
  /\ edits = 0

-----------------------------------------------------------------------------
(* A commit of one changed file: a written blob, or a deleted path. *)
EditPath(s, path, e) ==
  /\ edits < MaxEdits
  /\ tree' = [tree EXCEPT ![s] = ResolvePath(@, path, e)]
  /\ edits' = edits + 1
  /\ UNCHANGED base

(* revision.Rebase: merge(base = old parent, ours, theirs = new parent). *)
RebaseOnTip ==
  /\ tree' = [tree EXCEPT !["ours"] = MergeTrees(base, @, tree["theirs"])]
  /\ base' = tree["theirs"]
  /\ UNCHANGED edits

(* Resolve picks one side of a conflict. *)
Resolve(s, path) ==
  LET e == FindEntry(tree[s], path)
  IN  /\ IsConflict(e)
      /\ \E i \in Sides(e) : tree' = [tree EXCEPT ![s] = ResolvePath(@, path, Chosen(e, i))]
      /\ UNCHANGED <<base, edits>>

(* Derive: the tip becomes a copy of the revision, to be edited on its own. *)
Derive ==
  /\ edits < MaxEdits
  /\ tree' = [tree EXCEPT !["theirs"] = tree["ours"]]
  /\ edits' = edits + 1
  /\ UNCHANGED base

WalkNext ==
  \/ \E s \in Holders, path \in Paths, e \in {NoEntry} \cup {Blob(b) : b \in Blobs} :
        EditPath(s, path, e)
  \/ RebaseOnTip
  \/ \E s \in Holders, path \in Paths : Resolve(s, path)
  \/ Derive

WalkSpec == WalkInit /\ [][WalkNext]_walkVars

-----------------------------------------------------------------------------
(* The merge the next RebaseOnTip would compute, and what each side has at a path. *)
Merged == MergeTrees(base, tree["ours"], tree["theirs"])
At(t, path) == FindEntry(t, path)

(* The textbook three-way rule on ids: take the side that changed. *)
Changed3(b, o, t) == o # b /\ t # b /\ o # t
Diff3(b, o, t)    == IF o = b THEN t ELSE o

(* A path where one side has a directory and another a file or a conflict. *)
Clash(n) ==
  \E t1, t2 \in {base, tree["ours"], tree["theirs"]} :
     IsTree(t1[n]) /\ ~IsTree(t2[n]) /\ Present(t2[n])

IsLeaf(e) == Present(e) /\ ~IsTree(e)

(* The content of e is kept in m, as itself or as a side of a conflict. *)
Kept(e, m) ==
  /\ IsLeaf(m)
  /\ \/ m.id = e.id
     \/ IsConflict(m) /\ \E i \in Sides(m) : m.id.adds[i].id = e.id

(***************************************************************************)
(* Where no directory is involved the code's cascade of rules is the       *)
(* three-way rule: a conflict exactly when both sides changed the path     *)
(* differently, otherwise the changed side (merge.go mergeEntry).          *)
(***************************************************************************)
LeafMergeIsDiff3 ==
  \A n \in Names :
     LET b == base[n]  o == tree["ours"][n]  t == tree["theirs"][n]  m == Merged[n]
     IN  ~(IsTree(b) \/ IsTree(o) \/ IsTree(t)) =>
           IF Changed3(b.id, o.id, t.id)
           THEN m = ConflictEntry(b, o, t)
           ELSE m.id = Diff3(b.id, o.id, t.id)

(***************************************************************************)
(* No file clash: what either side wrote since the base survives the       *)
(* rebase, as the merged file or as a side of the recorded conflict, at    *)
(* the same path (merge.go: conflicts are recorded "rather than failing"); *)
(* and a file one side deleted and the other left alone stays deleted: a   *)
(* rebase never resurrects it (merge.go 152-166).                          *)
(***************************************************************************)
SurvivesAt(s, path) ==
  LET e == At(tree[s], path)
      b == At(base, path)
  IN  IsLeaf(e) /\ (IsTree(b) \/ e.id # b.id) => Kept(e, At(Merged, path))

StaysDeletedAt(path) ==
  LET b == At(base, path)  o == At(tree["ours"], path)  t == At(tree["theirs"], path)
  IN  IsLeaf(b) /\ ((~Present(o) /\ t = b) \/ (~Present(t) /\ o = b)) => ~Present(At(Merged, path))

ChangesOfBothSidesStay ==
  \A path \in Paths : ~Clash(path[1]) =>
    StaysDeletedAt(path) /\ \A s \in Holders : SurvivesAt(s, path)
=============================================================================
