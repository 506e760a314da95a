------------------------------- MODULE Merge3 -------------------------------
(***************************************************************************)
(* The three-way tree merge of merge/merge.go and the conflict objects of  *)
(* object/conflict.go.                                                     *)
(*                                                                         *)
(* Objects are content-addressed, so an id is modelled by the content it   *)
(* names: a blob id is a member of Blobs, a conflict id is the conflict    *)
(* record, a tree id is its table of entries.  A tree is a total function on Names; an *)
(* absent name maps to NoEntry, which is exactly Go's zero Entry (kind     *)
(* blob, zero id).  Trees have two levels (a root and one level of         *)
(* subdirectories), enough for every case of mergeEntry, whose recursion   *)
(* treats each level alike.  Reads of stored trees succeed.                *)
(***************************************************************************)
EXTENDS Integers, Sequences

CONSTANTS Names,     \* entry names of a directory
          Blobs,     \* ids of blob contents
          Zero       \* the zero object id: "no content / deleted"

ASSUME ZeroAssumption == Zero \notin Blobs

NoEntry  == [kind |-> "blob", id |-> Zero]
Blob(b)  == [kind |-> "blob", id |-> b]
Dir(f)   == [kind |-> "tree", id |-> [entries |-> f]]
EmptyTree == [n \in Names |-> NoEntry]

Present(e) == e.id # Zero
IsTree(e)  == e.kind = "tree"

(* One side of a conflict: an object id and the label of where it came from. *)
Term(id, label) == [id |-> id, label |-> label]

(***************************************************************************)
(* The conflict recorded when neither side can be taken.  An absent side   *)
(* gets an explicit zero term so that Resolve can choose the deletion.     *)
(***************************************************************************)
Conflict(b, o, t) ==
  LET side(e, label) == IF Present(e) THEN <<Term(e.id, label)>> ELSE <<>>
      gone(e, label) == IF Present(e) THEN <<>> ELSE <<Term(Zero, label)>>
  IN  [removes |-> side(b, "base"),
       adds    |-> side(o, "ours") \o side(t, "theirs")
                     \o (IF Present(t) THEN gone(o, "ours") ELSE gone(t, "theirs"))]

ConflictEntry(b, o, t) == [kind |-> "conflict", id |-> Conflict(b, o, t)]

(* Both sides agree, theirs left the base alone, or only ours added. *)
TakesOurs(b, o, t) ==
  /\ Present(o)
  /\ \/ Present(t) /\ o.id = t.id
     \/ Present(b) /\ Present(t) /\ t.id = b.id
     \/ ~Present(b) /\ ~Present(t)

(* Faulty: does not compare ours with the base. *)
FaultyTakesTheirs(b, o, t) == Present(t) /\ (Present(b) <=> Present(o))

(* Ours left the base alone, or only theirs added. *)
TakesTheirs(b, o, t) ==
  /\ Present(t)
  /\ \/ Present(b) /\ Present(o) /\ o.id = b.id
     \/ ~Present(b) /\ ~Present(o)

(* Somebody deleted the path and nobody changed it. *)
TakesDeletion(b, o, t) ==
  /\ Present(b)
  /\ ~Present(o) \/ ~Present(t)
  /\ \A e \in {o, t} : Present(e) => e.id = b.id

(* Faulty: ours wins instead of a conflict. *)
FaultyMergeLeaf(b, o, t) ==
  IF TakesTheirs(b, o, t) THEN t
  ELSE IF TakesDeletion(b, o, t) THEN NoEntry
  ELSE o

(* mergeEntry for three sides none of which is a directory: the first rule *)
(* that applies.                                                           *)
MergeLeaf(b, o, t) ==
  IF TakesOurs(b, o, t) THEN o
  ELSE IF TakesTheirs(b, o, t) THEN t
  ELSE IF TakesDeletion(b, o, t) THEN NoEntry
  ELSE ConflictEntry(b, o, t)

(* Trees visits a name only if some side has it. *)
MergeName(b, o, t) ==
  IF Present(b) \/ Present(o) \/ Present(t) THEN MergeLeaf(b, o, t) ELSE NoEntry

(* A side that is not a directory counts as an empty one. *)
SubTree(e) == IF IsTree(e) THEN e.id.entries ELSE EmptyTree

(***************************************************************************)
(* mergeEntry: if any side is a directory the sides merge as directories,  *)
(* and an empty result is dropped.                                         *)
(***************************************************************************)
MergeEntry(b, o, t) ==
  IF IsTree(b) \/ IsTree(o) \/ IsTree(t)
  THEN LET sub == [n \in Names |->
                     MergeName(SubTree(b)[n], SubTree(o)[n], SubTree(t)[n])]
       IN  IF sub = EmptyTree THEN NoEntry ELSE Dir(sub)
  ELSE MergeName(b, o, t)

(* Trees: the merge of three root trees. *)
MergeTrees(b, o, t) == [n \in Names |-> MergeEntry(b[n], o[n], t[n])]

(***************************************************************************)
(* resolvePath: the tree with the entry at a path replaced, or removed     *)
(* when e is NoEntry.  Anything that is not a directory on the way down is *)
(* replaced by one, and a directory emptied by a removal disappears.       *)
(***************************************************************************)
ResolvePath(t, path, e) ==
  IF Len(path) = 1
  THEN [t EXCEPT ![path[1]] = e]
  ELSE LET sub == [SubTree(t[path[1]]) EXCEPT ![path[2]] = e]
       IN  [t EXCEPT ![path[1]] = IF sub = EmptyTree THEN NoEntry
                                  ELSE Dir(sub)]

(* findEntry: the entry at a path, NoEntry where the code reports an error. *)
FindEntry(t, path) ==
  IF Len(path) = 1 THEN t[path[1]] ELSE SubTree(t[path[1]])[path[2]]

-----------------------------------------------------------------------------
(***************************************************************************)
(* Resolve (revision/revision_ops.go) replaces a conflict entry by one of  *)
(* its positive terms.  The zero term removes the path; any other id is    *)
(* written as an entry of kind blob, whatever object the id names.         *)
(***************************************************************************)
IsConflict(e)   == e.kind = "conflict"
Sides(e)        == DOMAIN e.id.adds
Chosen(e, side) == Blob(e.id.adds[side].id)
=============================================================================
