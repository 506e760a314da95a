--------------------------- MODULE MCWorkingCopy ----------------------------
(* Model-checking instance of the two modules about trees: the working copy of
   one workspace, and the life of one tree through edits, rebases and resolves.
   A behaviour is one of one of them; the other stays as it begins.  The walk
   keeps to the names WalkNames, and the copy to the contents CopyBlobs. *)
EXTENDS WorkingCopy, MergeWalk, TLC

CONSTANTS WalkNames, CopyBlobs

VARIABLE part

MCInit == part \in {"copy", "walk"} /\ Init /\ WalkInit

Contents(t) ==
  UNION {IF IsTree(t[n]) THEN {t[n].id.entries[m].id : m \in Names} ELSE {t[n].id} : n \in Names}

(* Names that hold something. *)
Used(t) == {n \in Names : Present(t[n])}

Within(t) ==
  Used(t) \subseteq WalkNames /\ \A n \in Names : Used(SubTree(t[n])) \subseteq WalkNames

CopyStep ==
  /\ part = "copy" /\ Next
  /\ Contents(work') \cap Blobs \subseteq CopyBlobs
  /\ UNCHANGED <<part, walkVars>>

WalkStep ==
  /\ part = "walk" /\ WalkNext
  /\ \A s \in Holders : Within(tree'[s])
  /\ UNCHANGED <<part, vars>>

MCSpec == MCInit /\ [][CopyStep \/ WalkStep]_<<part, vars, walkVars>>
=============================================================================
