----------------------------- MODULE MCObjectGC -----------------------------
(* Model-checking instance of ObjectGC, with repositories that are
   interchangeable.  While collections and writers exclude each other two
   revisions of each repository are written; while they do not, one of each,
   with every interleaving. *)
EXTENDS ObjectGC

RepoSymmetry == Permutations(Repos)

OneEach == exclusive \/ job' = NoJob \/ job'.rev = "r1"
MCSpec == Init /\ [][Next /\ OneEach]_vars
=============================================================================
