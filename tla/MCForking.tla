----------------------------- MODULE MCForking -----------------------------
(* Forking with repositories and trees that are interchangeable. *)
EXTENDS Forking, TLC

Symmetries == Permutations(Repos) \cup Permutations(Trees)
=============================================================================
