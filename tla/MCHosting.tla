----------------------------- MODULE MCHosting -----------------------------
(* Hosting with all names in one namespace. *)
EXTENDS Hosting, TLC

OneSpace == [n \in Names |-> "space"]
Symmetries == Permutations(Requests)
=============================================================================
