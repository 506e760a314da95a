------------------------------- MODULE Listing -------------------------------
(***************************************************************************)
(* Sequences put in order by counting.  SelectSeq and SortSeq take an      *)
(* operator as a parameter, of which nothing can be proved; here what is   *)
(* selected, and what comes before what, are sets.                         *)
(***************************************************************************)
EXTENDS Naturals, Sequences, FiniteSets

(* The members of upto's domain, in order: upto[x] are x and those before it. *)
Listed(upto) ==
  [n \in 1..Cardinality(DOMAIN upto) |-> CHOOSE x \in DOMAIN upto : Cardinality(upto[x]) = n]

(* The numbers of a set, the smallest first. *)
Ascending(S) ==
  [n \in 1..Cardinality(S) |-> CHOOSE x \in S : Cardinality({m \in S : m <= x}) = n]

(* What s has at the positions in S. *)
Picked(s, S) == [n \in 1..Cardinality(S) |-> s[Ascending(S)[n]]]
=============================================================================
