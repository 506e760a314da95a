-------------------------- MODULE StableRevisions ---------------------------
(***************************************************************************)
(* What package revision promises of a repository, however many processes  *)
(* work on it and wherever they die: snapshots are published once, with    *)
(* their history, and never withdrawn; a revision id, once given, stays,   *)
(* and always names one published snapshot that carries that id.           *)
(* (revision/change.go, the rules at the head of the package.)             *)
(***************************************************************************)
VARIABLES published,   \* the snapshots anybody may look up
          at           \* revision id -> the snapshot it stands at

vars == <<published, at>>

Complete(S) == \A s \in S : s.parents # <<>> => s.parents[1] \in S

Settled(S, f) == \A id \in DOMAIN f : f[id] \in S /\ f[id].rev = id

(* A repository may be opened with any consistent content. *)
Init == Complete(published) /\ Settled(published, at)

(* A snapshot whose history is published is published, or was already. *)
Publish(s) ==
  /\ published' = published \cup {s}
  /\ Complete(published')
  /\ UNCHANGED at

(* A revision, new or known, moves to a published snapshot of its own. *)
Move(id) ==
  /\ DOMAIN at' = DOMAIN at \cup {id}
  /\ \A d \in DOMAIN at \ {id} : at'[d] = at[d]
  /\ Settled(published, at')
  /\ UNCHANGED published

(* Both at once: the transaction of a commit. *)
Record(id) ==
  /\ published' = published \cup {at'[id]}
  /\ Complete(published')
  /\ DOMAIN at' = DOMAIN at \cup {id}
  /\ \A d \in DOMAIN at \ {id} : at'[d] = at[d]
  /\ Settled(published', at')

Next ==
  \/ \E s \in published' : Publish(s)
  \/ \E id \in DOMAIN at' : Move(id) \/ Record(id)

Spec == Init /\ [][Next]_vars
=============================================================================
