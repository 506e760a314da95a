----------------------------- MODULE MCTransfer -----------------------------
(***************************************************************************)
(* A model-checking instance of Transfer: a server with a branch that one  *)
(* client has pulled.                                                      *)
(***************************************************************************)
EXTENDS Transfer, TLC

CONSTANT t1

ClientSymmetry == Permutations(Clients)

First == Snapshot(1, <<>>, t1)

InitShared ==
  /\ snapshots = [r \in Repos |-> {First}]
  /\ revisions = [r \in Repos |-> <<First>>]
  /\ refs = [r \in Repos |-> [b \in {"main"} |-> 1]]
  /\ nextId = 2
  /\ task = [c \in Clients |-> NoTask]
  /\ requests = {} /\ checked = {}
  /\ ops = 0

SpecShared == InitShared /\ [][Next]_vars
=============================================================================
