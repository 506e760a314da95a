------------------------------ MODULE Forking ------------------------------
(***************************************************************************)
(* Fork of store/centralstore.go: a repository's snapshots, revisions and  *)
(* references are copied under fresh revision ids into a new repository.   *)
(*                                                                         *)
(* The copy is made of statements without a transaction around them:       *)
(* people go on working in the source, and the process may be killed.      *)
(* The hash of a snapshot is the record of what is hashed, so the hashes   *)
(* of parents are the parents themselves.  A rewrite (amend, rebase) is    *)
(* one step here: Fork reads which snapshots there are, and looks at where *)
(* a revision stands only when it found no snapshot of it.                 *)
(***************************************************************************)
EXTENDS Integers, FiniteSets, Functions

CONSTANTS Repos,    \* the names a repository may have
          Names,    \* names of branches and tags
          Trees,    \* root trees
          MaxRevs,  \* bound on the revision ids ever generated
          MaxOps    \* bound on the operations of users in a behaviour

ASSUME ForkingAssumption == MaxRevs \in Nat /\ MaxOps \in Nat

VARIABLES existing,   \* the repositories there are
          snapshots,  \* repository -> its stored snapshots
          revisions,  \* repository -> revision id -> current snapshot
          refs,       \* repository -> name -> revision id
          nextId,     \* the next fresh revision id
          job,        \* repository -> the fork that fills it
          ops

rows == <<snapshots, revisions, refs>>
vars == <<existing, snapshots, revisions, refs, nextId, job, ops>>

NoId == 0   \* the id of a revision that is in no map: the empty string

Snapshot(id, parents, tree) == [rev |-> id, parents |-> parents, tree |-> tree]
ParentsOf(s) == Range(s.parents)
Known(r)     == DOMAIN revisions[r]

(* f with the entries of g written over it, as the upserts of one table. *)
Over(f, g) == [k \in DOMAIN f \cup DOMAIN g |-> IF k \in DOMAIN g THEN g[k] ELSE f[k]]

NoJob == [phase |-> "none"]

Init ==
  /\ \E src \in Repos : existing = {src}
  /\ snapshots = [r \in Repos |-> {}]
  /\ revisions = [r \in Repos |-> <<>>]
  /\ refs = [r \in Repos |-> <<>>]
  /\ nextId = 1
  /\ job = [r \in Repos |-> NoJob]
  /\ ops = 0

-----------------------------------------------------------------------------
(* Users work in a repository that no fork is filling. *)
Works(r) ==
  /\ r \in existing /\ job[r].phase \in {"none", "done"}
  /\ ops < MaxOps /\ ops' = ops + 1

Store(r, s) ==
  /\ snapshots' = [snapshots EXCEPT ![r] = @ \cup {s}]
  /\ revisions' = [revisions EXCEPT ![r] = Over(@, [id \in {s.rev} |-> s])]

Commit(r, parents, tree) ==
  /\ Works(r)
  /\ nextId <= MaxRevs /\ nextId' = nextId + 1
  /\ Store(r, Snapshot(nextId, parents, tree))
  /\ UNCHANGED <<existing, refs, job>>

Amend(r, id, tree) ==
  /\ Works(r)
  /\ tree # revisions[r][id].tree
  /\ Store(r, Snapshot(id, revisions[r][id].parents, tree))
  /\ UNCHANGED <<existing, refs, nextId, job>>

SetRef(r, n, id) ==
  /\ Works(r)
  /\ refs' = [refs EXCEPT ![r] = Over(@, [m \in {n} |-> id])]
  /\ UNCHANGED <<existing, snapshots, revisions, nextId, job>>

Work(r) ==
  \/ \E tree \in Trees : Commit(r, <<>>, tree)
  \/ \E id \in Known(r), tree \in Trees : Commit(r, <<revisions[r][id]>>, tree) \/ Amend(r, id, tree)
  \/ \E n \in Names, id \in Known(r) : SetRef(r, n, id)

-----------------------------------------------------------------------------
(* The new repository is created; two forks cannot create the same one. *)
ForkCreate(src, dst) ==
  /\ src \in existing /\ dst \notin existing
  /\ existing' = existing \cup {dst}
  /\ job' = [job EXCEPT ![dst] = [phase |-> "snapshots", src |-> src]]
  /\ UNCHANGED <<rows, nextId, ops>>

ForkReadSnapshots(dst) ==
  LET j == job[dst]
  IN  /\ j.phase = "snapshots"
      /\ job' = [job EXCEPT ![dst] =
           [phase |-> "revisions", src |-> j.src, snaps |-> snapshots[j.src]]]
      /\ UNCHANGED <<existing, rows, nextId, ops>>

(* Faulty: ids are kept. *)
FaultyFreshIds(ids) == [id \in ids |-> id]

(* A fresh id for each of the given ones. *)
FreshIds(ids) == [id \in ids |-> nextId + Cardinality({i \in ids : i < id})]

(* A snapshot under its new id: first with the parents it had ... *)
Rekeyed(remap, s) ==
  [s EXCEPT !.rev = IF s.rev \in DOMAIN remap THEN remap[s.rev] ELSE NoId]

(* ... then with those parents in the form they had after the first pass. *)
Copy(remap, snaps, s) ==
  [Rekeyed(remap, s) EXCEPT !.parents =
     [i \in DOMAIN s.parents |->
        IF s.parents[i] \in snaps THEN Rekeyed(remap, s.parents[i]) ELSE s.parents[i]]]

(* The revisions are read, and every row to write is built in memory. *)
ForkReadRevisions(dst) ==
  LET j == job[dst]
      ids == Known(j.src)
      remap == FreshIds(ids)
  IN  /\ j.phase = "revisions"
      /\ nextId + Cardinality(ids) <= MaxRevs + 1
      /\ nextId' = nextId + Cardinality(ids)
      /\ job' = [job EXCEPT ![dst] =
           [phase |-> "write", src |-> j.src, snaps |-> j.snaps, revs |-> revisions[j.src],
            remap |-> remap, left |-> j.snaps, revsLeft |-> ids]]
      /\ UNCHANGED <<existing, rows, ops>>

ForkPutSnapshot(dst) ==
  LET j == job[dst]
  IN  /\ j.phase = "write"
      /\ \E s \in j.left :
           /\ snapshots' = [snapshots EXCEPT ![dst] = @ \cup {Copy(j.remap, j.snaps, s)}]
           /\ job' = [job EXCEPT ![dst].left = @ \ {s}]
      /\ UNCHANGED <<existing, revisions, refs, nextId, ops>>

(* Faulty: any snapshot will do. *)
FaultyStands(j, id) == {Copy(j.remap, j.snaps, s) : s \in j.snaps}

(* Where a copied revision stands: on the first row found with its id, in the
   order in which the database returned them; without one, where it stood. *)
Stands(j, id) ==
  LET own == {s \in j.snaps : s.rev = id}
  IN  IF own = {} THEN {j.revs[id]} ELSE {Copy(j.remap, j.snaps, s) : s \in own}

ForkPutRevision(dst) ==
  LET j == job[dst]
  IN  /\ j.phase = "write" /\ j.left = {}
      /\ \E id \in j.revsLeft :
           /\ \E s \in Stands(j, id) :
                revisions' = [revisions EXCEPT ![dst] = Over(@, [n \in {j.remap[id]} |-> s])]
           /\ job' = [job EXCEPT ![dst].revsLeft = @ \ {id}]
      /\ UNCHANGED <<existing, snapshots, refs, nextId, ops>>

(* The references are read after the rest has been written. *)
ForkReadRefs(dst) ==
  LET j == job[dst]
  IN  /\ j.phase = "write" /\ j.left = {} /\ j.revsLeft = {}
      /\ job' = [job EXCEPT ![dst] =
           [phase |-> "refs", src |-> j.src, snaps |-> j.snaps, revs |-> j.revs,
            remap |-> j.remap, refsLeft |-> refs[j.src]]]
      /\ UNCHANGED <<existing, rows, nextId, ops>>

(* A target that is in no map is written as it is. *)
ForkPutRef(dst) ==
  LET j == job[dst]
  IN  /\ j.phase = "refs"
      /\ \E n \in DOMAIN j.refsLeft :
           LET id == j.refsLeft[n]
               target == IF id \in DOMAIN j.remap THEN j.remap[id] ELSE id
           IN  /\ refs' = [refs EXCEPT ![dst] = Over(@, [m \in {n} |-> target])]
               /\ job' = [job EXCEPT ![dst].refsLeft = Restrict(@, DOMAIN @ \ {n})]
      /\ UNCHANGED <<existing, snapshots, revisions, nextId, ops>>

ForkReturn(dst) ==
  LET j == job[dst]
  IN  /\ j.phase = "refs" /\ DOMAIN j.refsLeft = {}
      /\ job' = [job EXCEPT ![dst] = [j EXCEPT !.phase = "done"]]
      /\ UNCHANGED <<existing, rows, nextId, ops>>

(* The process that forks is killed: what was written stays. *)
Kill(dst) ==
  /\ job[dst].phase \notin {"none", "done", "killed"}
  /\ job' = [job EXCEPT ![dst] = [@ EXCEPT !.phase = "killed"]]
  /\ UNCHANGED <<existing, rows, nextId, ops>>

Fork(dst) ==
  \/ \E src \in existing : ForkCreate(src, dst)
  \/ ForkReadSnapshots(dst) \/ ForkReadRevisions(dst)
  \/ ForkPutSnapshot(dst) \/ ForkPutRevision(dst)
  \/ ForkReadRefs(dst) \/ ForkPutRef(dst) \/ ForkReturn(dst)

Next == \E r \in Repos : Work(r) \/ Fork(r) \/ Kill(r)

Spec == Init /\ [][Next]_vars

-----------------------------------------------------------------------------
(***************************************************************************)
(* Two repositories never share a revision (centralstore.go 442-443: "so   *)
(* two forks never share a revision"), also forks of forks and forks that  *)
(* run at the same time.  And a reference of a fork, finished or killed,   *)
(* names a revision the fork has, unless its target was no revision of the *)
(* source when the fork read those; no reference is left on a revision id  *)
(* of the source that was copied (centralstore.go 576-590).                *)
(***************************************************************************)
Filled == {r \in existing : "remap" \in DOMAIN job[r]}

ForksStandAlone ==
  /\ \A r1, r2 \in Repos : r1 # r2 => Known(r1) \cap Known(r2) = {}
  /\ \A r \in Filled : \A id \in Range(refs[r]) :
       id \in Known(r) \/ id \notin DOMAIN job[r].remap \cup Range(job[r].remap)

Returns(r) == job[r].phase # "done" /\ job'[r].phase = "done"

Whole(S) == \A s \in S : ParentsOf(s) \subseteq S

(***************************************************************************)
(* When a fork returns, each of its revisions holds a tree that the source *)
(* revision had: the only one, if it was never rewritten, one of them      *)
(* otherwise (centralstore.go 529-551).  And if the history that was read  *)
(* is whole, so are the edges of the copy from the children of roots to    *)
(* their roots: the root is stored under its new id (518-544).  For later  *)
(* generations that does not hold, see EdgesAreCopied.                     *)
(***************************************************************************)
ForksCopyVersions ==
  [][\A r \in Repos : Returns(r) =>
       LET j == job[r]
       IN  /\ \A id \in DOMAIN j.remap :
                \/ revisions[r][j.remap[id]].tree \in {s.tree : s \in {x \in j.snaps : x.rev = id}}
                \/ revisions[r][j.remap[id]] = j.revs[id]
           /\ Whole(j.snaps) =>
                \A s \in snapshots[r] : \A p \in ParentsOf(s) : p.parents = <<>> => p \in snapshots[r]]_vars

(***************************************************************************)
(* When a fork returns of a history that is whole, its own history is      *)
(* whole (centralstore.go 491-492: "so parent pointers can be rewritten to *)
(* the new (re-keyed) snapshot hashes").                                   *)
(***************************************************************************)
EdgesAreCopied ==
  [][\A r \in Repos : Returns(r) /\ Whole(job[r].snaps) => Whole(snapshots[r])]_vars
=============================================================================
