--------------------------- MODULE ForkingProofs ---------------------------
(***************************************************************************)
(* Proofs about Forking, for any number of repositories, branches, trees,  *)
(* operations and forks: of forks, at the same time, killed half way.      *)
(*                                                                         *)
(* A revision id has one owner: the repository that knows it, or that the  *)
(* fork filling it drew the id for.  That alone says that repositories do  *)
(* not share revisions.  Why a reference of a fork cannot be left on an id *)
(* of the fork that was never written needs more: ids of other owners come *)
(* down to a fork only along the line of its sources, and that line has no *)
(* cycle, so none of them was ever drawn for the fork itself.              *)
(***************************************************************************)
EXTENDS Forking, FiniteSetTheorems, TLAPS

IsSnapshot(s) == s = [rev |-> s.rev, parents |-> s.parents, tree |-> s.tree]

(* The states a fork goes through, and what its record holds in them. *)
Shape(j) ==
  CASE j.phase = "none"      -> j = NoJob
    [] j.phase = "snapshots" -> j = [phase |-> "snapshots", src |-> j.src]
    [] j.phase = "revisions" -> j = [phase |-> "revisions", src |-> j.src, snaps |-> j.snaps]
    [] j.phase = "write"     ->
         j = [phase |-> "write", src |-> j.src, snaps |-> j.snaps, revs |-> j.revs,
              remap |-> j.remap, left |-> j.left, revsLeft |-> j.revsLeft]
    [] j.phase \in {"refs", "done"} ->
         j = [phase |-> j.phase, src |-> j.src, snaps |-> j.snaps, revs |-> j.revs,
              remap |-> j.remap, refsLeft |-> j.refsLeft]
    [] OTHER -> j.phase = "killed"

Filling(j) == j.phase \in {"snapshots", "revisions", "write", "refs"}

WellFormed(j, snaps, revs) ==
  /\ Shape(j)
  /\ "snaps" \in DOMAIN j => \A s \in j.snaps : IsSnapshot(s)
  /\ "revs" \in DOMAIN j => \A id \in DOMAIN j.revs : IsSnapshot(j.revs[id])
  /\ \A s \in snaps : IsSnapshot(s)
  /\ \A id \in DOMAIN revs : IsSnapshot(revs[id])

TypeOK ==
  /\ existing \subseteq Repos
  /\ snapshots = [r \in Repos |-> snapshots[r]]
  /\ revisions = [r \in Repos |-> revisions[r]]
  /\ refs = [r \in Repos |-> refs[r]]
  /\ job = [r \in Repos |-> job[r]]
  /\ nextId \in Nat \ {0}
  /\ ops \in Nat
  /\ \A r \in Repos :
       /\ WellFormed(job[r], snapshots[r], revisions[r])
       /\ Filling(job[r]) => r \in existing /\ job[r].src \in existing

(* The ids a fork drew, and the ids a repository owns through it or knows. *)
Drawn(j) == IF "remap" \in DOMAIN j THEN Range(j.remap) ELSE {}
Owned(revs, j) == DOMAIN revs \cup Drawn(j)
Owns(r) == Owned(revisions[r], job[r])

OwnerInv ==
  /\ \A r \in Repos : Owns(r) \subseteq 1..(nextId - 1)
  /\ \A r1, r2 \in Repos : r1 # r2 => Owns(r1) \cap Owns(r2) = {}

(* What a fork that has yet to write `left` and `revsLeft` has written. *)
Injective(f) == \A x, y \in DOMAIN f : f[x] = f[y] => x = y

Copied(j, left, revsLeft, snaps, revs) ==
  /\ left \subseteq j.snaps /\ revsLeft \subseteq DOMAIN j.remap
  /\ snaps = {Copy(j.remap, j.snaps, s) : s \in j.snaps \ left}
  /\ DOMAIN j.remap = DOMAIN j.revs /\ Injective(j.remap)
  /\ \A id \in DOMAIN j.remap \ revsLeft :
       j.remap[id] \in DOMAIN revs /\ revs[j.remap[id]] \in Stands(j, id)

Progress(j, snaps, revs, names) ==
  CASE j.phase \in {"none", "snapshots", "revisions"} ->
         snaps = {} /\ DOMAIN revs = {} /\ DOMAIN names = {}
    [] j.phase = "write" ->
         Copied(j, j.left, j.revsLeft, snaps, revs) /\ DOMAIN names = {}
    [] j.phase = "refs" -> Copied(j, {}, {}, snaps, revs)
    [] OTHER -> TRUE

ProgressInv ==
  \A r \in Repos :
    /\ job[r].phase # "none" \/ r \notin existing =>
         Progress(job[r], snapshots[r], revisions[r], refs[r])
    /\ r \notin existing => job[r] = NoJob

(* Ids come from repositories that are higher up in the line of sources. *)
Descends(rank) ==
  /\ rank \in [Repos -> Nat]
  /\ \A r \in Repos :
       /\ Filling(job[r]) => rank[job[r].src] < rank[r]
       /\ \A id \in Range(refs[r]) : \E q \in Repos : id \in Owns(q) /\ rank[q] <= rank[r]
       /\ job[r].phase = "refs" =>
            \A id \in Range(job[r].refsLeft) : \E q \in Repos : id \in Owns(q) /\ rank[q] < rank[r]

LineInv == \E rank \in [Repos -> Nat] : Descends(rank)

Rekeys(j, revs, names) ==
  "remap" \in DOMAIN j =>
    \A id \in Range(names) : id \in DOMAIN revs \/ id \notin DOMAIN j.remap \cup Range(j.remap)

RefsInv == \A r \in Repos : Rekeys(job[r], revisions[r], refs[r])

IInv == TypeOK /\ OwnerInv /\ ProgressInv /\ LineInv /\ RefsInv

-----------------------------------------------------------------------------
(* What Over, Restrict, fresh ids and copies of snapshots are. *)
LEMMA OverKeys ==
  ASSUME NEW f, NEW g
  PROVE  /\ DOMAIN Over(f, g) = DOMAIN f \cup DOMAIN g
         /\ \A k \in DOMAIN g : Over(f, g)[k] = g[k]
         /\ \A k \in DOMAIN f \ DOMAIN g : Over(f, g)[k] = f[k]
         /\ Range(Over(f, g)) \subseteq Range(f) \cup Range(g)
BY DEF Over, Range

LEMMA RestrictRange ==
  ASSUME NEW f, NEW S \in SUBSET DOMAIN f
  PROVE  DOMAIN Restrict(f, S) = S /\ Range(Restrict(f, S)) \subseteq Range(f)
BY DEF Restrict, Range

LEMMA FreshIdsAreFresh ==
  ASSUME NEW ids \in SUBSET Nat, IsFiniteSet(ids), nextId \in Nat
  PROVE  /\ Cardinality(ids) \in Nat
         /\ DOMAIN FreshIds(ids) = ids
         /\ Range(FreshIds(ids)) \subseteq nextId..(nextId + Cardinality(ids) - 1)
         /\ Injective(FreshIds(ids))
<1> DEFINE Below(id) == {i \in ids : i < id}
<1>1. Cardinality(ids) \in Nat
  BY FS_CardinalityType
<1>2. ASSUME NEW id \in ids
      PROVE  Cardinality(Below(id)) \in Nat /\ Cardinality(Below(id)) < Cardinality(ids)
  <2>1. Below(id) \subseteq ids /\ id \notin Below(id)
    BY <1>2
  <2>2. /\ IsFiniteSet(Below(id)) /\ Cardinality(Below(id)) <= Cardinality(ids)
        /\ Cardinality(Below(id)) # Cardinality(ids)
    BY <2>1, FS_Subset
  <2> QED BY <2>2, <1>1, FS_CardinalityType
<1>3. ASSUME NEW x \in ids, NEW y \in ids, x < y
      PROVE  Cardinality(Below(x)) < Cardinality(Below(y))
  <2>1. Below(x) \subseteq Below(y) /\ x \in Below(y) /\ x \notin Below(x)
    <3>1. \A i \in ids : i < x => i < y
      BY <1>3
    <3>2. Below(x) \subseteq Below(y)
      BY <3>1
    <3>3. x \in Below(y)
      BY <1>3
    <3>4. x \notin Below(x)
      OBVIOUS
    <3> QED BY <3>2, <3>3, <3>4
  <2>2. IsFiniteSet(Below(y))
    BY FS_Subset
  <2>3. /\ Cardinality(Below(x)) <= Cardinality(Below(y))
        /\ Cardinality(Below(x)) # Cardinality(Below(y))
    BY <2>1, <2>2, FS_Subset
  <2> QED BY <2>3, <1>2
<1>4. \A id \in ids : FreshIds(ids)[id] = nextId + Cardinality(Below(id))
  BY DEF FreshIds
<1> HIDE DEF Below
<1>5. DOMAIN FreshIds(ids) = ids
  BY DEF FreshIds
<1>6. Range(FreshIds(ids)) \subseteq nextId..(nextId + Cardinality(ids) - 1)
  <2>1. \A id \in ids : nextId + Cardinality(Below(id)) \in nextId..(nextId + Cardinality(ids) - 1)
    BY <1>1, <1>2
  <2> QED BY <2>1, <1>4, <1>5 DEF Range
<1>7. Injective(FreshIds(ids))
  <2> SUFFICES ASSUME NEW x \in ids, NEW y \in ids, FreshIds(ids)[x] = FreshIds(ids)[y], x # y
               PROVE  FALSE
    BY <1>5 DEF Injective
  <2>1. x < y \/ y < x
    OBVIOUS
  <2>2. Cardinality(Below(x)) = Cardinality(Below(y))
    BY <1>2, <1>4
  <2> QED BY <2>1, <2>2, <1>2, <1>3
<1> QED BY <1>1, <1>5, <1>6, <1>7

(* A copy is a snapshot of the same tree. *)
LEMMA CopiesAreSnapshots ==
  ASSUME NEW remap, NEW snaps, NEW s, IsSnapshot(s)
  PROVE  IsSnapshot(Copy(remap, snaps, s)) /\ Copy(remap, snaps, s).tree = s.tree
<1> DEFINE k == Rekeyed(remap, s)
           c(ps) == [k EXCEPT !.parents = ps]
<1>1. IsSnapshot(k) /\ k.tree = s.tree
  BY DEF Rekeyed, IsSnapshot
<1> HIDE DEF k
<1>2. \A ps : c(ps) = [rev |-> k.rev, parents |-> ps, tree |-> k.tree]
  BY <1>1 DEF IsSnapshot
<1>3. \A ps : IsSnapshot(c(ps)) /\ c(ps).tree = s.tree
  BY <1>1, <1>2 DEF IsSnapshot
<1>4. \E ps : Copy(remap, snaps, s) = c(ps)
  BY DEF Copy, k
<1> QED BY <1>3, <1>4

(* The copy of a root is the form its children know it in. *)
LEMMA RootsAreRekeyed ==
  ASSUME NEW remap, NEW snaps, NEW s, IsSnapshot(s), s.parents = <<>>
  PROVE  Copy(remap, snaps, s) = Rekeyed(remap, s)
<1> DEFINE none == [i \in DOMAIN s.parents |->
                      IF s.parents[i] \in snaps THEN Rekeyed(remap, s.parents[i]) ELSE s.parents[i]]
<1>1. none = <<>>
  OBVIOUS
<1>2. Rekeyed(remap, s).parents = <<>> /\ IsSnapshot(Rekeyed(remap, s))
  BY DEF Rekeyed, IsSnapshot
<1>3. [Rekeyed(remap, s) EXCEPT !.parents = <<>>] = Rekeyed(remap, s)
  BY <1>2 DEF IsSnapshot
<1> QED BY <1>1, <1>3 DEF Copy

-----------------------------------------------------------------------------
LEMMA Ranges ==
  ASSUME NEW a \in Nat \ {0}, NEW b \in Nat, a <= b
  PROVE  1..(a - 1) \subseteq 1..(b - 1) /\ a..(b - 1) \subseteq 1..(b - 1)
OBVIOUS

(* A step changes the rows and the fork of one repository at most. *)
Alone(r) ==
  /\ snapshots' = [snapshots EXCEPT ![r] = snapshots'[r]]
  /\ revisions' = [revisions EXCEPT ![r] = revisions'[r]]
  /\ refs' = [refs EXCEPT ![r] = refs'[r]]
  /\ job' = [job EXCEPT ![r] = job'[r]]

LEMMA OthersStay ==
  ASSUME TypeOK, NEW r \in Repos, Alone(r)
  PROVE  /\ \A q \in Repos \ {r} : /\ snapshots'[q] = snapshots[q]
                                   /\ revisions'[q] = revisions[q]
                                   /\ refs'[q] = refs[q]
                                   /\ job'[q] = job[q]
                                   /\ Owns(q)' = Owns(q)
         /\ snapshots' = [q \in Repos |-> snapshots'[q]]
         /\ revisions' = [q \in Repos |-> revisions'[q]]
         /\ refs' = [q \in Repos |-> refs'[q]]
         /\ job' = [q \in Repos |-> job'[q]]
<1>1. \A q \in Repos \ {r} : snapshots'[q] = snapshots[q] /\ revisions'[q] = revisions[q]
  BY DEF TypeOK, Alone
<1>2. \A q \in Repos \ {r} : refs'[q] = refs[q] /\ job'[q] = job[q]
  BY DEF TypeOK, Alone
<1>3. /\ snapshots' = [q \in Repos |-> snapshots'[q]]
      /\ revisions' = [q \in Repos |-> revisions'[q]]
  BY DEF TypeOK, Alone
<1>4. /\ refs' = [q \in Repos |-> refs'[q]]
      /\ job' = [q \in Repos |-> job'[q]]
  BY DEF TypeOK, Alone
<1> QED BY <1>1, <1>2, <1>3, <1>4 DEF Owns

(* So the parts of the invariant that look at one repository are settled there. *)
LEMMA Locally ==
  ASSUME IInv, NEW r \in Repos, Alone(r),
         existing' \in {existing, existing \cup {r}}, r \in existing',
         nextId' \in Nat, nextId <= nextId', ops' \in Nat,
         WellFormed(job'[r], snapshots'[r], revisions'[r]),
         Filling(job'[r]) => job'[r].src \in existing',
         Owns(r)' \subseteq Owns(r) \cup nextId..(nextId' - 1),
         job'[r].phase # "none" => Progress(job'[r], snapshots'[r], revisions'[r], refs'[r]),
         Rekeys(job'[r], revisions'[r], refs'[r])
  PROVE  TypeOK' /\ OwnerInv' /\ ProgressInv' /\ RefsInv'
<1>1. TypeOK /\ OwnerInv /\ ProgressInv /\ RefsInv
  BY DEF IInv
<1>2. \A q \in Repos \ {r} : /\ snapshots'[q] = snapshots[q]
                             /\ revisions'[q] = revisions[q]
                             /\ refs'[q] = refs[q]
                             /\ job'[q] = job[q]
                             /\ Owns(q)' = Owns(q)
  BY <1>1, OthersStay
<1>3. TypeOK'
  <2>1. ASSUME NEW q \in Repos \ {r}
        PROVE  /\ WellFormed(job'[q], snapshots'[q], revisions'[q])
               /\ Filling(job'[q]) => q \in existing' /\ job'[q].src \in existing'
    BY <1>1, <1>2 DEF TypeOK
  <2>2. existing' \subseteq Repos /\ nextId' \in Nat \ {0}
    BY <1>1 DEF TypeOK
  <2> QED BY <2>1, <2>2, <1>1, OthersStay DEF TypeOK
<1>4. OwnerInv'
  <2>1. nextId \in Nat \ {0}
    BY <1>1 DEF TypeOK
  <2>2. ASSUME NEW q \in Repos PROVE Owns(q)' \subseteq 1..(nextId' - 1)
    <3>1. Owns(q) \subseteq 1..(nextId - 1)
      BY <1>1 DEF OwnerInv
    <3>2. 1..(nextId - 1) \subseteq 1..(nextId' - 1) /\ nextId..(nextId' - 1) \subseteq 1..(nextId' - 1)
      BY <2>1, Ranges
    <3>3. Owns(q)' \subseteq Owns(q) \cup nextId..(nextId' - 1)
      BY <1>2
    <3> QED BY <3>1, <3>2, <3>3
  <2>3. ASSUME NEW q1 \in Repos, NEW q2 \in Repos, q1 # q2 PROVE Owns(q1)' \cap Owns(q2)' = {}
    <3>1. \A q \in Repos : Owns(q) \cap nextId..(nextId' - 1) = {}
      BY <1>1, <2>1 DEF OwnerInv
    <3>2. Owns(q1) \cap Owns(q2) = {}
      BY <1>1, <2>3 DEF OwnerInv
    <3>3. CASE q1 = r
      BY <2>3, <3>1, <3>2, <3>3, <1>2
    <3>4. CASE q2 = r
      BY <2>3, <3>1, <3>2, <3>4, <1>2
    <3>5. CASE q1 # r /\ q2 # r
      BY <3>2, <3>5, <1>2
    <3> QED BY <3>3, <3>4, <3>5
  <2> QED BY <2>2, <2>3 DEF OwnerInv
<1>5. ProgressInv'
  BY <1>1, <1>2 DEF ProgressInv
<1>6. RefsInv'
  BY <1>1, <1>2 DEF RefsInv
<1> QED BY <1>3, <1>4, <1>5, <1>6

(* Nothing comes into the line of sources but from above, or from r itself. *)
LEMMA LineStays ==
  ASSUME IInv, NEW r \in Repos, Alone(r),
         Owns(r) \subseteq Owns(r)',
         Filling(job'[r]) => Filling(job[r]) /\ job'[r].src = job[r].src,
         \A id \in Range(refs'[r]) :
           \/ id \in Range(refs[r]) \cup Owns(r)'
           \/ job[r].phase = "refs" /\ id \in Range(job[r].refsLeft),
         job'[r].phase = "refs" =>
           \A id \in Range(job'[r].refsLeft) :
             \/ job[r].phase = "refs" /\ id \in Range(job[r].refsLeft)
             \/ Filling(job[r]) /\ id \in Range(refs[job[r].src])
  PROVE  LineInv'
<1>1. TypeOK
  BY DEF IInv
<1>2. \A q \in Repos \ {r} : refs'[q] = refs[q] /\ job'[q] = job[q] /\ Owns(q)' = Owns(q)
  BY <1>1, OthersStay
<1>3. \A q \in Repos : Owns(q) \subseteq Owns(q)'
  BY <1>2
<1>4. PICK rank \in [Repos -> Nat] : Descends(rank)
  BY DEF IInv, LineInv
<1>5. ASSUME NEW q \in Repos, Filling(job'[q]) PROVE rank[job'[q].src] < rank[q]
  BY <1>2, <1>4, <1>5 DEF Descends
<1>6. ASSUME NEW q \in Repos, NEW id \in Range(refs'[q])
      PROVE  \E o \in Repos : id \in Owns(o)' /\ rank[o] <= rank[q]
  <2>1. CASE id \in Range(refs[q])
    BY <2>1, <1>3, <1>4 DEF Descends
  <2>2. CASE q = r /\ id \in Owns(r)'
    BY <2>2, <1>4
  <2>3. CASE q = r /\ job[r].phase = "refs" /\ id \in Range(job[r].refsLeft)
    <3>1. PICK o \in Repos : id \in Owns(o) /\ rank[o] < rank[r]
      BY <2>3, <1>4 DEF Descends
    <3> QED BY <3>1, <2>3, <1>3, <1>4
  <2> QED BY <2>1, <2>2, <2>3, <1>2, <1>6
<1>7. ASSUME NEW q \in Repos, job'[q].phase = "refs", NEW id \in Range(job'[q].refsLeft)
      PROVE  \E o \in Repos : id \in Owns(o)' /\ rank[o] < rank[q]
  <2>1. CASE job[q].phase = "refs" /\ id \in Range(job[q].refsLeft)
    BY <2>1, <1>3, <1>4 DEF Descends
  <2>2. CASE q = r /\ Filling(job[r]) /\ id \in Range(refs[job[r].src])
    <3>1. job[r].src \in Repos
      BY <2>2, <1>1 DEF TypeOK
    <3>2. PICK o \in Repos : id \in Owns(o) /\ rank[o] <= rank[job[r].src]
      BY <2>2, <3>1, <1>4 DEF Descends
    <3>3. rank[job[r].src] < rank[r]
      BY <2>2, <1>4 DEF Descends
    <3> QED BY <3>1, <3>2, <3>3, <2>2, <1>3, <1>4
  <2> QED BY <2>1, <2>2, <1>2, <1>7
<1>8. Descends(rank)'
  BY <1>4, <1>5, <1>6, <1>7 DEF Descends
<1> QED BY <1>8 DEF LineInv

-----------------------------------------------------------------------------
(* A row is written: what r knows, names and owns afterwards. *)
LEMMA StoreKeeps ==
  ASSUME TypeOK, NEW r \in Repos, NEW s, IsSnapshot(s), Store(r, s)
  PROVE  /\ snapshots' = [snapshots EXCEPT ![r] = snapshots'[r]]
         /\ revisions' = [revisions EXCEPT ![r] = revisions'[r]]
         /\ Known(r)' = Known(r) \cup {s.rev}
         /\ \A x \in snapshots'[r] : IsSnapshot(x)
         /\ \A id \in Known(r)' : IsSnapshot(revisions'[r][id])
<1> DEFINE new == [id \in {s.rev} |-> s]
<1>1. snapshots'[r] = snapshots[r] \cup {s} /\ revisions'[r] = Over(revisions[r], new)
  BY DEF TypeOK, Store
<1>5. DOMAIN new = {s.rev} /\ new[s.rev] = s
  OBVIOUS
<1> HIDE DEF new
<1>2. /\ DOMAIN Over(revisions[r], new) = Known(r) \cup {s.rev}
      /\ Over(revisions[r], new)[s.rev] = s
      /\ \A k \in Known(r) \ {s.rev} : Over(revisions[r], new)[k] = revisions[r][k]
  <2>1. /\ DOMAIN Over(revisions[r], new) = DOMAIN revisions[r] \cup DOMAIN new
        /\ \A k \in DOMAIN new : Over(revisions[r], new)[k] = new[k]
        /\ \A k \in DOMAIN revisions[r] \ DOMAIN new : Over(revisions[r], new)[k] = revisions[r][k]
    BY OverKeys
  <2> QED BY <1>5, <2>1 DEF Known
<1>3. /\ snapshots' = [snapshots EXCEPT ![r] = snapshots'[r]]
      /\ revisions' = [revisions EXCEPT ![r] = revisions'[r]]
  BY <1>1 DEF Store, new
<1>4. /\ \A x \in snapshots[r] : IsSnapshot(x)
      /\ \A id \in Known(r) : IsSnapshot(revisions[r][id])
  BY DEF TypeOK, WellFormed, Known
<1> QED BY <1>1, <1>2, <1>3, <1>4 DEF Known

LEMMA SnapshotIs ==
  ASSUME NEW id, NEW parents, NEW tree
  PROVE  IsSnapshot(Snapshot(id, parents, tree)) /\ Snapshot(id, parents, tree).rev = id
BY DEF IsSnapshot, Snapshot

(* Commits draw a fresh id, amends none; references name what there is. *)
LEMMA WorkDoes ==
  ASSUME IInv, NEW r \in Repos, Work(r)
  PROVE  /\ Alone(r) /\ r \in existing /\ existing' = existing
         /\ job' = job /\ job[r].phase \in {"none", "done"}
         /\ nextId' \in Nat /\ nextId <= nextId' /\ ops' \in Nat
         /\ Known(r) \subseteq Known(r)'
         /\ Known(r)' \subseteq Known(r) \cup nextId..(nextId' - 1)
         /\ Range(refs'[r]) \subseteq Range(refs[r]) \cup Known(r)
         /\ \A x \in snapshots'[r] : IsSnapshot(x)
         /\ \A id \in Known(r)' : IsSnapshot(revisions'[r][id])
<1>1. TypeOK
  BY DEF IInv
<1>2. /\ job = [job EXCEPT ![r] = job[r]] /\ refs = [refs EXCEPT ![r] = refs[r]]
      /\ snapshots = [snapshots EXCEPT ![r] = snapshots[r]]
      /\ revisions = [revisions EXCEPT ![r] = revisions[r]]
  BY <1>1 DEF TypeOK
<1>3. /\ nextId \in Nat /\ ops \in Nat
      /\ \A x \in snapshots[r] : IsSnapshot(x)
      /\ \A id \in Known(r) : IsSnapshot(revisions[r][id])
  BY <1>1 DEF TypeOK, WellFormed, Known
<1>4. ASSUME NEW parents, NEW tree, Commit(r, parents, tree)
      PROVE  /\ Alone(r) /\ Works(r) /\ existing' = existing /\ job' = job
             /\ nextId' = nextId + 1 /\ refs' = refs
             /\ Known(r)' = Known(r) \cup {nextId}
             /\ \A x \in snapshots'[r] : IsSnapshot(x)
             /\ \A id \in Known(r)' : IsSnapshot(revisions'[r][id])
  <2> DEFINE s == Snapshot(nextId, parents, tree)
  <2>1. IsSnapshot(s) /\ s.rev = nextId /\ Store(r, s)
    BY <1>4, SnapshotIs DEF Commit
  <2> HIDE DEF s
  <2> QED BY <1>1, <1>2, <1>4, <2>1, StoreKeeps DEF Commit, Alone
<1>5. ASSUME NEW id \in Known(r), NEW tree, Amend(r, id, tree)
      PROVE  /\ Alone(r) /\ Works(r) /\ existing' = existing /\ job' = job
             /\ nextId' = nextId /\ refs' = refs
             /\ Known(r)' = Known(r)
             /\ \A x \in snapshots'[r] : IsSnapshot(x)
             /\ \A k \in Known(r)' : IsSnapshot(revisions'[r][k])
  <2> DEFINE s == Snapshot(id, revisions[r][id].parents, tree)
  <2>1. IsSnapshot(s) /\ s.rev = id /\ Store(r, s)
    BY <1>5, SnapshotIs DEF Amend
  <2> HIDE DEF s
  <2>2. Known(r)' = Known(r) \cup {id}
    BY <1>1, <2>1, StoreKeeps
  <2> QED BY <1>1, <1>2, <1>5, <2>1, <2>2, StoreKeeps DEF Amend, Alone
<1>6. ASSUME NEW n, NEW id \in Known(r), SetRef(r, n, id)
      PROVE  /\ Alone(r) /\ Works(r) /\ existing' = existing /\ job' = job
             /\ nextId' = nextId
             /\ snapshots' = snapshots /\ revisions' = revisions
             /\ Range(refs'[r]) \subseteq Range(refs[r]) \cup Known(r)
  <2> DEFINE new == [m \in {n} |-> id]
  <2>1. refs'[r] = Over(refs[r], new) /\ refs' = [refs EXCEPT ![r] = refs'[r]]
    BY <1>1, <1>6 DEF TypeOK, SetRef
  <2>2. Range(new) = {id}
    BY DEF Range
  <2>3. Range(Over(refs[r], new)) \subseteq Range(refs[r]) \cup Range(new)
    BY OverKeys
  <2> QED BY <1>2, <1>6, <2>1, <2>2, <2>3 DEF SetRef, Alone
<1>7. CASE \E tree \in Trees : Commit(r, <<>>, tree)
  BY <1>3, <1>4, <1>7 DEF Works, Known
<1>8. CASE \E id \in Known(r), tree \in Trees : Commit(r, <<revisions[r][id]>>, tree)
  BY <1>3, <1>4, <1>8 DEF Works, Known
<1>9. CASE \E id \in Known(r), tree \in Trees : Amend(r, id, tree)
  BY <1>3, <1>5, <1>9 DEF Works, Known
<1>10. CASE \E n \in Names, id \in Known(r) : SetRef(r, n, id)
  BY <1>3, <1>6, <1>10 DEF Works, Known
<1> QED BY <1>7, <1>8, <1>9, <1>10 DEF Work

LEMMA WorkInv ==
  ASSUME IInv, NEW r \in Repos, Work(r)
  PROVE  IInv'
<1>1. TypeOK /\ RefsInv
  BY DEF IInv
<1>2. WellFormed(job'[r], snapshots'[r], revisions'[r])
  BY <1>1, WorkDoes DEF TypeOK, WellFormed, Known
<1>3. ~Filling(job'[r]) /\ job'[r].phase # "refs"
  BY WorkDoes DEF Filling
<1>4. Owns(r) \subseteq Owns(r)' /\ Owns(r)' \subseteq Owns(r) \cup nextId..(nextId' - 1)
  BY WorkDoes DEF Owns, Owned, Known
<1>5. job'[r].phase # "none" => Progress(job'[r], snapshots'[r], revisions'[r], refs'[r])
  BY WorkDoes DEF Progress
<1>6. Rekeys(job'[r], revisions'[r], refs'[r])
  BY <1>1, WorkDoes DEF RefsInv, Rekeys, Known
<1>7. TypeOK' /\ OwnerInv' /\ ProgressInv' /\ RefsInv'
  BY <1>2, <1>3, <1>4, <1>5, <1>6, WorkDoes, Locally
<1>8. \A id \in Range(refs'[r]) : id \in Range(refs[r]) \cup Owns(r)'
  BY WorkDoes DEF Owns, Owned, Known
<1>9. LineInv'
  BY <1>3, <1>4, <1>8, WorkDoes, LineStays
<1> QED BY <1>7, <1>9 DEF IInv

-----------------------------------------------------------------------------
(* A step of a fork that writes no row. *)
LEMMA JobKeeps ==
  ASSUME TypeOK, NEW r \in Repos, NEW j, job' = [job EXCEPT ![r] = j], UNCHANGED rows
  PROVE  /\ Alone(r) /\ job'[r] = j
         /\ snapshots'[r] = snapshots[r] /\ revisions'[r] = revisions[r] /\ refs'[r] = refs[r]
         /\ Known(r)' = Known(r)
BY DEF TypeOK, Alone, rows, Known

LEMMA ForkCreateInv ==
  ASSUME IInv, NEW src \in Repos, NEW dst \in Repos, ForkCreate(src, dst)
  PROVE  IInv'
<1> DEFINE j == [phase |-> "snapshots", src |-> src]
<1>1. TypeOK /\ ProgressInv /\ nextId \in Nat /\ ops \in Nat
  BY DEF IInv, TypeOK
<1>2. /\ src \in existing /\ dst \notin existing /\ existing' = existing \cup {dst}
      /\ job' = [job EXCEPT ![dst] = j] /\ UNCHANGED rows /\ nextId' = nextId /\ ops' = ops
  BY DEF ForkCreate
<1>3. /\ job[dst] = NoJob /\ snapshots[dst] = {} /\ DOMAIN revisions[dst] = {}
      /\ DOMAIN refs[dst] = {}
  BY <1>1, <1>2 DEF ProgressInv, Progress, NoJob
<1>4. /\ j.phase = "snapshots" /\ j.src = src
      /\ "remap" \notin DOMAIN j /\ "snaps" \notin DOMAIN j /\ "revs" \notin DOMAIN j
      /\ Shape(j)
  BY DEF Shape
<1> HIDE DEF j
<1>5. /\ Alone(dst) /\ job'[dst] = j
      /\ snapshots'[dst] = snapshots[dst] /\ revisions'[dst] = revisions[dst]
      /\ refs'[dst] = refs[dst] /\ Known(dst)' = Known(dst)
  BY <1>1, <1>2, JobKeeps
<1>6. Known(dst)' = {} /\ Owns(dst)' = {} /\ Owns(dst) = {}
  BY <1>3, <1>4, <1>5 DEF Owns, Owned, Drawn, Known, NoJob
<1>7. WellFormed(job'[dst], snapshots'[dst], revisions'[dst])
  BY <1>3, <1>4, <1>5 DEF WellFormed
<1>8. Progress(job'[dst], snapshots'[dst], revisions'[dst], refs'[dst])
  BY <1>3, <1>4, <1>5 DEF Progress
<1>9. Rekeys(job'[dst], revisions'[dst], refs'[dst])
  BY <1>4, <1>5 DEF Rekeys
<1>10. TypeOK' /\ OwnerInv' /\ ProgressInv' /\ RefsInv'
  BY <1>1, <1>2, <1>4, <1>5, <1>6, <1>7, <1>8, <1>9, Locally
<1>11. LineInv'
  <2>1. PICK rank \in [Repos -> Nat] : Descends(rank)
    BY DEF IInv, LineInv
  <2> DEFINE below == [rank EXCEPT ![dst] = rank[src] + 1]
  <2>2. /\ below \in [Repos -> Nat] /\ below[dst] = rank[src] + 1
        /\ \A q \in Repos \ {dst} : below[q] = rank[q]
    BY <2>1
  <2> HIDE DEF below
  <2>3. \A q \in Repos \ {dst} : refs'[q] = refs[q] /\ job'[q] = job[q] /\ Owns(q)' = Owns(q)
    BY <1>1, <1>5, OthersStay
  <2>4. ASSUME NEW q \in Repos, Filling(job'[q]) PROVE below[job'[q].src] < below[q]
    <3>1. CASE q = dst
      BY <3>1, <1>2, <1>4, <1>5, <2>1, <2>2
    <3>2. CASE q # dst
      <4>1. job[q].src \in existing /\ Filling(job[q]) /\ existing \subseteq Repos
        BY <3>2, <2>3, <2>4, <1>1 DEF TypeOK
      <4> QED BY <4>1, <3>2, <1>2, <2>1, <2>2, <2>3 DEF Descends
    <3> QED BY <3>1, <3>2
  <2>5. ASSUME NEW q \in Repos, NEW id \in Range(refs'[q])
        PROVE  \E o \in Repos : id \in Owns(o)' /\ below[o] <= below[q]
    <3>1. q # dst
      BY <2>5, <1>3, <1>5 DEF Range
    <3>2. PICK o \in Repos : id \in Owns(o) /\ rank[o] <= rank[q]
      BY <3>1, <2>1, <2>3, <2>5 DEF Descends
    <3>3. o # dst
      BY <3>2, <1>6
    <3> QED BY <3>1, <3>2, <3>3, <2>2, <2>3
  <2>6. ASSUME NEW q \in Repos, job'[q].phase = "refs", NEW id \in Range(job'[q].refsLeft)
        PROVE  \E o \in Repos : id \in Owns(o)' /\ below[o] < below[q]
    <3>1. q # dst
      BY <2>6, <1>4, <1>5
    <3>2. PICK o \in Repos : id \in Owns(o) /\ rank[o] < rank[q]
      BY <3>1, <2>1, <2>3, <2>6 DEF Descends
    <3>3. o # dst
      BY <3>2, <1>6
    <3> QED BY <3>1, <3>2, <3>3, <2>2, <2>3
  <2>7. Descends(below)'
    BY <2>2, <2>4, <2>5, <2>6 DEF Descends
  <2> QED BY <2>2, <2>7 DEF LineInv
<1> QED BY <1>10, <1>11 DEF IInv

(* What is left to show of a step of a fork that goes on. *)
LEMMA ForkGoesOn ==
  ASSUME IInv, NEW r \in Repos, Filling(job[r]), Alone(r),
         existing' = existing, ops' = ops, nextId' \in Nat, nextId <= nextId',
         job'[r].src = job[r].src,
         WellFormed(job'[r], snapshots'[r], revisions'[r]),
         Owns(r)' \subseteq Owns(r) \cup nextId..(nextId' - 1),
         Progress(job'[r], snapshots'[r], revisions'[r], refs'[r]),
         Rekeys(job'[r], revisions'[r], refs'[r])
  PROVE  TypeOK' /\ OwnerInv' /\ ProgressInv' /\ RefsInv'
<1>1. r \in existing /\ job[r].src \in existing /\ ops \in Nat
  BY DEF IInv, TypeOK
<1> QED BY <1>1, Locally

LEMMA ForkReadSnapshotsInv ==
  ASSUME IInv, NEW dst \in Repos, ForkReadSnapshots(dst)
  PROVE  IInv'
<1> DEFINE src == job[dst].src
           j == [phase |-> "revisions", src |-> src, snaps |-> snapshots[src]]
<1>1. TypeOK /\ ProgressInv /\ nextId \in Nat /\ ops \in Nat
  BY DEF IInv, TypeOK
<1>2. /\ job[dst].phase = "snapshots" /\ job' = [job EXCEPT ![dst] = j]
      /\ existing' = existing /\ UNCHANGED rows /\ nextId' = nextId /\ ops' = ops
  BY DEF ForkReadSnapshots
<1>3. /\ snapshots[dst] = {} /\ DOMAIN revisions[dst] = {} /\ DOMAIN refs[dst] = {}
      /\ "remap" \notin DOMAIN job[dst]
      /\ Filling(job[dst]) /\ dst \in existing /\ src \in existing /\ existing \subseteq Repos
  BY <1>1, <1>2 DEF ProgressInv, Progress, TypeOK, WellFormed, Shape, Filling
<1>4. \A s \in snapshots[src] : IsSnapshot(s)
  BY <1>1, <1>3 DEF TypeOK, WellFormed
<1>5. /\ j.phase = "revisions" /\ j.src = src /\ j.snaps = snapshots[src]
      /\ "remap" \notin DOMAIN j /\ "revs" \notin DOMAIN j
      /\ Shape(j)
  BY DEF Shape
<1> HIDE DEF j, src
<1>6. /\ Alone(dst) /\ job'[dst] = j
      /\ snapshots'[dst] = snapshots[dst] /\ revisions'[dst] = revisions[dst]
      /\ refs'[dst] = refs[dst] /\ Known(dst)' = Known(dst)
  BY <1>1, <1>2, JobKeeps
<1>7. Owns(dst)' = Owns(dst)
  BY <1>3, <1>5, <1>6 DEF Owns, Owned, Drawn, Known
<1>8. WellFormed(job'[dst], snapshots'[dst], revisions'[dst])
  BY <1>3, <1>4, <1>5, <1>6 DEF WellFormed
<1>9. Progress(job'[dst], snapshots'[dst], revisions'[dst], refs'[dst])
  BY <1>3, <1>5, <1>6 DEF Progress
<1>10. Rekeys(job'[dst], revisions'[dst], refs'[dst])
  BY <1>5, <1>6 DEF Rekeys
<1>13. /\ nextId' \in Nat /\ nextId <= nextId'
       /\ Owns(dst)' \subseteq Owns(dst) \cup nextId..(nextId' - 1)
  BY <1>1, <1>2, <1>7
<1>11. TypeOK' /\ OwnerInv' /\ ProgressInv' /\ RefsInv'
  BY <1>2, <1>3, <1>5, <1>6, <1>8, <1>9, <1>10, <1>13, ForkGoesOn DEF src
<1>12. LineInv'
  BY <1>3, <1>5, <1>6, <1>7, LineStays DEF src
<1> QED BY <1>11, <1>12 DEF IInv

LEMMA ForkReadRevisionsInv ==
  ASSUME IInv, NEW dst \in Repos, ForkReadRevisions(dst)
  PROVE  IInv'
<1> DEFINE src == job[dst].src
           ids == Known(src)
           snaps == job[dst].snaps
           remap == FreshIds(ids)
           j == [phase |-> "write", src |-> src, snaps |-> snaps, revs |-> revisions[src],
                 remap |-> remap, left |-> snaps, revsLeft |-> ids]
<1>1. TypeOK /\ ProgressInv /\ OwnerInv /\ nextId \in Nat \ {0} /\ ops \in Nat
  BY DEF IInv, TypeOK
<1>2. /\ job[dst].phase = "revisions" /\ job' = [job EXCEPT ![dst] = j]
      /\ existing' = existing /\ UNCHANGED rows /\ nextId' = nextId + Cardinality(ids) /\ ops' = ops
  BY DEF ForkReadRevisions
<1>3. /\ snapshots[dst] = {} /\ DOMAIN revisions[dst] = {} /\ DOMAIN refs[dst] = {}
      /\ Filling(job[dst]) /\ src \in Repos
      /\ "snaps" \in DOMAIN job[dst] /\ \A s \in snaps : IsSnapshot(s)
  BY <1>1, <1>2 DEF ProgressInv, Progress, TypeOK, WellFormed, Shape, Filling
<1>4. \A id \in ids : IsSnapshot(revisions[src][id])
  BY <1>1, <1>3 DEF TypeOK, WellFormed, Known
<1>5. ids \subseteq 1..(nextId - 1) /\ IsFiniteSet(ids) /\ ids \subseteq Nat
  <2>1. ids \subseteq 1..(nextId - 1)
    BY <1>1, <1>3 DEF OwnerInv, Owns, Owned, Known
  <2>2. IsFiniteSet(1..(nextId - 1))
    BY <1>1, FS_Interval
  <2>3. IsFiniteSet(ids)
    BY <2>1, <2>2, FS_Subset
  <2> QED BY <2>1, <2>3
<1>6. /\ Cardinality(ids) \in Nat
      /\ DOMAIN remap = ids
      /\ Range(remap) \subseteq nextId..(nextId + Cardinality(ids) - 1)
      /\ Injective(remap)
  BY <1>1, <1>5, FreshIdsAreFresh
<1>7. ids = DOMAIN revisions[src]
  BY DEF Known
<1> HIDE DEF remap, ids
<1>8. /\ j.phase = "write" /\ j.src = src /\ j.snaps = snaps /\ j.revs = revisions[src]
      /\ j.remap = remap /\ j.left = snaps /\ j.revsLeft = ids
      /\ DOMAIN j = {"phase", "src", "snaps", "revs", "remap", "left", "revsLeft"}
      /\ Shape(j)
  BY DEF Shape
<1> HIDE DEF j, src, snaps
<1>9. /\ Alone(dst) /\ job'[dst] = j
      /\ snapshots'[dst] = snapshots[dst] /\ revisions'[dst] = revisions[dst]
      /\ refs'[dst] = refs[dst] /\ Known(dst)' = Known(dst)
  BY <1>1, <1>2, JobKeeps
<1>10. Owns(dst)' = Range(remap) /\ Owns(dst) \subseteq Owns(dst)'
  <2>1. Known(dst)' = {} /\ Known(dst) = {}
    BY <1>3, <1>9 DEF Known
  <2>2. "remap" \notin DOMAIN job[dst]
    BY <1>1, <1>2 DEF TypeOK, WellFormed, Shape
  <2>3. Drawn(job'[dst]) = Range(remap) /\ Drawn(job[dst]) = {}
    BY <2>2, <1>8, <1>9 DEF Drawn
  <2> QED BY <2>1, <2>3 DEF Owns, Owned, Known
<1>11. WellFormed(job'[dst], snapshots'[dst], revisions'[dst])
  BY <1>3, <1>4, <1>7, <1>8, <1>9 DEF WellFormed
<1>12. Progress(job'[dst], snapshots'[dst], revisions'[dst], refs'[dst])
  BY <1>3, <1>6, <1>7, <1>8, <1>9 DEF Progress, Copied
<1>13. Rekeys(job'[dst], revisions'[dst], refs'[dst])
  BY <1>3, <1>9 DEF Rekeys, Range
<1>14. nextId' \in Nat /\ nextId <= nextId' /\ Owns(dst)' \subseteq nextId..(nextId' - 1)
  BY <1>1, <1>2, <1>6, <1>10
<1>15. TypeOK' /\ OwnerInv' /\ ProgressInv' /\ RefsInv'
  BY <1>2, <1>3, <1>8, <1>9, <1>11, <1>12, <1>13, <1>14, ForkGoesOn DEF src
<1>16. LineInv'
  BY <1>3, <1>8, <1>9, <1>10, LineStays DEF src
<1> QED BY <1>15, <1>16 DEF IInv

LEMMA ForkPutSnapshotInv ==
  ASSUME IInv, NEW dst \in Repos, ForkPutSnapshot(dst)
  PROVE  IInv'
<1> DEFINE j == job[dst]
<1>1. TypeOK /\ ProgressInv /\ RefsInv /\ nextId \in Nat \ {0} /\ ops \in Nat
  BY DEF IInv, TypeOK
<1>2. PICK s \in j.left :
        /\ j.phase = "write"
        /\ snapshots' = [snapshots EXCEPT ![dst] = @ \cup {Copy(j.remap, j.snaps, s)}]
        /\ job' = [job EXCEPT ![dst].left = @ \ {s}]
        /\ UNCHANGED <<existing, revisions, refs, nextId, ops>>
  BY DEF ForkPutSnapshot
<1>3. /\ Shape(j) /\ j = [phase |-> "write", src |-> j.src, snaps |-> j.snaps, revs |-> j.revs,
                        remap |-> j.remap, left |-> j.left, revsLeft |-> j.revsLeft]
      /\ Filling(j)
      /\ \A x \in j.snaps : IsSnapshot(x)
      /\ \A id \in DOMAIN j.revs : IsSnapshot(j.revs[id])
  BY <1>1, <1>2 DEF TypeOK, WellFormed, Shape, Filling
<1>4. Copied(j, j.left, j.revsLeft, snapshots[dst], revisions[dst]) /\ DOMAIN refs[dst] = {}
  BY <1>1, <1>2 DEF ProgressInv, Progress
<1> DEFINE k == [phase |-> "write", src |-> j.src, snaps |-> j.snaps, revs |-> j.revs,
                 remap |-> j.remap, left |-> j.left \ {s}, revsLeft |-> j.revsLeft]
<1>5. job' = [job EXCEPT ![dst] = k] /\ job'[dst] = k
  <2>1. [j EXCEPT !.left = j.left \ {s}] = k
    BY <1>3
  <2>2. job' = [job EXCEPT ![dst] = [j EXCEPT !.left = j.left \ {s}]]
    BY <1>2
  <2> QED BY <2>1, <2>2, <1>1 DEF TypeOK
<1>6. /\ k.phase = "write" /\ k.src = j.src /\ k.snaps = j.snaps /\ k.revs = j.revs
      /\ k.remap = j.remap /\ k.left = j.left \ {s} /\ k.revsLeft = j.revsLeft
      /\ DOMAIN k = DOMAIN j
      /\ Shape(k)
  BY <1>3 DEF Shape
<1> HIDE DEF k, j
<1>7. /\ snapshots'[dst] = snapshots[dst] \cup {Copy(j.remap, j.snaps, s)}
      /\ revisions'[dst] = revisions[dst] /\ refs'[dst] = refs[dst] /\ Known(dst)' = Known(dst)
  BY <1>1, <1>2 DEF TypeOK, Known
<1>8. Alone(dst)
  BY <1>1, <1>2, <1>5, <1>7 DEF TypeOK, Alone
<1>9. Owns(dst)' = Owns(dst)
  BY <1>5, <1>6, <1>7 DEF Owns, Owned, Drawn, j
<1>10. WellFormed(job'[dst], snapshots'[dst], revisions'[dst])
  <2>1. s \in j.snaps
    BY <1>2, <1>4 DEF Copied
  <2>2. IsSnapshot(Copy(j.remap, j.snaps, s))
    BY <1>3, <2>1, CopiesAreSnapshots
  <2>3. WellFormed(j, snapshots[dst], revisions[dst])
    BY <1>1 DEF TypeOK, j
  <2> QED BY <2>2, <2>3, <1>5, <1>6, <1>7 DEF WellFormed
<1>11. Progress(job'[dst], snapshots'[dst], revisions'[dst], refs'[dst])
  <2>1. Copied(k, k.left, k.revsLeft, snapshots'[dst], revisions[dst])
    <3>1. s \in j.snaps /\ s \in j.left
      BY <1>2, <1>4 DEF Copied
    <3>2. snapshots'[dst] = {Copy(k.remap, k.snaps, x) : x \in k.snaps \ k.left}
      BY <1>4, <1>6, <1>7, <3>1 DEF Copied
    <3>3. \A id : Stands(k, id) = Stands(j, id)
      BY <1>6 DEF Stands
    <3> QED BY <1>4, <1>6, <3>2, <3>3 DEF Copied
  <2> QED BY <2>1, <1>4, <1>5, <1>6, <1>7 DEF Progress
<1>12. Rekeys(job'[dst], revisions'[dst], refs'[dst])
  BY <1>4, <1>7 DEF Rekeys, Range
<1>15. /\ nextId' \in Nat /\ nextId <= nextId'
       /\ Owns(dst)' \subseteq Owns(dst) \cup nextId..(nextId' - 1)
  BY <1>1, <1>2, <1>9
<1>13. TypeOK' /\ OwnerInv' /\ ProgressInv' /\ RefsInv'
  BY <1>2, <1>3, <1>5, <1>6, <1>8, <1>10, <1>11, <1>12, <1>15, ForkGoesOn DEF j
<1>14. LineInv'
  BY <1>3, <1>5, <1>6, <1>7, <1>8, <1>9, LineStays DEF j
<1> QED BY <1>13, <1>14 DEF IInv

LEMMA ForkPutRevisionInv ==
  ASSUME IInv, NEW dst \in Repos, ForkPutRevision(dst)
  PROVE  IInv'
<1> DEFINE j == job[dst]
<1>1. TypeOK /\ ProgressInv /\ nextId \in Nat \ {0} /\ ops \in Nat
  BY DEF IInv, TypeOK
<1>2. PICK id \in j.revsLeft : \E s \in Stands(j, id) :
        /\ j.phase = "write" /\ j.left = {}
        /\ revisions' = [revisions EXCEPT ![dst] = Over(@, [n \in {j.remap[id]} |-> s])]
        /\ job' = [job EXCEPT ![dst].revsLeft = @ \ {id}]
        /\ UNCHANGED <<existing, snapshots, refs, nextId, ops>>
  BY DEF ForkPutRevision
<1>3. PICK s \in Stands(j, id) :
        /\ j.phase = "write" /\ j.left = {}
        /\ revisions' = [revisions EXCEPT ![dst] = Over(@, [n \in {j.remap[id]} |-> s])]
        /\ job' = [job EXCEPT ![dst].revsLeft = @ \ {id}]
        /\ UNCHANGED <<existing, snapshots, refs, nextId, ops>>
  BY <1>2
<1>4. /\ Shape(j) /\ j = [phase |-> "write", src |-> j.src, snaps |-> j.snaps, revs |-> j.revs,
                        remap |-> j.remap, left |-> j.left, revsLeft |-> j.revsLeft]
      /\ Filling(j)
      /\ \A x \in j.snaps : IsSnapshot(x)
      /\ \A i \in DOMAIN j.revs : IsSnapshot(j.revs[i])
  BY <1>1, <1>3 DEF TypeOK, WellFormed, Shape, Filling
<1>5. Copied(j, j.left, j.revsLeft, snapshots[dst], revisions[dst]) /\ DOMAIN refs[dst] = {}
  BY <1>1, <1>3 DEF ProgressInv, Progress
<1> DEFINE k == [phase |-> "write", src |-> j.src, snaps |-> j.snaps, revs |-> j.revs,
                 remap |-> j.remap, left |-> j.left, revsLeft |-> j.revsLeft \ {id}]
<1>6. job' = [job EXCEPT ![dst] = k] /\ job'[dst] = k
  <2>1. [j EXCEPT !.revsLeft = j.revsLeft \ {id}] = k
    BY <1>4
  <2>2. job' = [job EXCEPT ![dst] = [j EXCEPT !.revsLeft = j.revsLeft \ {id}]]
    BY <1>3
  <2> QED BY <2>1, <2>2, <1>1 DEF TypeOK
<1>7. /\ k.phase = "write" /\ k.src = j.src /\ k.snaps = j.snaps /\ k.revs = j.revs
      /\ k.remap = j.remap /\ k.left = j.left /\ k.revsLeft = j.revsLeft \ {id}
      /\ DOMAIN k = DOMAIN j
      /\ Shape(k)
  BY <1>4 DEF Shape
<1> HIDE DEF k, j
<1> DEFINE new == [n \in {j.remap[id]} |-> s]
<1>8. DOMAIN new = {j.remap[id]} /\ new[j.remap[id]] = s
  OBVIOUS
<1>9. revisions'[dst] = Over(revisions[dst], new)
  BY <1>1, <1>3 DEF TypeOK
<1> HIDE DEF new
<1>10. /\ DOMAIN revisions'[dst] = DOMAIN revisions[dst] \cup {j.remap[id]}
       /\ revisions'[dst][j.remap[id]] = s
       /\ \A i \in DOMAIN revisions[dst] \ {j.remap[id]} : revisions'[dst][i] = revisions[dst][i]
  <2>1. /\ DOMAIN Over(revisions[dst], new) = DOMAIN revisions[dst] \cup DOMAIN new
        /\ \A i \in DOMAIN new : Over(revisions[dst], new)[i] = new[i]
        /\ \A i \in DOMAIN revisions[dst] \ DOMAIN new : Over(revisions[dst], new)[i] = revisions[dst][i]
    BY OverKeys
  <2> QED BY <2>1, <1>8, <1>9
<1>11. snapshots'[dst] = snapshots[dst] /\ refs'[dst] = refs[dst]
  BY <1>3
<1>12. Alone(dst)
  BY <1>1, <1>3, <1>6, <1>9 DEF TypeOK, Alone, new
<1>13. id \in DOMAIN j.remap /\ id \in DOMAIN j.revs /\ j.remap[id] \in Drawn(j)
  <2>1. id \in DOMAIN j.remap /\ id \in DOMAIN j.revs
    BY <1>2, <1>5 DEF Copied
  <2>2. "remap" \in DOMAIN j
    BY <1>4
  <2> QED BY <2>1, <2>2 DEF Drawn, Range
<1>14. Owns(dst)' = Owns(dst)
  <2>1. Drawn(k) = Drawn(j)
    BY <1>7 DEF Drawn
  <2> QED BY <2>1, <1>6, <1>10, <1>13 DEF Owns, Owned, j
<1>15. IsSnapshot(s)
  <2>1. ASSUME NEW x \in j.snaps PROVE IsSnapshot(Copy(j.remap, j.snaps, x))
    BY <1>4, CopiesAreSnapshots
  <2> QED BY <2>1, <1>3, <1>4, <1>13 DEF Stands
<1>16. WellFormed(job'[dst], snapshots'[dst], revisions'[dst])
  <2>1. WellFormed(j, snapshots[dst], revisions[dst])
    BY <1>1 DEF TypeOK, j
  <2> QED BY <2>1, <1>6, <1>7, <1>10, <1>11, <1>15 DEF WellFormed
<1>17. Progress(job'[dst], snapshots'[dst], revisions'[dst], refs'[dst])
  <2>1. \A i : Stands(k, i) = Stands(j, i)
    BY <1>7 DEF Stands
  <2>2. ASSUME NEW i \in DOMAIN j.remap \ (j.revsLeft \ {id})
        PROVE  j.remap[i] \in DOMAIN revisions'[dst] /\ revisions'[dst][j.remap[i]] \in Stands(j, i)
    <3>1. CASE i = id
      BY <3>1, <1>3, <1>10
    <3>2. CASE i # id
      <4>1. j.remap[i] # j.remap[id]
        BY <3>2, <1>5, <1>13 DEF Copied, Injective
      <4>2. j.remap[i] \in DOMAIN revisions[dst] /\ revisions[dst][j.remap[i]] \in Stands(j, i)
        BY <3>2, <1>5 DEF Copied
      <4> QED BY <4>1, <4>2, <1>10
    <3> QED BY <3>1, <3>2
  <2>3. Copied(k, k.left, k.revsLeft, snapshots[dst], revisions'[dst])
    BY <2>1, <2>2, <1>5, <1>7 DEF Copied
  <2> QED BY <2>3, <1>5, <1>6, <1>7, <1>11 DEF Progress
<1>18. Rekeys(job'[dst], revisions'[dst], refs'[dst])
  BY <1>5, <1>11 DEF Rekeys, Range
<1>19. /\ nextId' \in Nat /\ nextId <= nextId'
       /\ Owns(dst)' \subseteq Owns(dst) \cup nextId..(nextId' - 1)
  BY <1>1, <1>3, <1>14
<1>20. TypeOK' /\ OwnerInv' /\ ProgressInv' /\ RefsInv'
  BY <1>3, <1>4, <1>6, <1>7, <1>12, <1>16, <1>17, <1>18, <1>19, ForkGoesOn DEF j
<1>21. LineInv'
  BY <1>4, <1>6, <1>7, <1>11, <1>12, <1>14, LineStays DEF j
<1> QED BY <1>20, <1>21 DEF IInv

LEMMA ForkReadRefsInv ==
  ASSUME IInv, NEW dst \in Repos, ForkReadRefs(dst)
  PROVE  IInv'
<1> DEFINE j == job[dst]
           k == [phase |-> "refs", src |-> j.src, snaps |-> j.snaps, revs |-> j.revs,
                 remap |-> j.remap, refsLeft |-> refs[j.src]]
<1>1. TypeOK /\ ProgressInv /\ nextId \in Nat \ {0} /\ ops \in Nat
  BY DEF IInv, TypeOK
<1>2. /\ j.phase = "write" /\ j.left = {} /\ j.revsLeft = {}
      /\ job' = [job EXCEPT ![dst] = k]
      /\ existing' = existing /\ UNCHANGED rows /\ nextId' = nextId /\ ops' = ops
  BY DEF ForkReadRefs
<1>3. /\ j = [phase |-> "write", src |-> j.src, snaps |-> j.snaps, revs |-> j.revs,
              remap |-> j.remap, left |-> j.left, revsLeft |-> j.revsLeft]
      /\ Filling(j)
  BY <1>1, <1>2 DEF TypeOK, WellFormed, Shape, Filling
<1>4. Copied(j, {}, {}, snapshots[dst], revisions[dst]) /\ DOMAIN refs[dst] = {}
  BY <1>1, <1>2 DEF ProgressInv, Progress
<1>5. /\ k.phase = "refs" /\ k.src = j.src /\ k.snaps = j.snaps /\ k.revs = j.revs
      /\ k.remap = j.remap /\ k.refsLeft = refs[j.src]
      /\ DOMAIN k = {"phase", "src", "snaps", "revs", "remap", "refsLeft"}
      /\ {"snaps", "revs", "remap"} \subseteq DOMAIN j
      /\ Shape(k)
  BY <1>3 DEF Shape
<1> HIDE DEF k, j
<1>6. /\ Alone(dst) /\ job'[dst] = k
      /\ snapshots'[dst] = snapshots[dst] /\ revisions'[dst] = revisions[dst]
      /\ refs'[dst] = refs[dst] /\ Known(dst)' = Known(dst)
  BY <1>1, <1>2, JobKeeps
<1>7. Owns(dst)' = Owns(dst)
  BY <1>5, <1>6 DEF Owns, Owned, Drawn, j
<1>8. WellFormed(job'[dst], snapshots'[dst], revisions'[dst])
  <2>1. WellFormed(j, snapshots[dst], revisions[dst])
    BY <1>1 DEF TypeOK, j
  <2> QED BY <2>1, <1>5, <1>6 DEF WellFormed
<1>9. Progress(job'[dst], snapshots'[dst], revisions'[dst], refs'[dst])
  <2>1. \A i : Stands(k, i) = Stands(j, i)
    BY <1>5 DEF Stands
  <2>2. Copied(k, {}, {}, snapshots[dst], revisions[dst])
    BY <2>1, <1>4, <1>5 DEF Copied
  <2> QED BY <2>2, <1>5, <1>6 DEF Progress
<1>10. Rekeys(job'[dst], revisions'[dst], refs'[dst])
  BY <1>4, <1>6 DEF Rekeys, Range
<1>11. /\ nextId' \in Nat /\ nextId <= nextId'
       /\ Owns(dst)' \subseteq Owns(dst) \cup nextId..(nextId' - 1)
  BY <1>1, <1>2, <1>7
<1>12. TypeOK' /\ OwnerInv' /\ ProgressInv' /\ RefsInv'
  BY <1>2, <1>3, <1>5, <1>6, <1>8, <1>9, <1>10, <1>11, ForkGoesOn DEF j
<1>13. LineInv'
  BY <1>3, <1>5, <1>6, <1>7, LineStays DEF j
<1> QED BY <1>12, <1>13 DEF IInv

(* The one step that needs the line: an id left as it is was not drawn for dst. *)
LEMMA ForkPutRefInv ==
  ASSUME IInv, NEW dst \in Repos, ForkPutRef(dst)
  PROVE  IInv'
<1> DEFINE j == job[dst]
<1>1. TypeOK /\ ProgressInv /\ OwnerInv /\ RefsInv /\ nextId \in Nat \ {0} /\ ops \in Nat
  BY DEF IInv, TypeOK
<1>2. PICK n \in DOMAIN j.refsLeft :
        LET id == j.refsLeft[n]
            target == IF id \in DOMAIN j.remap THEN j.remap[id] ELSE id
        IN  /\ refs' = [refs EXCEPT ![dst] = Over(@, [m \in {n} |-> target])]
            /\ job' = [job EXCEPT ![dst].refsLeft = Restrict(@, DOMAIN @ \ {n})]
  BY DEF ForkPutRef
<1> DEFINE id == j.refsLeft[n]
           target == IF id \in DOMAIN j.remap THEN j.remap[id] ELSE id
           left == Restrict(j.refsLeft, DOMAIN j.refsLeft \ {n})
           k == [phase |-> "refs", src |-> j.src, snaps |-> j.snaps, revs |-> j.revs,
                 remap |-> j.remap, refsLeft |-> left]
           new == [m \in {n} |-> target]
<1>3. j.phase = "refs" /\ UNCHANGED <<existing, snapshots, revisions, nextId, ops>>
  BY DEF ForkPutRef
<1>4. /\ j = [phase |-> "refs", src |-> j.src, snaps |-> j.snaps, revs |-> j.revs,
              remap |-> j.remap, refsLeft |-> j.refsLeft]
      /\ Filling(j)
  BY <1>1, <1>3 DEF TypeOK, WellFormed, Shape, Filling
<1>5. Copied(j, {}, {}, snapshots[dst], revisions[dst])
  BY <1>1, <1>3 DEF ProgressInv, Progress
<1>6. refs' = [refs EXCEPT ![dst] = Over(@, new)] /\ refs'[dst] = Over(refs[dst], new)
  BY <1>1, <1>2 DEF TypeOK
<1>7. job' = [job EXCEPT ![dst] = k] /\ job'[dst] = k
  <2>1. [j EXCEPT !.refsLeft = left] = k
    BY <1>4
  <2>2. job' = [job EXCEPT ![dst] = [j EXCEPT !.refsLeft = left]]
    BY <1>2
  <2> QED BY <2>1, <2>2, <1>1 DEF TypeOK
<1>8. /\ k.phase = "refs" /\ k.src = j.src /\ k.snaps = j.snaps /\ k.revs = j.revs
      /\ k.remap = j.remap /\ k.refsLeft = left
      /\ DOMAIN k = DOMAIN j /\ "remap" \in DOMAIN j
      /\ Shape(k)
  BY <1>4 DEF Shape
<1>9. Range(left) \subseteq Range(j.refsLeft) /\ id \in Range(j.refsLeft)
  <2>1. DOMAIN j.refsLeft \ {n} \in SUBSET DOMAIN j.refsLeft
    OBVIOUS
  <2>2. Range(left) \subseteq Range(j.refsLeft)
    BY <2>1, RestrictRange
  <2> QED BY <2>2 DEF Range
<1>10. Range(new) = {target}
  BY DEF Range
<1> HIDE DEF k, j, new, left
<1>11. Range(refs'[dst]) \subseteq Range(refs[dst]) \cup {target}
  BY <1>6, <1>10, OverKeys
<1>12. snapshots'[dst] = snapshots[dst] /\ revisions'[dst] = revisions[dst] /\ Known(dst)' = Known(dst)
  BY <1>3 DEF Known
<1>13. Alone(dst)
  BY <1>1, <1>3, <1>6, <1>7 DEF TypeOK, Alone
<1>14. Owns(dst)' = Owns(dst)
  BY <1>7, <1>8, <1>12 DEF Owns, Owned, Drawn, j
<1>15. WellFormed(job'[dst], snapshots'[dst], revisions'[dst])
  <2>1. WellFormed(j, snapshots[dst], revisions[dst])
    BY <1>1 DEF TypeOK, j
  <2> QED BY <2>1, <1>7, <1>8, <1>12 DEF WellFormed
<1>16. Progress(job'[dst], snapshots'[dst], revisions'[dst], refs'[dst])
  <2>1. \A i : Stands(k, i) = Stands(j, i)
    BY <1>8 DEF Stands
  <2>2. Copied(k, {}, {}, snapshots[dst], revisions[dst])
    BY <2>1, <1>5, <1>8 DEF Copied
  <2> QED BY <2>2, <1>7, <1>8, <1>12 DEF Progress
<1>17. target \in DOMAIN revisions[dst] \/ target \notin DOMAIN j.remap \cup Range(j.remap)
  <2>1. CASE id \in DOMAIN j.remap
    BY <2>1, <1>5 DEF Copied
  <2>2. CASE id \notin DOMAIN j.remap
    <3>1. PICK rank \in [Repos -> Nat] : Descends(rank)
      BY DEF IInv, LineInv
    <3>2. PICK q \in Repos : id \in Owns(q) /\ rank[q] < rank[dst]
      BY <3>1, <1>3, <1>9 DEF Descends, j
    <3>3. q # dst
      BY <3>1, <3>2
    <3>4. id \notin Owns(dst)
      BY <3>2, <3>3, <1>1 DEF OwnerInv
    <3>5. Range(j.remap) \subseteq Owns(dst)
      BY <1>8 DEF Owns, Owned, Drawn, j
    <3> QED BY <2>2, <3>4, <3>5
  <2> QED BY <2>1, <2>2
<1>18. Rekeys(job'[dst], revisions'[dst], refs'[dst])
  <2>1. Rekeys(j, revisions[dst], refs[dst])
    BY <1>1 DEF RefsInv, j
  <2> QED BY <2>1, <1>7, <1>8, <1>11, <1>12, <1>17 DEF Rekeys
<1>19. /\ nextId' \in Nat /\ nextId <= nextId'
       /\ Owns(dst)' \subseteq Owns(dst) \cup nextId..(nextId' - 1)
  BY <1>1, <1>3, <1>14
<1>20. TypeOK' /\ OwnerInv' /\ ProgressInv' /\ RefsInv'
  BY <1>3, <1>4, <1>7, <1>8, <1>13, <1>15, <1>16, <1>18, <1>19, ForkGoesOn DEF j
<1>21. \A i \in Range(refs'[dst]) :
         \/ i \in Range(refs[dst]) \cup Owns(dst)'
         \/ job[dst].phase = "refs" /\ i \in Range(job[dst].refsLeft)
  <2>1. target \in Range(j.refsLeft) \cup Owns(dst)
    <3>1. CASE id \in DOMAIN j.remap
      BY <3>1, <1>5 DEF Copied, Owns, Owned
    <3>2. CASE id \notin DOMAIN j.remap
      BY <3>2, <1>9
    <3> QED BY <3>1, <3>2
  <2> QED BY <2>1, <1>3, <1>11, <1>14 DEF j
<1>22. LineInv'
  BY <1>3, <1>4, <1>7, <1>8, <1>9, <1>13, <1>14, <1>21, LineStays DEF j
<1> QED BY <1>20, <1>22 DEF IInv

(* A fork that returns or is killed keeps everything but its phase. *)
LEMMA ForkEnds ==
  ASSUME IInv, NEW dst \in Repos, NEW phase, phase \in {"done", "killed"},
         phase = "done" => job[dst].phase = "refs",
         Filling(job[dst]), job' = [job EXCEPT ![dst] = [job[dst] EXCEPT !.phase = phase]],
         UNCHANGED <<existing, rows, nextId, ops>>
  PROVE  IInv' /\ job'[dst].phase = phase /\ \A r \in Repos \ {dst} : job'[r] = job[r]
<1> DEFINE j == job[dst]
           k == [j EXCEPT !.phase = phase]
<1>1. TypeOK /\ RefsInv /\ ProgressInv /\ nextId \in Nat \ {0} /\ ops \in Nat
  BY DEF IInv, TypeOK
<1>2. WellFormed(j, snapshots[dst], revisions[dst]) /\ dst \in existing
  BY <1>1 DEF TypeOK
<1>3. /\ k.phase = phase /\ DOMAIN k = DOMAIN j
      /\ "remap" \in DOMAIN j => k.remap = j.remap
      /\ "snaps" \in DOMAIN j => k.snaps = j.snaps
      /\ "revs" \in DOMAIN j => k.revs = j.revs
      /\ Shape(k)
  <2>1. CASE j.phase = "snapshots"
    BY <2>1, <1>2 DEF WellFormed, Shape
  <2>2. CASE j.phase = "revisions"
    BY <2>2, <1>2 DEF WellFormed, Shape
  <2>3. CASE j.phase = "write"
    BY <2>3, <1>2 DEF WellFormed, Shape
  <2>4. CASE j.phase = "refs"
    BY <2>4, <1>2 DEF WellFormed, Shape
  <2> QED BY <2>1, <2>2, <2>3, <2>4 DEF Filling
<1> HIDE DEF k
<1>4. /\ Alone(dst) /\ job'[dst] = k
      /\ snapshots'[dst] = snapshots[dst] /\ revisions'[dst] = revisions[dst]
      /\ refs'[dst] = refs[dst] /\ Known(dst)' = Known(dst)
  <2>1. job' = [job EXCEPT ![dst] = k]
    BY DEF k
  <2>2. UNCHANGED rows
    OBVIOUS
  <2> QED BY <1>1, <2>1, <2>2, JobKeeps
<1>5. Owns(dst)' = Owns(dst)
  BY <1>3, <1>4 DEF Owns, Owned, Drawn
<1>6. WellFormed(job'[dst], snapshots'[dst], revisions'[dst])
  BY <1>2, <1>3, <1>4 DEF WellFormed
<1>7. Progress(job'[dst], snapshots'[dst], revisions'[dst], refs'[dst])
  BY <1>3, <1>4 DEF Progress
<1>8. Rekeys(job'[dst], revisions'[dst], refs'[dst])
  BY <1>1, <1>3, <1>4 DEF RefsInv, Rekeys
<1>9. ~Filling(job'[dst]) /\ job'[dst].phase # "refs"
  BY <1>3, <1>4 DEF Filling
<1>10. TypeOK' /\ OwnerInv' /\ ProgressInv' /\ RefsInv'
  <2>1. /\ nextId' \in Nat /\ nextId <= nextId' /\ ops' \in Nat
        /\ Owns(dst)' \subseteq Owns(dst) \cup nextId..(nextId' - 1)
    BY <1>1, <1>5
  <2>2. existing' \in {existing, existing \cup {dst}} /\ dst \in existing'
    BY <1>2
  <2> QED BY <2>1, <2>2, <1>4, <1>6, <1>7, <1>8, <1>9, Locally
<1>11. LineInv'
  BY <1>4, <1>5, <1>9, LineStays
<1>12. \A r \in Repos \ {dst} : job'[r] = job[r]
  BY <1>1, <1>4, OthersStay
<1> QED BY <1>3, <1>4, <1>10, <1>11, <1>12 DEF IInv

LEMMA ForkReturnInv ==
  ASSUME IInv, NEW dst \in Repos, ForkReturn(dst)
  PROVE  IInv'
<1>1. /\ Filling(job[dst]) /\ job[dst].phase = "refs"
      /\ job' = [job EXCEPT ![dst] = [job[dst] EXCEPT !.phase = "done"]]
      /\ UNCHANGED <<existing, rows, nextId, ops>>
  BY DEF ForkReturn, Filling
<1> QED BY <1>1, ForkEnds

LEMMA KillInv ==
  ASSUME IInv, NEW dst \in Repos, Kill(dst)
  PROVE  IInv'
<1>1. Filling(job[dst])
  <2>1. Shape(job[dst])
    BY DEF IInv, TypeOK, WellFormed
  <2> QED BY <2>1 DEF Kill, Filling, Shape
<1>2. /\ job' = [job EXCEPT ![dst] = [job[dst] EXCEPT !.phase = "killed"]]
      /\ UNCHANGED <<existing, rows, nextId, ops>>
  BY DEF Kill
<1> QED BY <1>1, <1>2, ForkEnds

-----------------------------------------------------------------------------
LEMMA InitIInv == Init => IInv
<1> SUFFICES ASSUME Init PROVE IInv
  OBVIOUS
<1>1. \A r \in Repos : /\ job[r] = NoJob /\ snapshots[r] = {}
                        /\ revisions[r] = <<>> /\ refs[r] = <<>>
  BY DEF Init
<1>2. DOMAIN <<>> = {}
  OBVIOUS
<1>3. /\ NoJob.phase = "none" /\ "remap" \notin DOMAIN NoJob
      /\ "snaps" \notin DOMAIN NoJob /\ "revs" \notin DOMAIN NoJob
      /\ Shape(NoJob) /\ ~Filling(NoJob)
  BY DEF NoJob, Shape, Filling
<1>4. \A r \in Repos : Owns(r) = {} /\ DOMAIN revisions[r] = {} /\ Range(refs[r]) = {}
                       /\ DOMAIN refs[r] = {}
  BY <1>1, <1>2, <1>3 DEF Owns, Owned, Drawn, Range
<1>5. TypeOK
  <2>1. existing \subseteq Repos /\ nextId \in Nat \ {0} /\ ops \in Nat
    BY DEF Init
  <2>2. /\ snapshots = [r \in Repos |-> snapshots[r]]
        /\ revisions = [r \in Repos |-> revisions[r]]
        /\ refs = [r \in Repos |-> refs[r]]
        /\ job = [r \in Repos |-> job[r]]
    BY DEF Init
  <2>3. ASSUME NEW r \in Repos
        PROVE  WellFormed(job[r], snapshots[r], revisions[r]) /\ ~Filling(job[r])
    BY <1>1, <1>3, <1>4 DEF WellFormed
  <2> QED BY <2>1, <2>2, <2>3 DEF TypeOK
<1>6. OwnerInv
  BY <1>4 DEF OwnerInv
<1>7. ProgressInv
  <2>1. ASSUME NEW r \in Repos PROVE Progress(job[r], snapshots[r], revisions[r], refs[r])
    BY <1>1, <1>3, <1>4 DEF Progress
  <2> QED BY <2>1, <1>1 DEF ProgressInv
<1>8. LineInv
  <2> DEFINE rank == [r \in Repos |-> 0]
  <2>1. rank \in [Repos -> Nat]
    OBVIOUS
  <2>2. Descends(rank)
    BY <2>1, <1>1, <1>3, <1>4 DEF Descends
  <2> QED BY <2>1, <2>2 DEF LineInv
<1>9. RefsInv
  BY <1>1, <1>3 DEF RefsInv, Rekeys
<1> QED BY <1>5, <1>6, <1>7, <1>8, <1>9 DEF IInv

LEMMA StepInv ==
  ASSUME IInv, [Next]_vars
  PROVE  IInv'
<1>1. CASE UNCHANGED vars
  <2>1. /\ existing' = existing /\ snapshots' = snapshots /\ revisions' = revisions
        /\ refs' = refs /\ nextId' = nextId /\ job' = job /\ ops' = ops
    BY <1>1 DEF vars
  <2>2. \A r \in Repos : Known(r)' = Known(r) /\ Owns(r)' = Owns(r)
    BY <2>1 DEF Known, Owns
  <2>3. TypeOK' /\ OwnerInv' /\ ProgressInv' /\ RefsInv'
    BY <2>1, <2>2 DEF IInv, TypeOK, OwnerInv, ProgressInv, RefsInv
  <2>4. PICK rank \in [Repos -> Nat] : Descends(rank)
    BY DEF IInv, LineInv
  <2>5. Descends(rank)'
    BY <2>1, <2>2, <2>4 DEF Descends
  <2> QED BY <2>3, <2>5 DEF IInv, LineInv
<1>2. CASE Next
  <2>1. PICK r \in Repos : Work(r) \/ Fork(r) \/ Kill(r)
    BY <1>2 DEF Next
  <2>2. CASE Fork(r)
    <3>1. ASSUME NEW src \in existing, ForkCreate(src, r) PROVE IInv'
      <4>1. src \in Repos
        BY DEF IInv, TypeOK
      <4> QED BY <4>1, <3>1, ForkCreateInv
    <3> QED BY <2>2, <3>1, ForkReadSnapshotsInv, ForkReadRevisionsInv, ForkPutSnapshotInv,
               ForkPutRevisionInv, ForkReadRefsInv, ForkPutRefInv, ForkReturnInv DEF Fork
  <2> QED BY <2>1, <2>2, WorkInv, KillInv
<1> QED BY <1>1, <1>2

LEMMA Invariance == Spec => []IInv
<1> QED BY InitIInv, StepInv, PTL DEF Spec

(***************************************************************************)
(* Each revision of a fork, finished or killed, has an id of its own: the  *)
(* ids a fork draws are as many as the revisions it read, so no revision   *)
(* is written over another one.                                            *)
(***************************************************************************)
THEOREM IdsAreDrawnOnce ==
  Spec => [](\A r \in Repos : job[r].phase \in {"write", "refs"} => Injective(job[r].remap))
<1>1. IInv => \A r \in Repos : job[r].phase \in {"write", "refs"} => Injective(job[r].remap)
  BY DEF IInv, ProgressInv, Progress, Copied
<1> QED BY <1>1, Invariance, PTL

(***************************************************************************)
(* Two repositories never share a revision, and no reference of a fork is  *)
(* left on an id that the fork read or drew but did not write, whatever    *)
(* users do meanwhile and wherever a fork is killed.                       *)
(***************************************************************************)
THEOREM ForksNeverMix == Spec => []ForksStandAlone
<1>1. IInv => ForksStandAlone
  <2> SUFFICES ASSUME IInv PROVE ForksStandAlone
    OBVIOUS
  <2>1. \A r1, r2 \in Repos : r1 # r2 => Known(r1) \cap Known(r2) = {}
    BY DEF IInv, OwnerInv, Owns, Owned, Known
  <2>2. \A r \in Filled : \A id \in Range(refs[r]) :
          id \in Known(r) \/ id \notin DOMAIN job[r].remap \cup Range(job[r].remap)
    <3>1. \A r \in Filled : r \in Repos /\ "remap" \in DOMAIN job[r]
      BY DEF Filled, IInv, TypeOK
    <3> QED BY <3>1 DEF IInv, RefsInv, Rekeys, Known
  <2> QED BY <2>1, <2>2 DEF ForksStandAlone
<1> QED BY <1>1, Invariance, PTL

-----------------------------------------------------------------------------
(* Only a fork that has written its references returns. *)
LEMMA ReturnsAfterRefs ==
  ASSUME IInv, Next, NEW r \in Repos, Returns(r)
  PROVE  job[r].phase = "refs"
<1>1. TypeOK /\ job = [q \in Repos |-> job[q]] /\ Shape(job[r])
  BY DEF IInv, TypeOK, WellFormed
<1>2. job[r].phase # "done" /\ job'[r].phase = "done"
  BY DEF Returns
<1>3. PICK dst \in Repos : Work(dst) \/ Fork(dst) \/ Kill(dst)
  BY DEF Next
<1>4. CASE Work(dst)
  BY <1>2, <1>4, WorkDoes
<1>5. CASE Kill(dst)
  <2>1. Filling(job[dst])
    BY <1>5 DEF Kill, Filling, IInv, TypeOK, WellFormed, Shape
  <2>2. job'[dst].phase = "killed" /\ \A q \in Repos \ {dst} : job'[q] = job[q]
    BY <1>5, <2>1, ForkEnds DEF Kill
  <2> QED BY <2>2, <1>2
<1>6. CASE Fork(dst)
  <2>1. CASE \E src \in existing : ForkCreate(src, dst)
    BY <2>1, <1>1, <1>2 DEF ForkCreate
  <2>2. CASE ForkReadSnapshots(dst)
    BY <2>2, <1>1, <1>2 DEF ForkReadSnapshots
  <2>3. CASE ForkReadRevisions(dst)
    BY <2>3, <1>1, <1>2 DEF ForkReadRevisions
  <2>4. CASE ForkPutSnapshot(dst)
    <3>1. PICK left : job' = [job EXCEPT ![dst] = [job[dst] EXCEPT !.left = left]]
      BY <2>4 DEF ForkPutSnapshot
    <3> QED BY <3>1, <2>4, <1>1, <1>2 DEF ForkPutSnapshot, Shape
  <2>5. CASE ForkPutRevision(dst)
    <3>1. PICK left : job' = [job EXCEPT ![dst] = [job[dst] EXCEPT !.revsLeft = left]]
      BY <2>5 DEF ForkPutRevision
    <3> QED BY <3>1, <2>5, <1>1, <1>2 DEF ForkPutRevision, Shape
  <2>6. CASE ForkReadRefs(dst)
    BY <2>6, <1>1, <1>2 DEF ForkReadRefs
  <2>7. CASE ForkPutRef(dst)
    <3>1. PICK left : job' = [job EXCEPT ![dst] = [job[dst] EXCEPT !.refsLeft = left]]
      BY <2>7 DEF ForkPutRef
    <3> QED BY <3>1, <2>7, <1>1, <1>2 DEF ForkPutRef, Shape
  <2>8. CASE ForkReturn(dst)
    BY <2>8, <1>1, <1>2 DEF ForkReturn
  <2> QED BY <1>6, <2>1, <2>2, <2>3, <2>4, <2>5, <2>6, <2>7, <2>8 DEF Fork
<1> QED BY <1>3, <1>4, <1>5, <1>6

(***************************************************************************)
(* When a fork returns, each of its revisions holds a tree that the source *)
(* revision had, also where the source was rewritten between two reads of  *)
(* the fork; and the children of roots, if the history read was whole,     *)
(* have these roots, under their new ids, as parents.                      *)
(***************************************************************************)
THEOREM ForksHoldTheirSource == Spec => ForksCopyVersions
<1> DEFINE Copies(r) ==
      LET j == job[r]
      IN  /\ \A id \in DOMAIN j.remap :
               \/ revisions[r][j.remap[id]].tree \in {s.tree : s \in {x \in j.snaps : x.rev = id}}
               \/ revisions[r][j.remap[id]] = j.revs[id]
          /\ Whole(j.snaps) =>
               \A s \in snapshots[r] : \A p \in ParentsOf(s) : p.parents = <<>> => p \in snapshots[r]
<1>1. ASSUME IInv, Next, NEW r \in Repos, Returns(r) PROVE Copies(r)
  <2> DEFINE j == job[r]
  <2>1. j.phase = "refs"
    BY <1>1, ReturnsAfterRefs
  <2>2. Copied(j, {}, {}, snapshots[r], revisions[r])
    BY <1>1, <2>1 DEF IInv, ProgressInv, Progress
  <2>3. \A s \in j.snaps : IsSnapshot(s)
    BY <1>1, <2>1 DEF IInv, TypeOK, WellFormed, Shape
  <2> HIDE DEF j
  <2>4. ASSUME NEW id \in DOMAIN j.remap
        PROVE  \/ revisions[r][j.remap[id]].tree \in {s.tree : s \in {x \in j.snaps : x.rev = id}}
               \/ revisions[r][j.remap[id]] = j.revs[id]
    <3>1. revisions[r][j.remap[id]] \in Stands(j, id)
      BY <2>2 DEF Copied
    <3>2. ASSUME NEW s \in {x \in j.snaps : x.rev = id},
                 revisions[r][j.remap[id]] = Copy(j.remap, j.snaps, s)
          PROVE  revisions[r][j.remap[id]].tree = s.tree
      BY <3>2, <2>3, CopiesAreSnapshots
    <3> QED BY <3>1, <3>2 DEF Stands
  <2>5. ASSUME Whole(j.snaps), NEW s \in snapshots[r], NEW p \in ParentsOf(s), p.parents = <<>>
        PROVE  p \in snapshots[r]
    <3>1. PICK x \in j.snaps : s = Copy(j.remap, j.snaps, x)
      BY <2>2 DEF Copied
    <3> DEFINE ps == [i \in DOMAIN x.parents |->
                        IF x.parents[i] \in j.snaps THEN Rekeyed(j.remap, x.parents[i])
                                                    ELSE x.parents[i]]
               c == Rekeyed(j.remap, x)
    <3>2. IsSnapshot(x) /\ IsSnapshot(c)
      BY <2>3 DEF IsSnapshot, Rekeyed
    <3>3. s = [c EXCEPT !.parents = ps]
      BY <3>1 DEF Copy
    <3>4. DOMAIN ps = DOMAIN x.parents
      OBVIOUS
    <3>5. \A i \in DOMAIN x.parents :
            x.parents[i] \in j.snaps /\ ps[i] = Rekeyed(j.remap, x.parents[i])
      BY <2>5 DEF Whole, ParentsOf, Range
    <3> HIDE DEF ps, c
    <3>6. s.parents = ps
      BY <3>2, <3>3 DEF IsSnapshot
    <3>7. PICK i \in DOMAIN ps : p = ps[i]
      BY <2>5, <3>6 DEF ParentsOf, Range
    <3>8. PICK y \in j.snaps : p = Rekeyed(j.remap, y)
      BY <3>4, <3>5, <3>7
    <3>9. IsSnapshot(y) /\ y.parents = <<>>
      BY <2>3, <2>5, <3>8 DEF Rekeyed, IsSnapshot
    <3>10. p = Copy(j.remap, j.snaps, y)
      BY <3>8, <3>9, RootsAreRekeyed
    <3> QED BY <3>10, <2>2 DEF Copied
  <2> QED BY <2>4, <2>5 DEF j
<1>2. IInv /\ [Next]_vars => [\A r \in Repos : Returns(r) => Copies(r)]_vars
  BY <1>1
<1>3. Spec => [][\A r \in Repos : Returns(r) => Copies(r)]_vars
  BY <1>2, Invariance, PTL DEF Spec
<1> QED BY <1>3 DEF ForksCopyVersions
=============================================================================
