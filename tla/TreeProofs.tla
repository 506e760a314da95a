----------------------------- MODULE TreeProofs -----------------------------
(***************************************************************************)
(* Theorems about the two modules whose state is trees: what a commit of a *)
(* working copy records, and what a rebase keeps of the changes of both    *)
(* sides, for any number of names, contents, revisions and steps.          *)
(***************************************************************************)
EXTENDS WorkingCopy, MergeWalk, TLAPS

-----------------------------------------------------------------------------
(***************************************************************************)
(* The working copy.  The changes of a commit are applied one by one, in   *)
(* any order, so the inductive invariant says of every name how far its    *)
(* entry has come: either the change that is to make it what the scan      *)
(* found is still to be applied, or it is that already.                    *)
(***************************************************************************)
Leaf(e) == e = [kind |-> e.kind, id |-> e.id] /\ e.kind \in {"blob", "conflict"}

Table(f) == f = [m \in Names |-> f[m]] /\ \A m \in Names : Leaf(f[m])

RootTree(t) ==
  /\ t = [n \in Names |-> t[n]]
  /\ \A n \in Names : Leaf(t[n]) \/ \E f \in {SubTree(t[n])} : t[n] = Dir(f) /\ Table(f)

Scanned(t) ==
  /\ RootTree(t)
  /\ \A n \in Names : t[n].kind # "conflict" /\ \A m \in Names : SubTree(t[n])[m].kind = "blob"

(* The trees below the root of a tree. *)
Below(t) == {t[n].id.entries : n \in {m \in Names : IsTree(t[m])}}

TipInv ==
  /\ tip = [r \in DOMAIN tip |-> tip[r]]
  /\ \A r \in DOMAIN tip : RootTree(tip[r].tree) /\ Tables(tip[r].tree) \subseteq trees
  /\ current \in DOMAIN tip \cup {None}

Applies == job.phase = "apply"

ChangeOf(n, m) == [path |-> <<n, m>>, entry |-> SubTree(job.scan[n])[m]]
PendingAt(n) == {c \in job.todo : c.path[1] = n}

JobInv ==
  \/ job = NoJob
  \/ /\ job = [phase |-> job.phase, rev |-> job.rev, new |-> job.new, base |-> job.base,
               scan |-> job.scan, known |-> job.known, tree |-> job.tree, todo |-> job.todo]
     /\ job.phase \in {"apply", "mark"}
     /\ RootTree(job.base) /\ Scanned(job.scan) /\ RootTree(job.tree)
     /\ Below(job.tree) \subseteq trees
     /\ job.phase = "mark" => job.rev \in DOMAIN tip /\ tip[job.rev].tree = job.tree /\ job.todo = {}
     /\ \A c \in job.todo : \E n \in Names : /\ c = [path |-> c.path, entry |-> c.entry]
                                             /\ c.path = <<n>> \/ \E m \in Names : c.path = <<n, m>>
                                             /\ Leaf(c.entry)

(* An entry that is as it was. *)
Untouched(n) == job.scan[n] = job.base[n]

(* A file at the top that was written, changed or deleted. *)
FileChanged(n) ==
  /\ job.scan[n] # job.base[n]
  /\ ~(IsTree(job.scan[n]) \/ IsTree(job.base[n]) \/ IsConflict(job.base[n]))

(* A directory whose content the store had seen. *)
DirChanged(n) ==
  /\ job.scan[n] # job.base[n]
  /\ IsTree(job.scan[n]) /\ job.scan[n].id.entries \in job.known \ {EmptyTree}
  /\ ~HasConflict(job.base[n])

Comes(n) ==
  /\ Untouched(n) => PendingAt(n) = {} /\ job.tree[n] = job.scan[n]
  /\ FileChanged(n) =>
       /\ PendingAt(n) \subseteq {[path |-> <<n>>, entry |-> job.scan[n]]}
       /\ PendingAt(n) # {} \/ job.tree[n] = job.scan[n]
  /\ DirChanged(n) =>
       /\ PendingAt(n) \subseteq {ChangeOf(n, m) : m \in Names}
       /\ \A m \in Names : ChangeOf(n, m) \in PendingAt(n) \/ SubTree(job.tree[n])[m] = SubTree(job.scan[n])[m]
       /\ IsTree(job.tree[n]) \/ SubTree(job.tree[n]) = EmptyTree

ScanInv == job # NoJob => \A n \in Names : Comes(n)

IInv == Scanned(work) /\ TipInv /\ JobInv /\ ScanInv

-----------------------------------------------------------------------------
(* Trees and entries. *)
LEMMA NothingIsNoEntry ==
  ASSUME NEW e, e = [kind |-> e.kind, id |-> e.id], e.kind = "blob", ~IsFile(e)
  PROVE  e = NoEntry
BY DEF IsFile, Present, NoEntry

LEMMA SubTreeOf ==
  ASSUME NEW f
  PROVE  SubTree(Dir(f)) = f /\ IsTree(Dir(f)) /\ SubTree(NoEntry) = EmptyTree /\ ~IsTree(NoEntry)
BY DEF SubTree, Dir, IsTree, NoEntry

LEMMA EmptyIsTable == Table(EmptyTree) /\ RootTree(EmptyTree) /\ Scanned(EmptyTree) /\ Below(EmptyTree) = {}
<1>1. \A n \in Names : EmptyTree[n] = NoEntry
  BY DEF EmptyTree
<1>2. EmptyTree = [n \in Names |-> EmptyTree[n]]
  BY DEF EmptyTree
<1>3. Leaf(NoEntry) /\ NoEntry.kind = "blob" /\ SubTree(NoEntry) = EmptyTree /\ ~IsTree(NoEntry)
  BY DEF Leaf, NoEntry, SubTree, IsTree
<1> QED BY <1>1, <1>2, <1>3 DEF Table, RootTree, Scanned, Below

(* An entry of a tree is a directory or a leaf. *)
LEMMA EntryOf ==
  ASSUME NEW t, RootTree(t), NEW n \in Names
  PROVE  /\ IsTree(t[n]) => t[n] = Dir(SubTree(t[n])) /\ SubTree(t[n]) = t[n].id.entries
         /\ ~IsTree(t[n]) => Leaf(t[n]) /\ SubTree(t[n]) = EmptyTree
         /\ Table(SubTree(t[n]))
<1>1. CASE Leaf(t[n])
  BY <1>1, EmptyIsTable DEF Leaf, IsTree, SubTree
<1>2. CASE \E f \in {SubTree(t[n])} : t[n] = Dir(f) /\ Table(f)
  <2>1. t[n] = Dir(SubTree(t[n])) /\ Table(SubTree(t[n]))
    BY <1>2
  <2>2. IsTree(t[n])
    BY <2>1, SubTreeOf
  <2> QED BY <2>1, <2>2 DEF SubTree
<1> QED BY <1>1, <1>2 DEF RootTree

LEMMA MergedTree ==
  ASSUME NEW b, NEW o, NEW t, RootTree(o), RootTree(t)
  PROVE  RootTree(MergeTrees(b, o, t))
<1> DEFINE m == MergeTrees(b, o, t)
<1>1. m = [n \in Names |-> m[n]] /\ \A n \in Names : m[n] = MergeEntry(b[n], o[n], t[n])
  BY DEF MergeTrees
<1>2. ASSUME NEW x, NEW y, NEW z, Leaf(y), Leaf(z)
      PROVE  Leaf(MergeName(x, y, z))
  <2>1. Leaf(ConflictEntry(x, y, z)) /\ Leaf(NoEntry)
    BY DEF Leaf, ConflictEntry, NoEntry
  <2> QED BY <1>2, <2>1 DEF MergeName, MergeLeaf
<1>3. ASSUME NEW n \in Names
      PROVE  Leaf(m[n]) \/ \E f \in {SubTree(m[n])} : m[n] = Dir(f) /\ Table(f)
  <2> DEFINE x == b[n]  y == o[n]  z == t[n]
  <2>1. m[n] = MergeEntry(x, y, z) /\ Table(SubTree(y)) /\ Table(SubTree(z))
        /\ (~IsTree(y) => Leaf(y)) /\ (~IsTree(z) => Leaf(z))
    BY <1>1, EntryOf
  <2> HIDE DEF x, y, z, m
  <2>2. CASE ~(IsTree(x) \/ IsTree(y) \/ IsTree(z))
    BY <1>2, <2>1, <2>2 DEF MergeEntry
  <2>3. CASE IsTree(x) \/ IsTree(y) \/ IsTree(z)
    <3> DEFINE sub == [k \in Names |-> MergeName(SubTree(x)[k], SubTree(y)[k], SubTree(z)[k])]
    <3>1. m[n] = NoEntry \/ m[n] = Dir(sub)
      BY <2>1, <2>3 DEF MergeEntry
    <3>2. Table(sub)
      <4>1. \A k \in Names : Leaf(sub[k])
        BY <1>2, <2>1 DEF Table
      <4> QED BY <4>1 DEF Table
    <3>3. Leaf(NoEntry)
      BY DEF Leaf, NoEntry
    <3> HIDE DEF sub
    <3> QED BY <3>1, <3>2, <3>3, SubTreeOf
  <2> QED BY <2>2, <2>3
<1> QED BY <1>1, <1>3 DEF RootTree

(* resolvePath with a path of one name, and of two. *)
LEMMA ResolvedTop ==
  ASSUME NEW t, RootTree(t), NEW n \in Names, NEW e, Leaf(e),
         NEW u, u = ResolvePath(t, <<n>>, e)
  PROVE  /\ RootTree(u) /\ u[n] = e
         /\ \A k \in Names \ {n} : u[k] = t[k]
<1>1. u = [t EXCEPT ![n] = e]
  BY DEF ResolvePath
<1>2. t = [k \in Names |-> t[k]]
  BY DEF RootTree
<1>3. u = [k \in Names |-> u[k]] /\ \A k \in Names : u[k] = IF k = n THEN e ELSE t[k]
  BY <1>1, <1>2
<1>4. RootTree(u)
  BY <1>3 DEF RootTree
<1> QED BY <1>3, <1>4

LEMMA ResolvedBelow ==
  ASSUME NEW t, RootTree(t), NEW n \in Names, NEW m \in Names, NEW e, Leaf(e),
         NEW u, u = ResolvePath(t, <<n, m>>, e)
  PROVE  /\ RootTree(u)
         /\ SubTree(u[n])[m] = e
         /\ \A k \in Names \ {m} : SubTree(u[n])[k] = SubTree(t[n])[k]
         /\ IsTree(u[n]) \/ SubTree(u[n]) = EmptyTree
         /\ \A k \in Names \ {n} : u[k] = t[k]
<1> DEFINE old == SubTree(t[n])
           sub == [old EXCEPT ![m] = e]
           y == IF sub = EmptyTree THEN NoEntry ELSE Dir(sub)
<1>1. u = [t EXCEPT ![n] = y]
  <2>1. Len(<<n, m>>) = 2 /\ <<n, m>>[1] = n /\ <<n, m>>[2] = m
    OBVIOUS
  <2> QED BY <2>1 DEF ResolvePath
<1>2. t = [k \in Names |-> t[k]]
  BY DEF RootTree
<1>3. Table(old)
  BY EntryOf
<1> HIDE DEF old
<1>4. Table(sub) /\ sub[m] = e /\ \A k \in Names \ {m} : sub[k] = old[k]
  BY <1>3 DEF Table
<1>5. SubTree(y) = sub /\ (IsTree(y) \/ sub = EmptyTree) /\ (Leaf(y) \/ y = Dir(sub))
  <2>1. Leaf(NoEntry)
    BY DEF Leaf, NoEntry
  <2> HIDE DEF sub
  <2> QED BY <2>1, SubTreeOf
<1> HIDE DEF y, sub
<1>6. u = [k \in Names |-> u[k]] /\ \A k \in Names : u[k] = IF k = n THEN y ELSE t[k]
  BY <1>1, <1>2
<1>7. RootTree(u)
  <2>1. ASSUME NEW k \in Names
        PROVE  Leaf(u[k]) \/ \E f \in {SubTree(u[k])} : u[k] = Dir(f) /\ Table(f)
    <3>1. CASE k = n
      BY <1>4, <1>5, <1>6, <3>1
    <3>2. CASE k # n
      <4>1. u[k] = t[k]
        BY <1>6, <3>2
      <4> QED BY <4>1 DEF RootTree
    <3> QED BY <3>1, <3>2
  <2> QED BY <1>6, <2>1 DEF RootTree
<1> QED BY <1>4, <1>5, <1>6, <1>7 DEF old

-----------------------------------------------------------------------------
(***************************************************************************)
(* The changes listed between two trees, name by name.  A change of a name *)
(* that carries a file of the top or of a known directory makes its entry  *)
(* what the scan found.                                                    *)
(***************************************************************************)
LEMMA LeafChangeIs ==
  ASSUME NEW path, NEW x, NEW y, Leaf(x), Leaf(y), y.kind = "blob"
  PROVE  /\ LeafChange(path, x, y) \subseteq {[path |-> path, entry |-> y]}
         /\ x = y => LeafChange(path, x, y) = {}
         /\ x # y /\ ~IsConflict(x) => [path |-> path, entry |-> y] \in LeafChange(path, x, y)
<1>1. CASE IsFile(y)
  BY <1>1 DEF LeafChange, Write
<1>2. CASE ~IsFile(y)
  <2>1. y = NoEntry
    BY <1>2, NothingIsNoEntry DEF Leaf
  <2>2. ~IsConflict(x) /\ ~IsFile(x) => x = NoEntry
    BY NothingIsNoEntry DEF Leaf, IsConflict
  <2>3. ~IsFile(NoEntry)
    BY DEF IsFile, NoEntry, Present
  <2> QED BY <1>2, <2>1, <2>2, <2>3 DEF LeafChange, Delete
<1> QED BY <1>1, <1>2

LEMMA ChangesOfName ==
  ASSUME NEW a, RootTree(a), Below(a) \subseteq trees, NEW b, Scanned(b), NEW n \in Names,
         NEW S, S = ChangesAt(n, a[n], b[n]),
         NEW f, f = SubTree(a[n]), NEW g, g = SubTree(b[n])
  PROVE  /\ \A c \in S : /\ c = [path |-> c.path, entry |-> c.entry] /\ Leaf(c.entry)
                         /\ c.path = <<n>> \/ \E m \in Names : c.path = <<n, m>>
         /\ a[n] = b[n] => S = {}
         /\ a[n] # b[n] /\ ~(IsTree(b[n]) \/ IsTree(a[n]) \/ IsConflict(a[n])) =>
              S = {[path |-> <<n>>, entry |-> b[n]]}
         /\ IsTree(b[n]) /\ g \in trees /\ (\A m \in Names : ~IsConflict(f[m])) =>
              /\ S \subseteq {[path |-> <<n, m>>, entry |-> g[m]] : m \in Names}
              /\ \A m \in Names : [path |-> <<n, m>>, entry |-> g[m]] \in S \/ f[m] = g[m]
<1> DEFINE x == a[n]
           y == b[n]
<1>1. /\ IsTree(x) => x = Dir(f) /\ f = x.id.entries
      /\ ~IsTree(x) => Leaf(x) /\ f = EmptyTree
      /\ Table(f)
  BY EntryOf
<1>2. /\ IsTree(y) => y = Dir(g) /\ g = y.id.entries
      /\ ~IsTree(y) => Leaf(y) /\ g = EmptyTree
      /\ Table(g)
      /\ y.kind # "conflict" /\ \A m \in Names : g[m].kind = "blob"
  BY EntryOf DEF Scanned
<1>3. IsKnownTree(x) <=> IsTree(x)
  BY DEF IsKnownTree, Below
<1>4. IsKnownTree(y) <=> IsTree(y) /\ g \in trees
  BY <1>2 DEF IsKnownTree
<1>5. S = ChangesAt(n, x, y)
  OBVIOUS
<1>6. Leaf(NoEntry)
  BY DEF Leaf, NoEntry
<1>7. \A m \in Names : Leaf(f[m]) /\ Leaf(g[m])
  BY <1>1, <1>2 DEF Table
<1> HIDE DEF x, y
(* Both are directories. *)
<1>8. CASE IsKnownTree(x) /\ IsKnownTree(y)
  <2> DEFINE L(m) == LeafChange(<<n, m>>, f[m], g[m])
  <2>1. S = UNION {L(m) : m \in Names}
    BY <1>1, <1>2, <1>3, <1>4, <1>5, <1>8 DEF ChangesAt
  <2>2. ASSUME NEW m \in Names
        PROVE  /\ L(m) \subseteq {[path |-> <<n, m>>, entry |-> g[m]]}
               /\ f[m] = g[m] => L(m) = {}
               /\ f[m] # g[m] /\ ~IsConflict(f[m]) => [path |-> <<n, m>>, entry |-> g[m]] \in L(m)
    BY <1>2, <1>7, LeafChangeIs
  <2> HIDE DEF L
  <2>3. \A c \in S : \E m \in Names : c = [path |-> <<n, m>>, entry |-> g[m]]
    BY <2>1, <2>2
  <2>4. \A c \in S : /\ c = [path |-> c.path, entry |-> c.entry] /\ Leaf(c.entry)
                     /\ c.path = <<n>> \/ \E m \in Names : c.path = <<n, m>>
    BY <1>7, <2>3
  <2>5. x = y => S = {}
    <3>1. x = y => f = g
      BY <1>1, <1>2, <1>3, <1>4, <1>8
    <3>2. f = g => \A m \in Names : L(m) = {}
      BY <2>2
    <3> QED BY <2>1, <3>1, <3>2
  <2>6. \A m \in Names : f[m] # g[m] /\ ~IsConflict(f[m]) => [path |-> <<n, m>>, entry |-> g[m]] \in S
    BY <2>1, <2>2
  <2> QED BY <1>3, <1>8, <2>3, <2>4, <2>5, <2>6 DEF x, y
(* A directory becomes something else, or one the store has not seen. *)
<1>9. CASE IsKnownTree(x) /\ ~IsKnownTree(y)
  <2>1. S = AllDeleted(n, f)
    BY <1>1, <1>3, <1>5, <1>9 DEF ChangesAt
  <2>2. \A c \in S : \E m \in Names : c = [path |-> <<n, m>>, entry |-> NoEntry]
    BY <2>1 DEF AllDeleted, Delete
  <2>3. \A c \in S : /\ c = [path |-> c.path, entry |-> c.entry] /\ Leaf(c.entry)
                     /\ c.path = <<n>> \/ \E m \in Names : c.path = <<n, m>>
    BY <1>6, <2>2
  <2> QED BY <1>3, <1>4, <1>9, <2>3 DEF x, y
(* A directory in place of a file, or of nothing. *)
<1>10. CASE ~IsKnownTree(x) /\ IsKnownTree(y)
  <2>1. S = AllAdded(n, g)
    BY <1>2, <1>4, <1>5, <1>10 DEF ChangesAt
  <2>2. \A c : c \in S <=> \E m \in Names : Present(g[m]) /\ c = [path |-> <<n, m>>, entry |-> g[m]]
    BY <2>1 DEF AllAdded, Write
  <2>3. \A c \in S : /\ c = [path |-> c.path, entry |-> c.entry] /\ Leaf(c.entry)
                     /\ c.path = <<n>> \/ \E m \in Names : c.path = <<n, m>>
    BY <1>7, <2>2
  <2>4. ASSUME NEW m \in Names, ~Present(g[m]) PROVE f[m] = g[m]
    <3>1. g[m] = NoEntry
      <4>1. g[m] = [kind |-> g[m].kind, id |-> g[m].id]
        BY <1>7 DEF Leaf
      <4>2. g[m].kind = "blob" /\ ~IsFile(g[m])
        BY <1>2, <2>4 DEF IsFile
      <4> QED BY <4>1, <4>2, NothingIsNoEntry
    <3>2. f[m] = NoEntry
      BY <1>1, <1>3, <1>10 DEF EmptyTree
    <3> QED BY <3>1, <3>2
  <2>5. \A m \in Names : [path |-> <<n, m>>, entry |-> g[m]] \in S \/ f[m] = g[m]
    BY <2>2, <2>4
  <2>6. S \subseteq {[path |-> <<n, m>>, entry |-> g[m]] : m \in Names}
    BY <2>2
  <2> QED BY <1>3, <1>4, <1>10, <2>3, <2>5, <2>6 DEF x, y
(* Files, or a directory the store has not seen. *)
<1>11. CASE ~IsKnownTree(x) /\ ~IsKnownTree(y)
  <2>1. S = LeafChange(<<n>>, x, y)
    BY <1>5, <1>11 DEF ChangesAt
  <2>2. Leaf(x)
    BY <1>1, <1>3, <1>11
  <2>3. CASE ~IsTree(y)
    <3>1. Leaf(y) /\ y.kind = "blob"
      BY <1>2, <2>3 DEF Leaf
    <3>2. /\ S \subseteq {[path |-> <<n>>, entry |-> y]}
          /\ x = y => S = {}
          /\ x # y /\ ~IsConflict(x) => [path |-> <<n>>, entry |-> y] \in S
      BY <2>1, <2>2, <3>1, LeafChangeIs
    <3> QED BY <2>3, <3>1, <3>2 DEF x, y
  <2>4. CASE IsTree(y)
    <3>1. ~IsFile(y)
      BY <2>4 DEF IsFile, IsTree
    <3>2. S \subseteq {[path |-> <<n>>, entry |-> NoEntry]}
      BY <2>1, <3>1 DEF LeafChange, Delete
    <3>3. x # y
      BY <1>3, <1>11, <2>4
    <3> QED BY <1>4, <1>6, <1>11, <2>4, <3>2, <3>3 DEF x, y
  <2> QED BY <2>3, <2>4
<1> QED BY <1>8, <1>9, <1>10, <1>11

-----------------------------------------------------------------------------
(* The commands keep the invariant. *)
LEMMA EditInv ==
  ASSUME IInv, NEW n \in Names, NEW e, Edit(n, e),
         \/ Leaf(e) /\ e.kind = "blob"
         \/ \E f : e = Dir(f) /\ Table(f) /\ \A m \in Names : f[m].kind = "blob"
  PROVE  IInv'
<1>1. work' = [work EXCEPT ![n] = e] /\ UNCHANGED <<trees, tip, current, job>>
  BY DEF Edit
<1>2. work = [k \in Names |-> work[k]]
  BY DEF IInv, Scanned, RootTree
<1>3. work' = [k \in Names |-> work'[k]] /\ \A k \in Names : work'[k] = IF k = n THEN e ELSE work[k]
  BY <1>1, <1>2
<1>4. ASSUME NEW k \in Names
      PROVE  /\ Leaf(work'[k]) \/ \E f \in {SubTree(work'[k])} : work'[k] = Dir(f) /\ Table(f)
             /\ work'[k].kind # "conflict" /\ \A m \in Names : SubTree(work'[k])[m].kind = "blob"
  <2>1. CASE k # n
    BY <1>3, <2>1 DEF IInv, Scanned, RootTree
  <2>2. CASE k = n /\ Leaf(e) /\ e.kind = "blob"
    <3>1. SubTree(e) = EmptyTree
      BY <2>2 DEF SubTree, IsTree
    <3>2. \A m \in Names : EmptyTree[m].kind = "blob"
      BY DEF EmptyTree, NoEntry
    <3> QED BY <1>3, <2>2, <3>1, <3>2
  <2>3. CASE k = n /\ \E f : e = Dir(f) /\ Table(f) /\ \A m \in Names : f[m].kind = "blob"
    <3>1. PICK f : e = Dir(f) /\ Table(f) /\ \A m \in Names : f[m].kind = "blob"
      BY <2>3
    <3>2. SubTree(e) = f /\ e.kind # "conflict"
      BY <3>1, SubTreeOf DEF Dir
    <3> QED BY <1>3, <2>3, <3>1, <3>2
  <2> QED BY <2>1, <2>2, <2>3
<1>5. Scanned(work')
  BY <1>3, <1>4 DEF Scanned, RootTree
<1>6. TipInv' /\ JobInv'
  BY <1>1 DEF IInv, TipInv, JobInv
<1>7. ScanInv'
  BY <1>1 DEF IInv, ScanInv, Comes, Untouched, FileChanged, DirChanged, PendingAt, ChangeOf
<1> QED BY <1>5, <1>6, <1>7 DEF IInv

LEMMA BeginCommitInv ==
  ASSUME IInv, NEW isNew \in BOOLEAN, BeginCommit(isNew)
  PROVE  IInv'
<1> DEFINE from == IF current = None THEN EmptyTree ELSE tip[current].tree
<1>1. PICK r, new :
        job' = [phase |-> "apply", rev |-> r, new |-> new, base |-> from, scan |-> work,
                known |-> trees, tree |-> from, todo |-> Changes(from, work)]
  BY DEF BeginCommit
<1>2. UNCHANGED <<work, trees, tip, current>>
  BY DEF BeginCommit
<1>3. RootTree(from) /\ Below(from) \subseteq trees
  <2>1. CASE current = None
    BY <2>1, EmptyIsTable
  <2>2. CASE current # None
    <3>1. current \in DOMAIN tip
      BY <2>2 DEF IInv, TipInv
    <3>2. RootTree(tip[current].tree) /\ Tables(tip[current].tree) \subseteq trees
      BY <3>1 DEF IInv, TipInv
    <3> QED BY <2>2, <3>2 DEF Tables, Below
  <2> QED BY <2>1, <2>2
<1>4. Scanned(work)
  BY DEF IInv
<1> DEFINE todo == Changes(from, work)
           S(n) == ChangesAt(n, from[n], work[n])
<1>5. todo = UNION {S(n) : n \in Names}
  BY DEF Changes
<1>6. ASSUME NEW n \in Names
      PROVE  /\ \A c \in S(n) : /\ c = [path |-> c.path, entry |-> c.entry] /\ Leaf(c.entry)
                                /\ c.path = <<n>> \/ \E m \in Names : c.path = <<n, m>>
             /\ from[n] = work[n] => S(n) = {}
             /\ from[n] # work[n] /\ ~(IsTree(work[n]) \/ IsTree(from[n]) \/ IsConflict(from[n])) =>
                  S(n) = {[path |-> <<n>>, entry |-> work[n]]}
             /\ IsTree(work[n]) /\ SubTree(work[n]) \in trees
                  /\ (\A m \in Names : ~IsConflict(SubTree(from[n])[m])) =>
                  /\ S(n) \subseteq {[path |-> <<n, m>>, entry |-> SubTree(work[n])[m]] : m \in Names}
                  /\ \A m \in Names : \/ [path |-> <<n, m>>, entry |-> SubTree(work[n])[m]] \in S(n)
                                      \/ SubTree(from[n])[m] = SubTree(work[n])[m]
  <2> HIDE DEF from
  <2> QED BY <1>3, <1>4, ChangesOfName
<1>7. ASSUME NEW n \in Names PROVE {c \in todo : c.path[1] = n} = S(n)
  <2>1. ASSUME NEW k \in Names, NEW c \in S(k) PROVE c.path[1] = k
    <3>1. c.path = <<k>> \/ \E m \in Names : c.path = <<k, m>>
      BY <1>6
    <3> QED BY <3>1
  <2> HIDE DEF S, todo
  <2> QED BY <1>5, <2>1
<1>8. \A n \in Names : IsTree(work[n]) => SubTree(work[n]) = work[n].id.entries
  BY DEF SubTree
<1>9. \A n \in Names : ~HasConflict(from[n]) => \A m \in Names : ~IsConflict(SubTree(from[n])[m])
  <2>1. \A m \in Names : ~IsConflict(EmptyTree[m])
    BY DEF EmptyTree, NoEntry, IsConflict
  <2> QED BY <2>1 DEF HasConflict, SubTree
<1>10. /\ job'.phase = "apply" /\ job'.base = from /\ job'.scan = work /\ job'.tree = from
       /\ job'.todo = todo /\ job'.known = trees
       /\ job' = [phase |-> job'.phase, rev |-> job'.rev, new |-> job'.new, base |-> job'.base,
                  scan |-> job'.scan, known |-> job'.known, tree |-> job'.tree, todo |-> job'.todo]
  BY <1>1
<1>11. \A c \in todo : \E n \in Names : /\ c = [path |-> c.path, entry |-> c.entry]
                                        /\ c.path = <<n>> \/ \E m \in Names : c.path = <<n, m>>
                                        /\ Leaf(c.entry)
  <2> HIDE DEF S, todo
  <2> QED BY <1>5, <1>6
<1>12. \A n \in Names : IsTree(from[n]) \/ SubTree(from[n]) = EmptyTree
  BY DEF SubTree
<1> HIDE DEF from, todo
<1>13. JobInv'
  BY <1>2, <1>3, <1>4, <1>10, <1>11 DEF JobInv
<1>14. TipInv'
  BY <1>2 DEF IInv, TipInv
<1>15. ASSUME NEW n \in Names PROVE Comes(n)'
  <2>1. PendingAt(n)' = S(n)
    BY <1>7, <1>10 DEF PendingAt
  <2> HIDE DEF S
  <2>2. Untouched(n)' => PendingAt(n)' = {} /\ job'.tree[n] = job'.scan[n]
    BY <1>6, <1>10, <2>1 DEF Untouched
  <2>3. FileChanged(n)' =>
          /\ PendingAt(n)' \subseteq {[path |-> <<n>>, entry |-> job'.scan[n]]}
          /\ PendingAt(n)' # {} \/ job'.tree[n] = job'.scan[n]
    <3> SUFFICES ASSUME FileChanged(n)'
                 PROVE  PendingAt(n)' = {[path |-> <<n>>, entry |-> job'.scan[n]]}
      OBVIOUS
    <3>1. from[n] # work[n] /\ ~(IsTree(work[n]) \/ IsTree(from[n]) \/ IsConflict(from[n]))
      BY <1>10 DEF FileChanged
    <3>2. S(n) = {[path |-> <<n>>, entry |-> work[n]]}
      BY <1>6, <3>1
    <3> QED BY <1>10, <2>1, <3>2
  <2>4. ASSUME NEW m PROVE ChangeOf(n, m)' = [path |-> <<n, m>>, entry |-> SubTree(work[n])[m]]
    BY <1>10 DEF ChangeOf
  <2>5. DirChanged(n)' =>
          /\ PendingAt(n)' \subseteq {ChangeOf(n, m)' : m \in Names}
          /\ \A m \in Names : ChangeOf(n, m)' \in PendingAt(n)' \/ SubTree(job'.tree[n])[m] = SubTree(job'.scan[n])[m]
          /\ IsTree(job'.tree[n]) \/ SubTree(job'.tree[n]) = EmptyTree
    <3> SUFFICES ASSUME DirChanged(n)'
                 PROVE  /\ PendingAt(n)' \subseteq {ChangeOf(n, m)' : m \in Names}
                        /\ \A m \in Names : \/ ChangeOf(n, m)' \in PendingAt(n)'
                                            \/ SubTree(job'.tree[n])[m] = SubTree(job'.scan[n])[m]
                        /\ IsTree(job'.tree[n]) \/ SubTree(job'.tree[n]) = EmptyTree
      OBVIOUS
    <3>1. IsTree(work[n]) /\ SubTree(work[n]) \in trees /\ \A m \in Names : ~IsConflict(SubTree(from[n])[m])
      BY <1>8, <1>9, <1>10 DEF DirChanged
    <3> QED BY <1>6, <1>10, <1>12, <2>1, <2>4, <3>1
  <2> QED BY <2>2, <2>3, <2>5 DEF Comes
<1> QED BY <1>2, <1>4, <1>13, <1>14, <1>15 DEF IInv, ScanInv

(* One change is applied to the entry it names, and no other entry moves. *)
LEMMA ApplyChangeInv ==
  ASSUME IInv, ApplyChange
  PROVE  IInv'
<1>1. job.phase = "apply" /\ UNCHANGED <<work, tip, current>>
  BY DEF ApplyChange
<1> PICK c \in job.todo :
      \E t : /\ t = ResolvePath(job.tree, c.path, c.entry)
             /\ trees' = trees \cup {t} \cup (IF IsTree(t[c.path[1]]) THEN {t[c.path[1]].id.entries} ELSE {})
             /\ job' = [job EXCEPT !.tree = t, !.todo = @ \ {c}]
  BY DEF ApplyChange
<1>2. PICK t : /\ t = ResolvePath(job.tree, c.path, c.entry)
               /\ trees' = trees \cup {t} \cup (IF IsTree(t[c.path[1]]) THEN {t[c.path[1]].id.entries} ELSE {})
               /\ job' = [job EXCEPT !.tree = t, !.todo = @ \ {c}]
  OBVIOUS
<1>3. /\ job # NoJob
      /\ job = [phase |-> job.phase, rev |-> job.rev, new |-> job.new, base |-> job.base,
                scan |-> job.scan, known |-> job.known, tree |-> job.tree, todo |-> job.todo]
      /\ RootTree(job.base) /\ Scanned(job.scan) /\ RootTree(job.tree) /\ Below(job.tree) \subseteq trees
  BY <1>1 DEF IInv, JobInv, NoJob
<1>4. job' = [phase |-> job.phase, rev |-> job.rev, new |-> job.new, base |-> job.base,
              scan |-> job.scan, known |-> job.known, tree |-> t, todo |-> job.todo \ {c}]
  BY <1>2, <1>3
<1>5. PICK n0 \in Names : /\ c = [path |-> c.path, entry |-> c.entry]
                          /\ c.path = <<n0>> \/ \E m \in Names : c.path = <<n0, m>>
                          /\ Leaf(c.entry)
  <2>1. \A d \in job.todo : \E k \in Names : /\ d = [path |-> d.path, entry |-> d.entry]
                                             /\ d.path = <<k>> \/ \E m \in Names : d.path = <<k, m>>
                                             /\ Leaf(d.entry)
    BY <1>3 DEF IInv, JobInv
  <2> QED BY <2>1
<1>6. c.path[1] = n0
  BY <1>5
<1>7. RootTree(t) /\ \A k \in Names \ {n0} : t[k] = job.tree[k]
  <2>1. CASE c.path = <<n0>>
    <3>1. t = ResolvePath(job.tree, <<n0>>, c.entry)
      BY <1>2, <2>1
    <3> QED BY <1>3, <1>5, <3>1, ResolvedTop
  <2>2. CASE c.path # <<n0>>
    <3>1. PICK m \in Names : c.path = <<n0, m>>
      BY <1>5, <2>2
    <3>2. t = ResolvePath(job.tree, <<n0, m>>, c.entry)
      BY <1>2, <3>1
    <3> QED BY <1>3, <1>5, <3>2, ResolvedBelow
  <2> QED BY <2>1, <2>2
<1>8. Below(t) \subseteq trees'
  <2> SUFFICES ASSUME NEW k \in Names, IsTree(t[k]) PROVE t[k].id.entries \in trees'
    BY DEF Below
  <2>1. CASE k = n0
    BY <1>2, <1>6, <2>1
  <2>2. CASE k # n0
    <3>1. t[k].id.entries \in Below(job.tree)
      BY <1>7, <2>2 DEF Below
    <3> QED BY <1>2, <1>3, <3>1
  <2> QED BY <2>1, <2>2
<1>9. JobInv'
  BY <1>1, <1>3, <1>4, <1>7, <1>8 DEF IInv, JobInv
<1>10. TipInv'
  BY <1>1, <1>2 DEF IInv, TipInv
<1>11. ASSUME NEW n \in Names PROVE Comes(n)'
  <2>1. /\ Untouched(n)' <=> Untouched(n)
        /\ FileChanged(n)' <=> FileChanged(n)
        /\ DirChanged(n)' <=> DirChanged(n)
        /\ \A m : ChangeOf(n, m)' = ChangeOf(n, m)
        /\ job'.scan = job.scan /\ job'.tree = t
    BY <1>4 DEF Untouched, FileChanged, DirChanged, ChangeOf
  <2>2. PendingAt(n)' = PendingAt(n) \ {c} /\ (c \in PendingAt(n) <=> n = n0)
    BY <1>2, <1>4, <1>6 DEF PendingAt
  <2>3. Comes(n)
    BY <1>3 DEF IInv, ScanInv
  <2>4. CASE n # n0
    <3>1. t[n] = job.tree[n] /\ PendingAt(n)' = PendingAt(n)
      BY <1>7, <2>2, <2>4
    <3> QED BY <2>1, <2>3, <3>1 DEF Comes
  <2>5. CASE n = n0
    <3>1. ~Untouched(n)
      BY <2>2, <2>3, <2>5 DEF Comes
    <3>2. ASSUME FileChanged(n)
          PROVE  PendingAt(n)' \subseteq {[path |-> <<n>>, entry |-> job.scan[n]]} /\ t[n] = job.scan[n]
      <4>1. c = [path |-> <<n>>, entry |-> job.scan[n]]
        BY <2>2, <2>3, <2>5, <3>2 DEF Comes
      <4>2. c.path = <<n>> /\ c.entry = job.scan[n]
        BY <4>1
      <4>3. t[n] = c.entry
        <5>1. t = ResolvePath(job.tree, <<n>>, c.entry)
          BY <1>2, <4>2
        <5> QED BY <1>3, <1>5, <5>1, ResolvedTop
      <4> QED BY <2>2, <2>3, <3>2, <4>2, <4>3 DEF Comes
    <3>3. ASSUME DirChanged(n)
          PROVE  /\ PendingAt(n)' \subseteq {ChangeOf(n, m) : m \in Names}
                 /\ \A m \in Names : ChangeOf(n, m) \in PendingAt(n)' \/ SubTree(t[n])[m] = SubTree(job.scan[n])[m]
                 /\ IsTree(t[n]) \/ SubTree(t[n]) = EmptyTree
      <4>1. PICK m \in Names : c = ChangeOf(n, m)
        BY <2>2, <2>3, <2>5, <3>3 DEF Comes
      <4>2. c.path = <<n, m>> /\ c.entry = SubTree(job.scan[n])[m]
        BY <4>1 DEF ChangeOf
      <4>3. /\ SubTree(t[n])[m] = c.entry
            /\ \A k \in Names \ {m} : SubTree(t[n])[k] = SubTree(job.tree[n])[k]
            /\ IsTree(t[n]) \/ SubTree(t[n]) = EmptyTree
        <5>1. t = ResolvePath(job.tree, <<n, m>>, c.entry)
          BY <1>2, <4>2
        <5> QED BY <1>3, <1>5, <5>1, ResolvedBelow
      <4>4. ASSUME NEW k \in Names \ {m} PROVE ChangeOf(n, k) # c
        <5>1. ChangeOf(n, k).path = <<n, k>> /\ <<n, k>> # <<n, m>>
          BY DEF ChangeOf
        <5> QED BY <4>2, <5>1
      <4>5. PendingAt(n)' \subseteq {ChangeOf(n, k) : k \in Names}
        BY <2>2, <2>3, <3>3 DEF Comes
      <4>6. ASSUME NEW k \in Names
            PROVE  ChangeOf(n, k) \in PendingAt(n)' \/ SubTree(t[n])[k] = SubTree(job.scan[n])[k]
        <5>1. CASE k = m
          BY <4>2, <4>3, <5>1
        <5>2. CASE k # m
          <6>1. ChangeOf(n, k) \in PendingAt(n) \/ SubTree(job.tree[n])[k] = SubTree(job.scan[n])[k]
            BY <2>3, <3>3 DEF Comes
          <6> QED BY <2>2, <4>3, <4>4, <5>2, <6>1
        <5> QED BY <5>1, <5>2
      <4> QED BY <4>3, <4>5, <4>6
    <3> QED BY <2>1, <3>1, <3>2, <3>3 DEF Comes
  <2> QED BY <2>4, <2>5
<1> QED BY <1>1, <1>9, <1>10, <1>11 DEF IInv, ScanInv

LEMMA RecordInv ==
  ASSUME IInv, Record
  PROVE  IInv'
<1>1. /\ job.phase = "apply" /\ job.todo = {} /\ trees' = trees \cup {job.tree}
      /\ job' = [job EXCEPT !.phase = "mark"] /\ UNCHANGED <<work, current>>
  BY DEF Record
<1>2. /\ DOMAIN tip' = DOMAIN tip \cup {job.rev} /\ tip' = [r \in DOMAIN tip' |-> tip'[r]]
      /\ tip'[job.rev].tree = job.tree
      /\ \A r \in DOMAIN tip : r # job.rev => tip'[r] = tip[r]
  <2> DEFINE b(r) == IF job.new THEN job.base ELSE tip[r].base
             row(r) == IF r = job.rev THEN [tree |-> job.tree, base |-> b(r)] ELSE tip[r]
  <2>1. tip' = [r \in DOMAIN tip \cup {job.rev} |-> row(r)]
    BY DEF Record
  <2>2. row(job.rev).tree = job.tree /\ \A r : r # job.rev => row(r) = tip[r]
    OBVIOUS
  <2> HIDE DEF row
  <2> QED BY <2>1, <2>2
<1>3. /\ job # NoJob
      /\ job' = [phase |-> "mark", rev |-> job.rev, new |-> job.new, base |-> job.base,
                 scan |-> job.scan, known |-> job.known, tree |-> job.tree, todo |-> job.todo]
      /\ RootTree(job.base) /\ Scanned(job.scan) /\ RootTree(job.tree) /\ Below(job.tree) \subseteq trees
  BY <1>1 DEF IInv, JobInv, NoJob
<1>4. Tables(job.tree) \subseteq trees'
  BY <1>1, <1>3 DEF Tables, Below
<1>5. TipInv'
  <2>1. ASSUME NEW r \in DOMAIN tip' PROVE RootTree(tip'[r].tree) /\ Tables(tip'[r].tree) \subseteq trees'
    <3>1. CASE r = job.rev
      BY <1>2, <1>3, <1>4, <3>1
    <3>2. CASE r # job.rev
      BY <1>1, <1>2, <3>2 DEF IInv, TipInv
    <3> QED BY <3>1, <3>2
  <2>2. tip' = [r \in DOMAIN tip' |-> tip'[r]] /\ current' \in DOMAIN tip' \cup {None}
    BY <1>1, <1>2 DEF IInv, TipInv
  <2> QED BY <2>1, <2>2 DEF TipInv
<1>6. JobInv'
  <2>1. job.rev \in DOMAIN tip' /\ tip'[job.rev].tree = job.tree
    BY <1>2
  <2> QED BY <1>1, <1>3, <2>1 DEF JobInv
<1>7. ASSUME NEW n \in Names PROVE Comes(n)'
  <2>1. /\ Untouched(n)' <=> Untouched(n)
        /\ FileChanged(n)' <=> FileChanged(n)
        /\ DirChanged(n)' <=> DirChanged(n)
        /\ \A m : ChangeOf(n, m)' = ChangeOf(n, m)
        /\ job'.scan = job.scan /\ job'.tree = job.tree /\ PendingAt(n)' = PendingAt(n)
    BY <1>3 DEF Untouched, FileChanged, DirChanged, ChangeOf, PendingAt
  <2>2. Comes(n)
    BY <1>3 DEF IInv, ScanInv
  <2> QED BY <2>1, <2>2 DEF Comes
<1> QED BY <1>1, <1>5, <1>6, <1>7 DEF IInv, ScanInv

LEMMA EndsInv ==
  ASSUME IInv, MoveMarker \/ Crash
  PROVE  IInv'
<1>1. job' = NoJob /\ UNCHANGED <<work, trees, tip>>
  BY DEF MoveMarker, Crash
<1>2. current' \in DOMAIN tip \cup {None}
  BY DEF MoveMarker, Crash, IInv, JobInv, NoJob, TipInv
<1>3. TipInv' /\ JobInv' /\ ScanInv'
  BY <1>1, <1>2 DEF IInv, TipInv, JobInv, ScanInv
<1> QED BY <1>1, <1>3 DEF IInv

LEMMA CheckoutInv ==
  ASSUME IInv, NEW r \in DOMAIN tip, Checkout(r)
  PROVE  IInv'
<1> DEFINE t == tip[r].tree
<1>1. PICK done : work' = [n \in Names |-> IF n \in done THEN Materialized(work[n], t[n]) ELSE work[n]]
  BY DEF Checkout
<1>2. job = NoJob /\ UNCHANGED <<trees, tip, job>> /\ current' \in {r, current}
  BY DEF Checkout, Idle
<1>3. RootTree(t)
  BY DEF IInv, TipInv
<1> HIDE DEF t
<1>4. ASSUME NEW e, Leaf(e) PROVE Leaf(Rendering(e)) /\ Rendering(e).kind = "blob"
  BY <1>4 DEF Leaf, Rendering, IsConflict, Blob
<1>5. ASSUME NEW n \in Names
      PROVE  /\ Leaf(work'[n]) \/ \E f \in {SubTree(work'[n])} : work'[n] = Dir(f) /\ Table(f)
             /\ work'[n].kind # "conflict" /\ \A m \in Names : SubTree(work'[n])[m].kind = "blob"
  <2> DEFINE old == work[n]
             e == t[n]
             d == Overlay(SubTree(old), e.id.entries)
  <2>1. Scanned(work) /\ Table(SubTree(old)) /\ \A m \in Names : SubTree(old)[m].kind = "blob"
    BY EntryOf DEF IInv, Scanned
  <2>2. /\ IsTree(e) => Table(e.id.entries)
        /\ ~IsTree(e) => Leaf(e)
    BY <1>3, EntryOf
  <2>3. work'[n] = old \/ (IsTree(e) /\ work'[n] = Dir(d)) \/ (~IsTree(e) /\ work'[n] = Rendering(e))
    BY <1>1 DEF Materialized
  <2>4. CASE work'[n] = old
    BY <2>1, <2>4 DEF Scanned, RootTree
  <2>5. CASE IsTree(e) /\ work'[n] = Dir(d)
    <3>1. Table(d) /\ \A m \in Names : d[m].kind = "blob"
      <4> DEFINE g == e.id.entries
                 f == SubTree(old)
      <4>1. Table(f) /\ Table(g) /\ \A m \in Names : f[m].kind = "blob"
        BY <2>1, <2>2, <2>5
      <4>2. d = Overlay(f, g)
        OBVIOUS
      <4> HIDE DEF f, g, d
      <4>3. d = [m \in Names |-> d[m]] /\ \A m \in Names : d[m] = Rendering(g[m]) \/ d[m] = f[m]
        BY <4>2 DEF Overlay
      <4> QED BY <1>4, <4>1, <4>3 DEF Table
    <3> HIDE DEF d
    <3>2. SubTree(Dir(d)) = d /\ Dir(d).kind = "tree"
      BY SubTreeOf DEF Dir
    <3> QED BY <2>5, <3>1, <3>2
  <2>6. CASE ~IsTree(e) /\ work'[n] = Rendering(e)
    <3>1. Leaf(work'[n]) /\ work'[n].kind = "blob"
      BY <1>4, <2>2, <2>6
    <3>2. SubTree(work'[n]) = EmptyTree
      BY <3>1 DEF SubTree, IsTree
    <3>3. \A m \in Names : EmptyTree[m].kind = "blob"
      BY DEF EmptyTree, NoEntry
    <3> QED BY <3>1, <3>2, <3>3
  <2> QED BY <2>3, <2>4, <2>5, <2>6
<1>6. Scanned(work')
  <2>1. work' = [n \in Names |-> work'[n]]
    BY <1>1
  <2> QED BY <1>5, <2>1 DEF Scanned, RootTree
<1>7. TipInv' /\ JobInv' /\ ScanInv'
  BY <1>2 DEF IInv, TipInv, JobInv, ScanInv
<1> QED BY <1>6, <1>7 DEF IInv

LEMMA RebaseInv ==
  ASSUME IInv, NEW r \in DOMAIN tip, NEW onto \in DOMAIN tip, Rebase(r, onto)
  PROVE  IInv'
<1> DEFINE t == MergeTrees(tip[r].base, tip[r].tree, tip[onto].tree)
           row == [tree |-> t, base |-> tip[onto].tree]
<1>1. /\ job = NoJob /\ trees' = trees \cup Tables(t) /\ tip' = [tip EXCEPT ![r] = row]
      /\ UNCHANGED <<work, current, job>>
  BY DEF Rebase, Idle
<1>2. RootTree(t)
  BY MergedTree DEF IInv, TipInv
<1>3. row.tree = t
  OBVIOUS
<1> HIDE DEF t, row
<1>4. TipInv'
  BY <1>1, <1>2, <1>3 DEF IInv, TipInv
<1>5. JobInv' /\ ScanInv'
  BY <1>1 DEF JobInv, ScanInv
<1> QED BY <1>1, <1>4, <1>5 DEF IInv

LEMMA InitInv == Init => IInv
<1> SUFFICES ASSUME Init PROVE IInv
  OBVIOUS
<1>1. Scanned(work) /\ JobInv /\ ScanInv
  BY EmptyIsTable DEF Init, JobInv, ScanInv
<1>2. TipInv
  BY DEF Init, TipInv
<1> QED BY <1>1, <1>2 DEF IInv

LEMMA NextInv ==
  ASSUME IInv, [Next]_vars
  PROVE  IInv'
<1>1. ASSUME NEW n \in Names, NEW e \in {NoEntry} \cup {Blob(b) : b \in Blobs}
      PROVE  /\ Leaf(e) /\ e.kind = "blob"
             /\ Edit(n, e) => IInv'
             /\ \A m \in Names : EditBelow(n, m, e) => IInv'
  <2>1. Leaf(e) /\ e.kind = "blob"
    BY DEF Leaf, NoEntry, Blob
  <2>2. ASSUME NEW m \in Names, EditBelow(n, m, e) PROVE IInv'
    <3> DEFINE old == SubTree(work[n])
               f == [old EXCEPT ![m] = e]
               x == Dir(f)
    <3>1. Table(old) /\ \A k \in Names : old[k].kind = "blob"
      BY EntryOf DEF IInv, Scanned
    <3>2. Edit(n, x)
      BY <2>2 DEF EditBelow
    <3> HIDE DEF old
    <3>3. Table(f) /\ \A k \in Names : f[k].kind = "blob"
      BY <2>1, <3>1 DEF Table
    <3> HIDE DEF f
    <3>4. \E g : x = Dir(g) /\ Table(g) /\ \A k \in Names : g[k].kind = "blob"
      BY <3>3
    <3> HIDE DEF x
    <3> QED BY <3>2, <3>4, EditInv
  <2>3. Edit(n, e) => IInv'
    BY <2>1, EditInv
  <2> QED BY <2>1, <2>2, <2>3
<1>2. CASE UNCHANGED vars
  <2>1. UNCHANGED <<work, trees, tip, current, job>>
    BY <1>2 DEF vars
  <2>2. TipInv' /\ JobInv' /\ Scanned(work)'
    BY <2>1 DEF IInv, TipInv, JobInv
  <2>3. ASSUME NEW n \in Names
        PROVE  Comes(n)' <=> Comes(n)
    BY <2>1 DEF Comes, Untouched, FileChanged, DirChanged, PendingAt, ChangeOf
  <2>4. ScanInv'
    BY <2>1, <2>3 DEF IInv, ScanInv
  <2> QED BY <2>2, <2>4 DEF IInv
<1> QED BY <1>1, <1>2, BeginCommitInv, ApplyChangeInv, RecordInv, EndsInv, CheckoutInv, RebaseInv DEF Next

LEMMA Invariance == Spec => []IInv
BY InitInv, NextInv, PTL DEF Spec

-----------------------------------------------------------------------------
(***************************************************************************)
(* The marker names a revision that exists, and the trees of a revision    *)
(* are stored, also after a crash in the middle of a commit.               *)
(***************************************************************************)
THEOREM TreesAreStored == Spec => []RevisionTreesAreStored
<1>1. IInv => RevisionTreesAreStored
  BY DEF IInv, TipInv, RevisionTreesAreStored
<1> QED BY <1>1, Invariance, PTL

(***************************************************************************)
(* A commit records what the scan found wherever the diff compares the two *)
(* sides of a name, in whatever order the changes are applied, and leaves  *)
(* the entries alone that it found unchanged.                              *)
(***************************************************************************)
THEOREM ScansAreCommitted == Spec => []ScanIsCommitted
<1>1. ASSUME IInv, Recorded, NEW n \in Names
      PROVE  \/ Result(n) = job.scan[n]
             \/ /\ job.scan[n] # job.base[n]
                /\ IsTree(job.scan[n]) \/ IsTree(job.base[n]) \/ IsConflict(job.base[n])
                /\ \/ ~(IsTree(job.scan[n]) /\ job.scan[n].id.entries \in job.known \ {EmptyTree})
                   \/ HasConflict(job.base[n])
  <2>1. /\ job # NoJob /\ Result(n) = job.tree[n] /\ PendingAt(n) = {}
        /\ RootTree(job.tree) /\ Scanned(job.scan)
    BY <1>1 DEF IInv, JobInv, Recorded, NoJob, Result, PendingAt
  <2>2. Comes(n)
    BY <1>1, <2>1 DEF IInv, ScanInv
  <2>3. CASE Untouched(n) \/ FileChanged(n)
    BY <2>1, <2>2, <2>3 DEF Comes
  <2>4. CASE DirChanged(n)
    <3> DEFINE f == SubTree(job.tree[n])
               g == SubTree(job.scan[n])
    <3>1. \A m \in Names : f[m] = g[m]
      BY <2>1, <2>2, <2>4 DEF Comes
    <3>2. Table(f) /\ Table(g)
      BY <2>1, EntryOf DEF Scanned
    <3>3. f = g
      <4> HIDE DEF f, g
      <4> QED BY <3>1, <3>2 DEF Table
    <3>4. job.scan[n] = Dir(g) /\ g # EmptyTree
      BY <2>1, <2>4, EntryOf DEF Scanned, DirChanged
    <3>5. job.tree[n] = Dir(f)
      BY <2>1, <2>2, <2>4, <3>3, <3>4, EntryOf DEF Comes
    <3> QED BY <2>1, <3>3, <3>4, <3>5
  <2> QED BY <2>3, <2>4 DEF Untouched, FileChanged, DirChanged
<1>2. IInv => ScanIsCommitted
  BY <1>1 DEF ScanIsCommitted
<1> QED BY <1>2, Invariance, PTL

-----------------------------------------------------------------------------
(***************************************************************************)
(* The merge.  Its rules are a case analysis on the three ids of one       *)
(* place; that the places of a merged tree are the merged places needs the *)
(* inductive invariant that trees have two levels.                         *)
(*                                                                         *)
(* No conflict object has the zero id: it is the one id that names no      *)
(* object (object.go ID.IsZero).                                           *)
(***************************************************************************)
ZeroNamesNothing == \A b, o, t : Conflict(b, o, t) # Zero

IsTable(f) == f = [n \in Names |-> f[n]]

(* A tree with leaves only in its directories. *)
TwoLevels(t) ==
  /\ IsTable(t)
  /\ \A n \in Names : /\ IsTable(SubTree(t[n]))
                      /\ \A m \in Names : ~IsTree(SubTree(t[n])[m])

WalkInv ==
  /\ tree = [s \in Holders |-> tree[s]]
  /\ TwoLevels(base)
  /\ \A s \in Holders : TwoLevels(tree[s])

-----------------------------------------------------------------------------
(* The rules for one place. *)
LEMMA MergeNameIsDiff3 ==
  ASSUME NEW b, NEW o, NEW t
  PROVE  IF Changed3(b.id, o.id, t.id)
         THEN MergeName(b, o, t) = ConflictEntry(b, o, t)
         ELSE MergeName(b, o, t).id = Diff3(b.id, o.id, t.id)
<1> DEFINE m == MergeName(b, o, t)
<1>1. CASE Changed3(b.id, o.id, t.id)
  <2>1. ~TakesOurs(b, o, t) /\ ~TakesTheirs(b, o, t) /\ ~TakesDeletion(b, o, t)
    BY <1>1 DEF Changed3, TakesOurs, TakesTheirs, TakesDeletion, Present
  <2>2. Present(b) \/ Present(o) \/ Present(t)
    BY <1>1 DEF Changed3, Present
  <2> QED BY <1>1, <2>1, <2>2 DEF MergeName, MergeLeaf
<1>2. CASE ~Changed3(b.id, o.id, t.id)
  <2>1. CASE ~(Present(b) \/ Present(o) \/ Present(t))
    BY <1>2, <2>1 DEF MergeName, NoEntry, Present, Diff3
  <2>2. CASE TakesOurs(b, o, t)
    <3>1. Present(o)
      BY <2>2 DEF TakesOurs
    <3>2. m = o
      BY <2>2, <3>1 DEF MergeName, MergeLeaf
    <3> QED BY <1>2, <2>2, <3>2 DEF TakesOurs, Diff3, Present, Changed3
  <2>3. CASE TakesTheirs(b, o, t) /\ ~TakesOurs(b, o, t)
    <3>1. Present(t)
      BY <2>3 DEF TakesTheirs
    <3>2. m = t
      BY <2>3, <3>1 DEF MergeName, MergeLeaf
    <3> QED BY <1>2, <2>3, <3>2 DEF TakesTheirs, Diff3, Present
  <2>4. CASE TakesDeletion(b, o, t) /\ ~TakesOurs(b, o, t) /\ ~TakesTheirs(b, o, t)
    <3>1. m = NoEntry
      BY <2>4 DEF MergeName, MergeLeaf, TakesDeletion
    <3> QED BY <1>2, <2>4, <3>1 DEF TakesDeletion, Diff3, Present, NoEntry
  <2>5. CASE /\ ~TakesOurs(b, o, t) /\ ~TakesTheirs(b, o, t) /\ ~TakesDeletion(b, o, t)
             /\ Present(b) \/ Present(o) \/ Present(t)
    BY <1>2, <2>5 DEF TakesOurs, TakesTheirs, TakesDeletion, Changed3, Present
  <2> QED BY <1>2, <2>1, <2>2, <2>3, <2>4, <2>5
<1> QED BY <1>1, <1>2

LEMMA MergeNameTakes ==
  ASSUME NEW b, NEW o, NEW t
  PROVE  \/ MergeName(b, o, t) = o \/ MergeName(b, o, t) = t
         \/ MergeName(b, o, t) = NoEntry \/ MergeName(b, o, t) = ConflictEntry(b, o, t)
BY DEF MergeName, MergeLeaf

LEMMA MergeNameIsNoTree ==
  ASSUME NEW b, NEW o, NEW t, ~IsTree(o), ~IsTree(t)
  PROVE  ~IsTree(MergeName(b, o, t))
<1>1. ~IsTree(NoEntry) /\ ~IsTree(ConflictEntry(b, o, t))
  BY DEF IsTree, NoEntry, ConflictEntry
<1> QED BY <1>1, MergeNameTakes

(* Both sides of a conflict are among the terms that can be chosen. *)
LEMMA ConflictHasSides ==
  ASSUME NEW b, NEW o, NEW t, NEW e \in {o, t}, Present(e)
  PROVE  \E i \in Sides(ConflictEntry(b, o, t)) : ConflictEntry(b, o, t).id.adds[i].id = e.id
<1> DEFINE x == [id |-> o.id, label |-> "ours"]
           y == [id |-> t.id, label |-> "theirs"]
           z == [id |-> Zero, label |-> "ours"]
           w == [id |-> Zero, label |-> "theirs"]
           adds == ConflictEntry(b, o, t).id.adds
<1>1. /\ Present(o) /\ Present(t) => adds = (<<x>> \o <<y>>) \o <<>>
      /\ Present(o) /\ ~Present(t) => adds = (<<x>> \o <<>>) \o <<w>>
      /\ ~Present(o) /\ Present(t) => adds = (<<>> \o <<y>>) \o <<z>>
  BY DEF ConflictEntry, Conflict, Term
<1>2. Sides(ConflictEntry(b, o, t)) = DOMAIN adds
  BY DEF Sides
<1>3. x.id = o.id /\ y.id = t.id
  OBVIOUS
<1> HIDE DEF x, y, z, w, adds
<1>4. /\ 1 \in DOMAIN ((<<x>> \o <<y>>) \o <<>>) /\ ((<<x>> \o <<y>>) \o <<>>)[1] = x
      /\ 2 \in DOMAIN ((<<x>> \o <<y>>) \o <<>>) /\ ((<<x>> \o <<y>>) \o <<>>)[2] = y
      /\ 1 \in DOMAIN ((<<x>> \o <<>>) \o <<w>>) /\ ((<<x>> \o <<>>) \o <<w>>)[1] = x
      /\ 1 \in DOMAIN ((<<>> \o <<y>>) \o <<z>>) /\ ((<<>> \o <<y>>) \o <<z>>)[1] = y
  OBVIOUS
<1>5. \E i \in DOMAIN adds : adds[i].id = e.id
  <2>1. CASE e = o /\ Present(t)
    BY <1>1, <1>3, <1>4, <2>1
  <2>2. CASE e = o /\ ~Present(t)
    BY <1>1, <1>3, <1>4, <2>2
  <2>3. CASE e = t /\ Present(o)
    BY <1>1, <1>3, <1>4, <2>3
  <2>4. CASE e = t /\ ~Present(o)
    BY <1>1, <1>3, <1>4, <2>4
  <2> QED BY <2>1, <2>2, <2>3, <2>4
<1> QED BY <1>2, <1>5 DEF adds

(* What a side wrote since the base is in the merge of the place. *)
LEMMA PlaceKeepsChanges ==
  ASSUME ZeroNamesNothing, NEW b, NEW o, NEW t, ~IsTree(b), ~IsTree(o), ~IsTree(t),
         NEW e \in {o, t}, Present(e), e.id # b.id
  PROVE  Kept(e, MergeName(b, o, t))
<1> DEFINE m == MergeName(b, o, t)
<1>1. ~IsTree(m)
  BY MergeNameIsNoTree
<1>2. CASE Changed3(b.id, o.id, t.id)
  <2>1. m = ConflictEntry(b, o, t)
    BY <1>2, MergeNameIsDiff3
  <2>2. Present(ConflictEntry(b, o, t)) /\ IsConflict(ConflictEntry(b, o, t))
    BY DEF ZeroNamesNothing, ConflictEntry, Present, IsConflict
  <2>3. \E i \in Sides(ConflictEntry(b, o, t)) : ConflictEntry(b, o, t).id.adds[i].id = e.id
    BY ConflictHasSides
  <2> HIDE DEF m
  <2>4. IsLeaf(m) /\ IsConflict(m) /\ \E i \in Sides(m) : m.id.adds[i].id = e.id
    BY <1>1, <2>1, <2>2, <2>3 DEF IsLeaf
  <2> QED BY <2>4 DEF Kept, m
<1>3. CASE ~Changed3(b.id, o.id, t.id)
  <2>1. m.id = Diff3(b.id, o.id, t.id)
    BY <1>3, MergeNameIsDiff3
  <2>2. m.id = e.id
    BY <1>3, <2>1 DEF Diff3, Changed3
  <2> QED BY <1>1, <2>2 DEF Kept, IsLeaf, Present
<1> QED BY <1>2, <1>3

(* What one side deleted and the other left alone is not in the merge. *)
LEMMA PlaceStaysDeleted ==
  ASSUME NEW b, NEW o, NEW t, Present(b),
         (~Present(o) /\ t = b) \/ (~Present(t) /\ o = b)
  PROVE  ~Present(MergeName(b, o, t))
<1>1. ~Changed3(b.id, o.id, t.id) /\ Diff3(b.id, o.id, t.id) = Zero
  BY DEF Changed3, Diff3, Present
<1> QED BY <1>1, MergeNameIsDiff3 DEF Present

-----------------------------------------------------------------------------
(* The places of a merged tree. *)
LEMMA EmptyHasTwoLevels == TwoLevels(EmptyTree)
<1>1. \A n \in Names : EmptyTree[n] = NoEntry /\ ~IsTree(NoEntry) /\ SubTree(NoEntry) = EmptyTree
  BY DEF EmptyTree, NoEntry, SubTree, IsTree
<1>2. IsTable(EmptyTree)
  BY DEF EmptyTree, IsTable
<1> QED BY <1>1, <1>2 DEF TwoLevels

(* The entry r is the merge of x, y and z, and so are the entries below it. *)
Merges(r, x, y, z) ==
  /\ ~(IsTree(x) \/ IsTree(y) \/ IsTree(z)) => r = MergeName(x, y, z)
  /\ IsTable(SubTree(r))
  /\ \A m \in Names :
       SubTree(r)[m] = MergeName(SubTree(x)[m], SubTree(y)[m], SubTree(z)[m])

LEMMA MergedEntry ==
  ASSUME NEW x, NEW y, NEW z, NEW r, r = MergeEntry(x, y, z)
  PROVE  Merges(r, x, y, z)
<1> DEFINE sub == [m \in Names |-> MergeName(SubTree(x)[m], SubTree(y)[m], SubTree(z)[m])]
<1>1. r = MergeEntry(x, y, z)
  OBVIOUS
<1>2. CASE ~(IsTree(x) \/ IsTree(y) \/ IsTree(z))
  <2>1. r = MergeName(x, y, z) /\ ~IsTree(r)
    BY <1>1, <1>2, MergeNameIsNoTree DEF MergeEntry
  <2>2. SubTree(r) = EmptyTree /\ SubTree(x) = EmptyTree /\ SubTree(y) = EmptyTree /\ SubTree(z) = EmptyTree
    BY <1>2, <2>1 DEF SubTree
  <2>3. \A m \in Names : EmptyTree[m] = NoEntry
    BY DEF EmptyTree
  <2>4. MergeName(NoEntry, NoEntry, NoEntry) = NoEntry
    BY DEF MergeName, NoEntry, Present
  <2>5. IsTable(EmptyTree)
    BY DEF EmptyTree, IsTable
  <2> QED BY <2>1, <2>2, <2>3, <2>4, <2>5 DEF Merges
<1>3. CASE IsTree(x) \/ IsTree(y) \/ IsTree(z)
  <2>1. (r = NoEntry /\ sub = EmptyTree) \/ r = Dir(sub)
    BY <1>1, <1>3 DEF MergeEntry
  <2>2. SubTree(NoEntry) = EmptyTree /\ \A f : SubTree(Dir(f)) = f
    BY DEF SubTree, NoEntry, Dir, IsTree
  <2>3. IsTable(sub)
    BY DEF IsTable
  <2>4. \A m \in Names : sub[m] = MergeName(SubTree(x)[m], SubTree(y)[m], SubTree(z)[m])
    OBVIOUS
  <2> HIDE DEF sub
  <2>5. SubTree(r) = sub
    BY <2>1, <2>2
  <2> QED BY <1>3, <2>3, <2>4, <2>5 DEF Merges
<1> QED BY <1>2, <1>3

LEMMA MergedPlaces ==
  ASSUME NEW b, NEW o, NEW t, NEW r, r = MergeTrees(b, o, t), NEW n \in Names
  PROVE  Merges(r[n], b[n], o[n], t[n])
<1>1. r[n] = MergeEntry(b[n], o[n], t[n])
  BY DEF MergeTrees
<1> QED BY <1>1, MergedEntry

LEMMA MergedHasTwoLevels ==
  ASSUME NEW b, NEW o, NEW t, TwoLevels(o), TwoLevels(t)
  PROVE  TwoLevels(MergeTrees(b, o, t))
<1> DEFINE r == MergeTrees(b, o, t)
<1>1. IsTable(r)
  BY DEF MergeTrees, IsTable
<1>2. ASSUME NEW n \in Names
      PROVE  /\ IsTable(SubTree(r[n]))
             /\ \A m \in Names : ~IsTree(SubTree(r[n])[m])
  <2>1. Merges(r[n], b[n], o[n], t[n])
    BY MergedPlaces
  <2>2. \A m \in Names : ~IsTree(SubTree(o[n])[m]) /\ ~IsTree(SubTree(t[n])[m])
    BY DEF TwoLevels
  <2> HIDE DEF r
  <2> QED BY <2>1, <2>2, MergeNameIsNoTree DEF Merges
<1> QED BY <1>1, <1>2 DEF TwoLevels

LEMMA ResolvedHasTwoLevels ==
  ASSUME NEW t, TwoLevels(t), NEW path \in Paths, NEW e, ~IsTree(e)
  PROVE  TwoLevels(ResolvePath(t, path, e))
<1> DEFINE u == ResolvePath(t, path, e)
           old == SubTree(t[path[1]])
           sub == [old EXCEPT ![path[2]] = e]
           y == IF sub = EmptyTree THEN NoEntry ELSE Dir(sub)
<1>1. path[1] \in Names /\ (Len(path) = 1 \/ path[2] \in Names)
  BY DEF Paths
<1>2. SubTree(e) = EmptyTree /\ SubTree(NoEntry) = EmptyTree /\ \A f : SubTree(Dir(f)) = f
  BY DEF SubTree, NoEntry, Dir, IsTree
<1>3. \E x : u = [t EXCEPT ![path[1]] = x] /\ (x = e \/ (x = y /\ Len(path) # 1))
  <2>1. u = IF Len(path) = 1 THEN [t EXCEPT ![path[1]] = e] ELSE [t EXCEPT ![path[1]] = y]
    BY DEF ResolvePath
  <2> HIDE DEF u, y
  <2>2. CASE Len(path) = 1
    <3>1. u = [t EXCEPT ![path[1]] = e]
      BY <2>1, <2>2
    <3> QED BY <3>1
  <2>3. CASE Len(path) # 1
    <3>1. u = [t EXCEPT ![path[1]] = y]
      BY <2>1, <2>3
    <3> QED BY <2>3, <3>1
  <2> QED BY <2>2, <2>3
<1> HIDE DEF u
<1> PICK x : u = [t EXCEPT ![path[1]] = x] /\ (x = e \/ (x = y /\ Len(path) # 1))
  BY <1>3
<1>4. /\ IsTable(old) /\ \A m \in Names : ~IsTree(old[m])
      /\ IsTable(t)
  BY <1>1 DEF TwoLevels
<1>5. \A n \in Names : EmptyTree[n] = NoEntry
  BY DEF EmptyTree
<1>6. IsTable(EmptyTree) /\ ~IsTree(NoEntry)
  BY DEF EmptyTree, IsTree, NoEntry, IsTable
<1>7. IsTable(SubTree(x)) /\ \A m \in Names : ~IsTree(SubTree(x)[m])
  <2>1. CASE x = e
    BY <1>2, <1>5, <1>6, <2>1
  <2>2. CASE x = y /\ Len(path) # 1
    <3> HIDE DEF old
    <3>1. IsTable(sub) /\ \A m \in Names : ~IsTree(sub[m])
      BY <1>1, <1>4, <2>2 DEF IsTable
    <3> HIDE DEF sub
    <3>2. SubTree(y) = sub
      BY <1>2
    <3> HIDE DEF y
    <3> QED BY <2>2, <3>1, <3>2
  <2> QED BY <2>1, <2>2
<1>8. IsTable(u) /\ \A n \in Names : u[n] = IF n = path[1] THEN x ELSE t[n]
  BY <1>1, <1>4 DEF IsTable
<1>9. TwoLevels(u)
  <2>1. ASSUME NEW n \in Names
        PROVE  /\ IsTable(SubTree(u[n]))
               /\ \A m \in Names : ~IsTree(SubTree(u[n])[m])
    <3>1. CASE n = path[1]
      BY <1>7, <1>8, <3>1
    <3>2. CASE n # path[1]
      <4>1. u[n] = t[n]
        BY <1>8, <3>2
      <4> QED BY <4>1 DEF TwoLevels
    <3> QED BY <3>1, <3>2
  <2> QED BY <1>8, <2>1 DEF TwoLevels
<1> QED BY <1>9 DEF u

-----------------------------------------------------------------------------
LEMMA WalkInitInv == WalkInit => WalkInv
<1> SUFFICES ASSUME WalkInit PROVE WalkInv
  OBVIOUS
<1>1. tree = [s \in Holders |-> tree[s]] /\ \A s \in Holders : tree[s] = EmptyTree
  BY DEF WalkInit
<1> QED BY <1>1, EmptyHasTwoLevels DEF WalkInit, WalkInv

LEMMA WalkNextInv ==
  ASSUME WalkInv, [WalkNext]_walkVars
  PROVE  WalkInv'
<1>1. ASSUME NEW s \in Holders, NEW t, TwoLevels(t), tree' = [tree EXCEPT ![s] = t],
             base' \in {base, tree["theirs"]}
      PROVE  WalkInv'
  <2>1. TwoLevels(base') /\ "theirs" \in Holders
    BY <1>1 DEF WalkInv, Holders
  <2>2. \A x \in Holders : tree'[x] = IF x = s THEN t ELSE tree[x]
    BY <1>1 DEF WalkInv
  <2>3. tree' = [x \in Holders |-> tree'[x]]
    BY <1>1 DEF WalkInv
  <2>4. \A x \in Holders : TwoLevels(tree'[x])
    BY <1>1, <2>2 DEF WalkInv
  <2> QED BY <2>1, <2>3, <2>4 DEF WalkInv
<1>2. ASSUME NEW s \in Holders, NEW path \in Paths, NEW e \in {NoEntry} \cup {Blob(b) : b \in Blobs},
             EditPath(s, path, e)
      PROVE  WalkInv'
  <2> DEFINE t == ResolvePath(tree[s], path, e)
  <2>1. tree' = [tree EXCEPT ![s] = t] /\ base' = base
    BY <1>2 DEF EditPath
  <2>2. ~IsTree(e)
    BY DEF IsTree, NoEntry, Blob
  <2>3. TwoLevels(t)
    BY <2>2, ResolvedHasTwoLevels DEF WalkInv
  <2> HIDE DEF t
  <2> QED BY <1>1, <2>1, <2>3
<1>3. CASE RebaseOnTip
  <2> DEFINE t == MergeTrees(base, tree["ours"], tree["theirs"])
  <2>1. tree' = [tree EXCEPT !["ours"] = t] /\ base' = tree["theirs"] /\ "ours" \in Holders
    BY <1>3 DEF RebaseOnTip, Holders
  <2>2. TwoLevels(t)
    BY MergedHasTwoLevels DEF WalkInv, Holders
  <2> HIDE DEF t
  <2> QED BY <1>1, <2>1, <2>2
<1>4. ASSUME NEW s \in Holders, NEW path \in Paths, Resolve(s, path) PROVE WalkInv'
  <2>1. PICK i : /\ tree' = [tree EXCEPT ![s] = ResolvePath(tree[s], path, Chosen(FindEntry(tree[s], path), i))]
                 /\ base' = base
    BY <1>4 DEF Resolve
  <2> DEFINE e == Chosen(FindEntry(tree[s], path), i)
             t == ResolvePath(tree[s], path, e)
  <2>2. ~IsTree(e)
    BY DEF Chosen, Blob, IsTree
  <2>3. TwoLevels(t)
    <3> HIDE DEF e
    <3> QED BY <2>2, ResolvedHasTwoLevels DEF WalkInv
  <2>4. tree' = [tree EXCEPT ![s] = t]
    BY <2>1
  <2> HIDE DEF t
  <2> QED BY <1>1, <2>1, <2>3, <2>4
<1>5. CASE Derive
  <2>1. tree' = [tree EXCEPT !["theirs"] = tree["ours"]] /\ base' = base
    BY <1>5 DEF Derive
  <2>2. TwoLevels(tree["ours"]) /\ "theirs" \in Holders
    BY DEF WalkInv, Holders
  <2> QED BY <1>1, <2>1, <2>2
<1>6. CASE UNCHANGED walkVars
  BY <1>6 DEF WalkInv, walkVars
<1> QED BY <1>2, <1>3, <1>4, <1>5, <1>6 DEF WalkNext

LEMMA WalkInvariance == WalkSpec => []WalkInv
BY WalkInitInv, WalkNextInv, PTL DEF WalkSpec

(***************************************************************************)
(* Where no directory is involved, the cascade of rules of mergeEntry is   *)
(* the three-way rule.                                                     *)
(***************************************************************************)
THEOREM LeavesMergeByDiff3 == WalkSpec => []LeafMergeIsDiff3
<1>1. WalkInv => LeafMergeIsDiff3
  <2> SUFFICES ASSUME WalkInv, NEW n \in Names,
                      ~(IsTree(base[n]) \/ IsTree(tree["ours"][n]) \/ IsTree(tree["theirs"][n]))
               PROVE  IF Changed3(base[n].id, tree["ours"][n].id, tree["theirs"][n].id)
                      THEN Merged[n] = ConflictEntry(base[n], tree["ours"][n], tree["theirs"][n])
                      ELSE Merged[n].id = Diff3(base[n].id, tree["ours"][n].id, tree["theirs"][n].id)
    BY DEF LeafMergeIsDiff3
  <2> DEFINE b == base[n]  o == tree["ours"][n]  t == tree["theirs"][n]
  <2>1. Merged[n] = MergeName(b, o, t)
    <3>1. Merged = MergeTrees(base, tree["ours"], tree["theirs"])
      BY DEF Merged
    <3>2. n \in Names => Merged[n] = MergeName(base[n], tree["ours"][n], tree["theirs"][n])
      BY <3>1, MergedPlaces DEF Merges
    <3> QED BY <3>2
  <2> HIDE DEF b, o, t
  <2>2. IF Changed3(b.id, o.id, t.id)
        THEN Merged[n] = ConflictEntry(b, o, t)
        ELSE Merged[n].id = Diff3(b.id, o.id, t.id)
    BY <2>1, MergeNameIsDiff3
  <2> QED BY <2>2 DEF b, o, t
<1> QED BY <1>1, WalkInvariance, PTL

(***************************************************************************)
(* A rebase keeps what either side wrote and what either side deleted, at  *)
(* the top and in directories, where no file stands against a directory.   *)
(***************************************************************************)
THEOREM RebasesKeepChanges ==
  ASSUME ZeroNamesNothing
  PROVE  WalkSpec => []ChangesOfBothSidesStay
<1>1. ASSUME WalkInv, NEW path \in Paths, ~Clash(path[1])
      PROVE  StaysDeletedAt(path) /\ \A s \in Holders : SurvivesAt(s, path)
  <2> DEFINE b == At(base, path)
             o == At(tree["ours"], path)
             t == At(tree["theirs"], path)
             m == At(Merged, path)
             n == path[1]
  <2>0. Merged = MergeTrees(base, tree["ours"], tree["theirs"])
    BY DEF Merged
  <2>1. n \in Names /\ (Len(path) = 1 \/ (Len(path) # 1 /\ path[2] \in Names))
    BY DEF Paths
  <2>2. TwoLevels(base) /\ TwoLevels(tree["ours"]) /\ TwoLevels(tree["theirs"])
    BY <1>1 DEF WalkInv, Holders
  <2>3. ASSUME Len(path) = 1, IsLeaf(b) \/ IsLeaf(o) \/ IsLeaf(t)
        PROVE  ~IsTree(b) /\ ~IsTree(o) /\ ~IsTree(t) /\ m = MergeName(b, o, t)
    <3>1. b = base[n] /\ o = tree["ours"][n] /\ t = tree["theirs"][n] /\ m = Merged[n]
      BY <2>3 DEF At, FindEntry
    <3>2. ~IsTree(base[n]) /\ ~IsTree(tree["ours"][n]) /\ ~IsTree(tree["theirs"][n])
      BY <1>1, <2>3, <3>1 DEF Clash, IsLeaf
    <3>3. Merged[n] = MergeName(base[n], tree["ours"][n], tree["theirs"][n])
      BY <2>0, <2>1, <3>2, MergedPlaces DEF Merges
    <3> HIDE DEF b, o, t, m, n
    <3> QED BY <3>1, <3>2, <3>3
  <2>4. ASSUME Len(path) # 1
        PROVE  ~IsTree(b) /\ ~IsTree(o) /\ ~IsTree(t) /\ m = MergeName(b, o, t)
    <3> DEFINE k == path[2]
    <3>1. /\ b = SubTree(base[n])[k] /\ o = SubTree(tree["ours"][n])[k]
          /\ t = SubTree(tree["theirs"][n])[k] /\ m = SubTree(Merged[n])[k]
      BY <2>4 DEF At, FindEntry
    <3>2. ~IsTree(b) /\ ~IsTree(o) /\ ~IsTree(t)
      BY <2>1, <2>2, <2>4, <3>1 DEF TwoLevels
    <3>3. SubTree(Merged[n])[k] = MergeName(SubTree(base[n])[k], SubTree(tree["ours"][n])[k],
                                            SubTree(tree["theirs"][n])[k])
      BY <2>0, <2>1, <2>4, MergedPlaces DEF Merges
    <3> HIDE DEF b, o, t, m, n, k
    <3> QED BY <3>1, <3>2, <3>3
  <2>5. IsLeaf(b) \/ IsLeaf(o) \/ IsLeaf(t) =>
          ~IsTree(b) /\ ~IsTree(o) /\ ~IsTree(t) /\ m = MergeName(b, o, t)
    BY <2>3, <2>4
  <2>6. StaysDeletedAt(path) <=>
          (IsLeaf(b) /\ ((~Present(o) /\ t = b) \/ (~Present(t) /\ o = b)) => ~Present(m))
    BY DEF StaysDeletedAt
  <2>7. /\ SurvivesAt("ours", path) <=> (IsLeaf(o) /\ (IsTree(b) \/ o.id # b.id) => Kept(o, m))
        /\ SurvivesAt("theirs", path) <=> (IsLeaf(t) /\ (IsTree(b) \/ t.id # b.id) => Kept(t, m))
    BY DEF SurvivesAt
  <2> HIDE DEF b, o, t, m
  <2>8. StaysDeletedAt(path)
    BY <2>5, <2>6, PlaceStaysDeleted DEF IsLeaf
  <2>9. SurvivesAt("ours", path) /\ SurvivesAt("theirs", path)
    BY <2>5, <2>7, PlaceKeepsChanges DEF IsLeaf
  <2> QED BY <2>8, <2>9 DEF Holders
<1>2. WalkInv => ChangesOfBothSidesStay
  BY <1>1 DEF ChangesOfBothSidesStay
<1> QED BY <1>2, WalkInvariance, PTL
=============================================================================
