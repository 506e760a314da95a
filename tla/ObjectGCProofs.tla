--------------------------- MODULE ObjectGCProofs ---------------------------
(***************************************************************************)
(* What a collection takes, for any number of repositories, revisions,     *)
(* names and steps.  The collector works from lists it made earlier, so    *)
(* the inductive invariant says what is on them: while it marks, every     *)
(* revision that stood still is still to be listed, listed or marked; and  *)
(* while it deletes, none of their trees is on the list.                   *)
(*                                                                         *)
(* A blob and a tree never share an id: the kind of an object is the first *)
(* thing that is hashed (object.go HashID).                                *)
(***************************************************************************)
EXTENDS ObjectGC, FiniteSetTheorems, TLAPS

KindIsHashed == \A b \in Blobs : \A t : b # TreeId(t)

(* A root tree whose entries are directories, files and conflicts. *)
RootTree(t) ==
  /\ t = [n \in Names |-> t[n]]
  /\ \A n \in Names : Present(t[n]) /\ ~IsTree(t[n]) =>
       t[n].id \in Blobs \/ DOMAIN t[n].id = {"removes", "adds"}

TipOK ==
  /\ tip = [p \in Repos |-> tip[p]]
  /\ \A p \in Repos :
       /\ tip[p] = [r \in DOMAIN tip[p] |-> tip[p][r]]
       /\ \A r \in DOMAIN tip[p] : r \in Revs /\ RootTree(tip[p][r].tree)

JobOK ==
  \/ job = NoJob
  \/ /\ job = [phase |-> job.phase, repo |-> job.repo, rev |-> job.rev,
               parents |-> job.parents, tree |-> job.tree, todo |-> job.todo]
     /\ job.phase \in {"write", "record", "merge"}
     /\ job.repo \in Repos /\ job.rev \in Revs
     /\ RootTree(job.tree)
     /\ job.todo \in Seq(Range(job.todo))

GCOK ==
  \/ gc = NoGC
  \/ /\ gc.phase = "mark"
     /\ gc = [phase |-> "mark", repos |-> gc.repos, roots |-> gc.roots,
              marked |-> gc.marked, still |-> gc.still]
  \/ /\ gc.phase = "sweep"
     /\ gc = [phase |-> "sweep", todo |-> gc.todo, still |-> gc.still]

RootId(c) == TreeId(RootOf(c))
RootIds   == {RootId(c) : c \in Current}

(* What the collector still knows of the revisions that stood still. *)
StillInv ==
  /\ gc.phase = "mark" =>
       \A c \in gc.still : c \in Current /\ (c[1] \in gc.repos \/ RootId(c) \in gc.roots \cup gc.marked)
  /\ gc.phase = "sweep" =>
       \A c \in gc.still : c \in Current /\ RootId(c) \notin gc.todo

(* With nobody writing, a root that is marked was visited, unless it was
   marked as the subdirectory of another. *)
AloneInv ==
  exclusive =>
    /\ job = NoJob \/ gc = NoGC
    /\ RootIds \subseteq objects
    /\ gc # NoGC => gc.still = Current
    /\ job.phase = "record" => TreeId(job.tree) \in objects
    /\ job.phase = "merge" => TreeId(job.tree) \in objects \cup Range(job.todo)
    /\ gc.phase = "mark" =>
         /\ gc.roots \subseteq RootIds
         /\ \A x \in (RootIds \ Subdirectories) \cap gc.marked : EntryIds(x) \subseteq gc.marked
    /\ gc.phase = "sweep" =>
         \A x \in RootIds \ Subdirectories : EntryIds(x) \cap gc.todo = {}

IInv == TipOK /\ JobOK /\ GCOK /\ StillInv /\ AloneInv

-----------------------------------------------------------------------------
(* Sequences of objects to be written. *)
LEMMA InOwnRange ==
  ASSUME NEW S, NEW s \in Seq(S)
  PROVE  s \in Seq(Range(s))
<1>1. \A i \in 1..Len(s) : s[i] \in Range(s)
  BY DEF Range
<1> QED BY <1>1

LEMMA SetIsSeq ==
  ASSUME NEW S, IsFiniteSet(S)
  PROVE  SetToSeq(S) \in Seq(S)
<1> DEFINE n == Cardinality(S)
<1>1. n \in Nat /\ ExistsBijection(1..n, S)
  BY FS_CardinalityType
<1>2. PICK f \in [1..n -> S] : \A a, b \in 1..n : f[a] = f[b] => a = b
  BY <1>1 DEF ExistsBijection, Bijection, Injection, IsInjective
<1>3. IsInjective(f)
  BY <1>2 DEF IsInjective
<1>4. SetToSeq(S) \in [1..n -> S]
  BY <1>2, <1>3 DEF SetToSeq
<1> QED BY <1>1, <1>4

LEMMA TailRange ==
  ASSUME NEW s, s \in Seq(Range(s)), s # <<>>
  PROVE  /\ Tail(s) \in Seq(Range(Tail(s)))
         /\ Range(s) \subseteq {Head(s)} \cup Range(Tail(s))
<1>1. Tail(s) \in Seq(Range(s)) /\ Len(s) \in Nat /\ Len(Tail(s)) = Len(s) - 1
  OBVIOUS
<1>2. Tail(s) \in Seq(Range(Tail(s)))
  <2> DEFINE u == Tail(s)  T == Range(s)
  <2>1. u \in Seq(T)
    BY <1>1
  <2> HIDE DEF u, T
  <2>2. u \in Seq(Range(u))
    BY <2>1, InOwnRange
  <2> QED BY <2>2 DEF u
<1>3. ASSUME NEW i \in 1..Len(s) PROVE s[i] \in {Head(s)} \cup Range(Tail(s))
  <2>1. CASE i = 1
    BY <2>1
  <2>2. CASE i # 1
    <3>1. i - 1 \in 1..Len(Tail(s)) /\ Tail(s)[i - 1] = s[i]
      BY <1>1, <2>2
    <3>2. i - 1 \in DOMAIN Tail(s)
      BY <1>1, <3>1
    <3> QED BY <3>1, <3>2 DEF Range
  <2> QED BY <2>1, <2>2
<1>4. Range(s) \subseteq {Head(s)} \cup Range(Tail(s))
  BY <1>3 DEF Range
<1> QED BY <1>2, <1>4

-----------------------------------------------------------------------------
(* The trees of the commands. *)
LEMMA EmptyRoot == RootTree(EmptyTree)
BY DEF RootTree, EmptyTree, NoEntry, Present

LEMMA StoredRoot ==
  ASSUME NEW t, RootTree(t)
  PROVE  RootTree(Stored(t))
BY EmptyRoot DEF Stored

LEMMA ResolvedRoot ==
  ASSUME NEW t, RootTree(t), NEW e \in {NoEntry} \cup {Blob(b) : b \in Blobs},
         NEW path \in {<<n>> : n \in Names} \cup (Names \X Names)
  PROVE  RootTree(ResolvePath(Readable(t), path, e))
<1> DEFINE r == Readable(t)
           s == ResolvePath(r, path, e)
<1>1. path[1] \in Names
  OBVIOUS
<1>2. r = [n \in Names |-> r[n]]
  BY DEF Readable
<1>3. \A n \in Names : IsTree(r[n]) \/ r[n] = t[n]
  BY DEF Readable, Dir, IsTree
<1>4. PICK x : s = [r EXCEPT ![path[1]] = x] /\ (x = e \/ x = NoEntry \/ IsTree(x))
  <2> DEFINE sub == [SubTree(r[path[1]]) EXCEPT ![path[2]] = e]
             y == IF sub = EmptyTree THEN NoEntry ELSE Dir(sub)
  <2>1. s = IF Len(path) = 1 THEN [r EXCEPT ![path[1]] = e] ELSE [r EXCEPT ![path[1]] = y]
    BY DEF ResolvePath
  <2>2. y = NoEntry \/ IsTree(y)
    BY DEF Dir, IsTree
  <2> HIDE DEF y, s, r
  <2> QED BY <2>1, <2>2
<1> HIDE DEF r, s
<1>5. s = [n \in Names |-> s[n]] /\ \A n \in Names : s[n] = IF n = path[1] THEN x ELSE r[n]
  BY <1>1, <1>2, <1>4
<1>6. ASSUME NEW n \in Names, Present(s[n]), ~IsTree(s[n])
      PROVE  s[n].id \in Blobs \/ DOMAIN s[n].id = {"removes", "adds"}
  <2>1. CASE n = path[1]
    BY <1>4, <1>5, <1>6, <2>1 DEF NoEntry, Blob, Present
  <2>2. CASE n # path[1]
    BY <1>3, <1>5, <1>6, <2>2 DEF RootTree
  <2> QED BY <2>1, <2>2
<1> QED BY <1>5, <1>6 DEF RootTree, s, r

LEMMA MergedRoot ==
  ASSUME NEW b, NEW o, NEW t, RootTree(o), RootTree(t)
  PROVE  RootTree(MergeTrees(b, o, t))
<1> DEFINE m == MergeTrees(b, o, t)
<1>1. m = [n \in Names |-> m[n]] /\ \A n \in Names : m[n] = MergeEntry(b[n], o[n], t[n])
  BY DEF MergeTrees
<1>2. ASSUME NEW n \in Names, Present(m[n]), ~IsTree(m[n])
      PROVE  m[n].id \in Blobs \/ DOMAIN m[n].id = {"removes", "adds"}
  <2> DEFINE x == b[n]  y == o[n]  z == t[n]
  <2>1. m[n] = y \/ m[n] = z \/ m[n] = NoEntry \/ m[n] = ConflictEntry(x, y, z) \/ IsTree(m[n])
    <3>1. m[n] = MergeEntry(x, y, z)
      BY <1>1
    <3> HIDE DEF x, y, z, m
    <3>2. \/ MergeName(x, y, z) = y \/ MergeName(x, y, z) = z \/ MergeName(x, y, z) = NoEntry
          \/ MergeName(x, y, z) = ConflictEntry(x, y, z)
      BY DEF MergeName, MergeLeaf
    <3>3. CASE ~(IsTree(x) \/ IsTree(y) \/ IsTree(z))
      BY <3>1, <3>2, <3>3 DEF MergeEntry
    <3>4. CASE IsTree(x) \/ IsTree(y) \/ IsTree(z)
      <4>1. PICK f : m[n] = NoEntry \/ m[n] = Dir(f)
        BY <3>1, <3>4 DEF MergeEntry
      <4>2. IsTree(Dir(f))
        BY DEF Dir, IsTree
      <4> QED BY <4>1, <4>2
    <3> QED BY <3>3, <3>4
  <2>2. CASE m[n] = ConflictEntry(x, y, z)
    <3>1. DOMAIN Conflict(x, y, z) = {"removes", "adds"}
      BY DEF Conflict
    <3>2. m[n].id = Conflict(x, y, z)
      BY <2>2 DEF ConflictEntry
    <3> QED BY <3>1, <3>2
  <2>3. CASE m[n] = NoEntry
    BY <1>2, <2>3 DEF NoEntry, Present
  <2>4. CASE m[n] = y \/ m[n] = z
    BY <1>2, <2>4 DEF RootTree
  <2> QED BY <1>2, <2>1, <2>2, <2>3, <2>4
<1> QED BY <1>1, <1>2 DEF RootTree

(* The directories of a tree are finite. *)
LEMMA FiniteImage ==
  ASSUME NEW S, IsFiniteSet(S), NEW f
  PROVE  IsFiniteSet({f[x] : x \in S})
<1> DEFINE T == {f[x] : x \in S}
           g == [x \in S |-> f[x]]
<1>1. g \in [S -> T] /\ \A y \in T : \E x \in S : g[x] = y
  OBVIOUS
<1> HIDE DEF T, g
<1> QED BY <1>1, FS_Surjection DEF Surjection, T

LEMMA EntriesAreFinite ==
  ASSUME NEW id
  PROVE  IsFiniteSet(Entries(id))
<1> DEFINE M == {m \in Names : Present(id.entries[m])}
<1>1. IsFiniteSet(M)
  BY NamesAssumption, FS_Subset
<1>2. IsFiniteSet({id.entries[n] : n \in M})
  <2> HIDE DEF M
  <2> QED BY <1>1, FiniteImage
<1> QED BY <1>2 DEF Entries

LEMMA MergedObjectsEnd ==
  ASSUME NEW t
  PROVE  /\ MergedObjects(t) \in Seq(Range(MergedObjects(t)))
         /\ TreeId(t) \in Range(MergedObjects(t))
<1> DEFINE at(kind) == {e \in Entries(TreeId(t)) : e.kind = kind}
           subs == at("tree")
           below(s) == {e \in Entries(s.id) : e.kind = "conflict"}
           conflicts == at("conflict") \cup UNION {below(s) : s \in subs}
           names(S) == {e.id : e \in S}
           a == SetToSeq(names(conflicts))
           b == SetToSeq(names(subs))
           q == a \o b \o <<TreeId(t)>>
<1>1. \A k : IsFiniteSet(at(k))
  BY EntriesAreFinite, FS_Subset
<1>2. \A s : IsFiniteSet(below(s))
  BY EntriesAreFinite, FS_Subset
<1>3. IsFiniteSet(UNION {below(s) : s \in subs})
  <2>1. IsFiniteSet(subs)
    BY <1>1
  <2> DEFINE f == [s \in subs |-> below(s)]
  <2>2. IsFiniteSet({f[s] : s \in subs})
    <3> HIDE DEF subs, f
    <3> QED BY <2>1, FiniteImage
  <2>3. {f[s] : s \in subs} = {below(s) : s \in subs}
    <3> HIDE DEF subs, below
    <3> QED OBVIOUS
  <2>4. IsFiniteSet({below(s) : s \in subs})
    BY <2>2, <2>3
  <2> HIDE DEF subs, below
  <2> QED BY <1>2, <2>4, FS_UNION
<1>4. IsFiniteSet(conflicts) /\ IsFiniteSet(subs)
  BY <1>1, <1>3, FS_Union
<1>5. IsFiniteSet(names(conflicts)) /\ IsFiniteSet(names(subs))
  <2>1. ASSUME NEW S, IsFiniteSet(S) PROVE IsFiniteSet(names(S))
    <3> DEFINE f == [e \in S |-> e.id]
    <3>1. IsFiniteSet({f[e] : e \in S})
      <4> HIDE DEF f
      <4> QED BY <2>1, FiniteImage
    <3>2. {f[e] : e \in S} = names(S)
      OBVIOUS
    <3> QED BY <3>1, <3>2
  <2> HIDE DEF conflicts, subs, names
  <2> QED BY <1>4, <2>1
<1>6. MergedObjects(t) = q
  BY DEF MergedObjects
<1> DEFINE T == names(conflicts) \cup names(subs) \cup {TreeId(t)}
<1>7. a \in Seq(T) /\ b \in Seq(T) /\ TreeId(t) \in T
  <2>1. a \in Seq(names(conflicts)) /\ b \in Seq(names(subs))
    <3> HIDE DEF names
    <3> QED BY <1>5, SetIsSeq
  <2> DEFINE u == names(conflicts)
             v == names(subs)
  <2> HIDE DEF u, v, a, b
  <2> QED BY <2>1 DEF u, v
<1> HIDE DEF a, b, T
<1>8. q \in Seq(T) /\ Len(q) \in 1..Len(q) /\ q[Len(q)] = TreeId(t)
  BY <1>7
<1>9. q \in Seq(Range(q)) /\ TreeId(t) \in Range(q)
  <2> HIDE DEF q
  <2>1. Len(q) \in DOMAIN q
    BY <1>8
  <2> QED BY <1>8, <2>1, InOwnRange DEF Range
<1> QED BY <1>6, <1>9

-----------------------------------------------------------------------------
(* Roots and what they name. *)
LEMMA RootsStand ==
  ASSUME tip' = tip
  PROVE  /\ Current' = Current /\ RootIds' = RootIds /\ Subdirectories' = Subdirectories
         /\ \A c : RootId(c)' = RootId(c)
BY DEF Current, RootIds, RootId, RootOf, Subdirectories

LEMMA RootsAreRoots ==
  ASSUME TipOK, NEW c \in Current
  PROVE  RootTree(RootOf(c)) /\ c[1] \in Repos /\ c[2] \in Revs /\ c = <<c[1], c[2]>>
BY DEF TipOK, Current, RootOf

(* Under a root the id of a root occurs as a directory only. *)
LEMMA RootsBelowRoots ==
  ASSUME TipOK, KindIsHashed, NEW id \in RootIds, NEW e \in Entries(id)
  PROVE  e.id \in RootIds => e.id \in Subdirectories
<1>1. PICK c \in Current : id = TreeId(RootOf(c))
  BY DEF RootIds, RootId
<1>2. PICK n \in Names : e = RootOf(c)[n] /\ Present(e)
  BY <1>1 DEF Entries, TreeId
<1>3. CASE IsTree(e)
  BY <1>1, <1>3 DEF Subdirectories
<1>4. CASE ~IsTree(e)
  <2>1. e.id \in Blobs \/ DOMAIN e.id = {"removes", "adds"}
    BY <1>2, <1>4, RootsAreRoots DEF RootTree
  <2>2. ASSUME NEW t PROVE DOMAIN TreeId(t) = {"entries"}
    BY DEF TreeId
  <2>3. {"removes", "adds"} # {"entries"}
    OBVIOUS
  <2>4. \A t : e.id # TreeId(t)
    BY <2>1, <2>2, <2>3 DEF KindIsHashed
  <2> QED BY <2>4 DEF RootIds, RootId
<1> QED BY <1>3, <1>4

LEMMA MarkedMore ==
  ASSUME NEW marked, NEW id
  PROVE  marked \subseteq MarkTree(marked, id) /\ id \in MarkTree(marked, id)
BY DEF MarkTree

(* Visiting a stored root for the first time marks its entries and itself. *)
LEMMA MarkedAnew ==
  ASSUME NEW marked, NEW id \in objects \ marked
  PROVE  MarkTree(marked, id) = marked \cup {id} \cup EntryIds(id)
<1> DEFINE seen == marked \cup {id}
<1>1. ASSUME NEW e PROVE MarkEntry(seen, e) = seen \cup {e.id}
  BY DEF MarkEntry, VisitSubtree
<1>2. MarkTree(marked, id) = seen \cup UNION {MarkEntry(seen, e) : e \in Entries(id)}
  BY DEF MarkTree
<1>3. EntryIds(id) = {e.id : e \in Entries(id)}
  BY DEF EntryIds
<1> HIDE DEF seen
<1>4. UNION {MarkEntry(seen, e) : e \in Entries(id)} = UNION {seen \cup {e.id} : e \in Entries(id)}
  BY <1>1
<1>5. seen \cup UNION {seen \cup {e.id} : e \in Entries(id)} = seen \cup {e.id : e \in Entries(id)}
  OBVIOUS
<1> QED BY <1>2, <1>3, <1>4, <1>5 DEF seen

-----------------------------------------------------------------------------
(* The writer. *)
LEMMA BeginJob ==
  ASSUME IInv, job = NoJob, exclusive => gc = NoGC, UNCHANGED <<objects, tip, gc, exclusive>>,
         NEW ph \in {"write", "merge"}, NEW p \in Repos, NEW r \in Revs, NEW parents,
         NEW t, RootTree(t), NEW q, q \in Seq(Range(q)),
         ph = "merge" => TreeId(t) \in Range(q),
         job' = [phase |-> ph, repo |-> p, rev |-> r, parents |-> parents, tree |-> t, todo |-> q]
  PROVE  IInv'
<1>1. /\ Current' = Current /\ RootIds' = RootIds /\ Subdirectories' = Subdirectories
      /\ \A c : RootId(c)' = RootId(c)
  BY RootsStand
<1>2. JobOK'
  BY DEF JobOK
<1>3. TipOK' /\ GCOK'
  BY DEF IInv, TipOK, GCOK
<1>4. StillInv'
  BY <1>1 DEF IInv, StillInv
<1>5. AloneInv'
  <2>1. job'.phase = ph /\ job'.tree = t /\ job'.todo = q /\ ph # "record"
    OBVIOUS
  <2>2. gc = NoGC => gc.phase = "idle"
    BY DEF NoGC
  <2> QED BY <1>1, <2>1, <2>2 DEF IInv, AloneInv
<1> QED BY <1>2, <1>3, <1>4, <1>5 DEF IInv

LEMMA BeginCommitInv ==
  ASSUME IInv, NEW p \in Repos, NEW r \in Revs, NEW base, RootTree(base), NEW parents,
         NEW path \in {<<n>> : n \in Names} \cup (Names \X Names),
         NEW e \in {NoEntry} \cup {Blob(b) : b \in Blobs},
         BeginCommit(p, base, r, parents, path, e)
  PROVE  IInv'
<1> DEFINE t == ResolvePath(Readable(base), path, e)
           first == IF Present(e) THEN <<e.id>> ELSE <<>>
           below == Below(t, path)
           q == first \o below \o <<TreeId(t)>>
<1>1. RootTree(t)
  BY ResolvedRoot
<1>2. q \in Seq(Range(q))
  <2> DEFINE x == e.id
             y == t[path[1]].id
             z == TreeId(t)
             T == {x, y, z}
  <2>1. first = <<x>> \/ first = <<>>
    OBVIOUS
  <2>2. below = <<y>> \/ below = <<>>
    BY DEF Below
  <2>3. <<>> \in Seq(T) /\ <<x>> \in Seq(T) /\ <<y>> \in Seq(T) /\ <<z>> \in Seq(T)
    <3> HIDE DEF x, y, z
    <3> QED OBVIOUS
  <2> HIDE DEF T, x, y, first, below
  <2>4. q \in Seq(T)
    <3> HIDE DEF z
    <3>1. first \in Seq(T) /\ below \in Seq(T) /\ <<z>> \in Seq(T)
      BY <2>1, <2>2, <2>3
    <3>2. first \o below \o <<z>> \in Seq(T)
      BY <3>1
    <3> QED BY <3>2 DEF z
  <2> HIDE DEF q
  <2> QED BY <2>4, InOwnRange
<1>3. /\ job = NoJob /\ (exclusive => gc = NoGC) /\ UNCHANGED <<objects, tip, gc, exclusive>>
      /\ job' = [phase |-> "write", repo |-> p, rev |-> r, parents |-> parents, tree |-> t, todo |-> q]
  BY DEF BeginCommit
<1> DEFINE ph == "write"
<1>4. /\ ph \in {"write", "merge"} /\ ph # "merge"
      /\ job' = [phase |-> ph, repo |-> p, rev |-> r, parents |-> parents, tree |-> t, todo |-> q]
  BY <1>3
<1> HIDE DEF t, q, ph
<1> QED BY <1>1, <1>2, <1>3, <1>4, BeginJob

LEMMA BeginRebaseInv ==
  ASSUME IInv, NEW p \in Repos, NEW r \in Revs, r \in DOMAIN tip[p], NEW q \in DOMAIN tip[p],
         BeginRebase(p, r, q)
  PROVE  IInv'
<1> DEFINE mine == tip[p][r]
           base == IF mine.parents = <<>> THEN EmptyTree ELSE mine.parents[1]
           t == MergeTrees(base, mine.tree, tip[p][q].tree)
           list == MergedObjects(t)
           parents == <<tip[p][q].tree>>
           ph == "merge"
<1>1. RootTree(t)
  BY MergedRoot DEF IInv, TipOK
<1>2. list \in Seq(Range(list)) /\ TreeId(t) \in Range(list)
  BY MergedObjectsEnd
<1>3. /\ job = NoJob /\ (exclusive => gc = NoGC) /\ UNCHANGED <<objects, tip, gc, exclusive>>
      /\ ph \in {"write", "merge"}
      /\ job' = [phase |-> ph, repo |-> p, rev |-> r, parents |-> parents, tree |-> t, todo |-> list]
  BY DEF BeginRebase
<1> HIDE DEF t, list, ph, parents
<1> QED BY <1>1, <1>2, <1>3, BeginJob

LEMMA WriteObjectInv ==
  ASSUME IInv, WriteObject
  PROVE  IInv'
<1> DEFINE old == job.todo
<1>1. /\ job # NoJob /\ old # <<>> /\ objects' = objects \cup {Head(old)}
      /\ UNCHANGED <<tip, gc, exclusive>>
  BY DEF WriteObject
<1>2. /\ job' = [phase |-> job.phase, repo |-> job.repo, rev |-> job.rev,
                 parents |-> job.parents, tree |-> job.tree, todo |-> Tail(old)]
      /\ job.phase \in {"write", "record", "merge"} /\ job.repo \in Repos /\ job.rev \in Revs
      /\ RootTree(job.tree) /\ old \in Seq(Range(old))
  BY <1>1 DEF IInv, JobOK, WriteObject
<1>3. Tail(old) \in Seq(Range(Tail(old))) /\ Range(old) \subseteq {Head(old)} \cup Range(Tail(old))
  BY <1>1, <1>2, TailRange
<1> DEFINE new == Tail(old)
           h == Head(old)
<1>4. /\ job'.phase = job.phase /\ job'.repo = job.repo /\ job'.rev = job.rev
      /\ job'.parents = job.parents /\ job'.tree = job.tree /\ job'.todo = new
      /\ objects' = objects \cup {h} /\ Range(old) \subseteq {h} \cup Range(new)
      /\ new \in Seq(Range(new))
  BY <1>1, <1>2, <1>3
<1> HIDE DEF new, h
<1>5. JobOK'
  BY <1>2, <1>4 DEF JobOK, new
<1>6. TipOK' /\ GCOK'
  BY <1>1 DEF IInv, TipOK, GCOK
<1>7. /\ Current' = Current /\ RootIds' = RootIds /\ Subdirectories' = Subdirectories
      /\ \A c : RootId(c)' = RootId(c)
  BY <1>1, RootsStand
<1>8. StillInv'
  BY <1>1, <1>7 DEF IInv, StillInv
<1>9. AloneInv'
  BY <1>1, <1>4, <1>7 DEF IInv, AloneInv
<1> QED BY <1>5, <1>6, <1>8, <1>9 DEF IInv

LEMMA ReadBackInv ==
  ASSUME IInv, ReadBack
  PROVE  IInv'
<1> DEFINE t == Stored(job.tree)
<1>1. /\ job.phase = "write" /\ objects' = objects \cup {TreeId(t)} /\ UNCHANGED <<tip, gc, exclusive>>
      /\ job # NoJob
  BY DEF ReadBack, NoJob
<1>2. /\ job' = [phase |-> "record", repo |-> job.repo, rev |-> job.rev,
                 parents |-> job.parents, tree |-> t, todo |-> job.todo]
      /\ job.repo \in Repos /\ job.rev \in Revs /\ RootTree(job.tree)
      /\ job.todo \in Seq(Range(job.todo))
  BY <1>1 DEF IInv, JobOK, ReadBack
<1>3. RootTree(t)
  BY <1>2, StoredRoot
<1> HIDE DEF t
<1>4. JobOK'
  BY <1>2, <1>3 DEF JobOK
<1>5. TipOK' /\ GCOK'
  BY <1>1 DEF IInv, TipOK, GCOK
<1>6. /\ Current' = Current /\ RootIds' = RootIds /\ Subdirectories' = Subdirectories
      /\ \A c : RootId(c)' = RootId(c)
  BY <1>1, RootsStand
<1>7. StillInv'
  BY <1>1, <1>6 DEF IInv, StillInv
<1>8. AloneInv'
  <2>1. job'.phase = "record" /\ job'.tree = t /\ TreeId(t) \in objects'
    BY <1>1, <1>2
  <2> QED BY <1>1, <1>6, <2>1 DEF IInv, AloneInv
<1> QED BY <1>4, <1>5, <1>7, <1>8 DEF IInv

LEMMA RecordInv ==
  ASSUME IInv, Record
  PROVE  IInv'
<1>0. PICK p, r : p = job.repo /\ r = job.rev
  OBVIOUS
<1> DEFINE c == <<p, r>>
           row == [tree |-> job.tree, parents |-> job.parents]
<1>1. /\ job.phase \in {"record", "merge"} /\ job.todo = <<>> /\ job' = NoJob /\ job # NoJob
      /\ objects' = IF job.phase = "record" THEN objects \cup {TreeId(Stored(job.tree))} ELSE objects
      /\ gc' = IF gc = NoGC THEN gc ELSE [gc EXCEPT !.still = @ \ {c}]
      /\ exclusive' = exclusive
  BY <1>0 DEF Record, NoJob
<1>2. p \in Repos /\ r \in Revs /\ RootTree(job.tree)
  BY <1>0, <1>1 DEF IInv, JobOK
<1>3. /\ tip' = [q \in Repos |-> tip'[q]]
      /\ \A q \in Repos \ {p} : tip'[q] = tip[q]
      /\ DOMAIN tip'[p] = DOMAIN tip[p] \cup {r}
      /\ tip'[p] = [s \in DOMAIN tip'[p] |-> tip'[p][s]]
      /\ tip'[p][r] = row
      /\ \A s \in DOMAIN tip[p] \ {r} : tip'[p][s] = tip[p][s]
  <2> DEFINE f == [s \in DOMAIN tip[p] \cup {r} |-> IF s = r THEN row ELSE tip[p][s]]
  <2>1. tip' = [tip EXCEPT ![p] = f]
    BY <1>0 DEF Record
  <2>2. tip = [q \in Repos |-> tip[q]]
    BY DEF IInv, TipOK
  <2>3. /\ DOMAIN f = DOMAIN tip[p] \cup {r} /\ f = [s \in DOMAIN f |-> f[s]] /\ f[r] = row
        /\ \A s \in DOMAIN tip[p] \ {r} : f[s] = tip[p][s]
    OBVIOUS
  <2> HIDE DEF row, f
  <2>4. tip' = [q \in Repos |-> IF q = p THEN f ELSE tip[q]]
    BY <2>1, <2>2
  <2> QED BY <1>2, <2>3, <2>4
<1>4. TipOK'
  <2>1. RootTree(row.tree) /\ DOMAIN tip'[p] \subseteq Revs
    BY <1>2, <1>3 DEF IInv, TipOK
  <2>2. \A s \in DOMAIN tip'[p] : RootTree(tip'[p][s].tree)
    <3> TAKE s \in DOMAIN tip'[p]
    <3>1. CASE s = r
      BY <1>3, <2>1, <3>1
    <3>2. CASE s # r
      <4>1. s \in DOMAIN tip[p] /\ tip'[p][s] = tip[p][s]
        BY <1>3, <3>2
      <4> QED BY <1>2, <4>1 DEF IInv, TipOK
    <3> QED BY <3>1, <3>2
  <2>3. ASSUME NEW q \in Repos
        PROVE  /\ tip'[q] = [s \in DOMAIN tip'[q] |-> tip'[q][s]]
               /\ \A s \in DOMAIN tip'[q] : s \in Revs /\ RootTree(tip'[q][s].tree)
    <3>1. CASE q = p
      BY <1>3, <2>1, <2>2, <3>1
    <3>2. CASE q # p
      <4>1. tip'[q] = tip[q]
        BY <1>3, <3>2
      <4> QED BY <4>1 DEF IInv, TipOK
    <3> QED BY <3>1, <3>2
  <2> HIDE DEF row
  <2> QED BY <1>3, <2>3 DEF TipOK
<1>5. JobOK'
  BY <1>1 DEF JobOK
<1>6. /\ \A d \in Current \ {c} : d \in Current' /\ RootId(d)' = RootId(d)
      /\ Current' = Current \cup {c} /\ RootId(c)' = TreeId(job.tree)
  <2>1. c \in Current' /\ RootId(c)' = TreeId(job.tree)
    BY <1>2, <1>3 DEF Current, RootId, RootOf
  <2>2. ASSUME NEW d \in Repos \X Revs, d # c
        PROVE  /\ d \in Current' <=> d \in Current
               /\ d \in Current => RootId(d)' = RootId(d)
    <3>1. CASE d[1] = p
      <4>1. d[2] # r
        BY <2>2, <3>1
      <4>2. d[2] \in DOMAIN tip'[p] <=> d[2] \in DOMAIN tip[p]
        BY <1>3, <4>1
      <4>3. d[2] \in DOMAIN tip[p] => tip'[p][d[2]] = tip[p][d[2]]
        BY <1>3, <4>1
      <4> QED BY <3>1, <4>2, <4>3 DEF Current, RootId, RootOf
    <3>2. CASE d[1] # p
      <4>1. tip'[d[1]] = tip[d[1]]
        BY <1>3, <3>2
      <4> QED BY <4>1 DEF Current, RootId, RootOf
    <3> QED BY <3>1, <3>2
  <2>3. Current \subseteq Repos \X Revs /\ Current' \subseteq Repos \X Revs
    BY DEF Current
  <2> HIDE DEF c
  <2> QED BY <2>1, <2>2, <2>3
<1>7. GCOK' /\ StillInv'
  <2>1. CASE gc = NoGC
    BY <1>1, <2>1 DEF GCOK, StillInv, NoGC
  <2>2. CASE gc # NoGC /\ gc.phase = "mark"
    <3>1. gc' = [phase |-> "mark", repos |-> gc.repos, roots |-> gc.roots,
                 marked |-> gc.marked, still |-> gc.still \ {c}]
      BY <1>1, <2>2 DEF IInv, GCOK
    <3> QED BY <1>6, <2>2, <3>1 DEF IInv, GCOK, StillInv
  <2>3. CASE gc # NoGC /\ gc.phase = "sweep"
    <3>1. gc' = [phase |-> "sweep", todo |-> gc.todo, still |-> gc.still \ {c}]
      BY <1>1, <2>3 DEF IInv, GCOK
    <3> QED BY <1>6, <2>3, <3>1 DEF IInv, GCOK, StillInv
  <2> QED BY <2>1, <2>2, <2>3 DEF IInv, GCOK
<1>8. AloneInv'
  <2> SUFFICES ASSUME exclusive PROVE AloneInv'
    BY <1>1 DEF AloneInv
  <2>1. gc = NoGC /\ gc' = NoGC
    BY <1>1 DEF IInv, AloneInv
  <2>2. TreeId(job.tree) \in objects'
    <3>1. Range(job.todo) = {}
      BY <1>1 DEF Range
    <3> QED BY <1>1, <3>1 DEF IInv, AloneInv
  <2>3. objects \subseteq objects'
    BY <1>1
  <2>4. RootIds' \subseteq objects'
    <3>1. \A d \in Current' : RootId(d)' \in objects'
      <4> TAKE d \in Current'
      <4>1. CASE d = c
        BY <1>6, <2>2, <4>1
      <4>2. CASE d # c
        <5>1. d \in Current /\ RootId(d)' = RootId(d)
          BY <1>6, <4>2
        <5>2. RootId(d) \in objects
          BY <5>1 DEF IInv, AloneInv, RootIds
        <5> QED BY <2>3, <5>1, <5>2
      <4> QED BY <4>1, <4>2
    <3> QED BY <3>1 DEF RootIds
  <2> QED BY <1>1, <2>1, <2>4 DEF AloneInv, NoGC, NoJob
<1> QED BY <1>4, <1>5, <1>7, <1>8 DEF IInv

LEMMA KillWriterInv ==
  ASSUME IInv, KillWriter
  PROVE  IInv'
<1>1. job' = NoJob /\ UNCHANGED <<objects, tip, gc, exclusive>>
  BY DEF KillWriter
<1>2. /\ Current' = Current /\ RootIds' = RootIds /\ Subdirectories' = Subdirectories
      /\ \A c : RootId(c)' = RootId(c)
  BY <1>1, RootsStand
<1>3. JobOK' /\ TipOK' /\ GCOK'
  BY <1>1 DEF IInv, JobOK, TipOK, GCOK
<1>4. StillInv'
  BY <1>1, <1>2 DEF IInv, StillInv
<1>5. AloneInv'
  BY <1>1, <1>2 DEF IInv, AloneInv, NoJob
<1> QED BY <1>3, <1>4, <1>5 DEF IInv

-----------------------------------------------------------------------------
(* The collector. *)
LEMMA CollectorOnly ==
  ASSUME IInv, UNCHANGED <<tip, job, exclusive>>
  PROVE  /\ TipOK' /\ JobOK'
         /\ Current' = Current /\ RootIds' = RootIds /\ Subdirectories' = Subdirectories
         /\ \A c : RootId(c)' = RootId(c)
<1>1. TipOK' /\ JobOK'
  BY DEF IInv, TipOK, JobOK
<1> QED BY <1>1, RootsStand

LEMMA BeginGCInv ==
  ASSUME IInv, BeginGC
  PROVE  IInv'
<1>1. /\ gc = NoGC /\ (exclusive => job = NoJob) /\ UNCHANGED <<objects, tip, job, exclusive>>
      /\ gc' = [phase |-> "mark", repos |-> Repos, roots |-> {}, marked |-> {}, still |-> Current]
  BY DEF BeginGC
<1>2. /\ TipOK' /\ JobOK'
      /\ Current' = Current /\ RootIds' = RootIds /\ Subdirectories' = Subdirectories
      /\ \A c : RootId(c)' = RootId(c)
  BY <1>1, CollectorOnly
<1>3. GCOK'
  BY <1>1 DEF GCOK
<1>4. StillInv'
  <2>1. \A c \in Current : c[1] \in Repos
    BY DEF Current
  <2> QED BY <1>1, <1>2, <2>1 DEF StillInv
<1>5. AloneInv'
  BY <1>1, <1>2 DEF IInv, AloneInv
<1> QED BY <1>2, <1>3, <1>4, <1>5 DEF IInv

LEMMA ListRevisionsInv ==
  ASSUME IInv, NEW p \in Repos, ListRevisions(p)
  PROVE  IInv'
<1> DEFINE found == {TreeId(tip[p][r].tree) : r \in DOMAIN tip[p]}
<1>1. /\ gc.phase = "mark" /\ gc.roots = {} /\ UNCHANGED <<objects, tip, job, exclusive>>
      /\ gc' = [gc EXCEPT !.repos = @ \ {p}, !.roots = found]
  BY DEF ListRevisions
<1>2. /\ TipOK' /\ JobOK'
      /\ Current' = Current /\ RootIds' = RootIds /\ Subdirectories' = Subdirectories
      /\ \A c : RootId(c)' = RootId(c)
  BY <1>1, CollectorOnly
<1>3. gc' = [phase |-> "mark", repos |-> gc.repos \ {p}, roots |-> found,
             marked |-> gc.marked, still |-> gc.still]
  <2>1. gc = [phase |-> "mark", repos |-> gc.repos, roots |-> gc.roots,
              marked |-> gc.marked, still |-> gc.still]
    BY <1>1 DEF IInv, GCOK, NoGC
  <2> HIDE DEF found
  <2> QED BY <1>1, <2>1
<1>4. (\A c \in Current : c[1] = p => RootId(c) \in found) /\ found \subseteq RootIds
  <2>1. ASSUME NEW c \in Current, c[1] = p PROVE RootId(c) \in found
    BY <2>1 DEF Current, RootId, RootOf
  <2>2. ASSUME NEW r \in DOMAIN tip[p] PROVE TreeId(tip[p][r].tree) \in RootIds
    <3>1. <<p, r>> \in Current
      BY DEF IInv, TipOK, Current
    <3>2. RootId(<<p, r>>) = TreeId(tip[p][r].tree)
      BY DEF RootId, RootOf
    <3> QED BY <3>1, <3>2 DEF RootIds
  <2> QED BY <2>1, <2>2
<1> HIDE DEF found
<1>5. GCOK'
  BY <1>3 DEF GCOK
<1>6. StillInv'
  BY <1>1, <1>2, <1>3, <1>4 DEF IInv, StillInv
<1>7. AloneInv'
  BY <1>1, <1>2, <1>3, <1>4 DEF IInv, AloneInv, NoGC
<1> QED BY <1>2, <1>5, <1>6, <1>7 DEF IInv

LEMMA MarkInv ==
  ASSUME IInv, KindIsHashed, gc.phase = "mark", NEW id \in gc.roots, Mark(id)
  PROVE  IInv'
<1> DEFINE new == MarkTree(gc.marked, id)
<1>1. /\ UNCHANGED <<objects, tip, job, exclusive>>
      /\ gc' = [gc EXCEPT !.roots = gc.roots \ {id}, !.marked = new]
  BY DEF Mark
<1>2. /\ TipOK' /\ JobOK'
      /\ Current' = Current /\ RootIds' = RootIds /\ Subdirectories' = Subdirectories
      /\ \A c : RootId(c)' = RootId(c)
  BY <1>1, CollectorOnly
<1>3. gc' = [phase |-> "mark", repos |-> gc.repos, roots |-> gc.roots \ {id},
             marked |-> new, still |-> gc.still]
  <2>1. gc = [phase |-> "mark", repos |-> gc.repos, roots |-> gc.roots,
              marked |-> gc.marked, still |-> gc.still]
    BY DEF IInv, GCOK, NoGC
  <2> HIDE DEF new
  <2> QED BY <1>1, <2>1
<1>4. gc.marked \subseteq new /\ id \in new
  BY MarkedMore
<1>5. ASSUME exclusive, NEW x \in (RootIds \ Subdirectories) \cap new
      PROVE  EntryIds(x) \subseteq new
  <2>1. id \in RootIds /\ id \in objects
    BY <1>5 DEF IInv, AloneInv
  <2>2. CASE x \in gc.marked
    BY <1>4, <1>5, <2>2 DEF IInv, AloneInv
  <2>3. CASE x \notin gc.marked /\ id \in gc.marked
    BY <2>3 DEF MarkTree
  <2>4. CASE x \notin gc.marked /\ id \notin gc.marked
    <3>1. new = gc.marked \cup {id} \cup EntryIds(id)
      BY <2>1, <2>4, MarkedAnew
    <3>2. x \notin EntryIds(id)
      <4> SUFFICES ASSUME NEW e \in Entries(id), x = e.id PROVE FALSE
        BY DEF EntryIds
      <4> QED BY <2>1, RootsBelowRoots DEF IInv
    <3>3. x = id
      BY <2>4, <3>1, <3>2
    <3> QED BY <3>1, <3>3
  <2> QED BY <2>2, <2>3, <2>4
<1> HIDE DEF new
<1>6. GCOK'
  BY <1>3 DEF GCOK
<1>7. StillInv'
  BY <1>2, <1>3, <1>4 DEF IInv, StillInv
<1>8. AloneInv'
  BY <1>1, <1>2, <1>3, <1>5 DEF IInv, AloneInv, NoGC
<1> QED BY <1>2, <1>6, <1>7, <1>8 DEF IInv

LEMMA ListObjectsInv ==
  ASSUME IInv, ListObjects
  PROVE  IInv'
<1>1. /\ gc.phase = "mark" /\ gc.roots = {} /\ gc.repos = {} /\ UNCHANGED <<objects, tip, job, exclusive>>
      /\ gc' = [phase |-> "sweep", todo |-> objects \ gc.marked, still |-> gc.still]
  BY DEF ListObjects
<1>2. /\ TipOK' /\ JobOK'
      /\ Current' = Current /\ RootIds' = RootIds /\ Subdirectories' = Subdirectories
      /\ \A c : RootId(c)' = RootId(c)
  BY <1>1, CollectorOnly
<1>3. GCOK'
  BY <1>1 DEF GCOK
<1>4. StillInv'
  BY <1>1, <1>2 DEF IInv, StillInv
<1>5. ASSUME exclusive, NEW x \in RootIds \ Subdirectories PROVE EntryIds(x) \subseteq gc.marked
  <2>1. PICK c \in Current : x = RootId(c)
    BY DEF RootIds
  <2>2. c \in gc.still
    BY <1>1, <1>5 DEF IInv, AloneInv, NoGC
  <2>3. x \in gc.marked
    BY <1>1, <2>1, <2>2 DEF IInv, StillInv
  <2> QED BY <1>1, <1>5, <2>3 DEF IInv, AloneInv
<1>6. AloneInv'
  BY <1>1, <1>2, <1>5 DEF IInv, AloneInv, NoGC
<1> QED BY <1>2, <1>3, <1>4, <1>6 DEF IInv

(* What a deletion takes, which is all that any step takes. *)
LEMMA DeletionSpares ==
  ASSUME IInv, gc.phase = "sweep", NEW id \in gc.todo, DeleteObject(id)
  PROVE  /\ \A c \in gc.still : RootId(c) # id
         /\ exclusive => \A x \in RootIds \ Subdirectories : id \notin EntryIds(x)
         /\ objects' = objects \ {id}
BY DEF IInv, StillInv, AloneInv, DeleteObject

LEMMA DeleteObjectInv ==
  ASSUME IInv, gc.phase = "sweep", NEW id \in gc.todo, DeleteObject(id)
  PROVE  IInv'
<1>1. /\ UNCHANGED <<tip, job, exclusive>> /\ objects' = objects \ {id}
      /\ gc' = [gc EXCEPT !.todo = @ \ {id}]
  BY DEF DeleteObject
<1>2. gc' = [phase |-> "sweep", todo |-> gc.todo \ {id}, still |-> gc.still]
  BY <1>1 DEF IInv, GCOK, NoGC
<1>3. /\ TipOK' /\ JobOK'
      /\ Current' = Current /\ RootIds' = RootIds /\ Subdirectories' = Subdirectories
      /\ \A c : RootId(c)' = RootId(c)
  BY <1>1, CollectorOnly
<1>4. GCOK'
  BY <1>2 DEF GCOK
<1>5. StillInv'
  BY <1>2, <1>3 DEF IInv, StillInv
<1>6. AloneInv'
  <2> SUFFICES ASSUME exclusive PROVE AloneInv'
    BY <1>1 DEF AloneInv
  <2>1. gc # NoGC /\ gc' # NoGC
    BY <1>2 DEF NoGC
  <2>2. job = NoJob /\ job' = NoJob /\ gc.still = Current
    BY <1>1, <2>1 DEF IInv, AloneInv
  <2>3. RootIds' \subseteq objects'
    BY <1>1, <1>3, <2>2, DeletionSpares DEF IInv, AloneInv, RootIds
  <2> QED BY <1>1, <1>2, <1>3, <2>2, <2>3 DEF IInv, AloneInv, NoJob
<1> QED BY <1>3, <1>4, <1>5, <1>6 DEF IInv

LEMMA StopsInv ==
  ASSUME IInv, EndGC \/ KillGC
  PROVE  IInv'
<1>1. gc' = NoGC /\ UNCHANGED <<objects, tip, job, exclusive>>
  BY DEF EndGC, KillGC
<1>2. /\ TipOK' /\ JobOK'
      /\ Current' = Current /\ RootIds' = RootIds /\ Subdirectories' = Subdirectories
      /\ \A c : RootId(c)' = RootId(c)
  BY <1>1, CollectorOnly
<1>3. GCOK' /\ StillInv'
  BY <1>1 DEF GCOK, StillInv, NoGC
<1>4. AloneInv'
  BY <1>1, <1>2 DEF IInv, AloneInv, NoGC
<1> QED BY <1>2, <1>3, <1>4 DEF IInv

-----------------------------------------------------------------------------
LEMMA InitInv == Init => IInv
<1> SUFFICES ASSUME Init PROVE IInv
  OBVIOUS
<1>1. TipOK /\ Current = {} /\ RootIds = {}
  BY DEF Init, TipOK, Current, RootIds
<1>2. JobOK /\ GCOK /\ StillInv /\ AloneInv
  BY <1>1 DEF Init, JobOK, GCOK, StillInv, AloneInv, NoJob, NoGC
<1> QED BY <1>1, <1>2 DEF IInv

(* A command begins by noting what it is to write. *)
LEMMA WritesBegin ==
  ASSUME Writes
  PROVE  job = NoJob /\ (exclusive => gc = NoGC) /\ UNCHANGED <<objects, tip, gc, exclusive>>
<1>1. ASSUME NEW p, NEW base, NEW r, NEW parents, NEW path, NEW e,
             BeginCommit(p, base, r, parents, path, e)
      PROVE  job = NoJob /\ (exclusive => gc = NoGC) /\ UNCHANGED <<objects, tip, gc, exclusive>>
  BY <1>1 DEF BeginCommit
<1>2. ASSUME NEW p, NEW r, NEW path, NEW e,
             CommitFirst(p, r, path, e) \/ CommitNew(p, r, path, e) \/ Amend(p, r, path, e)
      PROVE  job = NoJob /\ (exclusive => gc = NoGC) /\ UNCHANGED <<objects, tip, gc, exclusive>>
  BY <1>1, <1>2 DEF CommitFirst, CommitNew, Amend
<1>3. ASSUME NEW p, NEW r, NEW q, BeginRebase(p, r, q)
      PROVE  job = NoJob /\ (exclusive => gc = NoGC) /\ UNCHANGED <<objects, tip, gc, exclusive>>
  BY <1>3 DEF BeginRebase
<1> QED BY <1>2, <1>3 DEF Writes

LEMMA WritesInv ==
  ASSUME IInv, Writes
  PROVE  IInv'
<1> DEFINE Paths == {<<n>> : n \in Names} \cup (Names \X Names)
           Files == {NoEntry} \cup {Blob(b) : b \in Blobs}
<1>1. PICK p \in Repos, r \in Revs :
        \/ \E path \in Paths, e \in Files : CommitFirst(p, r, path, e) \/ CommitNew(p, r, path, e) \/ Amend(p, r, path, e)
        \/ r \in DOMAIN tip[p] /\ \E q \in DOMAIN tip[p] \ {r} : BeginRebase(p, r, q)
  BY DEF Writes
<1>2. \A q \in DOMAIN tip[p] : RootTree(Stored(tip[p][q].tree))
  BY StoredRoot DEF IInv, TipOK
<1>3. ASSUME NEW path \in Paths, NEW e \in Files, CommitFirst(p, r, path, e) PROVE IInv'
  BY <1>3, EmptyRoot, BeginCommitInv DEF CommitFirst
<1>4. ASSUME NEW path \in Paths, NEW e \in Files, CommitNew(p, r, path, e) PROVE IInv'
  <2>1. PICK q \in DOMAIN tip[p] :
          BeginCommit(p, Stored(tip[p][q].tree), r, <<tip[p][q].tree>>, path, e)
    BY <1>4 DEF CommitNew
  <2> DEFINE base == Stored(tip[p][q].tree)
             parents == <<tip[p][q].tree>>
  <2>2. RootTree(base) /\ BeginCommit(p, base, r, parents, path, e)
    BY <1>2, <2>1
  <2> HIDE DEF base, parents
  <2> QED BY <2>2, BeginCommitInv
<1>5. ASSUME NEW path \in Paths, NEW e \in Files, Amend(p, r, path, e) PROVE IInv'
  <2> DEFINE base == Stored(tip[p][r].tree)
             parents == tip[p][r].parents
  <2>1. RootTree(base) /\ BeginCommit(p, base, r, parents, path, e)
    BY <1>2, <1>5 DEF Amend
  <2> HIDE DEF base, parents
  <2> QED BY <2>1, BeginCommitInv
<1>6. ASSUME r \in DOMAIN tip[p], NEW q \in DOMAIN tip[p], BeginRebase(p, r, q) PROVE IInv'
  BY <1>6, BeginRebaseInv
<1> QED BY <1>1, <1>3, <1>4, <1>5, <1>6

LEMMA NextInv ==
  ASSUME IInv, KindIsHashed, [Next]_vars
  PROVE  IInv'
<1>1. CASE UNCHANGED vars
  <2>1. TipOK' /\ JobOK' /\ GCOK'
    BY <1>1 DEF IInv, TipOK, JobOK, GCOK, vars
  <2>2. StillInv' /\ AloneInv'
    BY <1>1, RootsStand DEF IInv, StillInv, AloneInv, vars
  <2> QED BY <2>1, <2>2 DEF IInv
<1>2. CASE Writes
  BY <1>2, WritesInv
<1>3. CASE WriteObject \/ ReadBack \/ Record \/ KillWriter
  BY <1>3, WriteObjectInv, ReadBackInv, RecordInv, KillWriterInv
<1>4. CASE Collects
  BY <1>4, BeginGCInv, ListRevisionsInv, MarkInv, ListObjectsInv, DeleteObjectInv, StopsInv DEF Collects
<1> QED BY <1>1, <1>2, <1>3, <1>4 DEF Next

LEMMA Invariance ==
  ASSUME KindIsHashed
  PROVE  Spec => []IInv
<1>1. IInv /\ [Next]_vars => IInv'
  BY NextInv
<1> QED BY InitInv, <1>1, PTL DEF Spec

(***************************************************************************)
(* Of the objects only a deletion takes any, so that what the lists of the *)
(* collector spare is spared by every step: the roots of the revisions     *)
(* that stood still, and with nobody writing their files.                  *)
(***************************************************************************)
THEOREM CollectionsSpareTheLiving ==
  ASSUME KindIsHashed
  PROVE  Spec => SweepSparesTheLiving
<1> DEFINE Spares ==
             /\ gc # NoGC => \A c \in gc.still :
                  TreeId(RootOf(c)) \in objects => TreeId(RootOf(c)) \in objects'
             /\ exclusive => \A c \in Current : TreeId(RootOf(c)) \notin Subdirectories =>
                  EntryIds(TreeId(RootOf(c))) \cap objects \subseteq objects'
<1>1. ASSUME IInv, Next PROVE Spares
  <2>1. CASE objects \subseteq objects'
    BY <2>1
  <2>2. CASE ~(objects \subseteq objects')
    <3>1. PICK id \in gc.todo : gc.phase = "sweep" /\ DeleteObject(id)
      <4>1. ASSUME Writes PROVE objects' = objects
        BY <4>1, WritesBegin
      <4>2. ASSUME WriteObject \/ ReadBack \/ Record \/ KillWriter PROVE objects \subseteq objects'
        BY <4>2 DEF WriteObject, ReadBack, Record, KillWriter
      <4>3. Collects
        BY <1>1, <2>2, <4>1, <4>2 DEF Next
      <4> QED BY <2>2, <4>3 DEF Collects, BeginGC, ListRevisions, Mark, ListObjects, EndGC, KillGC
    <3>2. /\ \A c \in gc.still : RootId(c) # id
          /\ exclusive => \A x \in RootIds \ Subdirectories : id \notin EntryIds(x)
          /\ objects' = objects \ {id}
      BY <1>1, <3>1, DeletionSpares
    <3> QED BY <3>2 DEF RootIds, RootId
  <2> QED BY <2>1, <2>2
<1>2. IInv /\ [Next]_vars => [Spares]_vars
  BY <1>1
<1> QED BY Invariance, <1>2, PTL DEF Spec, SweepSparesTheLiving

-----------------------------------------------------------------------------
(***************************************************************************)
(* What is left when a collection comes to its end.  With nobody writing   *)
(* it marks only what some revision refers to, and whatever it neither     *)
(* marked nor deleted is still on its list.                                *)
(***************************************************************************)
Needed == UNION {Referenced(RootOf(c)) : c \in Current}

LeftInv ==
  exclusive =>
    /\ gc.phase = "mark" => gc.marked \subseteq Needed
    /\ gc.phase = "sweep" => objects \ gc.todo \subseteq Needed

LEMMA RootsAreNeeded ==
  ASSUME NEW x \in RootIds
  PROVE  {x} \cup EntryIds(x) \subseteq Needed
<1>1. PICK c \in Current : x = TreeId(RootOf(c))
  BY DEF RootIds, RootId
<1>2. x \in Referenced(RootOf(c)) /\ EntryIds(x) \subseteq Referenced(RootOf(c))
  BY <1>1 DEF Referenced, Inside, EntryIds
<1> QED BY <1>2 DEF Needed

LEMMA LeftStep ==
  ASSUME IInv, LeftInv, [Next]_vars
  PROVE  LeftInv'
<1>1. tip' = tip => Needed' = Needed
  BY DEF Needed, Current, Referenced, Inside, RootOf
<1>2. gc' = NoGC => LeftInv'
  BY DEF LeftInv, NoGC
<1>3. CASE Writes
  <2>1. job = NoJob /\ (exclusive => gc = NoGC) /\ UNCHANGED <<objects, tip, gc, exclusive>>
    BY <1>3, WritesBegin
  <2> QED BY <1>1, <2>1 DEF LeftInv
<1>4. CASE WriteObject \/ ReadBack \/ Record \/ KillWriter
  <2>1. job # NoJob /\ exclusive' = exclusive /\ (gc = NoGC => gc' = NoGC)
    BY <1>4 DEF WriteObject, ReadBack, Record, KillWriter, NoJob
  <2>2. exclusive => gc' = NoGC
    BY <2>1 DEF IInv, AloneInv
  <2> QED BY <1>2, <2>1, <2>2 DEF LeftInv
<1>5. CASE BeginGC
  BY <1>5 DEF BeginGC, LeftInv
<1>6. ASSUME NEW p \in Repos, ListRevisions(p) PROVE LeftInv'
  <2>1. gc.phase = "mark" /\ gc = [phase |-> "mark", repos |-> gc.repos, roots |-> gc.roots,
                                  marked |-> gc.marked, still |-> gc.still]
    BY <1>6 DEF ListRevisions, IInv, GCOK, NoGC
  <2>2. PICK x, y : gc' = [gc EXCEPT !.repos = x, !.roots = y]
    BY <1>6 DEF ListRevisions
  <2>3. gc'.phase = "mark" /\ gc'.marked = gc.marked
    BY <2>1, <2>2
  <2>4. UNCHANGED <<objects, tip, exclusive>>
    BY <1>6 DEF ListRevisions
  <2> QED BY <1>1, <2>1, <2>3, <2>4 DEF LeftInv
<1>7. ASSUME gc.phase = "mark", NEW id \in gc.roots, Mark(id) PROVE LeftInv'
  <2> DEFINE new == MarkTree(gc.marked, id)
  <2>1. UNCHANGED <<objects, tip, exclusive>> /\ gc' = [gc EXCEPT !.roots = gc.roots \ {id}, !.marked = new]
    BY <1>7 DEF Mark
  <2>2. gc = [phase |-> "mark", repos |-> gc.repos, roots |-> gc.roots,
              marked |-> gc.marked, still |-> gc.still]
    BY <1>7 DEF IInv, GCOK, NoGC
  <2>3. new \subseteq gc.marked \cup {id} \cup EntryIds(id)
    <3>1. CASE id \in objects \ gc.marked
      BY <3>1, MarkedAnew
    <3>2. CASE id \notin objects \ gc.marked
      BY <3>2 DEF MarkTree
    <3> QED BY <3>1, <3>2
  <2>4. exclusive => new \subseteq Needed
    <3> SUFFICES ASSUME exclusive PROVE new \subseteq Needed
      OBVIOUS
    <3>1. id \in RootIds /\ gc.marked \subseteq Needed
      BY <1>7 DEF IInv, AloneInv, LeftInv
    <3>2. {id} \cup EntryIds(id) \subseteq Needed
      BY <3>1, RootsAreNeeded
    <3> QED BY <2>3, <3>1, <3>2
  <2> HIDE DEF new
  <2>5. gc'.phase = "mark" /\ gc'.marked = new
    BY <2>1, <2>2
  <2> QED BY <1>1, <2>1, <2>4, <2>5 DEF LeftInv
<1>8. CASE ListObjects
  BY <1>1, <1>8 DEF ListObjects, LeftInv
<1>9. ASSUME gc.phase = "sweep", NEW id \in gc.todo, DeleteObject(id) PROVE LeftInv'
  <2>1. gc' = [phase |-> "sweep", todo |-> gc.todo \ {id}, still |-> gc.still]
    BY <1>9 DEF DeleteObject, IInv, GCOK, NoGC
  <2>2. objects' = objects \ {id} /\ UNCHANGED <<tip, exclusive>>
    BY <1>9 DEF DeleteObject
  <2> QED BY <1>1, <1>9, <2>1, <2>2 DEF LeftInv
<1>10. CASE EndGC \/ KillGC
  BY <1>2, <1>10 DEF EndGC, KillGC
<1>11. CASE Collects
  BY <1>5, <1>6, <1>7, <1>8, <1>9, <1>10, <1>11 DEF Collects
<1>12. CASE UNCHANGED vars
  BY <1>1, <1>12 DEF LeftInv, vars
<1> QED BY <1>3, <1>4, <1>11, <1>12 DEF Next

(***************************************************************************)
(* verify counts the places of a tree whose object is missing, and so      *)
(* counts none exactly if all the tree refers to is there.                 *)
(***************************************************************************)
LEMMA PlacesAreFinite ==
  ASSUME NEW t
  PROVE  IsFiniteSet(MissingPlaces(t))
<1>1. IsFiniteSet({<<n>> : n \in Names})
  <2> DEFINE g == [n \in Names |-> <<n>>]
  <2>1. IsFiniteSet({g[n] : n \in Names})
    <3> HIDE DEF g
    <3> QED BY NamesAssumption, FiniteImage
  <2> QED BY <2>1
<1>2. IsFiniteSet({<<n>> : n \in Names} \cup (Names \X Names))
  BY <1>1, NamesAssumption, FS_Product, FS_Union
<1>3. ASSUME NEW n \in Names
      PROVE  MissingAt(n, t[n]) \subseteq {<<n>>} \cup (Names \X Names)
  BY DEF MissingAt
<1>4. MissingPlaces(t) \subseteq {<<n>> : n \in Names} \cup (Names \X Names)
  BY <1>3 DEF MissingPlaces
<1> QED BY <1>2, <1>4, FS_Subset

LEMMA VerifyIsRight ==
  ASSUME NEW t
  PROVE  VerifyTree(TreeId(t)) = 0 <=> Referenced(t) \subseteq objects
<1>1. TreeId(t).entries = t
  BY DEF TreeId
<1>2. VerifyTree(TreeId(t)) = 0 <=> TreeId(t) \in objects /\ MissingPlaces(t) = {}
  BY <1>1, PlacesAreFinite, FS_EmptySet DEF VerifyTree, Missing
<1> DEFINE here == {k \in Names : Present(t[k])}
           below(k) == {m \in Names : Present(t[k].id.entries[m])}
<1>3. MissingPlaces(t) = {} <=> \A n \in here : MissingAt(n, t[n]) = {}
  BY DEF MissingPlaces
<1>4. ASSUME NEW n \in here
      PROVE  MissingAt(n, t[n]) = {} <=>
               /\ t[n].id \in objects
               /\ IsTree(t[n]) => \A m \in below(n) : t[n].id.entries[m].id \in objects
  BY DEF MissingAt, Missing
<1>5. Entries(TreeId(t)) = {t[n] : n \in here}
  BY <1>1 DEF Entries
<1>6. ASSUME NEW n \in here
      PROVE  Entries(t[n].id) = {t[n].id.entries[m] : m \in below(n)}
  BY DEF Entries
<1> HIDE DEF here, below
<1>7. Referenced(t) \subseteq objects <=>
        /\ TreeId(t) \in objects
        /\ \A n \in here : /\ t[n].id \in objects
                           /\ IsTree(t[n]) => \A m \in below(n) : t[n].id.entries[m].id \in objects
  <2>1. Referenced(t) \subseteq objects <=>
          TreeId(t) \in objects /\ \A e \in Inside(t) : e.id \in objects
    BY DEF Referenced
  <2>2. (\A e \in Inside(t) : e.id \in objects) <=>
          \A n \in here : /\ t[n].id \in objects
                          /\ IsTree(t[n]) => \A e \in Entries(t[n].id) : e.id \in objects
    BY <1>5 DEF Inside
  <2>3. ASSUME NEW n \in here
        PROVE  (\A e \in Entries(t[n].id) : e.id \in objects)
                 <=> \A m \in below(n) : t[n].id.entries[m].id \in objects
    <3>1. Entries(t[n].id) = {t[n].id.entries[m] : m \in below(n)}
      BY <1>6
    <3> DEFINE E == Entries(t[n].id)
               f == t[n].id.entries
    <3> HIDE DEF E, f
    <3>2. E = {f[m] : m \in below(n)}
      BY <3>1 DEF E, f
    <3>3. (\A e \in E : e.id \in objects) <=> \A m \in below(n) : f[m].id \in objects
      BY <3>2
    <3> QED BY <3>3 DEF E, f
  <2> QED BY <2>1, <2>2, <2>3
<1> QED BY <1>2, <1>3, <1>4, <1>7

(***************************************************************************)
(* The store matches what the revisions refer to: a collection nobody      *)
(* disturbs leaves nothing else, and verify counts what is missing.        *)
(***************************************************************************)
THEOREM CollectionsAreThorough ==
  ASSUME KindIsHashed
  PROVE  Spec => []StoreMatchesReferences
<1>1. Init => LeftInv
  BY DEF Init, LeftInv, NoGC
<1>2. IInv /\ LeftInv /\ [Next]_vars => LeftInv'
  BY LeftStep
<1>3. LeftInv => StoreMatchesReferences
  BY VerifyIsRight DEF LeftInv, StoreMatchesReferences, Needed
<1> QED BY <1>1, <1>2, <1>3, Invariance, PTL DEF Spec
=============================================================================
