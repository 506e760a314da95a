--------------------------- MODULE RevisionsProofs --------------------------
(***************************************************************************)
(* Theorems about Revisions, for any number of processes, revisions,       *)
(* operations, names and trees.  The inductive invariant IInv says what    *)
(* every statement that is still to be executed may rely on, whatever the  *)
(* other processes do in the meantime.                                     *)
(***************************************************************************)
EXTENDS Revisions, Induction, FiniteSetTheorems, SequenceTheorems, TLAPS

(* q is a sequence (of whatever its elements are). *)
IsSeq(q) == q \in Seq({q[i] : i \in DOMAIN q})

(* The statements that store a snapshot, and the snapshots that will be stored
   once the first statement of a plan is done. *)
Publishes(st) == st.do \in {"snapshot", "commit"}

Soon(todo, S) ==
  IF todo = <<>> THEN S
  ELSE IF Head(todo).do = "snapshot" THEN S \cup {Head(todo).snap}
  ELSE IF Head(todo).do = "commit" THEN S \cup {Head(todo).row.hash}
  ELSE S

HistoryIn(s, S) == IsRoot(s) \/ Parent(s) \in S

(***************************************************************************)
(* A statement is sound for the stored snapshots S, the known revisions K  *)
(* and the snapshots R stored before it is executed: it writes no dangling *)
(* hash, no dangling parent and no hash of another revision.               *)
(***************************************************************************)
Sound(st, S, K, R) ==
  /\ st.do = "snapshot" => HistoryIn(st.snap, S)
  /\ st.do = "commit" =>
       /\ HistoryIn(st.row.hash, S) /\ st.row.hash.rev = st.id /\ st.id \in RevIds
       /\ st.row = Row(st.row.hash, None)
  /\ st.do = "revision" =>
       /\ st.row.hash \in R /\ st.row.hash.rev = st.id /\ st.id \in RevIds
       /\ st.row = Row(st.row.hash, st.row.forkFrom)
       /\ st.row.forkFrom \in K \cup {None}
  /\ st.do = "repoint" => st.hash \in R /\ st.hash.rev = st.id /\ st.id \in K
  /\ st.do = "rebase" => st.ids \in Seq(K) /\ st.ids # <<>> /\ st.onto \in R
  /\ st.do = "amend" => st.id \in K
  /\ st.do = "squash" => st.child \in S /\ ~IsRoot(st.child)
  /\ st.do = "repair" => st.list \in Seq({s \in S : s.rev \in K})
  /\ st.do \in {"visit", "clean"} => st.snap \in S /\ st.snap.rev \in K
  /\ st.do = "ref" => st.kind \in {"branch", "tag"} /\ st.name \in RefNames
  /\ st.do = "tag" => st.name \in RefNames

(* A branch is put after the revision it names. *)
NamesKnown(todo, K) ==
  \A i \in 1..Len(todo) :
    todo[i].do = "ref" /\ todo[i].kind = "branch" /\ todo[i].target \notin K =>
      \E j \in 1..(i - 1) : todo[j].do = "revision" /\ todo[j].id = todo[i].target

PlanOK(todo, S, K) ==
  /\ IsSeq(todo)
  /\ \A i \in 1..Len(todo) : Sound(todo[i], S, K, Soon(todo, S))
  /\ \A i \in 2..Len(todo) : ~Publishes(todo[i])
  /\ NamesKnown(todo, K)

ProcOK(pr, S, K) ==
  /\ pr = [op |-> pr.op, id |-> pr.id, before |-> pr.before, memo |-> pr.memo,
           first |-> pr.first, todo |-> pr.todo]
  /\ PlanOK(pr.todo, S, K)
  /\ DOMAIN pr.before \subseteq K
  /\ \A s \in DOMAIN pr.memo : pr.memo[s] \in Soon(pr.todo, S)

ProcsOK ==
  /\ proc = [p \in Procs |-> proc[p]]
  /\ \A p \in Procs : proc[p].op \in OpNames /\ ProcOK(proc[p], snapshots, Known)

IInv ==
  /\ TypeOK
  /\ CurrentSnapshotIsOwn
  /\ HistoryIsStored
  /\ BranchesResolve
  /\ ProcsOK

-----------------------------------------------------------------------------
(* A plan of literal statements or the rest of one is a sequence. *)
LEMMA AnySeq ==
  ASSUME NEW S, NEW q \in Seq(S)
  PROVE  IsSeq(q)
<1> DEFINE Q == {q[i] : i \in DOMAIN q}
<1>1. Len(q) \in Nat /\ q \in [1..Len(q) -> S]
  OBVIOUS
<1>2. q \in [1..Len(q) -> Q]
  BY <1>1
<1> HIDE DEF Q
<1>3. q \in Seq(Q)
  BY <1>1, <1>2, SeqDef
<1> QED BY <1>3 DEF IsSeq, Q

(* Concatenation: its length and its elements. *)
LEMMA SeqConcat ==
  ASSUME NEW a, NEW b, IsSeq(a), IsSeq(b)
  PROVE  /\ IsSeq(a \o b)
         /\ Len(a) \in Nat /\ Len(b) \in Nat
         /\ Len(a \o b) = Len(a) + Len(b)
         /\ \A i \in 1..Len(a) : (a \o b)[i] = a[i]
         /\ \A i \in 1..Len(b) : (a \o b)[Len(a) + i] = b[i]
<1> DEFINE A == {a[i] : i \in DOMAIN a}
           B == {b[i] : i \in DOMAIN b}
           C == A \cup B
<1>1. a \in Seq(C) /\ b \in Seq(C)
  BY DEF IsSeq
<1> HIDE DEF C
<1>2. a \o b \in Seq(C) /\ Len(a) \in Nat /\ Len(b) \in Nat
  BY <1>1
<1>3. /\ Len(a \o b) = Len(a) + Len(b)
      /\ \A i \in 1..Len(a) : (a \o b)[i] = a[i]
      /\ \A i \in 1..Len(b) : (a \o b)[Len(a) + i] = b[i]
  BY <1>1
<1>4. IsSeq(a \o b)
  BY <1>2, AnySeq
<1> QED BY <1>2, <1>3, <1>4

(* What is left of a plan after its first statement. *)
LEMMA SeqTail ==
  ASSUME NEW a, IsSeq(a), a # <<>>
  PROVE  /\ IsSeq(Tail(a))
         /\ Len(a) \in Nat \ {0}
         /\ Len(Tail(a)) = Len(a) - 1
         /\ Head(a) = a[1]
         /\ \A i \in 1..(Len(a) - 1) : Tail(a)[i] = a[i + 1]
<1> DEFINE A == {a[i] : i \in DOMAIN a}
<1>1. a \in Seq(A)
  BY DEF IsSeq
<1> HIDE DEF A
<1>2. Tail(a) \in Seq(A) /\ Len(a) \in Nat \ {0} /\ Len(Tail(a)) = Len(a) - 1
      /\ Head(a) = a[1] /\ \A i \in 1..(Len(a) - 1) : Tail(a)[i] = a[i + 1]
  BY <1>1
<1>3. IsSeq(Tail(a))
  BY <1>2, AnySeq
<1> QED BY <1>2, <1>3

-----------------------------------------------------------------------------
(* What the process relied on stays true as the store grows. *)
LEMMA SoundMonotone ==
  ASSUME NEW st, NEW S, NEW K, NEW R, NEW S2, NEW K2, NEW R2,
         Sound(st, S, K, R), S \subseteq S2, K \subseteq K2, R \subseteq R2
  PROVE  Sound(st, S2, K2, R2)
<1>1. ASSUME st.do = "rebase" PROVE st.ids \in Seq(K2)
  BY <1>1 DEF Sound
<1>2. ASSUME st.do = "repair" PROVE st.list \in Seq({s \in S2 : s.rev \in K2})
  <2>1. {s \in S : s.rev \in K} \subseteq {s \in S2 : s.rev \in K2}
    OBVIOUS
  <2> QED BY <1>2, <2>1 DEF Sound
<1> QED BY <1>1, <1>2 DEF Sound, HistoryIn

(* The snapshots stored soon include those stored now, and grow with them. *)
LEMMA SoonGrows ==
  ASSUME NEW todo, NEW S, NEW S2, S \subseteq S2
  PROVE  S \subseteq Soon(todo, S) /\ Soon(todo, S) \subseteq Soon(todo, S2)
BY DEF Soon

(* A plan stays good as rows are added. *)
LEMMA PlanMonotone ==
  ASSUME NEW todo, NEW S, NEW K, NEW S2, NEW K2,
         PlanOK(todo, S, K), S \subseteq S2, K \subseteq K2
  PROVE  PlanOK(todo, S2, K2)
<1>1. Soon(todo, S) \subseteq Soon(todo, S2)
  BY SoonGrows
<1>2. \A i \in 1..Len(todo) : Sound(todo[i], S2, K2, Soon(todo, S2))
  BY <1>1, SoundMonotone DEF PlanOK
<1>3. NamesKnown(todo, K2)
  BY DEF PlanOK, NamesKnown
<1> QED BY <1>2, <1>3 DEF PlanOK

(* A process's plan and memory stay good as rows are added. *)
LEMMA ProcMonotone ==
  ASSUME NEW pr, NEW S, NEW K, NEW S2, NEW K2,
         ProcOK(pr, S, K), S \subseteq S2, K \subseteq K2
  PROVE  ProcOK(pr, S2, K2)
BY PlanMonotone, SoonGrows DEF ProcOK

(* Executing the first statement of a plan and going on with more. *)
LEMMA PlanContinues ==
  ASSUME NEW todo, NEW more, NEW S, NEW K, NEW S2, NEW K2,
         PlanOK(todo, S, K), todo # <<>>, PlanOK(more, S2, K2),
         S \subseteq S2, K \subseteq K2, Soon(todo, S) \subseteq S2,
         Head(todo).do = "revision" => Head(todo).id \in K2
  PROVE  PlanOK(more \o Tail(todo), S2, K2) /\ S2 \subseteq Soon(more \o Tail(todo), S2)
<1> DEFINE rest == Tail(todo)
           plan == more \o rest
<1>1. /\ IsSeq(rest) /\ Len(todo) \in Nat \ {0} /\ Len(rest) = Len(todo) - 1
      /\ Head(todo) = todo[1] /\ \A i \in 1..Len(rest) : rest[i] = todo[i + 1]
  BY SeqTail DEF PlanOK
<1>2. /\ IsSeq(plan) /\ Len(more) \in Nat /\ Len(plan) = Len(more) + Len(rest)
      /\ \A i \in 1..Len(more) : plan[i] = more[i]
      /\ \A i \in 1..Len(rest) : plan[Len(more) + i] = rest[i]
  BY <1>1, SeqConcat DEF PlanOK
<1>3. \A i \in 1..Len(rest) :
         /\ Sound(rest[i], S2, K2, S2) /\ ~Publishes(rest[i])
  BY <1>1, SoundMonotone DEF PlanOK
<1>4. Soon(more, S2) \subseteq Soon(plan, S2) /\ S2 \subseteq Soon(plan, S2)
  <2>1. S2 \subseteq Soon(plan, S2)
    BY SoonGrows
  <2>2. CASE more = <<>>
    BY <2>1, <2>2 DEF Soon
  <2>3. CASE more # <<>>
    <3>1. Len(more) > 0 /\ Head(more) = more[1]
      BY <2>3, SeqTail DEF PlanOK
    <3>2. plan # <<>> /\ Head(plan) = more[1]
      BY <3>1, <1>1, <1>2, SeqTail
    <3> QED BY <2>1, <2>3, <3>1, <3>2 DEF Soon
  <2> QED BY <2>2, <2>3
<1> HIDE DEF plan, rest
<1>a. ASSUME NEW i \in 1..Len(plan), i \notin 1..Len(more)
      PROVE  \E j \in 1..Len(rest) : i = Len(more) + j /\ plan[i] = rest[j]
  <2>1. Len(rest) \in Nat
    BY <1>1
  <2>2. i - Len(more) \in 1..Len(rest) /\ i = Len(more) + (i - Len(more))
    BY <2>1, <1>2, <1>a
  <2> QED BY <2>2, <1>2
<1>5. ASSUME NEW i \in 1..Len(plan) PROVE Sound(plan[i], S2, K2, Soon(plan, S2))
  <2>1. CASE i \in 1..Len(more)
    BY <2>1, <1>2, <1>4, SoundMonotone DEF PlanOK
  <2>2. CASE i \notin 1..Len(more)
    BY <2>2, <1>a, <1>3, <1>4, SoundMonotone
  <2> QED BY <2>1, <2>2
<1>6. ASSUME NEW i \in 2..Len(plan) PROVE ~Publishes(plan[i])
  <2>1. CASE i \in 1..Len(more)
    BY <2>1, <1>2 DEF PlanOK
  <2>2. CASE i \notin 1..Len(more)
    BY <2>2, <1>2, <1>a, <1>3
  <2> QED BY <2>1, <2>2
<1>7. NamesKnown(plan, K2)
  <2> SUFFICES ASSUME NEW i \in 1..Len(plan), plan[i].do = "ref", plan[i].kind = "branch",
                      plan[i].target \notin K2
               PROVE  \E j \in 1..(i - 1) :
                         plan[j].do = "revision" /\ plan[j].id = plan[i].target
    BY DEF NamesKnown
  <2>1. CASE i \in 1..Len(more)
    <3>1. PICK j \in 1..(i - 1) : more[j].do = "revision" /\ more[j].id = more[i].target
      BY <2>1, <1>2 DEF PlanOK, NamesKnown
    <3> QED BY <2>1, <3>1, <1>2
  <2>2. CASE i \notin 1..Len(more)
    <3>1. PICK k \in 1..Len(rest) : i = Len(more) + k /\ plan[i] = todo[k + 1]
      BY <2>2, <1>a, <1>1
    <3>2. Len(more) \in Nat /\ k \in Nat /\ k + 1 \in 1..Len(todo)
      BY <1>1, <1>2
    <3>a. /\ NamesKnown(todo, K) /\ todo[k + 1].do = "ref"
          /\ todo[k + 1].kind = "branch" /\ todo[k + 1].target \notin K
      BY <3>1 DEF PlanOK
    <3>b. \E j \in 1..((k + 1) - 1) :
             todo[j].do = "revision" /\ todo[j].id = todo[k + 1].target
      BY <3>2, <3>a DEF NamesKnown
    <3>c. (k + 1) - 1 = k
      BY <3>2
    <3>3. PICK j \in 1..k : todo[j].do = "revision" /\ todo[j].id = todo[k + 1].target
      BY <3>b, <3>c
    <3>4. j # 1
      BY <1>1, <3>1, <3>3
    <3>5. PICK l \in 1..Len(rest) : j = l + 1
      <4>1. j - 1 \in 1..Len(rest) /\ j = (j - 1) + 1
        BY <3>2, <3>3, <3>4, <1>1
      <4> QED BY <4>1
    <3>6. plan[Len(more) + l] = todo[j] /\ Len(more) + l \in 1..(i - 1)
      BY <3>1, <3>2, <3>5, <1>1, <1>2
    <3> QED BY <3>1, <3>3, <3>6
  <2> QED BY <2>1, <2>2
<1>8. PlanOK(plan, S2, K2)
  BY <1>2, <1>5, <1>6, <1>7 DEF PlanOK
<1> QED BY <1>4, <1>8 DEF plan, rest

-----------------------------------------------------------------------------
(* Plans of one to four literal statements that put no ref. *)
Later(st, S, K, R) == Sound(st, S, K, R) /\ ~Publishes(st) /\ st.do # "ref"

(* The empty plan is good. *)
LEMMA Plan0 == ASSUME NEW S, NEW K PROVE PlanOK(<<>>, S, K)
<1>1. IsSeq(<<>>)
  <2>1. <<>> \in Seq({})
    OBVIOUS
  <2> QED BY <2>1, AnySeq
<1> QED BY <1>1 DEF PlanOK, NamesKnown

(* A plan of one statement is good if that statement is sound. *)
LEMMA Plan1 ==
  ASSUME NEW S, NEW K, NEW a, Sound(a, S, K, Soon(<<a>>, S)),
         a.do = "ref" /\ a.kind = "branch" => a.target \in K
  PROVE  PlanOK(<<a>>, S, K)
<1>1. IsSeq(<<a>>)
  <2>1. <<a>> \in Seq({a})
    OBVIOUS
  <2> QED BY <2>1, AnySeq
<1>2. Len(<<a>>) = 1 /\ \A i \in 1..1 : <<a>>[i] = a
  OBVIOUS
<1> QED BY <1>1, <1>2 DEF PlanOK, NamesKnown

(* A plan of a first statement and one that only needs it is good. *)
LEMMA Plan2 ==
  ASSUME NEW S, NEW K, NEW a, NEW b,
         Sound(a, S, K, Soon(<<a>>, S)), a.do # "ref", Later(b, S, K, Soon(<<a>>, S))
  PROVE  PlanOK(<<a, b>>, S, K)
<1> DEFINE q == <<a, b>>
<1>1. IsSeq(q)
  <2>1. q \in Seq({a, b})
    OBVIOUS
  <2> QED BY <2>1, AnySeq
<1>2. Len(q) = 2 /\ q # <<>> /\ Head(q) = a /\ Soon(q, S) = Soon(<<a>>, S)
  BY DEF Soon
<1>3. \A i \in 1..2 : (i = 1 /\ q[i] = a) \/ (i = 2 /\ q[i] = b)
  OBVIOUS
<1> HIDE DEF q
<1> QED BY <1>1, <1>2, <1>3 DEF PlanOK, NamesKnown, Later, q

(* The same with two statements after the first. *)
LEMMA Plan3 ==
  ASSUME NEW S, NEW K, NEW a, NEW b, NEW c,
         Sound(a, S, K, Soon(<<a>>, S)), a.do # "ref",
         Later(b, S, K, Soon(<<a>>, S)), Later(c, S, K, Soon(<<a>>, S))
  PROVE  PlanOK(<<a, b, c>>, S, K)
<1> DEFINE q == <<a, b, c>>
<1>1. IsSeq(q)
  <2>1. q \in Seq({a, b, c})
    OBVIOUS
  <2> QED BY <2>1, AnySeq
<1>2. Len(q) = 3 /\ q # <<>> /\ Head(q) = a /\ Soon(q, S) = Soon(<<a>>, S)
  BY DEF Soon
<1>3. \A i \in 1..3 : (i = 1 /\ q[i] = a) \/ (i = 2 /\ q[i] = b) \/ (i = 3 /\ q[i] = c)
  OBVIOUS
<1> HIDE DEF q
<1> QED BY <1>1, <1>2, <1>3 DEF PlanOK, NamesKnown, Later, q

(* The same with three statements after the first. *)
LEMMA Plan4 ==
  ASSUME NEW S, NEW K, NEW a, NEW b, NEW c, NEW d,
         Sound(a, S, K, Soon(<<a>>, S)), a.do # "ref",
         Later(b, S, K, Soon(<<a>>, S)), Later(c, S, K, Soon(<<a>>, S)),
         Later(d, S, K, Soon(<<a>>, S))
  PROVE  PlanOK(<<a, b, c, d>>, S, K)
<1> DEFINE q == <<a, b, c, d>>
<1>1. IsSeq(q)
  <2>1. q \in Seq({a, b, c, d})
    OBVIOUS
  <2> QED BY <2>1, AnySeq
<1>2. Len(q) = 4 /\ q # <<>> /\ Head(q) = a /\ Soon(q, S) = Soon(<<a>>, S)
  BY DEF Soon
<1>3. \A i \in 1..4 : \/ i = 1 /\ q[i] = a
                      \/ i = 2 /\ q[i] = b
                      \/ i = 3 /\ q[i] = c
                      \/ i = 4 /\ q[i] = d
  OBVIOUS
<1> HIDE DEF q
<1> QED BY <1>1, <1>2, <1>3 DEF PlanOK, NamesKnown, Later, q

(* The plan of Branch: the ref follows the revision it names. *)
LEMMA PlanBranch ==
  ASSUME NEW S, NEW K, NEW a, NEW b, NEW c,
         Sound(a, S, K, Soon(<<a>>, S)), a.do # "ref", Later(b, S, K, Soon(<<a>>, S)),
         Sound(c, S, K, Soon(<<a>>, S)), ~Publishes(c),
         b.do = "revision", c.target = b.id
  PROVE  PlanOK(<<a, b, c>>, S, K)
<1> DEFINE q == <<a, b, c>>
<1>1. IsSeq(q)
  <2>1. q \in Seq({a, b, c})
    OBVIOUS
  <2> QED BY <2>1, AnySeq
<1>2. Len(q) = 3 /\ q # <<>> /\ Head(q) = a /\ Soon(q, S) = Soon(<<a>>, S)
  BY DEF Soon
<1>3. /\ \A i \in 1..3 : (i = 1 /\ q[i] = a) \/ (i = 2 /\ q[i] = b) \/ (i = 3 /\ q[i] = c)
      /\ 2 \in 1..(3 - 1) /\ q[2] = b
  OBVIOUS
<1> HIDE DEF q
<1>4. NamesKnown(q, K)
  BY <1>2, <1>3 DEF NamesKnown, Later
<1> QED BY <1>1, <1>2, <1>3, <1>4 DEF PlanOK, Later, q

-----------------------------------------------------------------------------
(* What the three ways of changing proc keep. *)
LEMMA ContinueKeeps ==
  ASSUME ProcsOK, NEW p \in Procs, Running(p), NEW more, Continue(p, more),
         snapshots \subseteq snapshots', Known \subseteq Known',
         Soon(Todo(p), snapshots) \subseteq snapshots',
         Stmt(p).do = "revision" => Stmt(p).id \in Known',
         PlanOK(more, snapshots', Known')
  PROVE  ProcsOK'
<1> DEFINE S == snapshots  K == Known  S2 == snapshots'  K2 == Known'
           pr == proc[p]  todo == pr.todo  plan == more \o Tail(todo)
<1>1. ProcOK(pr, S, K) /\ PlanOK(todo, S, K) /\ todo # <<>>
  BY DEF ProcsOK, ProcOK, Running, Todo
<1>2. PlanOK(plan, S2, K2) /\ S2 \subseteq Soon(plan, S2)
  <2>1. /\ S \subseteq S2 /\ K \subseteq K2 /\ Soon(todo, S) \subseteq S2
        /\ PlanOK(more, S2, K2)
        /\ Head(todo).do = "revision" => Head(todo).id \in K2
    BY DEF Todo, Stmt
  <2> HIDE DEF S, K, S2, K2, todo
  <2> QED BY <1>1, <2>1, PlanContinues
<1>3. proc' = [proc EXCEPT ![p].todo = plan]
  BY DEF Continue
<1>4. /\ proc'[p] = [op |-> pr.op, id |-> pr.id, before |-> pr.before, memo |-> pr.memo,
                     first |-> pr.first, todo |-> plan]
      /\ \A q \in Procs \ {p} : proc'[q] = proc[q]
      /\ proc' = [q \in Procs |-> proc'[q]]
  <2>1. proc = [q \in Procs |-> proc[q]]
    BY DEF ProcsOK
  <2>2. pr = [op |-> pr.op, id |-> pr.id, before |-> pr.before, memo |-> pr.memo,
              first |-> pr.first, todo |-> pr.todo]
    BY <1>1 DEF ProcOK
  <2> HIDE DEF plan
  <2> QED BY <1>3, <2>1, <2>2
<1>5. ProcOK(proc'[p], S2, K2) /\ proc'[p].op \in OpNames
  <2>1. pr.op \in OpNames /\ DOMAIN pr.before \subseteq K2
        /\ \A s \in DOMAIN pr.memo : pr.memo[s] \in S2
    BY <1>1 DEF ProcsOK, ProcOK, Todo
  <2> HIDE DEF pr, plan
  <2> QED BY <1>2, <1>4, <2>1 DEF ProcOK
<1>6. ASSUME NEW q \in Procs \ {p} PROVE ProcOK(proc'[q], S2, K2) /\ proc'[q].op \in OpNames
  <2>1. ProcOK(proc[q], S, K) /\ proc[q].op \in OpNames
    BY DEF ProcsOK
  <2>2. ProcOK(proc[q], S2, K2)
    BY <2>1, ProcMonotone
  <2> QED BY <1>4, <2>1, <2>2
<1> QED BY <1>4, <1>5, <1>6 DEF ProcsOK

(* A process that does nothing has a good plan. *)
LEMMA IdleOK == ASSUME NEW S, NEW K PROVE ProcOK(Idle, S, K)
BY Plan0 DEF Idle, ProcOK

(* Giving up keeps every process's plan good. *)
LEMMA AbortKeeps ==
  ASSUME ProcsOK, NEW p \in Procs, Abort(p), UNCHANGED store
  PROVE  ProcsOK'
<1>1. /\ proc'[p] = Idle
      /\ \A q \in Procs \ {p} : proc'[q] = proc[q]
      /\ proc' = [q \in Procs |-> proc'[q]]
  <2>1. proc = [q \in Procs |-> proc[q]]
    BY DEF ProcsOK
  <2> QED BY <2>1 DEF Abort
<1>2. snapshots' = snapshots /\ Known' = Known
  BY DEF store, Known
<1>3. ProcOK(Idle, snapshots', Known') /\ Idle.op \in OpNames
  BY IdleOK DEF Idle, OpNames
<1> QED BY <1>1, <1>2, <1>3 DEF ProcsOK

(* Starting an operation with a good plan keeps every plan good. *)
LEMMA StartKeeps ==
  ASSUME ProcsOK, NEW p \in Procs, NEW op \in OpNames, NEW id, NEW todo,
         Start(p, op, id, todo), PlanOK(todo, snapshots, Known)
  PROVE  ProcsOK'
<1> DEFINE pr == [op |-> op, id |-> id, before |-> revisions, memo |-> <<>>,
                 first |-> Head(todo), todo |-> todo]
<1>1. /\ proc'[p] = pr
      /\ \A q \in Procs \ {p} : proc'[q] = proc[q]
      /\ proc' = [q \in Procs |-> proc'[q]]
  <2>1. proc = [q \in Procs |-> proc[q]]
    BY DEF ProcsOK
  <2> QED BY <2>1 DEF Start
<1>2. snapshots' = snapshots /\ Known' = Known
  BY DEF store, Known, Start
<1>3. ProcOK(pr, snapshots, Known) /\ pr.op \in OpNames
  BY DEF ProcOK, Known
<1> HIDE DEF pr
<1> QED BY <1>1, <1>2, <1>3 DEF ProcsOK

(* A step that writes no row. *)
LEMMA StoreUnchanged ==
  ASSUME IInv, ProcsOK', UNCHANGED store,
         nextId' \in 1..(MaxRevs + 1), ops' \in 0..MaxOps
  PROVE  IInv'
BY DEF IInv, TypeOK, CurrentSnapshotIsOwn, HistoryIsStored, BranchesResolve, ProcsOK, store,
       Known, Current

(* Starting an operation with a good plan keeps the invariant. *)
LEMMA StartInv ==
  ASSUME IInv, NEW p \in Procs, NEW op \in OpNames, NEW id, NEW todo,
         Start(p, op, id, todo), PlanOK(todo, snapshots, Known),
         nextId' = nextId \/ Fresh
  PROVE  IInv'
<1>1. ProcsOK'
  BY StartKeeps DEF IInv
<1>2. ops' \in 0..MaxOps /\ UNCHANGED store
  BY BoundsAssumption DEF Start, IInv, TypeOK
<1>3. nextId' \in 1..(MaxRevs + 1)
  BY BoundsAssumption DEF Fresh, IInv, TypeOK, RevIds
<1> QED BY <1>1, <1>2, <1>3, StoreUnchanged

(* A statement that only reads, and leaves a good plan, keeps the invariant. *)
LEMMA ContinueInv ==
  ASSUME IInv, NEW p \in Procs, Running(p), NEW more, Continue(p, more),
         ~Publishes(Stmt(p)), Stmt(p).do # "revision",
         PlanOK(more, snapshots, Known), UNCHANGED <<store, nextId, ops>>
  PROVE  IInv'
<1>1. snapshots' = snapshots /\ Known' = Known
  BY DEF store, Known
<1>2. Soon(Todo(p), snapshots) \subseteq snapshots'
  BY <1>1 DEF Soon, Publishes, Stmt
<1>3. ProcsOK'
  BY <1>1, <1>2, ContinueKeeps DEF IInv
<1> QED BY <1>3, StoreUnchanged DEF IInv, TypeOK

-----------------------------------------------------------------------------
(* What an operation finds in the tables. *)
LEMMA CurrentFacts ==
  ASSUME IInv, NEW id \in Known
  PROVE  /\ Current(id) \in snapshots /\ Current(id).rev = id /\ id \in RevIds
         /\ HistoryIn(Current(id), snapshots)
BY DEF IInv, TypeOK, CurrentSnapshotIsOwn, HistoryIsStored, HistoryIn

(* Descendants are known revisions. *)
LEMMA DescendantsKnown == \A h : Descendants(h) \subseteq Known
BY DEF Descendants, Children

(* An order of some revisions is a sequence of them. *)
LEMMA OrderIsSeq ==
  ASSUME IInv, NEW h, NEW ds, ds \subseteq Known, NEW q \in AncestorFirst(h, ds)
  PROVE  q \in Seq(ds) /\ DOMAIN q = 1..Len(q)
<1>1. IsFiniteSet(RevIds)
  BY BoundsAssumption, FS_Interval DEF RevIds
<1>2. IsFiniteSet(ds)
  BY <1>1, FS_Subset DEF IInv, TypeOK
<1>3. Cardinality(ds) \in Nat
  BY <1>2, FS_CardinalityType
<1>4. q \in [1..Cardinality(ds) -> ds]
  BY DEF AncestorFirst
<1>5. q \in Seq(ds)
  BY <1>3, <1>4, SeqDef
<1> QED BY <1>5

-----------------------------------------------------------------------------
(* Starting an operation keeps the invariant. *)
LEMMA CommitNewInv ==
  ASSUME IInv, NEW p \in Procs, NEW parents, CommitNew(p, parents),
         parents = <<>> \/ (Len(parents) = 1 /\ parents # <<>> /\ parents[1] \in snapshots)
  PROVE  IInv'
<1>1. PICK tree :
        LET s == Snapshot(nextId, parents, tree, "commit")
        IN  Fresh /\ Start(p, "commit", nextId, <<Commit(nextId, Row(s, None))>>)
  BY DEF CommitNew
<1> DEFINE s == Snapshot(nextId, parents, tree, "commit")
           st == Commit(nextId, Row(s, None))
<1>2. Fresh /\ Start(p, "commit", nextId, <<st>>)
  BY <1>1
<1>3. HistoryIn(s, snapshots) /\ s.rev = nextId /\ nextId \in RevIds
  BY <1>2 DEF Snapshot, HistoryIn, IsRoot, Parent, Fresh
<1> HIDE DEF s
<1>4. Sound(st, snapshots, Known, Soon(<<st>>, snapshots)) /\ st.do # "ref"
  BY <1>3 DEF Sound, Commit, Row
<1>5. PlanOK(<<st>>, snapshots, Known)
  BY <1>4, Plan1
<1> QED BY <1>2, <1>5, StartInv DEF OpNames

(* commit --new on a revision keeps the invariant. *)
LEMMA CommitOnInv ==
  ASSUME IInv, NEW p \in Procs, NEW id \in Known, CommitOn(p, id)
  PROVE  IInv'
<1>1. Current(id) \in snapshots
  BY CurrentFacts
<1>2. Len(<<Current(id)>>) = 1 /\ <<Current(id)>> # <<>> /\ <<Current(id)>>[1] = Current(id)
  OBVIOUS
<1> QED BY <1>1, <1>2, CommitNewInv DEF CommitOn

(* commit and amend keep the invariant. *)
LEMMA AmendInv ==
  ASSUME IInv, NEW p \in Procs, NEW id \in Known, CommitCurrent(p, id) \/ Amend(p, id)
  PROVE  IInv'
<1>1. PICK tree, desc, again : /\ Start(p, "amend", id, <<AmendWith(id, tree, desc, again)>>)
                              /\ nextId' = nextId
  BY DEF CommitCurrent, Amend
<1> DEFINE st == AmendWith(id, tree, desc, again)
<1>2. Sound(st, snapshots, Known, Soon(<<st>>, snapshots)) /\ st.do # "ref"
  BY DEF Sound, AmendWith
<1>3. PlanOK(<<st>>, snapshots, Known)
  BY <1>2, Plan1
<1> QED BY <1>1, <1>3, StartInv DEF OpNames

(* The plan of rebase and drop: move known revisions onto a stored snapshot. *)
LEMMA RebasePlan ==
  ASSUME NEW S, NEW K, NEW ids \in Seq(K), ids # <<>>, NEW onto \in S
  PROVE  PlanOK(<<RebaseRest(ids, onto)>>, S, K)
<1> DEFINE st == RebaseRest(ids, onto)
<1>1. Sound(st, S, K, Soon(<<st>>, S)) /\ st.do # "ref"
  BY SoonGrows DEF Sound, RebaseRest
<1> QED BY <1>1, Plan1

(* rebase keeps the invariant when it starts. *)
LEMMA RebaseInv ==
  ASSUME IInv, NEW p \in Procs, NEW id \in Known, NEW onto \in snapshots, Rebase(p, id, onto)
  PROVE  IInv'
<1>1. <<id>> \in Seq(Known) /\ <<id>> # <<>>
  OBVIOUS
<1>2. PlanOK(<<RebaseRest(<<id>>, onto)>>, snapshots, Known)
  BY <1>1, RebasePlan
<1> QED BY <1>2, StartInv DEF Rebase, OpNames

(* drop keeps the invariant when it starts. *)
LEMMA DropInv ==
  ASSUME IInv, NEW p \in Procs, NEW id \in Known, Drop(p, id)
  PROVE  IInv'
<1> DEFINE cur == Current(id)
<1>1. Parent(cur) \in snapshots
  BY CurrentFacts DEF Drop, HistoryIn
<1>2. PICK order \in AncestorFirst(cur, Descendants(cur)) :
        Len(order) > 0 /\ Start(p, "drop", id, <<RebaseRest(order, Parent(cur))>>)
  BY DEF Drop
<1>3. order \in Seq(Known) /\ order # <<>>
  <2>1. order \in Seq(Descendants(cur))
    BY DescendantsKnown, OrderIsSeq
  <2> QED BY <1>2, <2>1, DescendantsKnown
<1>4. PlanOK(<<RebaseRest(order, Parent(cur))>>, snapshots, Known)
  BY <1>1, <1>3, RebasePlan
<1> QED BY <1>2, <1>4, StartInv DEF Drop, OpNames

(* A new snapshot and the row that points at it. *)
LEMMA PutPlan ==
  ASSUME IInv, NEW s, HistoryIn(s, snapshots), s.rev \in RevIds, NEW fork \in Known \cup {None}
  PROVE  LET a == PutSnapshot(s)
             b == PutRevision(s.rev, Row(s, fork))
         IN  /\ Sound(a, snapshots, Known, Soon(<<a>>, snapshots)) /\ a.do # "ref"
             /\ Later(b, snapshots, Known, Soon(<<a>>, snapshots))
             /\ PlanOK(<<a, b>>, snapshots, Known)
<1> DEFINE a == PutSnapshot(s)
           b == PutRevision(s.rev, Row(s, fork))
<1>1. s \in Soon(<<a>>, snapshots)
  BY DEF Soon, PutSnapshot
<1>2. Sound(a, snapshots, Known, Soon(<<a>>, snapshots)) /\ a.do # "ref"
  BY DEF Sound, PutSnapshot
<1>3. Later(b, snapshots, Known, Soon(<<a>>, snapshots))
  BY <1>1 DEF Sound, PutRevision, PutOver, Row, Later, Publishes
<1> HIDE DEF a, b
<1>4. PlanOK(<<a, b>>, snapshots, Known)
  BY <1>2, <1>3, Plan2
<1> QED BY <1>2, <1>3, <1>4 DEF a, b

(* revert keeps the invariant when it starts. *)
LEMMA RevertInv ==
  ASSUME IInv, NEW p \in Procs, NEW id \in Known, NEW onto \in snapshots, Revert(p, id, onto)
  PROVE  IInv'
<1> DEFINE s == Snapshot(nextId, <<onto>>,
                         MergeTrees(Current(id).tree, BaseTree(Current(id)), onto.tree), "revert")
<1>1. /\ Fresh
      /\ Start(p, "revert", nextId, <<PutSnapshot(s), PutRevision(nextId, Row(s, None))>>)
  BY DEF Revert
<1>2. HistoryIn(s, snapshots) /\ s.rev = nextId /\ nextId \in RevIds
  BY <1>1 DEF Snapshot, HistoryIn, Parent, Fresh
<1> HIDE DEF s
<1>3. PlanOK(<<PutSnapshot(s), PutRevision(nextId, Row(s, None))>>, snapshots, Known)
  BY <1>2, PutPlan
<1> QED BY <1>1, <1>3, StartInv DEF OpNames

(* message keeps the invariant when it starts. *)
LEMMA SetDescriptionInv ==
  ASSUME IInv, NEW p \in Procs, NEW id \in Known, NEW desc, SetDescription(p, id, desc)
  PROVE  IInv'
<1> DEFINE cur == Current(id)
           s == Snapshot(cur.rev, cur.parents, cur.tree, desc)
           fork == revisions[id].forkFrom
<1>1. /\ nextId' = nextId
      /\ Start(p, "message", id, <<PutSnapshot(s), PutRevision(id, Row(s, fork))>>)
  BY DEF SetDescription
<1>2. HistoryIn(s, snapshots) /\ s.rev = id /\ id \in RevIds
  BY CurrentFacts DEF Snapshot, HistoryIn, IsRoot, Parent
<1>3. fork \in Known \cup {None}
  BY DEF IInv, TypeOK
<1> HIDE DEF s, fork
<1>4. PlanOK(<<PutSnapshot(s), PutRevision(id, Row(s, fork))>>, snapshots, Known)
  BY <1>2, <1>3, PutPlan
<1> QED BY <1>1, <1>4, StartInv DEF OpNames

(* squash keeps the invariant when it starts. *)
LEMMA SquashInv ==
  ASSUME IInv, NEW p \in Procs, NEW id \in Known, Squash(p, id)
  PROVE  IInv'
<1> DEFINE st == SquashInto(Current(id))
<1>1. Sound(st, snapshots, Known, Soon(<<st>>, snapshots)) /\ st.do # "ref"
  BY CurrentFacts DEF Sound, SquashInto, Squash
<1>2. PlanOK(<<st>>, snapshots, Known)
  BY <1>1, Plan1
<1> QED BY <1>2, StartInv DEF Squash, OpNames

(* resolve keeps the invariant when it starts. *)
LEMMA ResolveInv ==
  ASSUME IInv, NEW p \in Procs, NEW id \in Known, NEW path, Resolve(p, id, path)
  PROVE  IInv'
<1> DEFINE cur  == Current(id)
           e    == FindEntry(cur.tree, path)
           same == {d \in Descendants(cur) \ {id} : FindEntry(Current(d).tree, path) = e}
<1>1. PICK side \in Sides(e), order \in AncestorFirst(cur, same) :
        LET new  == Resolution(cur, path, Chosen(e, side))
            list == [i \in DOMAIN order |-> Current(order[i])]
        IN  Start(p, "resolve", id,
                  <<PutSnapshot(new), Repoint(id, {cur}, new),
                    RepairRest(list, path, Chosen(e, side))>>)
  BY DEF Resolve
<1> DEFINE new  == Resolution(cur, path, Chosen(e, side))
           list == [i \in DOMAIN order |-> Current(order[i])]
           a == PutSnapshot(new)
           b == Repoint(id, {cur}, new)
           c == RepairRest(list, path, Chosen(e, side))
           own == {s \in snapshots : s.rev \in Known}
<1>2. same \subseteq Known
  BY DescendantsKnown
<1>3. order \in Seq(same) /\ DOMAIN order = 1..Len(order)
  <2> HIDE DEF same, cur
  <2> QED BY <1>2, OrderIsSeq
<1>4. \A i \in 1..Len(order) : order[i] \in Known
  BY <1>2, <1>3
<1>5. list \in Seq(own)
  <2>1. Len(order) \in Nat
    BY <1>3
  <2>2. list \in [1..Len(order) -> own]
    BY <1>3, <1>4, CurrentFacts
  <2> HIDE DEF list, own
  <2> QED BY <2>1, <2>2, SeqDef
<1>6. HistoryIn(new, snapshots) /\ new.rev = id
  BY CurrentFacts DEF Resolution, WithTree, Snapshot, HistoryIn, IsRoot, Parent
<1>7. Start(p, "resolve", id, <<a, b, c>>)
  BY <1>1
<1> HIDE DEF new, list, same, cur, e
<1>8. new \in Soon(<<a>>, snapshots)
  BY DEF Soon, PutSnapshot
<1>9. Sound(a, snapshots, Known, Soon(<<a>>, snapshots)) /\ a.do # "ref"
  BY <1>6 DEF Sound, PutSnapshot
<1>10. Later(b, snapshots, Known, Soon(<<a>>, snapshots))
  BY <1>6, <1>8 DEF Sound, Repoint, Later, Publishes
<1>11. Later(c, snapshots, Known, Soon(<<a>>, snapshots))
  BY <1>5 DEF Sound, RepairRest, Later, Publishes
<1> HIDE DEF a, b, c
<1>12. PlanOK(<<a, b, c>>, snapshots, Known)
  BY <1>9, <1>10, <1>11, Plan3
<1> QED BY <1>7, <1>12, StartInv DEF Resolve, OpNames

(* The ignore rewrite keeps the invariant when it starts. *)
LEMMA RewriteIgnoredInv ==
  ASSUME IInv, NEW p \in Procs, NEW id \in Known, NEW path, RewriteIgnored(p, id, path)
  PROVE  IInv'
<1> DEFINE st == Visit(Current(id), path)
<1>1. Sound(st, snapshots, Known, Soon(<<st>>, snapshots)) /\ st.do # "ref"
  BY CurrentFacts DEF Sound, Visit
<1>2. PlanOK(<<st>>, snapshots, Known)
  BY <1>1, Plan1
<1> QED BY <1>2, StartInv DEF RewriteIgnored, OpNames

(* branch keeps the invariant when it starts. *)
LEMMA BranchInv ==
  ASSUME IInv, NEW p \in Procs, NEW id \in Known, NEW name \in RefNames, Branch(p, name, id)
  PROVE  IInv'
<1>1. CASE name \in DOMAIN refs /\ refs[name].kind = "branch"
  <2> DEFINE st == PutRef(name, "branch", refs[name].target)
  <2>1. /\ Sound(st, snapshots, Known, Soon(<<st>>, snapshots))
        /\ st.target \in Known
    BY <1>1 DEF Sound, PutRef, IInv, BranchesResolve
  <2> HIDE DEF st
  <2>2. PlanOK(<<st>>, snapshots, Known)
    BY <2>1, Plan1
  <2> QED BY <1>1, <2>2, StartInv DEF Branch, OpNames, st
<1>2. CASE ~(name \in DOMAIN refs /\ refs[name].kind = "branch")
  <2> DEFINE cur == Current(id)
             s == Snapshot(nextId, cur.parents, cur.tree, cur.desc)
             a == PutSnapshot(s)
             b == PutRevision(nextId, Row(s, id))
             c == PutRef(name, "branch", nextId)
  <2>1. Fresh /\ Start(p, "branch", nextId, <<a, b, c>>)
    BY <1>2 DEF Branch
  <2>2. HistoryIn(s, snapshots) /\ s.rev = nextId /\ nextId \in RevIds
    BY <2>1, CurrentFacts DEF Snapshot, HistoryIn, IsRoot, Parent, Fresh
  <2> HIDE DEF s
  <2>3. /\ Sound(a, snapshots, Known, Soon(<<a>>, snapshots)) /\ a.do # "ref"
        /\ Later(b, snapshots, Known, Soon(<<a>>, snapshots))
    BY <2>2, PutPlan
  <2>4. /\ Sound(c, snapshots, Known, Soon(<<a>>, snapshots)) /\ ~Publishes(c)
        /\ b.do = "revision" /\ c.target = b.id
    BY DEF Sound, PutRef, Publishes, PutRevision, PutOver
  <2> HIDE DEF a, b, c
  <2>5. PlanOK(<<a, b, c>>, snapshots, Known)
    BY <2>3, <2>4, PlanBranch
  <2> QED BY <2>1, <2>5, StartInv DEF OpNames
<1> QED BY <1>1, <1>2

(* tag keeps the invariant when it starts. *)
LEMMA TagInv ==
  ASSUME IInv, NEW p \in Procs, NEW id \in Known, NEW name \in RefNames, Tag(p, name, id)
  PROVE  IInv'
<1> DEFINE st == TagOrFail(name, id)
<1>1. Sound(st, snapshots, Known, Soon(<<st>>, snapshots)) /\ st.do # "ref"
  BY DEF Sound, TagOrFail
<1>2. PlanOK(<<st>>, snapshots, Known)
  BY <1>1, Plan1
<1> QED BY <1>2, StartInv DEF Tag, OpNames

(* Deleting a ref keeps the invariant. *)
LEMMA DeleteRefInv ==
  ASSUME IInv, NEW p \in Procs, NEW name \in RefNames, DeleteRef(p, name)
  PROVE  IInv'
<1>1. snapshots' = snapshots /\ revisions' = revisions /\ proc' = proc /\ nextId' = nextId
  BY DEF DeleteRef
<1>2. ProcsOK'
  BY <1>1 DEF IInv, ProcsOK, Known
<1>3. ops' \in 0..MaxOps
  BY BoundsAssumption DEF DeleteRef, IInv, TypeOK
<1>4. refs' = [n \in DOMAIN refs \ {name} |-> refs[n]]
  BY DEF DeleteRef
<1>5. TypeOK'
  BY <1>1, <1>3, <1>4 DEF IInv, TypeOK, Known, Current
<1>6. CurrentSnapshotIsOwn' /\ HistoryIsStored'
  BY <1>1 DEF IInv, CurrentSnapshotIsOwn, HistoryIsStored, Known, Current
<1>7. BranchesResolve'
  BY <1>1, <1>4 DEF IInv, BranchesResolve, Known
<1> QED BY <1>2, <1>5, <1>6, <1>7 DEF IInv

-----------------------------------------------------------------------------
(* Executing a statement keeps the invariant. *)
LEMMA StmtIsSound ==
  ASSUME IInv, NEW p \in Procs, Running(p)
  PROVE  /\ Sound(Stmt(p), snapshots, Known, Soon(Todo(p), snapshots))
         /\ Stmt(p).do = "snapshot" => Soon(Todo(p), snapshots) = snapshots \cup {Stmt(p).snap}
         /\ Stmt(p).do = "commit" => Soon(Todo(p), snapshots) = snapshots \cup {Stmt(p).row.hash}
         /\ ~Publishes(Stmt(p)) => Soon(Todo(p), snapshots) = snapshots
         /\ Stmt(p).do = "ref" /\ Stmt(p).kind = "branch" => Stmt(p).target \in Known
<1>1. PlanOK(Todo(p), snapshots, Known) /\ Todo(p) # <<>>
  BY DEF IInv, ProcsOK, ProcOK, Todo, Running
<1>2. Stmt(p) = Todo(p)[1] /\ 1 \in 1..Len(Todo(p)) /\ 1..(1 - 1) = {}
  BY <1>1, SeqTail DEF PlanOK, Stmt
<1>3. Sound(Stmt(p), snapshots, Known, Soon(Todo(p), snapshots))
  BY <1>1, <1>2 DEF PlanOK
<1>4. Stmt(p).do = "ref" /\ Stmt(p).kind = "branch" => Stmt(p).target \in Known
  BY <1>1, <1>2 DEF PlanOK, NamesKnown
<1> QED BY <1>1, <1>3, <1>4 DEF Soon, Stmt, Publishes

(* Storing a snapshot keeps the invariant. *)
LEMMA DoPutSnapshotInv ==
  ASSUME IInv, NEW p \in Procs, DoPutSnapshot(p)
  PROVE  IInv'
<1> DEFINE new == Stmt(p).snap
<1>1. /\ HistoryIn(new, snapshots)
      /\ Soon(Todo(p), snapshots) = snapshots \cup {new}
  BY StmtIsSound DEF DoPutSnapshot, Sound
<1>2. /\ snapshots' = snapshots \cup {new} /\ revisions' = revisions /\ refs' = refs
      /\ Known' = Known /\ nextId' = nextId /\ ops' = ops /\ Continue(p, <<>>) /\ Running(p)
      /\ Stmt(p).do # "revision"
  BY DEF DoPutSnapshot, Known
<1>3. ProcsOK'
  BY <1>1, <1>2, Plan0, ContinueKeeps DEF IInv
<1>4. HistoryIsStored'
  BY <1>1, <1>2 DEF IInv, HistoryIsStored, HistoryIn
<1>5. TypeOK' /\ CurrentSnapshotIsOwn' /\ BranchesResolve'
  BY <1>2, <1>3 DEF IInv, TypeOK, CurrentSnapshotIsOwn, BranchesResolve, Known, Current, ProcsOK
<1> QED BY <1>3, <1>4, <1>5 DEF IInv

(* Writing a revision row keeps the invariant. *)
LEMMA DoPutRevisionInv ==
  ASSUME IInv, NEW p \in Procs, DoPutRevision(p)
  PROVE  IInv'
<1> DEFINE id == Stmt(p).id  row == Stmt(p).row
<1>1. /\ row.hash \in snapshots /\ row.hash.rev = id /\ id \in RevIds
      /\ row = Row(row.hash, row.forkFrom) /\ row.forkFrom \in Known \cup {None}
      /\ Soon(Todo(p), snapshots) = snapshots
  BY StmtIsSound DEF DoPutRevision, Sound, Publishes
<1>2. /\ snapshots' = snapshots /\ refs' = refs /\ nextId' = nextId /\ ops' = ops
      /\ Known' = Known \cup {id}
      /\ revisions'[id] = row
      /\ \A d \in Known \ {id} : revisions'[d] = revisions[d]
      /\ Continue(p, <<>>) /\ Running(p)
  BY DEF DoPutRevision, Known, Upsert
<1> HIDE DEF id, row
<1>3. ProcsOK'
  BY <1>1, <1>2, Plan0, ContinueKeeps DEF IInv, id
<1>4. TypeOK'
  BY <1>1, <1>2, <1>3 DEF IInv, TypeOK, ProcsOK, Current
<1>5. CurrentSnapshotIsOwn' /\ HistoryIsStored' /\ BranchesResolve'
  BY <1>1, <1>2 DEF IInv, CurrentSnapshotIsOwn, HistoryIsStored, BranchesResolve, Current
<1> QED BY <1>3, <1>4, <1>5 DEF IInv

(* The commit transaction keeps the invariant. *)
LEMMA DoCommitInv ==
  ASSUME IInv, NEW p \in Procs, DoCommit(p)
  PROVE  IInv'
<1> DEFINE id == Stmt(p).id  row == Stmt(p).row
<1>1. /\ HistoryIn(row.hash, snapshots) /\ row.hash.rev = id /\ id \in RevIds
      /\ row = Row(row.hash, None)
      /\ Soon(Todo(p), snapshots) = snapshots \cup {row.hash}
  BY StmtIsSound DEF DoCommit, Sound
<1>2. /\ snapshots' = snapshots \cup {row.hash} /\ refs' = refs /\ nextId' = nextId /\ ops' = ops
      /\ Known' = Known \cup {id}
      /\ revisions'[id] = row
      /\ \A d \in Known \ {id} : revisions'[d] = revisions[d]
      /\ Continue(p, <<>>) /\ Running(p) /\ Stmt(p).do # "revision"
  BY DEF DoCommit, Known, Upsert
<1>3. row.forkFrom = None
  BY <1>1 DEF Row
<1> HIDE DEF id, row
<1>4. ProcsOK'
  BY <1>1, <1>2, Plan0, ContinueKeeps DEF IInv
<1>5. TypeOK'
  BY <1>1, <1>2, <1>3, <1>4 DEF IInv, TypeOK, ProcsOK, Current
<1>6. CurrentSnapshotIsOwn' /\ HistoryIsStored' /\ BranchesResolve'
  BY <1>1, <1>2 DEF IInv, CurrentSnapshotIsOwn, HistoryIsStored, BranchesResolve, Current, HistoryIn
<1> QED BY <1>4, <1>5, <1>6 DEF IInv

(* Writing a ref keeps the invariant. *)
LEMMA DoPutRefInv ==
  ASSUME IInv, NEW p \in Procs, DoPutRef(p)
  PROVE  IInv'
<1> DEFINE st == Stmt(p)
<1>1. /\ st.kind \in {"branch", "tag"} /\ st.name \in RefNames
      /\ st.kind = "branch" => st.target \in Known
      /\ Soon(Todo(p), snapshots) = snapshots
  BY StmtIsSound DEF DoPutRef, Sound, Publishes
<1>2. /\ snapshots' = snapshots /\ revisions' = revisions /\ nextId' = nextId /\ ops' = ops
      /\ DOMAIN refs' = DOMAIN refs \cup {st.name}
      /\ refs'[st.name] = [kind |-> st.kind, target |-> st.target]
      /\ \A n \in DOMAIN refs \ {st.name} : refs'[n] = refs[n]
      /\ Known' = Known /\ Continue(p, <<>>) /\ Running(p) /\ Stmt(p).do # "revision"
  BY DEF DoPutRef, Known, Upsert
<1> HIDE DEF st
<1>3. ProcsOK'
  BY <1>1, <1>2, Plan0, ContinueKeeps DEF IInv
<1>4. TypeOK'
  BY <1>1, <1>2, <1>3 DEF IInv, TypeOK, ProcsOK, Current
<1>5. CurrentSnapshotIsOwn' /\ HistoryIsStored' /\ BranchesResolve'
  BY <1>1, <1>2 DEF IInv, CurrentSnapshotIsOwn, HistoryIsStored, BranchesResolve, Current
<1> QED BY <1>3, <1>4, <1>5 DEF IInv

(* The read half of a repoint keeps the invariant. *)
LEMMA DoRepointInv ==
  ASSUME IInv, NEW p \in Procs, DoRepoint(p)
  PROVE  IInv'
<1> DEFINE st == Stmt(p)
           row == revisions[st.id]
           new == PutOver(st.id, st.expect, Row(st.hash, row.forkFrom))
<1>1. /\ st.do = "repoint" /\ st.hash \in snapshots /\ st.hash.rev = st.id
      /\ st.id \in Known /\ ~Publishes(st)
  BY StmtIsSound DEF DoRepoint, Sound, Publishes
<1>2. row.forkFrom \in Known \cup {None} /\ st.id \in RevIds
  BY <1>1 DEF IInv, TypeOK
<1>3. Sound(new, snapshots, Known, Soon(<<new>>, snapshots)) /\ new.do # "ref"
  BY <1>1, <1>2, SoonGrows DEF Sound, PutOver, Row
<1> HIDE DEF new
<1>4. PlanOK(<<new>>, snapshots, Known)
  BY <1>3, Plan1
<1>5. CASE st.expect = {} \/ row.hash \in st.expect
  <2>1. Continue(p, <<new>>) /\ Running(p) /\ UNCHANGED <<store, nextId, ops>>
    BY <1>5 DEF DoRepoint, new
  <2> QED BY <1>1, <1>4, <2>1, ContinueInv
<1>6. CASE ~(st.expect = {} \/ row.hash \in st.expect)
  <2>1. Abort(p) /\ UNCHANGED <<store, nextId, ops>>
    BY <1>6 DEF DoRepoint
  <2> QED BY <2>1, AbortKeeps, StoreUnchanged DEF IInv, TypeOK
<1> QED BY <1>5, <1>6

(* Appending one statement to a literal plan. *)
LEMMA LastOfTwo ==
  ASSUME NEW a, NEW b
  PROVE  <<a>> \o <<b>> = <<a, b>>
<1> DEFINE T == {a, b}  q == <<a>> \o <<b>>  r == <<a, b>>
<1>1. q \in Seq(T) /\ r \in Seq(T) /\ Len(q) = 2 /\ Len(r) = 2
  OBVIOUS
<1>2. q[1] = r[1] /\ q[2] = r[2]
  OBVIOUS
<1>3. \A i \in 1..2 : i = 1 \/ i = 2
  OBVIOUS
<1> HIDE DEF q, r, T
<1>4. \A i \in 1..Len(q) : q[i] = r[i]
  BY <1>1, <1>2, <1>3
<1>5. q = r
  BY <1>1, <1>4, SeqEqual
<1> QED BY <1>5 DEF q, r

LEMMA LastOfFour ==
  ASSUME NEW a, NEW b, NEW c, NEW d
  PROVE  <<a, b, c>> \o <<d>> = <<a, b, c, d>>
<1> DEFINE T == {a, b, c, d}  q == <<a, b, c>> \o <<d>>  r == <<a, b, c, d>>
<1>1. q \in Seq(T) /\ r \in Seq(T) /\ Len(q) = 4 /\ Len(r) = 4
  OBVIOUS
<1>2. q[1] = r[1] /\ q[2] = r[2] /\ q[3] = r[3] /\ q[4] = r[4]
  OBVIOUS
<1>3. \A i \in 1..4 : i = 1 \/ i = 2 \/ i = 3 \/ i = 4
  OBVIOUS
<1> HIDE DEF q, r, T
<1>4. \A i \in 1..Len(q) : q[i] = r[i]
  BY <1>1, <1>2, <1>3
<1>5. q = r
  BY <1>1, <1>4, SeqEqual
<1> QED BY <1>5 DEF q, r

(* A rewritten snapshot of a known revision, then the repointing of its row. *)
LEMMA RewritePlan ==
  ASSUME NEW S, NEW K, NEW s, HistoryIn(s, S), s.rev \in K, NEW expect
  PROVE  LET a == PutSnapshot(s)
             b == Repoint(s.rev, expect, s)
         IN  /\ s \in Soon(<<a>>, S)
             /\ Sound(a, S, K, Soon(<<a>>, S)) /\ a.do # "ref"
             /\ Later(b, S, K, Soon(<<a>>, S))
             /\ PlanOK(<<a, b>>, S, K)
<1> DEFINE a == PutSnapshot(s)
           b == Repoint(s.rev, expect, s)
<1>1. s \in Soon(<<a>>, S)
  BY DEF Soon, PutSnapshot
<1>2. Sound(a, S, K, Soon(<<a>>, S)) /\ a.do # "ref"
  BY DEF Sound, PutSnapshot
<1>3. Later(b, S, K, Soon(<<a>>, S))
  BY <1>1 DEF Sound, Repoint, Later, Publishes
<1> HIDE DEF a, b
<1>4. PlanOK(<<a, b>>, S, K)
  BY <1>2, <1>3, Plan2
<1> QED BY <1>1, <1>2, <1>3, <1>4 DEF a, b

(* One rebase of a chain keeps the invariant. *)
LEMMA DoRebaseInv ==
  ASSUME IInv, NEW p \in Procs, DoRebase(p)
  PROVE  IInv'
<1> DEFINE st == Stmt(p)  ids == st.ids  id == Head(ids)  cur == Current(id)
           new == Rebased(cur, st.onto)
           a == PutSnapshot(new)
           b == Repoint(id, {cur}, new)
           c == PutRevision(id, Row(new, revisions[id].forkFrom))
           d == RebaseRest(Tail(ids), new)
           R == Soon(<<a>>, snapshots)
<1>1. /\ st.do = "rebase" /\ ids \in Seq(Known) /\ ids # <<>> /\ st.onto \in snapshots
      /\ ~Publishes(st)
  BY StmtIsSound DEF DoRebase, Sound, Publishes
<1>2. id \in Known /\ Tail(ids) \in Seq(Known) /\ (Len(ids) > 1 => Tail(ids) # <<>>)
  BY <1>1
<1>3. id \in RevIds /\ revisions[id].forkFrom \in Known \cup {None}
  BY <1>2 DEF IInv, TypeOK
<1>4. HistoryIn(new, snapshots) /\ new.rev = id
  BY <1>1, <1>2, CurrentFacts DEF Rebased, Snapshot, HistoryIn, Parent
<1> HIDE DEF new, id, cur, ids
<1>5. /\ new \in R /\ Sound(a, snapshots, Known, R) /\ a.do # "ref"
      /\ Later(b, snapshots, Known, R)
  BY <1>2, <1>4, RewritePlan
<1>6. Later(c, snapshots, Known, R)
  BY <1>3, <1>4, <1>5 DEF Sound, PutRevision, PutOver, Row, Later, Publishes
<1>7. Len(ids) > 1 => Later(d, snapshots, Known, R)
  BY <1>2, <1>5 DEF Sound, RebaseRest, Later, Publishes
<1> DEFINE more == <<a, b, c>> \o (IF Len(ids) > 1 THEN <<d>> ELSE <<>>)
<1>8. Continue(p, more) /\ Running(p) /\ UNCHANGED <<store, nextId, ops>>
  BY DEF DoRebase, new, id, cur, ids
<1> HIDE DEF a, b, c, d
<1>9. PlanOK(more, snapshots, Known)
  <2>1. CASE Len(ids) > 1
    <3>1. <<a, b, c>> \o <<d>> = <<a, b, c, d>>
      BY LastOfFour
    <3>2. more = <<a, b, c, d>>
      BY <2>1, <3>1
    <3> QED BY <2>1, <3>2, <1>5, <1>6, <1>7, Plan4
  <2>2. CASE ~(Len(ids) > 1)
    <3>1. more = <<a, b, c>>
      BY <2>2
    <3> QED BY <3>1, <1>5, <1>6, Plan3
  <2> QED BY <2>1, <2>2
<1> HIDE DEF more
<1> QED BY <1>1, <1>8, <1>9, ContinueInv

(* The amending half of a commit keeps the invariant. *)
LEMMA DoAmendInv ==
  ASSUME IInv, NEW p \in Procs, DoAmend(p)
  PROVE  IInv'
<1> DEFINE st == Stmt(p)
           new == Snapshot(st.id, Current(st.id).parents, st.tree, st.desc)
           a == Commit(st.id, Row(new, None))
           b == Repoint(st.id, {}, new)
           more == <<a>> \o (IF st.again THEN <<b>> ELSE <<>>)
           R == Soon(<<a>>, snapshots)
<1>1. st.do = "amend" /\ st.id \in Known /\ ~Publishes(st)
  BY StmtIsSound DEF DoAmend, Sound, Publishes
<1>2. HistoryIn(new, snapshots) /\ new.rev = st.id /\ st.id \in RevIds
  BY <1>1, CurrentFacts DEF Snapshot, HistoryIn, IsRoot, Parent
<1>3. Continue(p, more) /\ Running(p) /\ UNCHANGED <<store, nextId, ops>>
  BY DEF DoAmend
<1> HIDE DEF new
<1>4. new \in R
  BY DEF Soon, Commit, Row
<1>5. Sound(a, snapshots, Known, R) /\ a.do # "ref"
  BY <1>2 DEF Sound, Commit, Row
<1>6. Later(b, snapshots, Known, R)
  BY <1>1, <1>2, <1>4 DEF Sound, Repoint, Later, Publishes
<1> HIDE DEF a, b
<1>7. PlanOK(more, snapshots, Known)
  <2>1. CASE st.again
    <3>1. more = <<a, b>>
      BY <2>1, LastOfTwo
    <3> QED BY <3>1, <1>5, <1>6, Plan2
  <2>2. CASE ~st.again
    <3>1. more = <<a>>
      BY <2>2
    <3> QED BY <3>1, <1>5, Plan1
  <2> QED BY <2>1, <2>2
<1> HIDE DEF more
<1> QED BY <1>1, <1>3, <1>7, ContinueInv

(* The second half of squash keeps the invariant. *)
LEMMA DoSquashInv ==
  ASSUME IInv, NEW p \in Procs, DoSquash(p)
  PROVE  IInv'
<1> DEFINE c   == Stmt(p).child
           old == Parent(c)
           new == WithTree(old, MergeTrees(old.tree, old.tree, c.tree))
           more == <<PutSnapshot(new), Repoint(old.rev, {Current(old.rev)}, new)>>
<1>1. c \in snapshots /\ ~IsRoot(c) /\ ~Publishes(Stmt(p)) /\ Stmt(p).do # "revision"
  BY StmtIsSound DEF DoSquash, Sound, Publishes
<1>2. old \in snapshots /\ HistoryIn(old, snapshots)
  BY <1>1 DEF IInv, HistoryIsStored, HistoryIn
<1>3. HistoryIn(new, snapshots) /\ new.rev = old.rev
  BY <1>2 DEF WithTree, Snapshot, HistoryIn, IsRoot, Parent
<1>4. CASE old.rev \in Known
  <2>1. Continue(p, more) /\ Running(p) /\ UNCHANGED <<store, nextId, ops>>
    BY <1>4 DEF DoSquash
  <2> HIDE DEF new, old
  <2>2. PlanOK(more, snapshots, Known)
    BY <1>3, <1>4, RewritePlan
  <2> HIDE DEF more
  <2> QED BY <1>1, <2>1, <2>2, ContinueInv
<1>5. CASE old.rev \notin Known
  <2>1. Abort(p) /\ UNCHANGED <<store, nextId, ops>>
    BY <1>5 DEF DoSquash
  <2> QED BY <2>1, AbortKeeps, StoreUnchanged DEF IInv, TypeOK
<1> QED BY <1>4, <1>5

(* Resolving one descendant keeps the invariant. *)
LEMMA DoRepairInv ==
  ASSUME IInv, NEW p \in Procs, DoRepair(p)
  PROVE  IInv'
<1> DEFINE st  == Stmt(p)
           list == st.list
           d   == Head(list)
           new == Resolution(d, st.path, st.entry)
           a == PutSnapshot(new)
           b == Repoint(d.rev, {}, new)
           c == RepairRest(Tail(list), st.path, st.entry)
           R == Soon(<<a>>, snapshots)
           own == {s \in snapshots : s.rev \in Known}
           more == IF list = <<>> THEN <<>> ELSE <<a, b, c>>
<1>1. st.do = "repair" /\ list \in Seq(own) /\ ~Publishes(st)
  BY StmtIsSound DEF DoRepair, Sound, Publishes
<1>2. Continue(p, more) /\ Running(p) /\ UNCHANGED <<store, nextId, ops>>
  BY DEF DoRepair
<1>3. CASE list = <<>>
  <2>1. more = <<>>
    BY <1>3
  <2> HIDE DEF more
  <2> QED BY <1>1, <1>2, <2>1, Plan0, ContinueInv
<1>4. CASE list # <<>>
  <2>1. d \in own /\ Tail(list) \in Seq(own)
    <3> HIDE DEF own, list
    <3> QED BY <1>1, <1>4
  <2>2. HistoryIn(d, snapshots)
    BY <2>1 DEF IInv, HistoryIsStored, HistoryIn
  <2>3. HistoryIn(new, snapshots) /\ new.rev = d.rev /\ d.rev \in Known
    BY <2>1, <2>2 DEF Resolution, WithTree, Snapshot, HistoryIn, IsRoot, Parent
  <2>4. Later(c, snapshots, Known, R)
    BY <2>1 DEF Sound, RepairRest, Later, Publishes
  <2>5. more = <<a, b, c>>
    BY <1>4
  <2> HIDE DEF new, d, list, own
  <2>6. Sound(a, snapshots, Known, R) /\ a.do # "ref" /\ Later(b, snapshots, Known, R)
    BY <2>3, RewritePlan
  <2> HIDE DEF a, b, c, more
  <2>7. PlanOK(<<a, b, c>>, snapshots, Known)
    BY <2>4, <2>6, Plan3
  <2> QED BY <1>1, <1>2, <2>5, <2>7, ContinueInv
<1> QED BY <1>3, <1>4

(* Visiting a snapshot of the ignore rewrite keeps the invariant. *)
LEMMA DoVisitInv ==
  ASSUME IInv, NEW p \in Procs, DoVisit(p)
  PROVE  IInv'
<1> DEFINE st == Stmt(p)
           up == Parent(st.snap)
           v == Visit(up, st.path)
           c == Clean(st.snap, st.path)
           goes == ~IsRoot(st.snap) /\ Owned(p, up)
           more == (IF goes THEN <<v>> ELSE <<>>) \o <<c>>
<1>1. st.do = "visit" /\ st.snap \in snapshots /\ st.snap.rev \in Known /\ ~Publishes(st)
  BY StmtIsSound DEF DoVisit, Sound, Publishes
<1>2. Continue(p, more) /\ Running(p) /\ UNCHANGED <<store, nextId, ops>>
  BY DEF DoVisit
<1>3. ASSUME goes PROVE up \in snapshots /\ up.rev \in Known
  <2>1. up \in snapshots
    BY <1>1, <1>3 DEF IInv, HistoryIsStored
  <2>2. DOMAIN proc[p].before \subseteq Known
    BY DEF IInv, ProcsOK, ProcOK
  <2> QED BY <1>3, <2>1, <2>2 DEF Owned
<1>4. Later(c, snapshots, Known, snapshots)
  BY <1>1 DEF Later, Sound, Clean, Publishes
<1>5. goes => Later(v, snapshots, Known, snapshots)
  BY <1>3 DEF Later, Sound, Visit, Publishes
<1>6. Soon(<<v>>, snapshots) = snapshots /\ Soon(<<c>>, snapshots) = snapshots
  BY DEF Soon, Visit, Clean
<1> HIDE DEF v, c, goes
<1>7. PlanOK(more, snapshots, Known)
  <2>1. CASE goes
    <3>1. more = <<v, c>>
      BY <2>1, LastOfTwo
    <3> QED BY <2>1, <3>1, <1>4, <1>5, <1>6, Plan2 DEF Later
  <2>2. CASE ~goes
    <3>1. more = <<c>>
      BY <2>2
    <3> QED BY <3>1, <1>4, <1>6, Plan1 DEF Later
  <2> QED BY <2>1, <2>2
<1> HIDE DEF more
<1> QED BY <1>1, <1>2, <1>7, ContinueInv

(* Rewriting a snapshot without the ignored path keeps the invariant. *)
LEMMA DoCleanInv ==
  ASSUME IInv, NEW p \in Procs, DoClean(p)
  PROVE  IInv'
<1> DEFINE st   == Stmt(p)
           s    == st.snap
           pr   == proc[p]
           memo == pr.memo
           onto == IF ~IsRoot(s) /\ Parent(s) \in DOMAIN memo
                   THEN <<memo[Parent(s)]>> ELSE s.parents
           new  == Snapshot(s.rev, onto, DropIgnored(s.tree, st.path), s.desc)
           a    == PutSnapshot(new)
           b    == Repoint(s.rev, {}, new)
           more == IF new = s THEN <<>> ELSE <<a, b>>
           plan == more \o Tail(pr.todo)
           kept == Upsert(memo, s, new)
<1>1. /\ st.do = "clean" /\ s \in snapshots /\ s.rev \in Known /\ ~Publishes(st)
      /\ Soon(Todo(p), snapshots) = snapshots
  BY StmtIsSound DEF DoClean, Sound, Publishes
<1>2. /\ ProcOK(pr, snapshots, Known) /\ PlanOK(pr.todo, snapshots, Known)
      /\ pr.todo # <<>> /\ Running(p) /\ \A x \in DOMAIN memo : memo[x] \in snapshots
  BY <1>1 DEF DoClean, IInv, ProcsOK, ProcOK, Running, Todo
<1>3. HistoryIn(s, snapshots)
  BY <1>1 DEF IInv, HistoryIsStored, HistoryIn
<1>4. HistoryIn(new, snapshots) /\ new.rev = s.rev
  <2>1. HistoryIn([parents |-> onto], snapshots)
    BY <1>2, <1>3 DEF HistoryIn, IsRoot, Parent
  <2>2. new.parents = onto /\ new.rev = s.rev
    BY DEF Snapshot
  <2> HIDE DEF new, onto
  <2> QED BY <2>1, <2>2 DEF HistoryIn, IsRoot, Parent
<1>5. proc' = [proc EXCEPT ![p].memo = kept, ![p].todo = plan] /\ UNCHANGED <<store, nextId, ops>>
  BY DEF DoClean
<1> HIDE DEF new, onto
<1>6. PlanOK(more, snapshots, Known)
  <2>1. CASE new = s
    <3>1. more = <<>>
      BY <2>1
    <3> QED BY <3>1, Plan0
  <2>2. CASE new # s
    <3>1. more = <<a, b>>
      BY <2>2
    <3>2. PlanOK(<<a, b>>, snapshots, Known)
      BY <1>1, <1>4, RewritePlan
    <3> QED BY <3>1, <3>2
  <2> QED BY <2>1, <2>2
<1>7. PlanOK(plan, snapshots, Known) /\ snapshots \subseteq Soon(plan, snapshots)
  <2>1. Head(pr.todo).do # "revision" /\ Soon(pr.todo, snapshots) = snapshots
    BY <1>1 DEF Stmt, Todo
  <2> HIDE DEF more, pr
  <2> QED BY <1>2, <1>6, <2>1, PlanContinues
<1>8. new \in Soon(plan, snapshots)
  <2>1. CASE new = s
    BY <1>1, <1>7, <2>1
  <2>2. CASE new # s
    <3>1. more = <<a, b>> /\ IsSeq(Tail(pr.todo)) /\ IsSeq(more)
      BY <1>2, <1>6, <2>2, SeqTail DEF PlanOK
    <3>2. Len(more) = 2 /\ more[1] = a
      BY <3>1
    <3>3. plan[1] = a /\ IsSeq(plan) /\ Len(plan) = 2 + Len(Tail(pr.todo))
          /\ Len(Tail(pr.todo)) \in Nat
      <4> HIDE DEF more, a, pr
      <4>1. 1 \in 1..Len(more)
        BY <3>2
      <4> QED BY <3>1, <3>2, <4>1, SeqConcat
    <3>4. plan # <<>> /\ Head(plan) = a
      <4> HIDE DEF plan
      <4>1. plan # <<>>
        BY <3>3
      <4> QED BY <3>3, <4>1, SeqTail
    <3> HIDE DEF plan
    <3> QED BY <3>4 DEF Soon, PutSnapshot
  <2> QED BY <2>1, <2>2
<1>9. \A x \in DOMAIN kept : kept[x] \in Soon(plan, snapshots)
  BY <1>2, <1>7, <1>8 DEF Upsert
<1> HIDE DEF kept, plan, more
<1>10. /\ proc'[p] = [op |-> pr.op, id |-> pr.id, before |-> pr.before, memo |-> kept,
                      first |-> pr.first, todo |-> plan]
       /\ \A q \in Procs \ {p} : proc'[q] = proc[q]
       /\ proc' = [q \in Procs |-> proc'[q]]
  <2>1. proc = [q \in Procs |-> proc[q]]
    BY DEF IInv, ProcsOK
  <2>2. pr = [op |-> pr.op, id |-> pr.id, before |-> pr.before, memo |-> pr.memo,
              first |-> pr.first, todo |-> pr.todo]
    BY <1>2 DEF ProcOK
  <2> QED BY <1>5, <2>1, <2>2
<1>11. ProcOK(proc'[p], snapshots, Known) /\ proc'[p].op \in OpNames
  <2>1. pr.op \in OpNames /\ DOMAIN pr.before \subseteq Known
    BY <1>2 DEF IInv, ProcsOK, ProcOK
  <2> HIDE DEF pr
  <2> QED BY <1>7, <1>9, <1>10, <2>1 DEF ProcOK
<1>12. snapshots' = snapshots /\ Known' = Known
  BY <1>5 DEF store, Known
<1>13. ProcsOK'
  BY <1>10, <1>11, <1>12 DEF IInv, ProcsOK
<1> QED BY <1>5, <1>13, StoreUnchanged DEF IInv, TypeOK

(* Looking whether a tag's name is taken keeps the invariant. *)
LEMMA DoTagInv ==
  ASSUME IInv, NEW p \in Procs, DoTag(p)
  PROVE  IInv'
<1> DEFINE st == Stmt(p)
           new == PutRef(st.name, "tag", st.target)
<1>1. st.do = "tag" /\ st.name \in RefNames /\ ~Publishes(st)
  BY StmtIsSound DEF DoTag, Sound, Publishes
<1>2. Sound(new, snapshots, Known, Soon(<<new>>, snapshots))
      /\ ~(new.do = "ref" /\ new.kind = "branch")
  BY <1>1 DEF Sound, PutRef
<1> HIDE DEF new
<1>3. PlanOK(<<new>>, snapshots, Known)
  BY <1>2, Plan1
<1>4. CASE st.name \in DOMAIN refs
  <2>1. Abort(p) /\ UNCHANGED <<store, nextId, ops>>
    BY <1>4 DEF DoTag
  <2> QED BY <2>1, AbortKeeps, StoreUnchanged DEF IInv, TypeOK
<1>5. CASE st.name \notin DOMAIN refs
  <2>1. Continue(p, <<new>>) /\ Running(p) /\ UNCHANGED <<store, nextId, ops>>
    BY <1>5 DEF DoTag, new
  <2> QED BY <1>1, <1>3, <2>1, ContinueInv
<1> QED BY <1>4, <1>5

(* Killing a process keeps the invariant. *)
LEMMA CrashInv ==
  ASSUME IInv, NEW p \in Procs, Crash(p)
  PROVE  IInv'
BY AbortKeeps, StoreUnchanged DEF Crash, IInv, TypeOK

-----------------------------------------------------------------------------
(* The empty repository satisfies the invariant. *)
LEMMA InitIInv == Init => IInv
<1> SUFFICES ASSUME Init PROVE IInv
  OBVIOUS
<1>1. snapshots = {} /\ Known = {} /\ DOMAIN refs = {}
  BY DEF Init, Known
<1>2. ProcsOK
  BY IdleOK DEF Init, ProcsOK, Idle, OpNames
<1> QED BY <1>1, <1>2, BoundsAssumption
        DEF Init, IInv, TypeOK, CurrentSnapshotIsOwn, HistoryIsStored, BranchesResolve, ProcsOK

(* Stuttering keeps the invariant. *)
LEMMA StutterIInv == ASSUME IInv, UNCHANGED vars PROVE IInv'
BY DEF vars, IInv, TypeOK, CurrentSnapshotIsOwn, HistoryIsStored, BranchesResolve, ProcsOK,
       Known, Current

(* Beginning any operation keeps the invariant. *)
LEMMA BeginInv ==
  ASSUME IInv, NEW p \in Procs, Begin(p)
  PROVE  IInv'
<1>1. CASE CommitRoot(p)
  BY <1>1, CommitNewInv DEF CommitRoot
<1>2. ASSUME NEW id \in Known, CommitOn(p, id) PROVE IInv'
  BY <1>2, CommitOnInv
<1>3. ASSUME NEW id \in Known, CommitCurrent(p, id) \/ Amend(p, id) PROVE IInv'
  BY <1>3, AmendInv
<1>4. ASSUME NEW id \in Known, Drop(p, id) \/ Squash(p, id) PROVE IInv'
  BY <1>4, DropInv, SquashInv
<1>5. ASSUME NEW id \in Known, NEW onto \in snapshots, Rebase(p, id, onto) \/ Revert(p, id, onto)
      PROVE  IInv'
  BY <1>5, RebaseInv, RevertInv
<1>6. ASSUME NEW id \in Known, NEW path \in Paths, Resolve(p, id, path) \/ RewriteIgnored(p, id, path)
      PROVE  IInv'
  BY <1>6, ResolveInv, RewriteIgnoredInv
<1>7. ASSUME NEW id \in Known, NEW desc \in Messages, SetDescription(p, id, desc) PROVE IInv'
  BY <1>7, SetDescriptionInv
<1>8. ASSUME NEW id \in Known, NEW name \in RefNames, Branch(p, name, id) \/ Tag(p, name, id)
      PROVE  IInv'
  BY <1>8, BranchInv, TagInv
<1>9. ASSUME NEW name \in RefNames, DeleteRef(p, name) PROVE IInv'
  BY <1>9, DeleteRefInv
<1> QED BY <1>1, <1>2, <1>3, <1>4, <1>5, <1>6, <1>7, <1>8, <1>9 DEF Begin

(* IInv is inductive. *)
LEMMA NextIInv == IInv /\ [Next]_vars => IInv'
<1> SUFFICES ASSUME IInv, [Next]_vars PROVE IInv'
  OBVIOUS
<1>1. CASE UNCHANGED vars
  BY <1>1, StutterIInv
<1>2. ASSUME NEW p \in Procs, Begin(p) PROVE IInv'
  BY <1>2, BeginInv
<1>3. ASSUME NEW p \in Procs, Execute(p) PROVE IInv'
  BY <1>3, DoPutSnapshotInv, DoPutRevisionInv, DoCommitInv, DoRepointInv, DoRebaseInv,
     DoAmendInv, DoSquashInv, DoRepairInv, DoVisitInv, DoCleanInv, DoTagInv, DoPutRefInv
     DEF Execute
<1>4. ASSUME NEW p \in Procs, Crash(p) PROVE IInv'
  BY <1>4, CrashInv
<1> QED BY <1>1, <1>2, <1>3, <1>4 DEF Next

(* IInv is an invariant of the specification. *)
LEMMA Invariance == Spec => []IInv
BY InitIInv, NextIInv, PTL DEF Spec

(***************************************************************************)
(* Type correctness: ids are never invented, rows are well-formed.         *)
(***************************************************************************)
THEOREM TypeCorrect == Spec => []TypeOK
<1>1. IInv => TypeOK
  BY DEF IInv
<1> QED BY <1>1, Invariance, PTL

(***************************************************************************)
(* Whatever the processes do and wherever they die, every revision stands  *)
(* at a stored snapshot of its own.                                        *)
(***************************************************************************)
THEOREM RevisionsStandAtTheirOwn == Spec => []CurrentSnapshotIsOwn
<1>1. IInv => CurrentSnapshotIsOwn
  BY DEF IInv
<1> QED BY <1>1, Invariance, PTL

(***************************************************************************)
(* No parent edge of a stored snapshot ever dangles.                       *)
(***************************************************************************)
THEOREM HistoryNeverDangles == Spec => []HistoryIsStored
<1>1. IInv => HistoryIsStored
  BY DEF IInv
<1> QED BY <1>1, Invariance, PTL

(***************************************************************************)
(* A branch always names a revision that exists.                           *)
(***************************************************************************)
THEOREM BranchesNeverDangle == Spec => []BranchesResolve
<1>1. IInv => BranchesResolve
  BY DEF IInv
<1> QED BY <1>1, Invariance, PTL

-----------------------------------------------------------------------------
(***************************************************************************)
(* The repository implements StableRevisions: snapshots and revision ids   *)
(* are only ever added, and every move of a revision is to a published     *)
(* snapshot of its own whose history is published.                         *)
(***************************************************************************)
LEMMA StableInit == IInv => Stable!Init
BY DEF IInv, HistoryIsStored, CurrentSnapshotIsOwn, IsRoot, Parent, Current, Known,
       Stable!Init, Stable!Complete, Stable!Settled

(* A revision that moves to a stored snapshot is a step of the abstract store. *)
LEMMA StableMove ==
  ASSUME IInv', NEW id, snapshots' = snapshots, Known' = Known \cup {id},
         \A d \in Known \ {id} : revisions'[d] = revisions[d]
  PROVE  Stable!Next
<1>1. Stable!Move(id) /\ id \in Known'
  BY DEF IInv, CurrentSnapshotIsOwn, Current, Known, Stable!Move, Stable!Settled
<1> QED BY <1>1 DEF Stable!Next, Known

(* So is one that is stored together with its snapshot. *)
LEMMA StableRecord ==
  ASSUME IInv', NEW id, Known' = Known \cup {id}, snapshots' = snapshots \cup {revisions'[id].hash},
         \A d \in Known \ {id} : revisions'[d] = revisions[d]
  PROVE  Stable!Next
<1>1. Stable!Record(id) /\ id \in Known'
  BY DEF IInv, HistoryIsStored, CurrentSnapshotIsOwn, Current, IsRoot, Parent, Known,
         Stable!Record, Stable!Complete, Stable!Settled
<1> QED BY <1>1 DEF Stable!Next, Known

(* Starting an operation writes no snapshot and no revision. *)
LEMMA BeginWritesNothing ==
  ASSUME NEW p \in Procs, Begin(p)
  PROVE  snapshots' = snapshots /\ revisions' = revisions
<1> DEFINE Same == snapshots' = snapshots /\ revisions' = revisions
<1>1. ASSUME NEW op, NEW id, NEW todo, Start(p, op, id, todo) PROVE Same
  BY <1>1 DEF Start, store
<1> HIDE DEF Same
<1>2. ASSUME NEW parents, CommitNew(p, parents) PROVE Same
  BY <1>1, <1>2 DEF CommitNew
<1>3. ASSUME NEW id \in Known, CommitOn(p, id) \/ CommitCurrent(p, id) \/ Amend(p, id) PROVE Same
  BY <1>1, <1>2, <1>3 DEF CommitOn, CommitCurrent, Amend
<1>4. ASSUME NEW id \in Known, Drop(p, id) \/ Squash(p, id) PROVE Same
  BY <1>1, <1>4 DEF Drop, Squash
<1>5. ASSUME NEW id \in Known, NEW onto, Rebase(p, id, onto) \/ Revert(p, id, onto) PROVE Same
  BY <1>1, <1>5 DEF Rebase, Revert
<1>6. ASSUME NEW id \in Known, NEW path, Resolve(p, id, path) \/ RewriteIgnored(p, id, path)
      PROVE  Same
  BY <1>1, <1>6 DEF Resolve, RewriteIgnored
<1>7. ASSUME NEW id \in Known, NEW desc, SetDescription(p, id, desc) PROVE Same
  BY <1>1, <1>7 DEF SetDescription
<1>8. ASSUME NEW id \in Known, NEW name, Branch(p, name, id) \/ Tag(p, name, id) PROVE Same
  BY <1>1, <1>8 DEF Branch, Tag
<1>9. ASSUME NEW name, DeleteRef(p, name) PROVE Same
  BY <1>9 DEF DeleteRef, Same
<1>10. Same
  BY <1>2, <1>3, <1>4, <1>5, <1>6, <1>7, <1>8, <1>9 DEF Begin, CommitRoot
<1> QED BY <1>10 DEF Same

(* Every step is a step of the abstract store, or none. *)
LEMMA StableStep == IInv /\ IInv' /\ [Next]_vars => [Stable!Next]_(Stable!vars)
<1> SUFFICES ASSUME IInv, IInv', [Next]_vars PROVE [Stable!Next]_(Stable!vars)
  OBVIOUS
<1>1. ASSUME snapshots' = snapshots, revisions' = revisions PROVE [Stable!Next]_(Stable!vars)
  BY <1>1 DEF Stable!vars, Known
<1>2. ASSUME NEW p \in Procs, DoPutSnapshot(p) PROVE [Stable!Next]_(Stable!vars)
  <2> DEFINE s == Stmt(p).snap
  <2>1. snapshots' = snapshots \cup {s} /\ revisions' = revisions
    BY <1>2 DEF DoPutSnapshot
  <2>2. Stable!Publish(s) /\ s \in snapshots'
    BY <2>1 DEF IInv, HistoryIsStored, IsRoot, Parent, Known, Stable!Publish, Stable!Complete
  <2> QED BY <2>2 DEF Stable!Next
<1>3. ASSUME NEW p \in Procs, DoPutRevision(p) PROVE [Stable!Next]_(Stable!vars)
  <2>1. /\ snapshots' = snapshots /\ Known' = Known \cup {Stmt(p).id}
        /\ \A d \in Known \ {Stmt(p).id} : revisions'[d] = revisions[d]
    BY <1>3 DEF DoPutRevision, Known, Upsert
  <2> QED BY <2>1, StableMove
<1>4. ASSUME NEW p \in Procs, DoCommit(p) PROVE [Stable!Next]_(Stable!vars)
  <2> DEFINE id == Stmt(p).id  row == Stmt(p).row
  <2>1. /\ snapshots' = snapshots \cup {row.hash} /\ Known' = Known \cup {id}
        /\ revisions'[id] = row
        /\ \A d \in Known \ {id} : revisions'[d] = revisions[d]
    BY <1>4 DEF DoCommit, Known, Upsert
  <2> HIDE DEF id, row
  <2> QED BY <2>1, StableRecord
<1>5. ASSUME NEW p \in Procs, Begin(p) PROVE snapshots' = snapshots /\ revisions' = revisions
  BY <1>5, BeginWritesNothing
<1>6. ASSUME NEW p \in Procs, Execute(p), ~DoPutSnapshot(p), ~DoPutRevision(p), ~DoCommit(p)
      PROVE  snapshots' = snapshots /\ revisions' = revisions
  BY <1>6 DEF Execute, DoRepoint, DoRebase, DoAmend, DoSquash, DoRepair, DoVisit, DoClean, DoTag,
              DoPutRef, store
<1>7. ASSUME NEW p \in Procs, Crash(p) PROVE snapshots' = snapshots /\ revisions' = revisions
  BY <1>7 DEF Crash, store
<1>8. CASE UNCHANGED vars
  BY <1>1, <1>8 DEF vars
<1> QED BY <1>1, <1>2, <1>3, <1>4, <1>5, <1>6, <1>7, <1>8 DEF Next

(* The operations of package revision, interleaved and killed at any
   statement, implement the abstract store of stable revisions. *)
THEOREM Implements == Spec => StableIds
<1>1. Init => Stable!Init
  BY InitIInv, StableInit
<1> QED BY <1>1, Invariance, StableStep, PTL DEF Spec, StableIds, Stable!Spec

-----------------------------------------------------------------------------
(***************************************************************************)
(* A branch owns its revision.  A revision id that a name has been or is   *)
(* about to be put to as a branch is tied to that name: it was drawn for   *)
(* it, and a branch that exists is only ever put to the same name again.   *)
(***************************************************************************)
PutsBranch(st, n, id) == st.do = "ref" /\ st.kind = "branch" /\ st.name = n /\ st.target = id

Intends(todo, n, id) == \E i \in 1..Len(todo) : PutsBranch(todo[i], n, id)

IsBranch(n, id) == n \in DOMAIN refs /\ refs[n].kind = "branch" /\ refs[n].target = id

Claimed(n, id) == IsBranch(n, id) \/ \E p \in Procs : Intends(Todo(p), n, id)

ClaimsInv ==
  \A n \in RefNames, id \in RevIds : Claimed(n, id) =>
    id < nextId /\ \A m \in RefNames : Claimed(m, id) => m = n

(* A plan of statements that put no branch. *)
PutsNone(S) == \A st \in S : ~(st.do = "ref" /\ st.kind = "branch")

(* Claims are only added, one at a time and for an id that is drawn for it. *)
LEMMA ClaimsStep ==
  ASSUME TypeOK, ClaimsInv, NEW name, nextId' = nextId \/ Fresh,
         \A n, id : Claimed(n, id)' => Claimed(n, id) \/ (Fresh /\ n = name /\ id = nextId)
  PROVE  ClaimsInv'
<1>1. nextId \in Nat /\ nextId' \in Nat /\ nextId <= nextId' /\ (Fresh => nextId' = nextId + 1)
  BY BoundsAssumption DEF TypeOK, Fresh
<1>2. ASSUME NEW n \in RefNames, NEW id \in RevIds, Claimed(n, id)'
      PROVE  id < nextId' /\ \A m \in RefNames : Claimed(m, id)' => m = n
  <2>1. id \in Nat
    BY DEF RevIds
  <2>2. CASE Claimed(n, id)
    BY <2>1, <2>2, <1>1 DEF ClaimsInv
  <2>3. CASE ~Claimed(n, id)
    <3>1. Fresh /\ n = name /\ id = nextId
      BY <1>2, <2>3
    <3>2. \A m \in RefNames : ~Claimed(m, id)
      BY <3>1, <1>1 DEF ClaimsInv
    <3> QED BY <1>1, <3>1, <3>2
  <2> QED BY <2>2, <2>3
<1> QED BY <1>2 DEF ClaimsInv

(* The process executes a statement and goes on with more. *)
GoesOn(p, more) ==
  Todo(p)' = more \o Tail(Todo(p)) /\ \A q \in Procs \ {p} : Todo(q)' = Todo(q)

LEMMA ContinueIs ==
  ASSUME IInv, NEW p \in Procs, NEW more, Continue(p, more)
  PROVE  GoesOn(p, more)
<1> DEFINE plan == more \o Tail(Todo(p))
<1>1. proc = [q \in Procs |-> proc[q]]
  BY DEF IInv, ProcsOK
<1>2. proc[p] = [op |-> proc[p].op, id |-> proc[p].id, before |-> proc[p].before,
                 memo |-> proc[p].memo, first |-> proc[p].first,
                 todo |-> proc[p].todo]
  BY DEF IInv, ProcsOK, ProcOK
<1>3. proc' = [proc EXCEPT ![p].todo = plan]
  BY DEF Continue, Todo
<1> HIDE DEF plan
<1>4. Todo(p)' = plan /\ \A q \in Procs \ {p} : Todo(q)' = Todo(q)
  BY <1>1, <1>2, <1>3 DEF Todo
<1> QED BY <1>4 DEF GoesOn, plan

(* Going on with statements that put no branch intends nothing new. *)
LEMMA IntendsLess ==
  ASSUME IInv, NEW p \in Procs, NEW S, NEW more \in Seq(S), PutsNone(S),
         Running(p), GoesOn(p, more)
  PROVE  \A q \in Procs : \A n, id : Intends(Todo(q)', n, id) => Intends(Todo(q), n, id)
<1> DEFINE todo == Todo(p)
           rest == Tail(todo)
           plan == more \o rest
<1>1. /\ IsSeq(rest) /\ Len(todo) \in Nat \ {0} /\ Len(rest) = Len(todo) - 1
      /\ \A i \in 1..Len(rest) : rest[i] = todo[i + 1]
  <2>1. IsSeq(todo) /\ todo # <<>>
    BY DEF IInv, ProcsOK, ProcOK, PlanOK, Todo, Running
  <2> HIDE DEF todo
  <2> QED BY <2>1, SeqTail
<1>2. /\ Len(more) \in Nat /\ Len(plan) = Len(more) + Len(rest)
      /\ \A i \in 1..Len(more) : plan[i] = more[i]
      /\ \A i \in 1..Len(rest) : plan[Len(more) + i] = rest[i]
  <2>1. IsSeq(more)
    BY AnySeq
  <2>2. IsSeq(rest)
    BY <1>1
  <2> HIDE DEF rest
  <2> QED BY <2>1, <2>2, SeqConcat
<1>3. /\ Todo(p)' = plan
      /\ \A q \in Procs \ {p} : Todo(q)' = Todo(q)
  BY DEF GoesOn
<1>4. \A i \in 1..Len(more) : more[i] \in S
  OBVIOUS
<1> HIDE DEF plan, rest
<1>5. ASSUME NEW n, NEW id, Intends(plan, n, id) PROVE Intends(todo, n, id)
  <2>1. PICK i \in 1..Len(plan) : PutsBranch(plan[i], n, id)
    BY <1>5 DEF Intends
  <2>2. i \notin 1..Len(more)
    BY <2>1, <1>2, <1>4 DEF PutsNone, PutsBranch
  <2>3. i - Len(more) \in 1..Len(rest)
    BY <2>2, <1>1, <1>2
  <2>4. plan[i] = rest[i - Len(more)]
    <3>1. i = Len(more) + (i - Len(more))
      BY <1>2
    <3> QED BY <3>1, <2>3, <1>2
  <2>5. (i - Len(more)) + 1 \in 1..Len(todo) /\ plan[i] = todo[(i - Len(more)) + 1]
    BY <2>3, <2>4, <1>1
  <2> QED BY <2>1, <2>5 DEF Intends
<1> HIDE DEF todo
<1> QED BY <1>3, <1>5 DEF todo

LEMMA ClaimsContinue ==
  ASSUME IInv, ClaimsInv, NEW p \in Procs, NEW S, NEW more \in Seq(S), PutsNone(S),
         Running(p), GoesOn(p, more), refs' = refs, nextId' = nextId
  PROVE  ClaimsInv'
<1>1. \A n, id : Claimed(n, id)' => Claimed(n, id)
  BY IntendsLess DEF Claimed, IsBranch
<1> QED BY <1>1, ClaimsStep DEF IInv


(* Beginning an operation whose plan puts no branch, or one. *)
LEMMA ClaimsBegin ==
  ASSUME IInv, ClaimsInv, NEW p \in Procs, NEW op, NEW id, NEW todo, NEW name, Start(p, op, id, todo),
         nextId' = nextId \/ Fresh,
         \A n, t : Intends(todo, n, t) => IsBranch(n, t) \/ (Fresh /\ n = name /\ t = nextId)
  PROVE  ClaimsInv'
<1>1. /\ Todo(p)' = todo
      /\ \A q \in Procs \ {p} : Todo(q)' = Todo(q)
  <2>1. proc = [q \in Procs |-> proc[q]]
    BY DEF IInv, ProcsOK
  <2> QED BY <2>1 DEF Start, Todo
<1>2. refs' = refs
  BY DEF Start, store
<1>3. \A n, t : Claimed(n, t)' => Claimed(n, t) \/ (Fresh /\ n = name /\ t = nextId)
  BY <1>1, <1>2 DEF Claimed, IsBranch
<1> QED BY <1>3, ClaimsStep DEF IInv

LEMMA IntendsNone ==
  ASSUME NEW S, NEW todo \in Seq(S), PutsNone(S)
  PROVE  \A n, id : ~Intends(todo, n, id)
<1>1. \A i \in 1..Len(todo) : todo[i] \in S
  OBVIOUS
<1> QED BY <1>1 DEF Intends, PutsNone, PutsBranch

(* A process that gives up has nothing in mind. *)
LEMMA ClaimsAbort ==
  ASSUME IInv, ClaimsInv, NEW p \in Procs, Abort(p), refs' = refs, nextId' = nextId
  PROVE  ClaimsInv'
<1>1. /\ Todo(p)' = <<>>
      /\ \A q \in Procs \ {p} : Todo(q)' = Todo(q)
  <2>1. proc = [q \in Procs |-> proc[q]]
    BY DEF IInv, ProcsOK
  <2> QED BY <2>1 DEF Abort, Idle, Todo
<1>2. \A n, id : ~Intends(<<>>, n, id)
  BY DEF Intends
<1>3. \A n, id : Claimed(n, id)' => Claimed(n, id)
  BY <1>1, <1>2 DEF Claimed, IsBranch
<1> QED BY <1>3, ClaimsStep DEF IInv

LEMMA ClaimsSilent ==
  ASSUME IInv, ClaimsInv, NEW p \in Procs, NEW op, NEW id, NEW S, NEW todo \in Seq(S), PutsNone(S),
         Start(p, op, id, todo), nextId' = nextId \/ Fresh
  PROVE  ClaimsInv'
BY IntendsNone, ClaimsBegin

(* The statements that put no branch, and plans of up to four of them. *)
Quiet(st) == ~(st.do = "ref" /\ st.kind = "branch")

LEMMA QuietPlans ==
  ASSUME NEW a, NEW b, NEW c, NEW d, Quiet(a), Quiet(b), Quiet(c), Quiet(d)
  PROVE  /\ <<a>> \in Seq({a, b, c, d}) /\ <<a, b>> \in Seq({a, b, c, d})
         /\ <<a, b, c>> \in Seq({a, b, c, d}) /\ <<a, b, c, d>> \in Seq({a, b, c, d})
         /\ PutsNone({a, b, c, d})
BY DEF PutsNone, Quiet

LEMMA Quiets ==
  ASSUME NEW a, NEW b, NEW c, NEW d
  PROVE  /\ Quiet(PutSnapshot(a)) /\ Quiet(PutOver(a, b, c)) /\ Quiet(PutRevision(a, b))
         /\ Quiet(Commit(a, b)) /\ Quiet(Repoint(a, b, c)) /\ Quiet(RebaseRest(a, b))
         /\ Quiet(AmendWith(a, b, c, d)) /\ Quiet(SquashInto(a)) /\ Quiet(RepairRest(a, b, c))
         /\ Quiet(Visit(a, b)) /\ Quiet(Clean(a, b)) /\ Quiet(TagOrFail(a, b))
         /\ Quiet(PutRef(a, "tag", b))
BY DEF Quiet, PutSnapshot, PutOver, PutRevision, Commit, Repoint, RebaseRest, AmendWith,
       SquashInto, RepairRest, Visit, Clean, TagOrFail, PutRef

(* The same for plans of one, two or three statements. *)
LEMMA StartsQuietly ==
  ASSUME IInv, ClaimsInv, NEW p \in Procs, NEW op, NEW id, NEW a, NEW b, NEW c,
         Quiet(a), Quiet(b), Quiet(c), nextId' = nextId \/ Fresh,
         \/ Start(p, op, id, <<a>>) \/ Start(p, op, id, <<a, b>>) \/ Start(p, op, id, <<a, b, c>>)
  PROVE  ClaimsInv'
<1>1. /\ <<a>> \in Seq({a, b, c, c}) /\ <<a, b>> \in Seq({a, b, c, c})
      /\ <<a, b, c>> \in Seq({a, b, c, c}) /\ PutsNone({a, b, c, c})
  BY QuietPlans
<1> DEFINE S == {a, b, c, c}
<1> HIDE DEF S
<1>2. CASE Start(p, op, id, <<a>>)
  BY <1>1, <1>2, ClaimsSilent DEF S
<1>3. CASE Start(p, op, id, <<a, b>>)
  BY <1>1, <1>3, ClaimsSilent DEF S
<1>4. CASE Start(p, op, id, <<a, b, c>>)
  BY <1>1, <1>4, ClaimsSilent DEF S
<1> QED BY <1>2, <1>3, <1>4

(* Naming a branch: a name that is one keeps its revision, or it gets a new one. *)
LEMMA BranchClaims ==
  ASSUME IInv, ClaimsInv, NEW p \in Procs, NEW id \in Known, NEW name \in RefNames,
         Branch(p, name, id)
  PROVE  ClaimsInv'
<1>1. CASE name \in DOMAIN refs /\ refs[name].kind = "branch"
  <2> DEFINE a == PutRef(name, "branch", refs[name].target)
  <2>1. Start(p, "branch", id, <<a>>) /\ nextId' = nextId
    BY <1>1 DEF Branch
  <2>2. a.name = name /\ a.target = refs[name].target
    BY DEF PutRef
  <2> HIDE DEF a
  <2>3. \A n, t : Intends(<<a>>, n, t) => IsBranch(n, t)
    <3>1. Len(<<a>>) = 1 /\ \A i \in 1..1 : <<a>>[i] = a
      OBVIOUS
    <3> QED BY <3>1, <2>2, <1>1 DEF Intends, PutsBranch, IsBranch
  <2> QED BY <2>1, <2>3, ClaimsBegin
<1>2. CASE ~(name \in DOMAIN refs /\ refs[name].kind = "branch")
  <2> DEFINE s == Snapshot(nextId, Current(id).parents, Current(id).tree, Current(id).desc)
             a == PutSnapshot(s)
             b == PutRevision(nextId, Row(s, id))
             c == PutRef(name, "branch", nextId)
  <2>1. Start(p, "branch", nextId, <<a, b, c>>) /\ Fresh
    BY <1>2 DEF Branch
  <2>2. c.name = name /\ c.target = nextId
    BY DEF PutRef
  <2>3. Quiet(a) /\ Quiet(b)
    BY Quiets
  <2> HIDE DEF a, b, c
  <2>4. \A n, t : Intends(<<a, b, c>>, n, t) => n = name /\ t = nextId
    <3> DEFINE q == <<a, b, c>>
    <3>1. Len(q) = 3 /\ \A i \in 1..3 : q[i] = a \/ q[i] = b \/ q[i] = c
      OBVIOUS
    <3> HIDE DEF q
    <3>2. \A n, t : Intends(q, n, t) => n = name /\ t = nextId
      BY <3>1, <2>2, <2>3 DEF Intends, PutsBranch, Quiet
    <3> QED BY <3>2 DEF q
  <2> QED BY <2>1, <2>4, ClaimsBegin
<1> QED BY <1>1, <1>2

(* No other operation puts a branch; deleting one gives a claim up. *)
LEMMA BeginClaims ==
  ASSUME IInv, ClaimsInv, NEW p \in Procs, Begin(p)
  PROVE  ClaimsInv'
<1>1. ASSUME NEW parents, CommitNew(p, parents) PROVE ClaimsInv'
  <2>1. PICK s : Fresh /\ Start(p, "commit", nextId, <<Commit(nextId, Row(s, None))>>)
    BY <1>1 DEF CommitNew
  <2> QED BY <2>1, Quiets, StartsQuietly
<1>2. ASSUME NEW id \in Known, CommitCurrent(p, id) \/ Amend(p, id) PROVE ClaimsInv'
  <2>1. PICK tree, desc, again :
          Start(p, "amend", id, <<AmendWith(id, tree, desc, again)>>) /\ nextId' = nextId
    BY <1>2 DEF CommitCurrent, Amend
  <2> QED BY <2>1, Quiets, StartsQuietly
<1>3. ASSUME NEW id \in Known, NEW onto, Rebase(p, id, onto) PROVE ClaimsInv'
  <2>1. Start(p, "rebase", id, <<RebaseRest(<<id>>, onto)>>) /\ nextId' = nextId
    BY <1>3 DEF Rebase
  <2> QED BY <2>1, Quiets, StartsQuietly
<1>4. ASSUME NEW id \in Known, Drop(p, id) PROVE ClaimsInv'
  <2>1. PICK order : Start(p, "drop", id, <<RebaseRest(order, Parent(Current(id)))>>) /\ nextId' = nextId
    BY <1>4 DEF Drop
  <2> QED BY <2>1, Quiets, StartsQuietly
<1>5. ASSUME NEW id \in Known, NEW onto, Revert(p, id, onto) PROVE ClaimsInv'
  <2>1. PICK s : Fresh /\ Start(p, "revert", nextId, <<PutSnapshot(s), PutRevision(nextId, Row(s, None))>>)
    BY <1>5 DEF Revert
  <2> DEFINE a == PutSnapshot(s)
             b == PutRevision(nextId, Row(s, None))
  <2>2. Quiet(a) /\ Quiet(b)
    BY Quiets
  <2>3. Start(p, "revert", nextId, <<a, b>>) /\ Fresh
    BY <2>1
  <2> HIDE DEF a, b
  <2> QED BY <2>2, <2>3, StartsQuietly
<1>6. ASSUME NEW id \in Known, Squash(p, id) PROVE ClaimsInv'
  <2>1. Start(p, "squash", Parent(Current(id)).rev, <<SquashInto(Current(id))>>) /\ nextId' = nextId
    BY <1>6 DEF Squash
  <2> QED BY <2>1, Quiets, StartsQuietly
<1>7. ASSUME NEW id \in Known, NEW path, Resolve(p, id, path) PROVE ClaimsInv'
  <2>1. PICK new, list, e :
          /\ Start(p, "resolve", id, <<PutSnapshot(new), Repoint(id, {Current(id)}, new),
                                       RepairRest(list, path, e)>>)
          /\ nextId' = nextId
    <3> DEFINE cur == Current(id)
               old == FindEntry(cur.tree, path)
               same == {d \in Descendants(cur) \ {id} : FindEntry(Current(d).tree, path) = old}
               new(side) == Resolution(cur, path, Chosen(old, side))
               list(order) == [i \in DOMAIN order |-> Current(order[i])]
    <3>1. PICK side \in Sides(old), order \in AncestorFirst(cur, same) :
            Start(p, "resolve", id, <<PutSnapshot(new(side)), Repoint(id, {cur}, new(side)),
                                      RepairRest(list(order), path, Chosen(old, side))>>)
      BY <1>7 DEF Resolve
    <3>2. nextId' = nextId
      BY <1>7 DEF Resolve
    <3> QED BY <3>1, <3>2
  <2> DEFINE a == PutSnapshot(new)
             b == Repoint(id, {Current(id)}, new)
             c == RepairRest(list, path, e)
  <2>2. Quiet(a) /\ Quiet(b) /\ Quiet(c)
    BY Quiets
  <2> HIDE DEF a, b, c
  <2> QED BY <2>1, <2>2, StartsQuietly DEF a, b, c
<1>8. ASSUME NEW id \in Known, NEW path, RewriteIgnored(p, id, path) PROVE ClaimsInv'
  <2>1. Start(p, "ignore", id, <<Visit(Current(id), path)>>) /\ nextId' = nextId
    BY <1>8 DEF RewriteIgnored
  <2> QED BY <2>1, Quiets, StartsQuietly
<1>9. ASSUME NEW id \in Known, NEW desc, SetDescription(p, id, desc) PROVE ClaimsInv'
  <2>1. PICK new, row : Start(p, "message", id, <<PutSnapshot(new), PutRevision(id, row)>>) /\ nextId' = nextId
    BY <1>9 DEF SetDescription
  <2> QED BY <2>1, Quiets, StartsQuietly
<1>10. ASSUME NEW id \in Known, NEW name, Tag(p, name, id) PROVE ClaimsInv'
  <2>1. Start(p, "tag", id, <<TagOrFail(name, id)>>) /\ nextId' = nextId
    BY <1>10 DEF Tag
  <2> QED BY <2>1, Quiets, StartsQuietly
<1>11. ASSUME NEW name, DeleteRef(p, name) PROVE ClaimsInv'
  <2>1. \A n, id : Claimed(n, id)' => Claimed(n, id)
    BY <1>11 DEF DeleteRef, Claimed, IsBranch, Todo
  <2> QED BY <1>11, <2>1, ClaimsStep DEF DeleteRef, IInv
<1> QED BY <1>1, <1>2, <1>3, <1>4, <1>5, <1>6, <1>7, <1>8, <1>9, <1>10, <1>11, BranchClaims
        DEF Begin, CommitRoot, CommitOn

(* Going on with up to four statements that put no branch. *)
LEMMA GoesOnQuietly ==
  ASSUME IInv, ClaimsInv, NEW p \in Procs, Running(p), refs' = refs, nextId' = nextId,
         NEW a, NEW b, NEW c, NEW d, Quiet(a), Quiet(b), Quiet(c), Quiet(d),
         NEW more \in {<<>>, <<a>>, <<a, b>>, <<a, b, c>>, <<a, b, c, d>>}, GoesOn(p, more)
  PROVE  ClaimsInv'
<1> DEFINE S == {a, b, c, d}
<1>1. /\ <<a>> \in Seq(S) /\ <<a, b>> \in Seq(S)
      /\ <<a, b, c>> \in Seq(S) /\ <<a, b, c, d>> \in Seq(S)
      /\ PutsNone(S)
  BY QuietPlans
<1> HIDE DEF S
<1>2. <<>> \in Seq(S)
  OBVIOUS
<1> QED BY <1>1, <1>2, ClaimsContinue

(* Executing a statement: a branch is put by the process that claimed it. *)
LEMMA PutRefClaims ==
  ASSUME IInv, ClaimsInv, NEW p \in Procs, DoPutRef(p)
  PROVE  ClaimsInv'
<1> DEFINE st == Stmt(p)
<1>1. /\ Running(p) /\ st.do = "ref"
      /\ refs' = Upsert(refs, st.name, [kind |-> st.kind, target |-> st.target])
      /\ Continue(p, <<>>) /\ nextId' = nextId
  BY DEF DoPutRef
<1>2. \A n, id : PutsBranch(st, n, id) => Intends(Todo(p), n, id)
  <2>1. IsSeq(Todo(p)) /\ Todo(p) # <<>>
    BY <1>1 DEF IInv, ProcsOK, ProcOK, PlanOK, Todo, Running
  <2>2. Len(Todo(p)) \in Nat \ {0} /\ st = Todo(p)[1]
    BY <2>1, SeqTail DEF Stmt
  <2> QED BY <2>2 DEF Intends
<1> HIDE DEF st
<1>3. ASSUME NEW n, NEW id, IsBranch(n, id)' PROVE IsBranch(n, id) \/ PutsBranch(st, n, id)
  BY <1>1, <1>3 DEF IsBranch, Upsert, PutsBranch
<1>4. \A n, id, q : Intends(Todo(q)', n, id) /\ q \in Procs => Claimed(n, id)
  <2>1. <<>> \in Seq({}) /\ PutsNone({})
    BY DEF PutsNone
  <2>2. \A q \in Procs : \A n, id : Intends(Todo(q)', n, id) => Intends(Todo(q), n, id)
    BY <1>1, <2>1, IntendsLess, ContinueIs
  <2> QED BY <2>2 DEF Claimed
<1>5. \A n, id : Claimed(n, id)' => Claimed(n, id)
  BY <1>2, <1>3, <1>4 DEF Claimed
<1> QED BY <1>1, <1>5, ClaimsStep DEF IInv

LEMMA ExecuteClaims ==
  ASSUME IInv, ClaimsInv, NEW p \in Procs, Execute(p)
  PROVE  ClaimsInv'
<1>1. CASE DoPutSnapshot(p) \/ DoPutRevision(p) \/ DoCommit(p)
  <2>1. Running(p) /\ Continue(p, <<>>) /\ refs' = refs /\ nextId' = nextId
    BY <1>1 DEF DoPutSnapshot, DoPutRevision, DoCommit
  <2> QED BY <2>1, Quiets, GoesOnQuietly, ContinueIs
<1>2. CASE DoRepoint(p)
  <2>1. /\ Running(p) /\ refs' = refs /\ nextId' = nextId
        /\ Abort(p) \/ \E id, expect, row : Continue(p, <<PutOver(id, expect, row)>>)
    BY <1>2 DEF DoRepoint, store
  <2> QED BY <2>1, Quiets, GoesOnQuietly, ContinueIs, ClaimsAbort
<1>3. CASE DoRebase(p)
  <2>1. PICK new, id, old, row, ids :
          Continue(p, <<PutSnapshot(new), Repoint(id, old, new), PutRevision(id, row)>>
                        \o (IF Len(Stmt(p).ids) > 1 THEN <<RebaseRest(ids, new)>> ELSE <<>>))
    BY <1>3 DEF DoRebase
  <2> DEFINE a == PutSnapshot(new)
             b == Repoint(id, old, new)
             c == PutRevision(id, row)
             d == RebaseRest(ids, new)
  <2>2. Quiet(a) /\ Quiet(b) /\ Quiet(c) /\ Quiet(d)
    BY Quiets
  <2>3. Running(p) /\ refs' = refs /\ nextId' = nextId
    BY <1>3 DEF DoRebase, store
  <2>4. Continue(p, <<a, b, c>> \o <<d>>) \/ Continue(p, <<a, b, c>> \o <<>>)
    BY <2>1
  <2> HIDE DEF a, b, c, d
  <2>5. Continue(p, <<a, b, c, d>>) \/ Continue(p, <<a, b, c>>)
    <3>1. <<a, b, c>> \o <<>> = <<a, b, c>>
      OBVIOUS
    <3>2. <<a, b, c>> \o <<d>> = <<a, b, c, d>>
      BY LastOfFour
    <3> QED BY <2>4, <3>1, <3>2
  <2> QED BY <2>2, <2>3, <2>5, GoesOnQuietly, ContinueIs
<1>4. CASE DoAmend(p)
  <2>1. PICK id, new, row :
          Continue(p, <<Commit(id, row)>> \o (IF Stmt(p).again THEN <<Repoint(id, {}, new)>> ELSE <<>>))
    BY <1>4 DEF DoAmend
  <2> DEFINE a == Commit(id, row)
             b == Repoint(id, {}, new)
  <2>2. Quiet(a) /\ Quiet(b)
    BY Quiets
  <2>3. Running(p) /\ refs' = refs /\ nextId' = nextId
    BY <1>4 DEF DoAmend, store
  <2> HIDE DEF a, b
  <2>4. Continue(p, <<a, b>>) \/ Continue(p, <<a>>)
    <3>1. <<a>> \o <<>> = <<a>>
      OBVIOUS
    <3> QED BY <2>1, <3>1, LastOfTwo DEF a, b
  <2> QED BY <2>2, <2>3, <2>4, GoesOnQuietly, ContinueIs
<1>5. CASE DoSquash(p)
  <2>1. /\ Running(p) /\ refs' = refs /\ nextId' = nextId
        /\ Abort(p) \/ \E id, old, new : Continue(p, <<PutSnapshot(new), Repoint(id, old, new)>>)
    BY <1>5 DEF DoSquash, store
  <2> QED BY <2>1, Quiets, GoesOnQuietly, ContinueIs, ClaimsAbort
<1>6. CASE DoRepair(p)
  <2>1. /\ Running(p) /\ refs' = refs /\ nextId' = nextId
        /\ \/ Continue(p, <<>>)
           \/ \E id, new, list, path, e :
                Continue(p, <<PutSnapshot(new), Repoint(id, {}, new), RepairRest(list, path, e)>>)
    BY <1>6 DEF DoRepair, store
  <2> QED BY <2>1, Quiets, GoesOnQuietly, ContinueIs
<1>7. CASE DoVisit(p)
  <2>1. PICK s1, s2, path :
          Continue(p, (IF ~IsRoot(Stmt(p).snap) /\ Owned(p, Parent(Stmt(p).snap))
                       THEN <<Visit(s1, path)>> ELSE <<>>) \o <<Clean(s2, path)>>)
    BY <1>7 DEF DoVisit
  <2> DEFINE a == Visit(s1, path)
             b == Clean(s2, path)
  <2>2. Quiet(a) /\ Quiet(b)
    BY Quiets
  <2>3. Running(p) /\ refs' = refs /\ nextId' = nextId
    BY <1>7 DEF DoVisit, store
  <2> HIDE DEF a, b
  <2>4. Continue(p, <<a, b>>) \/ Continue(p, <<b>>)
    <3>1. <<>> \o <<b>> = <<b>>
      OBVIOUS
    <3> QED BY <2>1, <3>1, LastOfTwo DEF a, b
  <2> QED BY <2>2, <2>3, <2>4, GoesOnQuietly, ContinueIs
<1>8. CASE DoClean(p)
  <2> DEFINE s == Stmt(p).snap
             memo == proc[p].memo
             onto == IF ~IsRoot(s) /\ Parent(s) \in DOMAIN memo
                     THEN <<memo[Parent(s)]>> ELSE s.parents
             new == Snapshot(s.rev, onto, DropIgnored(s.tree, Stmt(p).path), s.desc)
             a == PutSnapshot(new)
             b == Repoint(s.rev, {}, new)
             more == IF new = s THEN <<>> ELSE <<a, b>>
             plan == more \o Tail(Todo(p))
  <2>1. Running(p) /\ refs' = refs /\ nextId' = nextId
    BY <1>8 DEF DoClean, store
  <2>2. Quiet(a) /\ Quiet(b)
    BY Quiets
  <2>3. proc' = [proc EXCEPT ![p].memo = Upsert(@, s, new), ![p].todo = plan]
    BY <1>8 DEF DoClean, Todo
  <2> HIDE DEF a, b, new, s, plan
  <2>4. Todo(p)' = plan /\ \A q \in Procs \ {p} : Todo(q)' = Todo(q)
    <3>1. proc = [q \in Procs |-> proc[q]]
      BY DEF IInv, ProcsOK
    <3>2. proc[p] = [op |-> proc[p].op, id |-> proc[p].id, before |-> proc[p].before,
                     memo |-> proc[p].memo, first |-> proc[p].first,
                     todo |-> proc[p].todo]
      BY DEF IInv, ProcsOK, ProcOK
    <3> QED BY <3>1, <3>2, <2>3 DEF Todo
  <2>5. GoesOn(p, more)
    BY <2>4 DEF GoesOn, plan
  <2>6. more \in {<<>>, <<a, b>>}
    OBVIOUS
  <2> QED BY <2>1, <2>2, <2>5, <2>6, GoesOnQuietly
<1>9. CASE DoTag(p)
  <2>1. /\ Running(p) /\ refs' = refs /\ nextId' = nextId
        /\ Abort(p) \/ \E name, id : Continue(p, <<PutRef(name, "tag", id)>>)
    BY <1>9 DEF DoTag, store
  <2> QED BY <2>1, Quiets, GoesOnQuietly, ContinueIs, ClaimsAbort
<1>10. CASE DoPutRef(p)
  BY <1>10, PutRefClaims
<1> QED BY <1>1, <1>2, <1>3, <1>4, <1>5, <1>6, <1>7, <1>8, <1>9, <1>10 DEF Execute

LEMMA NextClaims ==
  ASSUME IInv, ClaimsInv, [Next]_vars
  PROVE  ClaimsInv'
<1>1. ASSUME NEW p \in Procs, Crash(p) PROVE ClaimsInv'
  BY <1>1, ClaimsAbort DEF Crash, store
<1>2. CASE UNCHANGED vars
  BY <1>2 DEF vars, ClaimsInv, Claimed, IsBranch, Todo
<1> QED BY <1>1, <1>2, BeginClaims, ExecuteClaims DEF Next

(***************************************************************************)
(* No two branches share a revision, also when two processes create or     *)
(* delete the same name at once, so amending on one never moves another.   *)
(***************************************************************************)
THEOREM BranchesAreTheirOwn == Spec => []BranchesOwnTheirRevision
<1>1. Init => ClaimsInv
  <2> SUFFICES ASSUME Init PROVE ClaimsInv
    OBVIOUS
  <2>1. \A n, id : ~Claimed(n, id)
    BY DEF Init, Claimed, IsBranch, Idle, Todo, Intends
  <2> QED BY <2>1 DEF ClaimsInv
<1>2. IInv /\ ClaimsInv => BranchesOwnTheirRevision
  <2> SUFFICES ASSUME IInv, ClaimsInv, NEW n \in DOMAIN refs, NEW m \in DOMAIN refs,
                      refs[n].kind = "branch", refs[m].kind = "branch",
                      refs[n].target = refs[m].target
               PROVE  n = m
    BY DEF BranchesOwnTheirRevision
  <2>1. refs[n].target \in RevIds /\ n \in RefNames /\ m \in RefNames
    BY DEF IInv, TypeOK, BranchesResolve
  <2>2. Claimed(n, refs[n].target) /\ Claimed(m, refs[n].target)
    BY DEF Claimed, IsBranch
  <2> QED BY <2>1, <2>2 DEF ClaimsInv
<1>3. Spec => []ClaimsInv
  <2>1. IInv /\ ClaimsInv /\ [Next]_vars => ClaimsInv'
    BY NextClaims
  <2> QED BY <1>1, <2>1, Invariance, PTL DEF Spec
<1> QED BY <1>2, <1>3, Invariance, PTL

-----------------------------------------------------------------------------
(* What a command promises when it ends *)

(***************************************************************************)
(* What each command of package revision promises when it has run to its   *)
(* end with no other process beside it, for any number of revisions,       *)
(* commands, names, contents and crashes in between.                       *)
(*                                                                         *)
(* A command aims at snapshots: for each revision it rewrites there is one *)
(* it will stand at.  The inductive invariant says that what is written    *)
(* and what is still to be written are those aims, and that what must be   *)
(* written is written or still to be.                                      *)
(***************************************************************************)

OneProcess == \A p, q \in Procs : p = q

(* The statements still to be executed. *)
Stmts(todo) == {todo[k] : k \in 1..Len(todo)}

(* A statement that sets a revision to a snapshot, sooner or later. *)
Aims(st)  == st.do \in {"revision", "commit", "repoint"}
AimOf(st) == IF st.do = "repoint" THEN st.hash ELSE st.row.hash

(* The snapshot a squash writes. *)
Absorbed(c) == WithTree(Parent(c), MergeTrees(Parent(c).tree, Parent(c).tree, c.tree))

(* A snapshot that was a revision's current one when the command began. *)
OwnedIn(B, s) == s.rev \in DOMAIN B /\ B[s.rev].hash = s

(* What stood on the snapshot h, and the revision before the k-th of a drop. *)
UnderIn(B, h) == {d \in DOMAIN B : ~IsRoot(B[d].hash) /\ Parent(B[d].hash) = h}

PlaceOf(pr, w, k) == IF k = 1 THEN Parent(pr.before[pr.id].hash).rev ELSE w[k - 1]

(* The snapshot the ignore rewrite makes of s. *)
Cleaned(s, memo, path) ==
  Snapshot(s.rev,
           IF ~IsRoot(s) /\ Parent(s) \in DOMAIN memo THEN <<memo[Parent(s)]>> ELSE s.parents,
           DropIgnored(s.tree, path), s.desc)

(***************************************************************************)
(* h is what the command aims at for the revision d.  w is what the        *)
(* command was given or listed when it began: the new parent of a rebase,  *)
(* the child of a squash, the path, the chosen entry and the revisions of  *)
(* a resolution, the order of a drop, the path that is ignored.            *)
(***************************************************************************)
OfOne == {"commit", "amend", "rebase", "revert", "squash", "message", "branch", "tag"}

Fits(pr, w, d, h) ==
  /\ pr.op \in OfOne => d = pr.id
  /\ pr.op \in {"amend", "message"} => h.parents = pr.before[pr.id].hash.parents
  /\ pr.op = "rebase" => h = Rebased(pr.before[pr.id].hash, w)
  /\ pr.op = "squash" => h = Absorbed(pr.before[w].hash)
  /\ pr.op = "resolve" => d \in w.ids /\ h = Resolution(pr.before[d].hash, w.path, w.entry)
  /\ pr.op = "drop" =>
       \E k \in 1..Len(w) : d = w[k] /\ ~IsRoot(h) /\ Parent(h).rev = PlaceOf(pr, w, k)
  /\ pr.op = "ignore" => /\ d \in DOMAIN pr.before /\ pr.before[d].hash \in DOMAIN pr.memo
                         /\ h = pr.memo[pr.before[d].hash]

(* The rest of a drop's order from its k-th revision on. *)
RestOf(w, k, ids) ==
  Len(ids) = Len(w) - k + 1 /\ \A j \in 1..Len(ids) : ids[j] = w[k + j - 1]

StmtFits(pr, w, st) ==
  /\ Aims(st) => Fits(pr, w, st.id, AimOf(st))
  /\ st.do = "amend" => pr.op = "amend" /\ st.id = pr.id
  /\ st.do = "rebase" =>
       /\ pr.op \in {"rebase", "drop"}
       /\ pr.op = "drop" => \E k \in 1..Len(w) : /\ RestOf(w, k, st.ids)
                                                 /\ st.onto.rev = PlaceOf(pr, w, k)
  /\ st.do = "squash" => pr.op = "squash"
  /\ st.do = "repair" =>
       /\ pr.op = "resolve" /\ st.path = w.path /\ st.entry = w.entry
       /\ \A j \in 1..Len(st.list) : st.list[j].rev \in w.ids /\ OwnedIn(pr.before, st.list[j])
  /\ st.do \in {"visit", "clean"} => pr.op = "ignore" /\ st.path = w /\ OwnedIn(pr.before, st.snap)

(* In a chain, the revisions of a drop stand on one another. *)
LinearIn(B) == \A d, e \in DOMAIN B : e \in UnderIn(B, B[d].hash) => UnderIn(B, B[d].hash) = {e}

ChainIn(B, id, w) ==
  LinearIn(B) => \A k \in 1..Len(w) :
    /\ ~IsRoot(B[w[k]].hash)
    /\ k = 1 => Parent(B[w[k]].hash) = B[id].hash
    /\ k > 1 => Parent(B[w[k]].hash) = B[w[k - 1]].hash /\ B[w[k - 1]].hash # B[id].hash

(* The revisions a resolution is about, and the conflict they carry. *)
CarriersIn(B, id, w) ==
  /\ w.path \in Paths /\ ~IsTree(w.entry) /\ ~IsConflict(w.entry)
  /\ id \in w.ids /\ w.ids \subseteq DOMAIN B
  /\ IsConflict(FindEntry(B[id].hash.tree, w.path))
  /\ \A d \in DOMAIN B :
       LET same == FindEntry(B[d].hash.tree, w.path) = FindEntry(B[id].hash.tree, w.path)
       IN  (d \in w.ids => same) /\ (d \in UnderIn(B, B[id].hash) /\ same => d \in w.ids)

BeganWith(pr, w) ==
  /\ \A d \in DOMAIN pr.before : pr.before[d].hash.rev = d
  /\ pr.op \in {"amend", "message", "rebase", "resolve", "drop", "ignore"} =>
       pr.id \in DOMAIN pr.before
  /\ pr.op = "squash" => /\ w \in DOMAIN pr.before /\ ~IsRoot(pr.before[w].hash)
                         /\ Parent(pr.before[w].hash).rev = pr.id
  /\ pr.op = "resolve" => CarriersIn(pr.before, pr.id, w)
  /\ pr.op = "drop" => w \in Seq(DOMAIN pr.before) /\ ChainIn(pr.before, pr.id, w)
  /\ pr.op = "ignore" => w \in Paths /\ w = pr.first.path

(* The revisions that must be rewritten, and whether one still waits for it. *)
Must(pr, w) ==
  IF pr.op = "rebase" THEN {pr.id}
  ELSE IF pr.op = "resolve" THEN w.ids
  ELSE IF pr.op = "ignore" THEN {d \in DOMAIN pr.before : pr.before[d].hash \in DOMAIN pr.memo}
  ELSE {}

Waits(T, d) ==
  \E st \in T : \/ Aims(st) /\ st.id = d
                \/ st.do = "rebase" /\ \E j \in 1..Len(st.ids) : st.ids[j] = d
                \/ st.do = "repair" /\ \E j \in 1..Len(st.list) : st.list[j].rev = d

(* rebase and squash read the tables before anything is written. *)
ReadsFirst(pr, w, R) ==
  /\ \A st \in Stmts(pr.todo) :
       /\ st.do = "rebase" /\ pr.op = "rebase" =>
            R = pr.before /\ pr.todo = <<RebaseRest(<<pr.id>>, w)>>
       /\ st.do = "squash" => R = pr.before /\ pr.todo = <<SquashInto(pr.before[w].hash)>>
  /\ pr.op = "squash" =>
       pr.id \in DOMAIN pr.before \/ pr.todo = <<SquashInto(pr.before[w].hash)>>

(* The ignore rewrite: parents first, and what has been made of each snapshot. *)
IsRewriteOf(st, s) == st.do \in {"visit", "clean"} /\ st.snap = s

ParentsFirst(pr) ==
  \A k \in 1..Len(pr.todo) :
    LET s == pr.todo[k].snap
    IN  pr.todo[k].do = "clean" /\ ~IsRoot(s) /\ OwnedIn(pr.before, Parent(s)) =>
          \/ Parent(s) \in DOMAIN pr.memo
          \/ \E j \in 1..(k - 1) : IsRewriteOf(pr.todo[j], Parent(s))

(* The revision the rewrite is for is rewritten or will be. *)
TargetIsSeen(pr) ==
  LET s == pr.before[pr.id].hash
  IN  s \in DOMAIN pr.memo \/ \E st \in Stmts(pr.todo) : IsRewriteOf(st, s)

MemoFits(pr, w) ==
  \A s \in DOMAIN pr.memo :
    /\ OwnedIn(pr.before, s) /\ pr.memo[s] = Cleaned(s, pr.memo, w)
    /\ ~IsRoot(s) /\ OwnedIn(pr.before, Parent(s)) => Parent(s) \in DOMAIN pr.memo

(* The invariant of one process: R is the revisions table. *)
Working(pr, w, R) ==
  /\ DOMAIN pr.before \subseteq DOMAIN R
  /\ BeganWith(pr, w)
  /\ \A st \in Stmts(pr.todo) : StmtFits(pr, w, st)
  /\ \A d \in DOMAIN pr.before : R[d] = pr.before[d] \/ Fits(pr, w, d, R[d].hash)
  /\ \A d \in Must(pr, w) : Fits(pr, w, d, R[d].hash) \/ Waits(Stmts(pr.todo), d)
  /\ ReadsFirst(pr, w, R)
  /\ pr.op = "ignore" => ParentsFirst(pr) /\ TargetIsSeen(pr) /\ MemoFits(pr, w)

CommandsInv == \A p \in Procs : \E w : Working(proc[p], w, revisions)

-----------------------------------------------------------------------------
(* The statements of a plan of up to two. *)
LEMMA StmtsOfFew ==
  ASSUME NEW a, NEW b
  PROVE  Stmts(<<>>) = {} /\ Stmts(<<a>>) = {a} /\ Stmts(<<a, b>>) = {a, b}
<1>1. Stmts(<<>>) = {}
  BY DEF Stmts
<1>2. Stmts(<<a>>) = {a}
  <2>1. Len(<<a>>) = 1 /\ \A i \in 1..1 : <<a>>[i] = a
    OBVIOUS
  <2> QED BY <2>1 DEF Stmts
<1>3. Stmts(<<a, b>>) = {a, b}
  <2> DEFINE q == <<a, b>>
  <2>1. /\ Len(q) = 2 /\ 1 \in 1..2 /\ 2 \in 1..2 /\ q[1] = a /\ q[2] = b
        /\ \A i \in 1..2 : i = 1 \/ i = 2
    OBVIOUS
  <2> HIDE DEF q
  <2> QED BY <2>1 DEF Stmts
<1> QED BY <1>1, <1>2, <1>3

(* The statements of a plan whose first is executed and followed by more. *)
LEMMA StmtsGoOn ==
  ASSUME NEW todo, IsSeq(todo), todo # <<>>, NEW more, IsSeq(more)
  PROVE  /\ Head(todo) \in Stmts(todo)
         /\ Stmts(todo) = {Head(todo)} \cup Stmts(Tail(todo))
         /\ Stmts(more \o Tail(todo)) = Stmts(more) \cup Stmts(Tail(todo))
<1> DEFINE rest == Tail(todo)
           plan == more \o rest
<1>1. /\ IsSeq(rest) /\ Len(todo) \in Nat \ {0} /\ Len(rest) = Len(todo) - 1
      /\ Head(todo) = todo[1] /\ \A i \in 1..Len(rest) : rest[i] = todo[i + 1]
  BY SeqTail
<1> HIDE DEF rest
<1>2. /\ Len(more) \in Nat /\ Len(plan) = Len(more) + Len(rest)
      /\ \A i \in 1..Len(more) : plan[i] = more[i]
      /\ \A i \in 1..Len(rest) : plan[Len(more) + i] = rest[i]
  <2>1. IsSeq(rest)
    BY <1>1
  <2> QED BY <2>1, SeqConcat
<1> HIDE DEF plan
<1>3. Head(todo) \in Stmts(todo)
  BY <1>1 DEF Stmts
<1>4. Stmts(rest) \subseteq Stmts(todo)
  <2>1. \A i \in 1..Len(rest) : i + 1 \in 1..Len(todo)
    BY <1>1
  <2> QED BY <1>1, <2>1 DEF Stmts
<1>5. ASSUME NEW k \in 1..Len(todo) PROVE todo[k] = Head(todo) \/ todo[k] \in Stmts(rest)
  <2>1. CASE k = 1
    BY <1>1, <2>1
  <2>2. CASE k # 1
    <3>1. k - 1 \in 1..Len(rest) /\ (k - 1) + 1 = k
      BY <1>1, <2>2
    <3>2. rest[k - 1] = todo[(k - 1) + 1]
      BY <1>1, <3>1
    <3> QED BY <3>1, <3>2 DEF Stmts
  <2> QED BY <2>1, <2>2
<1>6. Stmts(todo) = {Head(todo)} \cup Stmts(rest)
  BY <1>3, <1>4, <1>5 DEF Stmts
<1>7. ASSUME NEW k \in 1..Len(plan) PROVE plan[k] \in Stmts(more) \cup Stmts(rest)
  <2>1. CASE k \in 1..Len(more)
    BY <1>2, <2>1 DEF Stmts
  <2>2. CASE k \notin 1..Len(more)
    <3>1. k - Len(more) \in 1..Len(rest) /\ Len(more) + (k - Len(more)) = k
      BY <1>1, <1>2, <2>2
    <3>2. plan[Len(more) + (k - Len(more))] = rest[k - Len(more)]
      BY <1>2, <3>1
    <3> QED BY <3>1, <3>2 DEF Stmts
  <2> QED BY <2>1, <2>2
<1>8. Stmts(more) \subseteq Stmts(plan)
  <2>1. \A i \in 1..Len(more) : i \in 1..Len(plan)
    BY <1>1, <1>2
  <2> QED BY <1>2, <2>1 DEF Stmts
<1>9. Stmts(rest) \subseteq Stmts(plan)
  <2>1. \A i \in 1..Len(rest) : Len(more) + i \in 1..Len(plan)
    BY <1>1, <1>2
  <2> QED BY <1>2, <2>1 DEF Stmts
<1>10. Stmts(plan) = Stmts(more) \cup Stmts(rest)
  BY <1>7, <1>8, <1>9 DEF Stmts
<1> QED BY <1>3, <1>6, <1>10 DEF plan, rest

-----------------------------------------------------------------------------
(* What a command aims at does not depend on what it still has to do. *)
SameJob(pr, pr2) ==
  /\ pr2.op = pr.op /\ pr2.id = pr.id /\ pr2.before = pr.before /\ pr2.memo = pr.memo
  /\ pr2.first = pr.first

LEMMA SameAims ==
  ASSUME NEW pr, NEW pr2, SameJob(pr, pr2), NEW w
  PROVE  /\ \A d, h : Fits(pr2, w, d, h) <=> Fits(pr, w, d, h)
         /\ \A st : StmtFits(pr2, w, st) <=> StmtFits(pr, w, st)
         /\ BeganWith(pr2, w) <=> BeganWith(pr, w)
         /\ Must(pr2, w) = Must(pr, w)
<1>1. \A d, h : Fits(pr2, w, d, h) <=> Fits(pr, w, d, h)
  BY DEF SameJob, Fits, PlaceOf
<1>2. \A st : StmtFits(pr2, w, st) <=> StmtFits(pr, w, st)
  BY <1>1 DEF SameJob, StmtFits, PlaceOf
<1>3. BeganWith(pr2, w) <=> BeganWith(pr, w)
  BY DEF SameJob, BeganWith
<1>4. Must(pr2, w) = Must(pr, w)
  BY DEF SameJob, Must
<1> QED BY <1>1, <1>2, <1>3, <1>4

(* What must be rewritten was there when the command began. *)
LEMMA MustWasThere ==
  ASSUME NEW pr, NEW w, BeganWith(pr, w)
  PROVE  Must(pr, w) \subseteq DOMAIN pr.before
BY DEF BeganWith, Must, CarriersIn

LEMMA WaitsUnion ==
  ASSUME NEW T, NEW U, NEW d
  PROVE  Waits(T \cup U, d) <=> Waits(T, d) \/ Waits(U, d)
BY DEF Waits

(* A command goes on: what it writes and what it adds fits. *)
LEMMA Advance ==
  ASSUME NEW pr, NEW pr2, NEW w, NEW R, NEW R2, NEW more, Working(pr, w, R),
         IsSeq(pr.todo), pr.todo # <<>>, IsSeq(more),
         SameJob(pr, pr2), pr2.todo = more \o Tail(pr.todo),
         DOMAIN R \subseteq DOMAIN R2,
         \A st \in Stmts(more) : /\ StmtFits(pr, w, st) /\ st.do # "squash"
                                 /\ st.do = "rebase" => pr.op # "rebase",
         \A d \in DOMAIN pr.before : R2[d] = R[d] \/ Fits(pr, w, d, R2[d].hash),
         \A d : Waits({Head(pr.todo)}, d) =>
                  Waits(Stmts(more), d) \/ Fits(pr, w, d, R2[d].hash),
         pr.op = "squash" /\ Head(pr.todo).do = "squash" => pr.id \in DOMAIN pr.before,
         pr.op = "ignore" => ParentsFirst(pr2) /\ TargetIsSeen(pr2)
  PROVE  Working(pr2, w, R2)
<1> DEFINE T == Stmts(pr.todo)
           rest == Stmts(Tail(pr.todo))
           T2 == Stmts(pr2.todo)
<1>1. /\ Head(pr.todo) \in T /\ T = {Head(pr.todo)} \cup rest /\ T2 = Stmts(more) \cup rest
  BY StmtsGoOn
<1>2. /\ DOMAIN pr.before \subseteq DOMAIN R /\ BeganWith(pr, w)
      /\ \A st \in T : StmtFits(pr, w, st)
      /\ \A d \in DOMAIN pr.before : R[d] = pr.before[d] \/ Fits(pr, w, d, R[d].hash)
      /\ \A d \in Must(pr, w) : Fits(pr, w, d, R[d].hash) \/ Waits(T, d)
  BY DEF Working
<1>3. /\ \A d, h : Fits(pr2, w, d, h) <=> Fits(pr, w, d, h)
      /\ \A st : StmtFits(pr2, w, st) <=> StmtFits(pr, w, st)
      /\ BeganWith(pr2, w) /\ Must(pr2, w) = Must(pr, w)
  BY <1>2, SameAims
<1>4. pr2.before = pr.before /\ pr2.op = pr.op /\ pr2.id = pr.id /\ pr2.memo = pr.memo
  BY DEF SameJob
<1>6. ASSUME NEW st \in T2
      PROVE  st.do # "squash" /\ (st.do = "rebase" => pr.op # "rebase")
  <2>1. CASE st \in Stmts(more)
    BY <2>1
  <2>2. CASE st \in rest
    <3>1. st \in T
      BY <1>1, <2>2
    <3>2. ASSUME NEW a, pr.todo = <<a>> PROVE FALSE
      <4>1. Tail(pr.todo) = <<>>
        BY <3>2
      <4> QED BY <4>1, <2>2, StmtsOfFew
    <3> QED BY <3>1, <3>2 DEF Working, ReadsFirst
  <2> QED BY <2>1, <2>2, <1>1
<1>7. ReadsFirst(pr2, w, R2)
  <2>1. ASSUME pr.op = "squash" PROVE pr.id \in DOMAIN pr.before
    <3>1. CASE pr.todo = <<SquashInto(pr.before[w].hash)>>
      <4>1. Head(pr.todo).do = "squash"
        BY <3>1 DEF SquashInto
      <4> QED BY <4>1, <2>1
    <3> QED BY <2>1, <3>1 DEF Working, ReadsFirst
  <2> QED BY <1>4, <1>6, <2>1 DEF ReadsFirst
<1>8. ASSUME NEW d \in Must(pr, w) PROVE Fits(pr, w, d, R2[d].hash) \/ Waits(T2, d)
  <2>1. d \in DOMAIN pr.before
    BY <1>2, MustWasThere
  <2>2. CASE Fits(pr, w, d, R[d].hash)
    BY <2>1, <2>2
  <2>3. CASE Waits(T, d)
    <3>1. Waits({Head(pr.todo)}, d) \/ Waits(rest, d)
      <4> DEFINE head == {Head(pr.todo)}
      <4>1. Waits(head \cup rest, d)
        BY <2>3, <1>1
      <4> HIDE DEF head, rest
      <4> QED BY <4>1, WaitsUnion DEF head
    <3>2. Waits(T2, d) <=> Waits(Stmts(more), d) \/ Waits(rest, d)
      <4> HIDE DEF T2, rest
      <4> QED BY <1>1, WaitsUnion
    <3> QED BY <3>1, <3>2
  <2> QED BY <1>2, <2>2, <2>3
<1>9. \A st \in T2 : StmtFits(pr, w, st)
  BY <1>1, <1>2
<1>10. \A d \in DOMAIN pr.before : R2[d] = pr.before[d] \/ Fits(pr, w, d, R2[d].hash)
  BY <1>2
<1>11. pr.op = "ignore" => MemoFits(pr2, w)
  BY <1>4 DEF Working, MemoFits
<1> HIDE DEF T, rest, T2
<1> QED BY <1>2, <1>3, <1>4, <1>7, <1>8, <1>9, <1>10, <1>11 DEF Working, T2

-----------------------------------------------------------------------------
(* The order of the ignore rewrite, as a statement is replaced by more. *)
LEMMA OrderGoesOn ==
  ASSUME NEW pr, NEW pr2, NEW more, ParentsFirst(pr),
         IsSeq(pr.todo), pr.todo # <<>>, IsSeq(more),
         pr2.before = pr.before, pr2.todo = more \o Tail(pr.todo),
         DOMAIN pr.memo \subseteq DOMAIN pr2.memo,
         \A k \in 1..Len(more) :
           LET s == more[k].snap
           IN  more[k].do = "clean" /\ ~IsRoot(s) /\ OwnedIn(pr.before, Parent(s)) =>
                 \/ Parent(s) \in DOMAIN pr2.memo
                 \/ \E j \in 1..(k - 1) : IsRewriteOf(more[j], Parent(s)),
         \A s : IsRewriteOf(Head(pr.todo), s) =>
                  \/ s \in DOMAIN pr2.memo
                  \/ \E j \in 1..Len(more) : IsRewriteOf(more[j], s)
  PROVE  ParentsFirst(pr2)
<1> DEFINE todo == pr.todo
           rest == Tail(todo)
           plan == more \o rest
<1>1. /\ IsSeq(rest) /\ Len(todo) \in Nat \ {0} /\ Len(rest) = Len(todo) - 1
      /\ Head(todo) = todo[1] /\ \A i \in 1..Len(rest) : rest[i] = todo[i + 1]
  BY SeqTail
<1>2. /\ Len(more) \in Nat /\ Len(plan) = Len(more) + Len(rest)
      /\ \A i \in 1..Len(more) : plan[i] = more[i]
      /\ \A i \in 1..Len(rest) : plan[Len(more) + i] = rest[i]
  <2>1. IsSeq(rest)
    BY <1>1
  <2> HIDE DEF rest
  <2> QED BY <2>1, SeqConcat
<1>a. pr2.todo = plan
  OBVIOUS
<1> HIDE DEF plan, rest
<1> SUFFICES ASSUME NEW k \in 1..Len(plan), plan[k].do = "clean", ~IsRoot(plan[k].snap),
                    OwnedIn(pr.before, Parent(plan[k].snap)),
                    Parent(plan[k].snap) \notin DOMAIN pr2.memo
             PROVE  \E j \in 1..(k - 1) : IsRewriteOf(plan[j], Parent(plan[k].snap))
  BY <1>a DEF ParentsFirst
<1> DEFINE s == Parent(plan[k].snap)
<1>3. CASE k \in 1..Len(more)
  <2>1. plan[k] = more[k]
    BY <1>2, <1>3
  <2>2. PICK j \in 1..(k - 1) : IsRewriteOf(more[j], Parent(more[k].snap))
    BY <1>3, <2>1
  <2>3. plan[j] = more[j] /\ j \in 1..(k - 1)
    BY <1>2, <1>3, <2>2
  <2> QED BY <2>1, <2>2, <2>3
<1>4. CASE k \notin 1..Len(more)
  <2>1. /\ k - Len(more) \in 1..Len(rest) /\ Len(more) + (k - Len(more)) = k
        /\ (k - Len(more)) + 1 \in 1..Len(todo)
    BY <1>1, <1>2, <1>4
  <2> DEFINE i == (k - Len(more)) + 1
  <2>2. plan[k] = todo[i]
    <3>1. plan[Len(more) + (k - Len(more))] = rest[k - Len(more)]
      BY <1>2, <2>1
    <3> QED BY <1>1, <2>1, <3>1
  <2>3. i \in 1..Len(todo) /\ i \in Nat /\ k = Len(more) + i - 1
    BY <2>1, <1>2
  <2> HIDE DEF i
  <2>4. PICK j \in 1..(i - 1) : IsRewriteOf(todo[j], Parent(todo[i].snap))
    BY <2>2, <2>3 DEF ParentsFirst
  <2>5. CASE j = 1
    <3>1. PICK l \in 1..Len(more) : IsRewriteOf(more[l], s)
      BY <2>2, <2>4, <2>5, <1>1
    <3>2. plan[l] = more[l] /\ l \in 1..(k - 1)
      BY <1>2, <1>4, <3>1, <2>3
    <3> QED BY <3>1, <3>2
  <2>6. CASE j # 1
    <3>1. j - 1 \in 1..Len(rest) /\ (j - 1) + 1 = j /\ Len(more) + (j - 1) \in 1..(k - 1)
      <4>1. /\ j \in 1..(i - 1) /\ i \in 1..Len(todo) /\ k = Len(more) + i - 1
            /\ Len(rest) = Len(todo) - 1 /\ Len(todo) \in Nat /\ Len(more) \in Nat
        BY <1>1, <1>2, <2>3, <2>4
      <4> HIDE DEF todo, s
      <4> QED BY <2>6, <4>1
    <3>2. plan[Len(more) + (j - 1)] = todo[j]
      BY <1>1, <1>2, <3>1
    <3> QED BY <2>2, <2>4, <3>1, <3>2
  <2> QED BY <2>5, <2>6
<1> QED BY <1>3, <1>4

(* The revision the rewrite is for stays in sight. *)
LEMMA TargetStaysSeen ==
  ASSUME NEW pr, NEW pr2, NEW more, TargetIsSeen(pr),
         IsSeq(pr.todo), pr.todo # <<>>, IsSeq(more),
         pr2.before = pr.before, pr2.id = pr.id, pr2.todo = more \o Tail(pr.todo),
         DOMAIN pr.memo \subseteq DOMAIN pr2.memo,
         \A s : IsRewriteOf(Head(pr.todo), s) =>
                  \/ s \in DOMAIN pr2.memo
                  \/ \E st \in Stmts(more) : IsRewriteOf(st, s)
  PROVE  TargetIsSeen(pr2)
<1> DEFINE s == pr.before[pr.id].hash
<1>1. /\ Stmts(pr.todo) = {Head(pr.todo)} \cup Stmts(Tail(pr.todo))
      /\ Stmts(pr2.todo) = Stmts(more) \cup Stmts(Tail(pr.todo))
  BY StmtsGoOn
<1>2. s \in DOMAIN pr.memo \/ \E st \in Stmts(pr.todo) : IsRewriteOf(st, s)
  BY DEF TargetIsSeen
<1>3. s = pr2.before[pr2.id].hash
  OBVIOUS
<1> HIDE DEF s
<1> QED BY <1>1, <1>2, <1>3 DEF TargetIsSeen

-----------------------------------------------------------------------------
(* What a process is after it has executed a statement. *)
LEMMA GoesOnAs ==
  ASSUME IInv, NEW p \in Procs, NEW more, Continue(p, more)
  PROVE  SameJob(proc[p], proc'[p]) /\ proc'[p].todo = more \o Tail(proc[p].todo)
<1> DEFINE plan == more \o Tail(proc[p].todo)
<1>1. proc = [q \in Procs |-> proc[q]]
  BY DEF IInv, ProcsOK
<1>2. proc[p] = [op |-> proc[p].op, id |-> proc[p].id, before |-> proc[p].before,
                 memo |-> proc[p].memo, first |-> proc[p].first,
                 todo |-> proc[p].todo]
  BY DEF IInv, ProcsOK, ProcOK
<1>3. proc' = [proc EXCEPT ![p].todo = plan]
  BY DEF Continue
<1> HIDE DEF plan
<1>4. SameJob(proc[p], proc'[p]) /\ proc'[p].todo = plan
  BY <1>1, <1>2, <1>3 DEF SameJob
<1> QED BY <1>4 DEF plan

(* The only process's invariant is everybody's. *)
LEMMA OnlyProcess ==
  ASSUME OneProcess, NEW p \in Procs, NEW w, Working(proc'[p], w, revisions')
  PROVE  CommandsInv'
<1>1. \A q \in Procs : q = p
  BY DEF OneProcess
<1> QED BY <1>1 DEF CommandsInv

(* Statements that neither read rows again nor wait for others. *)
Plain(st) == st.do \notin {"visit", "clean", "rebase", "squash", "repair"}

LEMMA PlainOrder ==
  ASSUME NEW pr, NEW pr2, NEW more, ParentsFirst(pr), TargetIsSeen(pr),
         IsSeq(pr.todo), pr.todo # <<>>, IsSeq(more),
         SameJob(pr, pr2), pr2.todo = more \o Tail(pr.todo),
         Plain(Head(pr.todo)), \A st \in Stmts(more) : Plain(st)
  PROVE  ParentsFirst(pr2) /\ TargetIsSeen(pr2)
<1>1. \A k \in 1..Len(more) : more[k].do # "clean"
  BY DEF Stmts, Plain
<1>2. \A s : ~IsRewriteOf(Head(pr.todo), s)
  BY DEF Plain, IsRewriteOf
<1>3. pr2.before = pr.before /\ pr2.memo = pr.memo /\ pr2.id = pr.id
  BY DEF SameJob
<1>4. ParentsFirst(pr2)
  BY <1>1, <1>2, <1>3, OrderGoesOn
<1>5. TargetIsSeen(pr2)
  BY <1>2, <1>3, TargetStaysSeen
<1> QED BY <1>4, <1>5

(* Executing a statement that reads no row again. *)
LEMMA GoesOnPlainly ==
  ASSUME OneProcess, IInv, NEW p \in Procs, NEW w, Working(proc[p], w, revisions),
         Running(p), NEW more, IsSeq(more), Continue(p, more),
         DOMAIN revisions \subseteq DOMAIN revisions', Plain(Stmt(p)),
         \A st \in Stmts(more) : Plain(st) /\ StmtFits(proc[p], w, st),
         \A d \in DOMAIN proc[p].before :
           revisions'[d] = revisions[d] \/ Fits(proc[p], w, d, revisions'[d].hash),
         Aims(Stmt(p)) =>
           \/ \E st \in Stmts(more) : Aims(st) /\ st.id = Stmt(p).id
           \/ Fits(proc[p], w, Stmt(p).id, revisions'[Stmt(p).id].hash)
  PROVE  CommandsInv'
<1> DEFINE pr == proc[p]  pr2 == proc'[p]
<1>1. SameJob(pr, pr2) /\ pr2.todo = more \o Tail(pr.todo)
  BY GoesOnAs
<1>2. IsSeq(pr.todo) /\ pr.todo # <<>> /\ Stmt(p) = Head(pr.todo)
  BY DEF IInv, ProcsOK, ProcOK, PlanOK, Running, Todo, Stmt
<1>3. pr.op = "ignore" => ParentsFirst(pr) /\ TargetIsSeen(pr)
  BY DEF Working
<1> HIDE DEF pr, pr2
<1>4. pr.op = "ignore" => ParentsFirst(pr2) /\ TargetIsSeen(pr2)
  BY <1>1, <1>2, <1>3, PlainOrder
<1>5. ASSUME NEW d, Waits({Head(pr.todo)}, d)
      PROVE  Waits(Stmts(more), d) \/ Fits(pr, w, d, revisions'[d].hash)
  <2>1. Aims(Stmt(p)) /\ Stmt(p).id = d
    BY <1>2, <1>5 DEF Waits, Plain
  <2> QED BY <2>1 DEF Waits, pr
<1>6. Working(pr2, w, revisions')
  <2>1. Working(pr, w, revisions)
    BY DEF pr
  <2>2. \A st \in Stmts(more) : /\ StmtFits(pr, w, st) /\ st.do # "squash"
                                /\ st.do = "rebase" => pr.op # "rebase"
    BY DEF pr, Plain
  <2>3. \A d \in DOMAIN pr.before : revisions'[d] = revisions[d] \/ Fits(pr, w, d, revisions'[d].hash)
    BY DEF pr
  <2>4. Head(pr.todo).do # "squash"
    BY <1>2 DEF Plain
  <2> QED BY <1>1, <1>2, <1>4, <1>5, <2>1, <2>2, <2>3, <2>4, Advance
<1> QED BY <1>6, OnlyProcess DEF pr2

(* No statement, and one. *)
LEMMA FewSeq ==
  ASSUME NEW a, NEW b, NEW c, NEW d
  PROVE  IsSeq(<<>>) /\ IsSeq(<<a>>) /\ IsSeq(<<a, b>>) /\ IsSeq(<<a, b, c>>) /\ IsSeq(<<a, b, c, d>>)
<1> DEFINE S == {a, b, c, d}
<1>1. <<>> \in Seq(S) /\ <<a>> \in Seq(S) /\ <<a, b>> \in Seq(S) /\ <<a, b, c>> \in Seq(S)
      /\ <<a, b, c, d>> \in Seq(S)
  OBVIOUS
<1> QED BY <1>1, AnySeq

LEMMA Few3 ==
  ASSUME NEW a, NEW b, NEW c
  PROVE  IsSeq(<<a, b, c>>) /\ Stmts(<<a, b, c>>) = {a, b, c}
<1>1. IsSeq(<<a, b, c>>)
  <2>1. \A x : IsSeq(<<a, b, c>>)
    BY FewSeq
  <2> QED BY <2>1
<1>2. Stmts(<<a, b, c>>) = {a, b, c}
  <2> DEFINE q == <<a, b, c>>
  <2>1. /\ Len(q) = 3 /\ 1 \in 1..3 /\ 2 \in 1..3 /\ 3 \in 1..3
        /\ q[1] = a /\ q[2] = b /\ q[3] = c /\ \A i \in 1..3 : i = 1 \/ i = 2 \/ i = 3
    OBVIOUS
  <2> HIDE DEF q
  <2> QED BY <2>1 DEF Stmts
<1> QED BY <1>1, <1>2

LEMMA Few4 ==
  ASSUME NEW a, NEW b, NEW c, NEW d
  PROVE  IsSeq(<<a, b, c, d>>) /\ Stmts(<<a, b, c, d>>) = {a, b, c, d}
<1>1. IsSeq(<<a, b, c, d>>)
  BY FewSeq
<1>2. Stmts(<<a, b, c, d>>) = {a, b, c, d}
  <2> DEFINE q == <<a, b, c, d>>
  <2>1. /\ Len(q) = 4 /\ 1 \in 1..4 /\ 2 \in 1..4 /\ 3 \in 1..4 /\ 4 \in 1..4
        /\ q[1] = a /\ q[2] = b /\ q[3] = c /\ q[4] = d
        /\ \A i \in 1..4 : i = 1 \/ i = 2 \/ i = 3 \/ i = 4
    OBVIOUS
  <2> HIDE DEF q
  <2> QED BY <2>1 DEF Stmts
<1> QED BY <1>1, <1>2

(* The next statement fits. *)
LEMMA StmtFitsNow ==
  ASSUME IInv, NEW p \in Procs, Running(p), NEW w, Working(proc[p], w, revisions)
  PROVE  /\ StmtFits(proc[p], w, Stmt(p)) /\ Stmt(p) \in Stmts(proc[p].todo)
         /\ IsSeq(proc[p].todo) /\ proc[p].todo # <<>> /\ Stmt(p) = Head(proc[p].todo)
<1>1. IsSeq(proc[p].todo) /\ proc[p].todo # <<>>
  BY DEF IInv, ProcsOK, ProcOK, PlanOK, Running, Todo
<1>2. Head(proc[p].todo) \in Stmts(proc[p].todo)
  BY <1>1, FewSeq, StmtsGoOn
<1> QED BY <1>1, <1>2 DEF Working, Stmt, Todo

LEMMA DoPutSnapshotFits ==
  ASSUME OneProcess, IInv, CommandsInv, NEW p \in Procs, DoPutSnapshot(p)
  PROVE  CommandsInv'
<1>1. PICK w : Working(proc[p], w, revisions)
  BY DEF CommandsInv
<1>2. /\ Running(p) /\ Stmt(p).do = "snapshot" /\ Continue(p, <<>>) /\ revisions' = revisions
  BY DEF DoPutSnapshot
<1>3. Plain(Stmt(p)) /\ ~Aims(Stmt(p))
  BY <1>2 DEF Plain, Aims
<1> QED BY <1>1, <1>2, <1>3, GoesOnPlainly, FewSeq, StmtsOfFew

(* Writing a row sets a revision to what the command aims at. *)
LEMMA WriteFits ==
  ASSUME OneProcess, IInv, CommandsInv, NEW p \in Procs, Running(p),
         Stmt(p).do \in {"revision", "commit"}, Continue(p, <<>>),
         revisions' = Upsert(revisions, Stmt(p).id, Stmt(p).row)
  PROVE  CommandsInv'
<1>1. PICK w : Working(proc[p], w, revisions)
  BY DEF CommandsInv
<1> DEFINE st == Stmt(p)
<1>2. Aims(st) /\ AimOf(st) = st.row.hash /\ Plain(st)
  BY DEF Aims, AimOf, Plain
<1>3. Fits(proc[p], w, st.id, st.row.hash)
  BY <1>1, <1>2, StmtFitsNow DEF StmtFits
<1>4. /\ DOMAIN revisions \subseteq DOMAIN revisions' /\ revisions'[st.id] = st.row
      /\ \A d \in DOMAIN revisions : d # st.id => revisions'[d] = revisions[d]
  BY DEF Upsert
<1>5. \A d \in DOMAIN proc[p].before :
        revisions'[d] = revisions[d] \/ Fits(proc[p], w, d, revisions'[d].hash)
  BY <1>1, <1>3, <1>4 DEF Working
<1> HIDE DEF st
<1>6. Stmts(<<>>) = {} /\ IsSeq(<<>>)
  BY StmtsOfFew, FewSeq
<1> QED BY <1>1, <1>2, <1>3, <1>4, <1>5, <1>6, GoesOnPlainly DEF st

LEMMA DoPutRevisionFits ==
  ASSUME OneProcess, IInv, CommandsInv, NEW p \in Procs, DoPutRevision(p)
  PROVE  CommandsInv'
BY WriteFits DEF DoPutRevision

LEMMA DoCommitFits ==
  ASSUME OneProcess, IInv, CommandsInv, NEW p \in Procs, DoCommit(p)
  PROVE  CommandsInv'
BY WriteFits DEF DoCommit

(* Putting a ref, now or next. *)
LEMMA DoPutRefFits ==
  ASSUME OneProcess, IInv, CommandsInv, NEW p \in Procs, DoPutRef(p)
  PROVE  CommandsInv'
<1>1. PICK w : Working(proc[p], w, revisions)
  BY DEF CommandsInv
<1>2. /\ Running(p) /\ Stmt(p).do = "ref" /\ Continue(p, <<>>) /\ revisions' = revisions
  BY DEF DoPutRef
<1>3. Plain(Stmt(p)) /\ ~Aims(Stmt(p))
  BY <1>2 DEF Plain, Aims
<1> QED BY <1>1, <1>2, <1>3, GoesOnPlainly, FewSeq, StmtsOfFew

(* A process that gives up aims at nothing. *)
LEMMA AbortFits ==
  ASSUME OneProcess, IInv, NEW p \in Procs, Abort(p)
  PROVE  CommandsInv'
<1>1. proc'[p] = Idle
  <2>1. proc = [q \in Procs |-> proc[q]]
    BY DEF IInv, ProcsOK
  <2> QED BY <2>1 DEF Abort
<1>2. Stmts(<<>>) = {}
  BY StmtsOfFew
<1>3. Working(Idle, None, revisions')
  BY <1>2 DEF Working, Idle, BeganWith, Must, ReadsFirst
<1> QED BY <1>1, <1>3, OnlyProcess

LEMMA DoTagFits ==
  ASSUME OneProcess, IInv, CommandsInv, NEW p \in Procs, DoTag(p)
  PROVE  CommandsInv'
<1>1. PICK w : Working(proc[p], w, revisions)
  BY DEF CommandsInv
<1> DEFINE st == PutRef(Stmt(p).name, "tag", Stmt(p).target)
<1>2. /\ Running(p) /\ Stmt(p).do = "tag" /\ revisions' = revisions
      /\ Abort(p) \/ Continue(p, <<st>>)
  BY DEF DoTag, store
<1>3. CASE Continue(p, <<st>>)
  <2>1. Plain(Stmt(p)) /\ ~Aims(Stmt(p)) /\ Plain(st) /\ StmtFits(proc[p], w, st)
    BY <1>2 DEF Plain, Aims, StmtFits, PutRef
  <2> HIDE DEF st
  <2>2. Stmts(<<st>>) = {st} /\ IsSeq(<<st>>)
    BY StmtsOfFew, FewSeq
  <2> QED BY <1>1, <1>2, <1>3, <2>1, <2>2, GoesOnPlainly
<1> QED BY <1>2, <1>3, AbortFits

(* The read half of a repoint aims where the repoint does. *)
LEMMA DoRepointFits ==
  ASSUME OneProcess, IInv, CommandsInv, NEW p \in Procs, DoRepoint(p)
  PROVE  CommandsInv'
<1>1. PICK w : Working(proc[p], w, revisions)
  BY DEF CommandsInv
<1> DEFINE st == Stmt(p)
           put == PutOver(st.id, st.expect, Row(st.hash, revisions[st.id].forkFrom))
<1>2. /\ Running(p) /\ st.do = "repoint" /\ revisions' = revisions
      /\ Abort(p) \/ Continue(p, <<put>>)
  BY DEF DoRepoint, store
<1>3. CASE Continue(p, <<put>>)
  <2>1. /\ Aims(st) /\ AimOf(st) = st.hash /\ Plain(st)
        /\ Aims(put) /\ AimOf(put) = st.hash /\ put.id = st.id /\ put.do = "revision"
    BY <1>2 DEF Aims, AimOf, Plain, PutOver, Row
  <2>2. Fits(proc[p], w, st.id, st.hash)
    BY <1>1, <1>2, <2>1, StmtFitsNow DEF StmtFits
  <2> HIDE DEF put
  <2>3. Plain(put) /\ StmtFits(proc[p], w, put)
    BY <2>1, <2>2 DEF Plain, StmtFits
  <2>4. Stmts(<<put>>) = {put} /\ IsSeq(<<put>>)
    BY StmtsOfFew, FewSeq
  <2> QED BY <1>1, <1>2, <1>3, <2>1, <2>3, <2>4, GoesOnPlainly
<1> QED BY <1>2, <1>3, AbortFits

(* The amended snapshot has the parents the revision has now, which are those it
   had when the command began. *)
LEMMA DoAmendFits ==
  ASSUME OneProcess, IInv, CommandsInv, NEW p \in Procs, DoAmend(p)
  PROVE  CommandsInv'
<1>1. PICK w : Working(proc[p], w, revisions)
  BY DEF CommandsInv
<1> DEFINE st == Stmt(p)
           pr == proc[p]
           new == Snapshot(st.id, Current(st.id).parents, st.tree, st.desc)
           a == Commit(st.id, Row(new, None))
           b == Repoint(st.id, {}, new)
           more == <<a>> \o (IF st.again THEN <<b>> ELSE <<>>)
<1>2. /\ Running(p) /\ st.do = "amend" /\ revisions' = revisions /\ Continue(p, more)
  BY DEF DoAmend, store
<1>3. pr.op = "amend" /\ st.id = pr.id /\ StmtFits(pr, w, st)
  BY <1>1, <1>2, StmtFitsNow DEF StmtFits
<1>4. pr.id \in DOMAIN pr.before
  BY <1>1, <1>3 DEF Working, BeganWith
<1>5. Current(pr.id).parents = pr.before[pr.id].hash.parents
  BY <1>1, <1>3, <1>4 DEF Working, Fits, Current
<1>6. Fits(pr, w, st.id, new)
  <2>1. new.parents = pr.before[pr.id].hash.parents
    BY <1>3, <1>5 DEF Snapshot
  <2> HIDE DEF new, st
  <2> QED BY <1>3, <2>1 DEF Fits, OfOne
<1> HIDE DEF new
<1>7. /\ a.do = "commit" /\ a.id = st.id /\ AimOf(a) = new
      /\ b.do = "repoint" /\ b.id = st.id /\ AimOf(b) = new
  BY DEF Commit, Repoint, Row, AimOf
<1> HIDE DEF a, b
<1>8. Plain(a) /\ StmtFits(pr, w, a) /\ Aims(a) /\ Plain(b) /\ StmtFits(pr, w, b)
  BY <1>6, <1>7 DEF Plain, StmtFits, Aims
<1>9. IsSeq(more) /\ a \in Stmts(more) /\ Stmts(more) \subseteq {a, b}
  <2>1. CASE st.again
    <3>1. more = <<a, b>>
      BY <2>1, LastOfTwo
    <3>2. IsSeq(<<a, b>>) /\ Stmts(<<a, b>>) = {a, b}
      BY FewSeq, StmtsOfFew
    <3> HIDE DEF more
    <3> QED BY <3>1, <3>2
  <2>2. CASE ~st.again
    <3>1. more = <<a>>
      BY <2>2
    <3>2. IsSeq(<<a>>) /\ Stmts(<<a>>) = {a}
      BY FewSeq, StmtsOfFew
    <3> HIDE DEF more
    <3> QED BY <3>1, <3>2
  <2> HIDE DEF more
  <2> QED BY <2>1, <2>2
<1>10. Plain(Stmt(p))
  BY <1>2 DEF Plain
<1> HIDE DEF more
<1> QED BY <1>1, <1>2, <1>7, <1>8, <1>9, <1>10, GoesOnPlainly

(* The squashed snapshot is made of the child and its parent as they were when
   the command began: nothing was written in between. *)
LEMMA DoSquashFits ==
  ASSUME OneProcess, IInv, CommandsInv, NEW p \in Procs, DoSquash(p)
  PROVE  CommandsInv'
<1>1. PICK w : Working(proc[p], w, revisions)
  BY DEF CommandsInv
<1> DEFINE st == Stmt(p)
           pr == proc[p]
           pr2 == proc'[p]
           c == st.child
           old == Parent(c)
           new == WithTree(old, MergeTrees(old.tree, old.tree, c.tree))
           a == PutSnapshot(new)
           b == Repoint(old.rev, {Current(old.rev)}, new)
           more == <<a, b>>
<1>2. /\ Running(p) /\ st.do = "squash" /\ revisions' = revisions
      /\ Abort(p) \/ (old.rev \in Known /\ Continue(p, more))
  BY DEF DoSquash, store
<1>3. /\ StmtFits(pr, w, st) /\ st \in Stmts(pr.todo) /\ IsSeq(pr.todo) /\ pr.todo # <<>>
      /\ st = Head(pr.todo)
  BY <1>1, <1>2, StmtFitsNow
<1>4. pr.op = "squash"
  BY <1>2, <1>3 DEF StmtFits
<1>5. pr.before = revisions /\ pr.todo = <<SquashInto(pr.before[w].hash)>>
  BY <1>1, <1>2, <1>3 DEF Working, ReadsFirst
<1>6. c = pr.before[w].hash
  <2>1. st = SquashInto(pr.before[w].hash)
    BY <1>3, <1>5
  <2> HIDE DEF st, pr
  <2> QED BY <2>1 DEF SquashInto
<1>7. old.rev = pr.id
  BY <1>1, <1>4, <1>6 DEF Working, BeganWith
<1>8. CASE old.rev \in Known /\ Continue(p, more)
  <2>1. SameJob(pr, pr2) /\ pr2.todo = more \o Tail(pr.todo)
    BY <1>8, GoesOnAs
  <2>2. pr.id \in DOMAIN pr.before
    BY <1>5, <1>7, <1>8 DEF Known
  <2>3. Fits(pr, w, pr.id, new)
    <3>1. new = Absorbed(pr.before[w].hash)
      BY <1>6 DEF Absorbed
    <3> HIDE DEF new, pr
    <3> QED BY <1>4, <3>1 DEF Fits
  <2>4. /\ a.do = "snapshot" /\ b.do = "repoint" /\ b.id = pr.id /\ AimOf(b) = new
    BY <1>7 DEF PutSnapshot, Repoint, AimOf
  <2> HIDE DEF a, b, new
  <2>5. /\ StmtFits(pr, w, a) /\ a.do # "squash" /\ a.do # "rebase"
        /\ StmtFits(pr, w, b) /\ b.do # "squash" /\ b.do # "rebase"
    BY <2>3, <2>4 DEF StmtFits, Aims
  <2>6. Stmts(more) = {a, b} /\ IsSeq(more)
    BY StmtsOfFew, FewSeq
  <2>7. \A d : ~Waits({Head(pr.todo)}, d)
    <3>1. Head(pr.todo).do = "squash"
      BY <1>2, <1>3
    <3> HIDE DEF pr
    <3> QED BY <3>1 DEF Waits, Aims
  <2> HIDE DEF more
  <2>8. pr.op # "ignore"
    BY <1>4
  <2>9. Working(pr2, w, revisions')
    <3> HIDE DEF pr, pr2
    <3>1. Working(pr, w, revisions)
      BY <1>1 DEF pr
    <3> QED BY <1>2, <1>3, <2>1, <2>2, <2>5, <2>6, <2>7, <2>8, <3>1, Advance
  <2> QED BY <2>9, OnlyProcess
<1> QED BY <1>2, <1>8, AbortFits

(* What a rebase step writes: a rebase writes the one snapshot it is for, read
   before anything was written; a drop one that stands on its predecessor. *)
LEMMA RebaseStepFits ==
  ASSUME IInv, NEW p \in Procs, NEW w, Working(proc[p], w, revisions), Running(p),
         NEW st, st = Stmt(p), st.do = "rebase",
         NEW id, id = Head(st.ids), NEW new, new = Rebased(Current(id), st.onto)
  PROVE  /\ Fits(proc[p], w, id, new)
         /\ Len(st.ids) > 1 =>
              /\ proc[p].op = "drop"
              /\ \E k \in 1..Len(w) : /\ RestOf(w, k, Tail(st.ids))
                                      /\ new.rev = PlaceOf(proc[p], w, k)
<1> DEFINE pr == proc[p]
           ids == st.ids
<1>1. StmtFits(pr, w, st) /\ st \in Stmts(pr.todo) /\ st = Head(pr.todo)
  BY StmtFitsNow
<1>2. pr.op \in {"rebase", "drop"}
  BY <1>1 DEF StmtFits
<1>3. ids \in Seq(Known) /\ ids # <<>>
  BY StmtIsSound DEF Sound
<1>4. id \in Known /\ id = ids[1] /\ Len(ids) \in Nat \ {0}
  BY <1>3
<1>5. new.parents = <<st.onto>> /\ new.rev = id
  BY <1>4, CurrentFacts DEF Rebased, Snapshot
<1>6. ~IsRoot(new) /\ Parent(new) = st.onto
  BY <1>5 DEF IsRoot, Parent
<1>7. CASE pr.op = "rebase"
  <2>1. pr.before = revisions /\ pr.todo = <<RebaseRest(<<pr.id>>, w)>>
    BY <1>1, <1>7 DEF Working, ReadsFirst
  <2>2. st = RebaseRest(<<pr.id>>, w)
    <3> HIDE DEF pr
    <3> QED BY <1>1, <2>1
  <2>3. ids = <<pr.id>> /\ st.onto = w
    <3> HIDE DEF pr
    <3> QED BY <2>2 DEF RebaseRest
  <2>4. id = pr.id /\ ~(Len(ids) > 1)
    <3> HIDE DEF pr, ids
    <3> QED BY <1>4, <2>3
  <2>5. new = Rebased(pr.before[pr.id].hash, w)
    BY <2>1, <2>3, <2>4 DEF Current
  <2> HIDE DEF pr, ids
  <2>6. Fits(pr, w, id, new)
    BY <1>7, <2>4, <2>5 DEF Fits
  <2> QED BY <2>4, <2>6 DEF pr, ids
<1>8. CASE pr.op = "drop"
  <2>1. PICK k \in 1..Len(w) : RestOf(w, k, ids) /\ st.onto.rev = PlaceOf(pr, w, k)
    BY <1>1, <1>8 DEF StmtFits
  <2>2. Len(w) \in Nat
    BY <1>8 DEF Working, BeganWith
  <2>3. Len(ids) = Len(w) - k + 1 /\ \A j \in 1..Len(ids) : ids[j] = w[k + j - 1]
    BY <2>1 DEF RestOf
  <2>4. id = w[k]
    <3>1. 1 \in 1..Len(ids) /\ k + 1 - 1 = k
      BY <1>4, <2>2
    <3> QED BY <1>4, <2>3, <3>1
  <2>5. Fits(pr, w, id, new)
    <3> HIDE DEF pr
    <3> QED BY <1>6, <1>8, <2>1, <2>4 DEF Fits, OfOne
  <2>6. ASSUME Len(ids) > 1
        PROVE  k + 1 \in 1..Len(w) /\ RestOf(w, k + 1, Tail(ids)) /\ new.rev = PlaceOf(pr, w, k + 1)
    <3>1. k + 1 \in 1..Len(w) /\ k + 1 # 1 /\ (k + 1) - 1 = k
      BY <1>4, <2>2, <2>3, <2>6
    <3> DEFINE rest == Tail(ids)
    <3>2. Len(rest) = Len(ids) - 1 /\ \A j \in 1..Len(rest) : rest[j] = ids[j + 1]
      BY <1>3
    <3> HIDE DEF rest, ids
    <3>3. Len(rest) = Len(w) - (k + 1) + 1
      BY <1>4, <2>2, <2>3, <3>2
    <3>4. ASSUME NEW j \in 1..Len(rest) PROVE rest[j] = w[(k + 1) + j - 1]
      <4>1. j + 1 \in 1..Len(ids) /\ k + (j + 1) - 1 = (k + 1) + j - 1
        BY <1>4, <3>2
      <4> QED BY <2>3, <3>2, <4>1
    <3> QED BY <1>5, <2>4, <3>1, <3>3, <3>4 DEF RestOf, PlaceOf, rest, ids
  <2> HIDE DEF pr
  <2> QED BY <1>8, <2>5, <2>6 DEF ids, pr
<1> QED BY <1>2, <1>7, <1>8

LEMMA DoRebaseFits ==
  ASSUME OneProcess, IInv, CommandsInv, NEW p \in Procs, DoRebase(p)
  PROVE  CommandsInv'
<1>1. PICK w : Working(proc[p], w, revisions)
  BY DEF CommandsInv
<1> DEFINE st == Stmt(p)  ids == st.ids  id == Head(ids)  cur == Current(id)
           pr == proc[p]
           pr2 == proc'[p]
           new == Rebased(cur, st.onto)
           a == PutSnapshot(new)
           b == Repoint(id, {cur}, new)
           c == PutRevision(id, Row(new, revisions[id].forkFrom))
           d == RebaseRest(Tail(ids), new)
           more == <<a, b, c>> \o (IF Len(ids) > 1 THEN <<d>> ELSE <<>>)
<1>2. /\ Running(p) /\ st.do = "rebase" /\ revisions' = revisions /\ Continue(p, more)
  BY DEF DoRebase, store
<1>3. /\ Fits(pr, w, id, new)
      /\ Len(ids) > 1 => /\ pr.op = "drop"
                         /\ \E k \in 1..Len(w) : /\ RestOf(w, k, Tail(ids))
                                                 /\ new.rev = PlaceOf(pr, w, k)
  <2>1. st = Stmt(p) /\ id = Head(st.ids) /\ new = Rebased(Current(id), st.onto)
    OBVIOUS
  <2>2. Running(p) /\ st.do = "rebase"
    BY <1>2
  <2> HIDE DEF st, id, new
  <2> QED BY <1>1, <2>2, <2>1, RebaseStepFits
<1>4. /\ st \in Stmts(pr.todo) /\ IsSeq(pr.todo) /\ pr.todo # <<>> /\ st = Head(pr.todo)
      /\ pr.op \in {"rebase", "drop"}
  BY <1>1, <1>2, StmtFitsNow DEF StmtFits
<1>5. SameJob(pr, pr2) /\ pr2.todo = more \o Tail(pr.todo)
  BY <1>2, GoesOnAs
<1>6. ids \in Seq(Known) /\ ids # <<>>
  BY <1>2, StmtIsSound DEF Sound
<1>7. /\ a.do = "snapshot" /\ b.do = "repoint" /\ b.id = id /\ AimOf(b) = new
      /\ c.do = "revision" /\ c.id = id /\ AimOf(c) = new
      /\ d.do = "rebase" /\ d.ids = Tail(ids) /\ d.onto = new
  BY DEF PutSnapshot, Repoint, AimOf, PutRevision, PutOver, Row, RebaseRest
<1> HIDE DEF a, b, c, d, new, id, cur
<1>8. /\ StmtFits(pr, w, a) /\ StmtFits(pr, w, b) /\ StmtFits(pr, w, c) /\ Aims(b)
      /\ Len(ids) > 1 => StmtFits(pr, w, d) /\ pr.op # "rebase"
  BY <1>3, <1>7 DEF StmtFits, Aims
<1>9. /\ IsSeq(more) /\ b \in Stmts(more)
      /\ \A x \in Stmts(more) : x \in {a, b, c} \/ (x = d /\ Len(ids) > 1)
      /\ Len(ids) > 1 => d \in Stmts(more)
  <2> HIDE DEF ids, st, pr, pr2
  <2>1. CASE Len(ids) > 1
    <3>1. <<a, b, c>> \o <<d>> = <<a, b, c, d>>
      BY LastOfFour
    <3>2. more = <<a, b, c, d>>
      BY <2>1, <3>1
    <3>3. IsSeq(<<a, b, c, d>>) /\ Stmts(<<a, b, c, d>>) = {a, b, c, d}
      BY Few4
    <3> HIDE DEF more
    <3> QED BY <2>1, <3>2, <3>3
  <2>2. CASE ~(Len(ids) > 1)
    <3>1. more = <<a, b, c>>
      BY <2>2
    <3>2. IsSeq(<<a, b, c>>) /\ Stmts(<<a, b, c>>) = {a, b, c}
      BY Few3
    <3> HIDE DEF more
    <3> QED BY <2>2, <3>1, <3>2
  <2> HIDE DEF more
  <2> QED BY <2>1, <2>2
<1> HIDE DEF more
<1>10. ASSUME NEW e, Waits({Head(pr.todo)}, e)
       PROVE  Waits(Stmts(more), e)
  <2>1. PICK j \in 1..Len(ids) : ids[j] = e
    BY <1>2, <1>4, <1>10 DEF Waits, Aims
  <2>2. CASE j = 1
    <3>1. e = b.id
      BY <1>6, <1>7, <2>1, <2>2 DEF id
    <3> QED BY <1>8, <1>9, <3>1 DEF Waits
  <2>3. CASE j # 1
    <3>1. Len(ids) \in Nat /\ Len(Tail(ids)) = Len(ids) - 1
          /\ \A i \in 1..Len(Tail(ids)) : Tail(ids)[i] = ids[i + 1]
      BY <1>6
    <3> HIDE DEF ids
    <3>2. j - 1 \in 1..Len(Tail(ids)) /\ (j - 1) + 1 = j /\ Len(ids) > 1
      BY <2>1, <2>3, <3>1
    <3>3. d.ids[j - 1] = e /\ j - 1 \in 1..Len(d.ids)
      BY <1>7, <2>1, <3>1, <3>2
    <3> QED BY <1>7, <1>9, <3>2, <3>3 DEF Waits
  <2> QED BY <2>2, <2>3
<1>11. Working(pr2, w, revisions')
  <2> HIDE DEF pr, pr2, ids
  <2>1. Working(pr, w, revisions)
    BY <1>1 DEF pr
  <2>2. Head(pr.todo).do = "rebase"
    BY <1>2, <1>4
  <2>3. \A x \in Stmts(more) : /\ StmtFits(pr, w, x) /\ x.do # "squash"
                               /\ x.do = "rebase" => pr.op # "rebase"
    BY <1>7, <1>8, <1>9
  <2> QED BY <1>2, <1>4, <1>5, <1>9, <1>10, <2>1, <2>2, <2>3, Advance
<1> QED BY <1>11, OnlyProcess

(* A descendant is resolved as it was listed. *)
LEMMA DoRepairFits ==
  ASSUME OneProcess, IInv, CommandsInv, NEW p \in Procs, DoRepair(p)
  PROVE  CommandsInv'
<1>1. PICK w : Working(proc[p], w, revisions)
  BY DEF CommandsInv
<1> DEFINE st == Stmt(p)
           list == st.list
           pr == proc[p]
           pr2 == proc'[p]
           s == Head(list)
           new == Resolution(s, st.path, st.entry)
           a == PutSnapshot(new)
           b == Repoint(s.rev, {}, new)
           c == RepairRest(Tail(list), st.path, st.entry)
           more == IF list = <<>> THEN <<>> ELSE <<a, b, c>>
<1>2. /\ Running(p) /\ st.do = "repair" /\ revisions' = revisions /\ Continue(p, more)
  BY DEF DoRepair, store
<1>3. /\ st \in Stmts(pr.todo) /\ IsSeq(pr.todo) /\ pr.todo # <<>> /\ st = Head(pr.todo)
      /\ pr.op = "resolve" /\ st.path = w.path /\ st.entry = w.entry
      /\ \A j \in 1..Len(list) : list[j].rev \in w.ids /\ OwnedIn(pr.before, list[j])
  BY <1>1, <1>2, StmtFitsNow DEF StmtFits
<1>4. SameJob(pr, pr2) /\ pr2.todo = more \o Tail(pr.todo)
  BY <1>2, GoesOnAs
<1>5. IsSeq(list)
  BY <1>2, StmtIsSound, AnySeq DEF Sound
<1>6. /\ IsSeq(more)
      /\ \A x \in Stmts(more) : StmtFits(pr, w, x) /\ x.do # "squash" /\ x.do # "rebase"
      /\ \A e : Waits({st}, e) => Waits(Stmts(more), e)
  <2>1. CASE list = <<>>
    <3>1. more = <<>> /\ Stmts(<<>>) = {} /\ IsSeq(<<>>)
      BY <2>1, FewSeq, StmtsOfFew
    <3>2. \A e : ~Waits({st}, e)
      <4>1. Len(<<>>) = 0
        OBVIOUS
      <4>2. 1..Len(list) = {}
        BY <2>1, <4>1
      <4> QED BY <1>2, <4>2 DEF Waits, Aims
    <3> HIDE DEF more
    <3> QED BY <3>1, <3>2
  <2>2. CASE list # <<>>
    <3>1. /\ Len(list) \in Nat \ {0} /\ s = list[1] /\ IsSeq(Tail(list))
          /\ Len(Tail(list)) = Len(list) - 1
          /\ \A j \in 1..(Len(list) - 1) : Tail(list)[j] = list[j + 1]
      <4> HIDE DEF list
      <4> QED BY <1>5, <2>2, SeqTail
    <3>2. s.rev \in w.ids /\ OwnedIn(pr.before, s)
      <4>1. 1 \in 1..Len(list)
        BY <3>1
      <4>2. list[1].rev \in w.ids /\ OwnedIn(pr.before, list[1])
        BY <1>3, <4>1
      <4> QED BY <3>1, <4>2
    <3>3. Fits(pr, w, s.rev, new)
      <4>1. new = Resolution(pr.before[s.rev].hash, w.path, w.entry)
        BY <1>3, <3>2 DEF OwnedIn
      <4> HIDE DEF new, pr, s
      <4> QED BY <1>3, <3>2, <4>1 DEF Fits, OfOne
    <3>4. /\ a.do = "snapshot" /\ b.do = "repoint" /\ b.id = s.rev /\ AimOf(b) = new
          /\ c.do = "repair" /\ c.list = Tail(list) /\ c.path = st.path /\ c.entry = st.entry
      BY DEF PutSnapshot, Repoint, AimOf, RepairRest
    <3>5. ASSUME NEW j \in 1..Len(Tail(list))
          PROVE  Tail(list)[j].rev \in w.ids /\ OwnedIn(pr.before, Tail(list)[j])
      <4>1. j + 1 \in 1..Len(list) /\ Tail(list)[j] = list[j + 1]
        BY <3>1
      <4> QED BY <1>3, <4>1
    <3>6. more = <<a, b, c>>
      BY <2>2
    <3> HIDE DEF a, b, c, new, more, s, list
    <3>7. StmtFits(pr, w, a) /\ StmtFits(pr, w, b) /\ StmtFits(pr, w, c) /\ Aims(b)
      BY <1>3, <3>3, <3>4, <3>5 DEF StmtFits, Aims
    <3>8. IsSeq(<<a, b, c>>) /\ Stmts(<<a, b, c>>) = {a, b, c}
      BY Few3
    <3>9. ASSUME NEW e, Waits({st}, e) PROVE Waits(Stmts(more), e)
      <4>1. PICK j \in 1..Len(list) : list[j].rev = e
        BY <1>2, <3>9 DEF Waits, Aims, list
      <4>2. CASE j = 1
        <5>1. b \in Stmts(more) /\ Aims(b) /\ b.id = e
          BY <3>1, <3>4, <3>6, <3>7, <3>8, <4>1, <4>2
        <5> QED BY <5>1 DEF Waits
      <4>3. CASE j # 1
        <5>1. j - 1 \in 1..Len(Tail(list)) /\ (j - 1) + 1 = j /\ j - 1 \in 1..(Len(list) - 1)
          BY <3>1, <4>3
        <5>2. c.list[j - 1].rev = e /\ j - 1 \in 1..Len(c.list)
          BY <3>1, <3>4, <4>1, <5>1
        <5>3. c \in Stmts(more) /\ c.do = "repair"
          BY <3>4, <3>6, <3>8
        <5> QED BY <5>2, <5>3 DEF Waits
      <4> QED BY <4>2, <4>3
    <3> QED BY <3>4, <3>6, <3>7, <3>8, <3>9
  <2> HIDE DEF more
  <2> QED BY <2>1, <2>2
<1> HIDE DEF more
<1>7. Working(pr2, w, revisions')
  <2>1. Working(pr, w, revisions)
    BY <1>1
  <2> HIDE DEF pr, pr2
  <2> QED BY <1>2, <1>3, <1>4, <1>6, <2>1, Advance
<1> QED BY <1>7, OnlyProcess

(* An owned parent is visited before the snapshot itself is cleaned. *)
LEMMA DoVisitFits ==
  ASSUME OneProcess, IInv, CommandsInv, NEW p \in Procs, DoVisit(p)
  PROVE  CommandsInv'
<1>1. PICK w : Working(proc[p], w, revisions)
  BY DEF CommandsInv
<1> DEFINE st == Stmt(p)
           pr == proc[p]
           pr2 == proc'[p]
           up == Parent(st.snap)
           v == Visit(up, st.path)
           c == Clean(st.snap, st.path)
           goes == ~IsRoot(st.snap) /\ Owned(p, up)
           more == (IF goes THEN <<v>> ELSE <<>>) \o <<c>>
<1>2. /\ Running(p) /\ st.do = "visit" /\ revisions' = revisions /\ Continue(p, more)
  BY DEF DoVisit, store
<1>3. /\ st \in Stmts(pr.todo) /\ IsSeq(pr.todo) /\ pr.todo # <<>> /\ st = Head(pr.todo)
      /\ pr.op = "ignore" /\ st.path = w /\ OwnedIn(pr.before, st.snap)
  BY <1>1, <1>2, StmtFitsNow DEF StmtFits
<1>4. SameJob(pr, pr2) /\ pr2.todo = more \o Tail(pr.todo)
  BY <1>2, GoesOnAs
<1>5. goes <=> ~IsRoot(st.snap) /\ OwnedIn(pr.before, up)
  BY DEF Owned, OwnedIn
<1>6. /\ v.do = "visit" /\ v.snap = up /\ v.path = w
      /\ c.do = "clean" /\ c.snap = st.snap /\ c.path = w
  BY <1>3 DEF Visit, Clean
<1> HIDE DEF goes, v, c, up
<1>7. StmtFits(pr, w, c) /\ (goes => StmtFits(pr, w, v))
  BY <1>3, <1>5, <1>6 DEF StmtFits, Aims
<1>8. /\ IsSeq(more) /\ Len(more) \in {1, 2}
      /\ goes => Len(more) = 2 /\ more[1] = v /\ more[2] = c
      /\ ~goes => Len(more) = 1 /\ more[1] = c
      /\ \A x \in Stmts(more) : x = c \/ (goes /\ x = v)
  <2>1. CASE goes
    <3>1. more = <<v, c>>
      BY <2>1, LastOfTwo
    <3>2. /\ IsSeq(<<v, c>>) /\ Stmts(<<v, c>>) = {v, c} /\ Len(<<v, c>>) = 2
          /\ <<v, c>>[1] = v /\ <<v, c>>[2] = c
      BY FewSeq, StmtsOfFew
    <3> HIDE DEF more
    <3> QED BY <2>1, <3>1, <3>2
  <2>2. CASE ~goes
    <3>1. more = <<c>>
      BY <2>2
    <3>2. IsSeq(<<c>>) /\ Stmts(<<c>>) = {c} /\ Len(<<c>>) = 1 /\ <<c>>[1] = c
      BY FewSeq, StmtsOfFew
    <3> HIDE DEF more
    <3> QED BY <2>2, <3>1, <3>2
  <2> HIDE DEF more
  <2> QED BY <2>1, <2>2
<1> HIDE DEF more
<1>9. ParentsFirst(pr2)
  <2>1. ParentsFirst(pr) /\ pr2.before = pr.before /\ pr2.memo = pr.memo
    BY <1>1, <1>3, <1>4 DEF Working, SameJob
  <2>2. ASSUME NEW k \in 1..Len(more), NEW s, s = more[k].snap, more[k].do = "clean",
               ~IsRoot(s), OwnedIn(pr.before, Parent(s))
        PROVE  \E j \in 1..(k - 1) : IsRewriteOf(more[j], Parent(s))
    <3>1. more[k] = c /\ s = st.snap /\ Parent(s) = up
      <4>1. more[k] \in Stmts(more)
        BY <2>2 DEF Stmts
      <4>2. more[k] = c
        BY <1>6, <1>8, <2>2, <4>1
      <4> QED BY <1>6, <2>2, <4>2 DEF up
    <3>2. goes
      BY <1>5, <2>2, <3>1
    <3>3. k = 2
      <4>1. k \in {1, 2} /\ more[1] # c
        BY <1>6, <1>8, <3>2
      <4> QED BY <3>1, <4>1
    <3>4. 1 \in 1..(k - 1) /\ IsRewriteOf(more[1], Parent(s))
      BY <1>6, <1>8, <3>1, <3>2, <3>3 DEF IsRewriteOf
    <3> QED BY <3>4
  <2>3. ASSUME NEW s, IsRewriteOf(Head(pr.todo), s)
        PROVE  \E j \in 1..Len(more) : IsRewriteOf(more[j], s)
    <3>1. s = st.snap
      BY <1>3, <2>3 DEF IsRewriteOf
    <3>2. IsRewriteOf(c, s)
      BY <1>6, <3>1 DEF IsRewriteOf
    <3>3. Len(more) \in 1..Len(more) /\ more[Len(more)] = c
      BY <1>8
    <3> QED BY <3>2, <3>3
  <2> HIDE DEF pr, pr2
  <2> QED BY <1>3, <1>4, <1>8, <2>1, <2>2, <2>3, OrderGoesOn
<1>a. TargetIsSeen(pr2)
  <2>1. TargetIsSeen(pr) /\ pr2.before = pr.before /\ pr2.memo = pr.memo /\ pr2.id = pr.id
    BY <1>1, <1>3, <1>4 DEF Working, SameJob
  <2>2. ASSUME NEW s, IsRewriteOf(Head(pr.todo), s)
        PROVE  \E x \in Stmts(more) : IsRewriteOf(x, s)
    <3>1. IsRewriteOf(c, s)
      BY <1>3, <1>6, <2>2 DEF IsRewriteOf
    <3>2. Len(more) \in 1..Len(more) /\ more[Len(more)] = c
      BY <1>8
    <3> QED BY <3>1, <3>2 DEF Stmts
  <2> HIDE DEF pr, pr2
  <2> QED BY <1>3, <1>4, <1>8, <2>1, <2>2, TargetStaysSeen
<1>10. \A x \in Stmts(more) : StmtFits(pr, w, x) /\ x.do # "squash" /\ x.do # "rebase"
  BY <1>6, <1>7, <1>8
<1>11. \A d : ~Waits({Head(pr.todo)}, d)
  <2>1. Head(pr.todo).do = "visit"
    BY <1>2, <1>3
  <2> HIDE DEF pr
  <2> QED BY <2>1 DEF Waits, Aims
<1>12. Working(pr2, w, revisions')
  <2>1. Working(pr, w, revisions)
    BY <1>1
  <2> HIDE DEF pr, pr2
  <2> QED BY <1>2, <1>3, <1>4, <1>8, <1>9, <1>10, <1>11, <1>a, <2>1, Advance
<1> QED BY <1>12, OnlyProcess

(* What is remembered of a snapshot is what its cleaning made of it, and stays. *)
LEMMA MemoGrows ==
  ASSUME NEW pr, NEW pr2, NEW w, NEW s, NEW new, MemoFits(pr, w),
         pr2.before = pr.before, pr2.memo = Upsert(pr.memo, s, new),
         OwnedIn(pr.before, s), new = Cleaned(s, pr.memo, w),
         ~IsRoot(s) /\ OwnedIn(pr.before, Parent(s)) => Parent(s) \in DOMAIN pr.memo
  PROVE  /\ MemoFits(pr2, w)
         /\ DOMAIN pr2.memo = DOMAIN pr.memo \cup {s} /\ pr2.memo[s] = new
         /\ \A x \in DOMAIN pr.memo : pr2.memo[x] = pr.memo[x]
<1> DEFINE memo == pr.memo  kept == pr2.memo
<1>1. DOMAIN kept = DOMAIN memo \cup {s} /\ kept[s] = new
  BY DEF Upsert
<1>2. \A x \in DOMAIN memo : kept[x] = memo[x]
  BY DEF Upsert, MemoFits
<1>3. ASSUME NEW x \in DOMAIN kept
      PROVE  ~IsRoot(x) /\ OwnedIn(pr.before, Parent(x)) => Parent(x) \in DOMAIN memo
  BY <1>1 DEF MemoFits
<1>4. ASSUME NEW x \in DOMAIN kept PROVE Cleaned(x, kept, w) = Cleaned(x, memo, w)
  <2>1. ~IsRoot(x) => (Parent(x) \in DOMAIN kept <=> Parent(x) \in DOMAIN memo)
    BY <1>1, <1>3
  <2> HIDE DEF memo, kept
  <2> QED BY <1>1, <1>2, <2>1 DEF Cleaned
<1>5. ASSUME NEW x \in DOMAIN kept PROVE OwnedIn(pr.before, x) /\ kept[x] = Cleaned(x, kept, w)
  BY <1>1, <1>2, <1>4 DEF MemoFits
<1>6. MemoFits(pr2, w)
  BY <1>1, <1>3, <1>5 DEF MemoFits
<1> QED BY <1>1, <1>2, <1>6

LEMMA DoCleanFits ==
  ASSUME OneProcess, IInv, CommandsInv, NEW p \in Procs, DoClean(p)
  PROVE  CommandsInv'
<1>1. PICK w : Working(proc[p], w, revisions)
  BY DEF CommandsInv
<1> DEFINE st   == Stmt(p)
           s    == st.snap
           pr   == proc[p]
           pr2  == proc'[p]
           new  == Cleaned(s, pr.memo, w)
           a    == PutSnapshot(new)
           b    == Repoint(s.rev, {}, new)
           more == IF new = s THEN <<>> ELSE <<a, b>>
           plan == more \o Tail(pr.todo)
           kept == Upsert(pr.memo, s, new)
           R    == revisions
           T    == Stmts(pr.todo)
<1>2. Running(p) /\ st.do = "clean" /\ revisions' = revisions
  BY DEF DoClean, store
<1>3. /\ st \in T /\ IsSeq(pr.todo) /\ pr.todo # <<>> /\ st = Head(pr.todo)
      /\ pr.op = "ignore" /\ st.path = w /\ OwnedIn(pr.before, s)
  BY <1>1, <1>2, StmtFitsNow DEF StmtFits
<1>4. proc' = [proc EXCEPT ![p].memo = kept, ![p].todo = plan]
  BY <1>3 DEF DoClean, Cleaned
<1>5. /\ pr2.op = pr.op /\ pr2.id = pr.id /\ pr2.before = pr.before
      /\ pr2.first = pr.first /\ pr2.memo = kept /\ pr2.todo = plan
  <2>1. proc = [q \in Procs |-> proc[q]]
    BY DEF IInv, ProcsOK
  <2>2. pr = [op |-> pr.op, id |-> pr.id, before |-> pr.before, memo |-> pr.memo,
              first |-> pr.first, todo |-> pr.todo]
    BY DEF IInv, ProcsOK, ProcOK
  <2> HIDE DEF kept, plan
  <2> QED BY <1>4, <2>1, <2>2
<1>6. /\ DOMAIN pr.before \subseteq DOMAIN R /\ BeganWith(pr, w)
      /\ \A x \in T : StmtFits(pr, w, x)
      /\ \A d \in DOMAIN pr.before : R[d] = pr.before[d] \/ Fits(pr, w, d, R[d].hash)
      /\ \A d \in Must(pr, w) : Fits(pr, w, d, R[d].hash) \/ Waits(T, d)
      /\ ParentsFirst(pr) /\ TargetIsSeen(pr) /\ MemoFits(pr, w)
  BY <1>1, <1>3 DEF Working
<1> HIDE DEF pr, pr2, R, T
<1>7. ~IsRoot(s) /\ OwnedIn(pr.before, Parent(s)) => Parent(s) \in DOMAIN pr.memo
  <2>1. 1 \in 1..Len(pr.todo) /\ pr.todo[1] = st /\ 1..(1 - 1) = {}
    BY <1>3, SeqTail
  <2> QED BY <1>2, <1>6, <2>1 DEF ParentsFirst
<1>8. /\ MemoFits(pr2, w)
      /\ DOMAIN pr2.memo = DOMAIN pr.memo \cup {s} /\ pr2.memo[s] = new
      /\ \A x \in DOMAIN pr.memo : pr2.memo[x] = pr.memo[x]
  <2>1. new = Cleaned(s, pr.memo, w) /\ pr2.memo = Upsert(pr.memo, s, new)
    BY <1>5
  <2>2. MemoFits(pr, w) /\ pr2.before = pr.before /\ OwnedIn(pr.before, s)
    BY <1>3, <1>5, <1>6
  <2> HIDE DEF new, s, st, kept, plan, more, a, b
  <2> QED BY <1>7, <2>1, <2>2, MemoGrows
<1>9. /\ a.do = "snapshot" /\ b.do = "repoint" /\ b.id = s.rev /\ AimOf(b) = new
  BY DEF PutSnapshot, Repoint, AimOf
<1>10. s.rev \in DOMAIN pr.before /\ pr.before[s.rev].hash = s
  BY <1>3 DEF OwnedIn
<1> HIDE DEF a, b, new, s, kept
<1>11. \A d, h : Fits(pr, w, d, h) => Fits(pr2, w, d, h)
  BY <1>3, <1>5, <1>8 DEF Fits, OfOne
<1>12. Fits(pr2, w, s.rev, new)
  BY <1>3, <1>5, <1>8, <1>10 DEF Fits, OfOne
<1>13. \A x : StmtFits(pr, w, x) => StmtFits(pr2, w, x)
  BY <1>3, <1>5, <1>11 DEF StmtFits
<1>14. StmtFits(pr2, w, a) /\ StmtFits(pr2, w, b) /\ Aims(b)
  BY <1>9, <1>12 DEF StmtFits, Aims
<1>15. /\ IsSeq(more) /\ (new # s => b \in Stmts(more))
       /\ \A x \in Stmts(more) : x \in {a, b}
  <2>1. CASE new = s
    <3>1. more = <<>> /\ IsSeq(<<>>) /\ Stmts(<<>>) = {}
      BY <2>1, FewSeq, StmtsOfFew
    <3> HIDE DEF more
    <3> QED BY <2>1, <3>1
  <2>2. CASE new # s
    <3>1. more = <<a, b>> /\ IsSeq(<<a, b>>) /\ Stmts(<<a, b>>) = {a, b}
      BY <2>2, FewSeq, StmtsOfFew
    <3> HIDE DEF more
    <3> QED BY <3>1
  <2> HIDE DEF more
  <2> QED BY <2>1, <2>2
<1> HIDE DEF more
<1> DEFINE rest == Stmts(Tail(pr.todo))
           T2 == Stmts(pr2.todo)
<1>16. T = {st} \cup rest /\ T2 = Stmts(more) \cup rest
  BY <1>3, <1>5, <1>15, StmtsGoOn DEF T
<1> HIDE DEF rest, T2, plan
<1>17. \A x \in T2 : StmtFits(pr2, w, x)
  BY <1>6, <1>13, <1>14, <1>15, <1>16
<1>18. ASSUME NEW d \in Must(pr2, w) PROVE Fits(pr2, w, d, R[d].hash) \/ Waits(T2, d)
  <2>1. /\ d \in DOMAIN pr.before /\ pr.before[d].hash \in DOMAIN pr2.memo
        /\ pr.before[d].hash.rev = d
    BY <1>3, <1>5, <1>6 DEF Must, BeganWith
  <2>2. CASE pr.before[d].hash \in DOMAIN pr.memo
    <3>1. d \in Must(pr, w)
      BY <1>3, <2>1, <2>2 DEF Must
    <3>2. ASSUME Waits(T, d) PROVE Waits(T2, d)
      <4>1. Waits(rest, d)
        BY <1>2, <1>16, <3>2 DEF Waits, Aims
      <4> QED BY <1>16, <4>1 DEF Waits
    <3> QED BY <1>6, <1>11, <3>1, <3>2
  <2>3. CASE pr.before[d].hash = s
    <3>1. d = s.rev
      BY <2>1, <2>3
    <3>2. CASE new = s
      <4>1. CASE R[d] = pr.before[d]
        BY <1>12, <2>3, <3>1, <3>2, <4>1
      <4> QED BY <1>6, <1>11, <2>1, <4>1
    <3>3. CASE new # s
      <4>1. b \in T2
        BY <1>15, <1>16, <3>3
      <4> QED BY <1>9, <1>14, <3>1, <4>1 DEF Waits
    <3> QED BY <3>2, <3>3
  <2> QED BY <1>8, <2>1, <2>2, <2>3
<1>19. ReadsFirst(pr2, w, R)
  BY <1>3, <1>5, <1>17 DEF ReadsFirst, StmtFits, T2
<1>20. ParentsFirst(pr2) /\ TargetIsSeen(pr2)
  <2>1. \A k \in 1..Len(more) : more[k].do # "clean"
    BY <1>9, <1>15 DEF Stmts
  <2>2. \A x : IsRewriteOf(Head(pr.todo), x) => x \in DOMAIN pr2.memo
    BY <1>3, <1>8 DEF IsRewriteOf, s
  <2>3. DOMAIN pr.memo \subseteq DOMAIN pr2.memo /\ pr2.todo = more \o Tail(pr.todo)
    BY <1>5, <1>8 DEF plan
  <2>4. ParentsFirst(pr2)
    BY <1>3, <1>5, <1>6, <1>15, <2>1, <2>2, <2>3, OrderGoesOn
  <2>5. TargetIsSeen(pr2)
    BY <1>3, <1>5, <1>6, <1>15, <2>2, <2>3, TargetStaysSeen
  <2> QED BY <2>4, <2>5
<1>21. BeganWith(pr2, w)
  BY <1>5, <1>6 DEF BeganWith
<1>22. \A d \in DOMAIN pr2.before : R[d] = pr2.before[d] \/ Fits(pr2, w, d, R[d].hash)
  BY <1>5, <1>6, <1>11
<1>23. Working(pr2, w, R)
  BY <1>5, <1>6, <1>8, <1>17, <1>18, <1>19, <1>20, <1>21, <1>22 DEF Working, T2
<1> QED BY <1>2, <1>23, OnlyProcess DEF pr2, R

-----------------------------------------------------------------------------
(* The levels of the walk over what stands on h. *)
Over(hs) == {Current(d) : d \in Children(hs)}

AreLevels(f, h) == f = [n \in Nat |-> IF n = 0 THEN {h} ELSE Over(f[n - 1])]

LEMMA LevelsAre ==
  ASSUME NEW h
  PROVE  AreLevels(Levels(h), h)
<1> DEFINE U == {h} \cup {Current(d) : d \in Known}
           g == [x \in SUBSET U |-> Over(x)]
<1>1. g \in [SUBSET U -> SUBSET U]
  BY DEF Over, Children
<1>2. \A x \in SUBSET U : g[x] = Over(x)
  OBVIOUS
<1>3. {h} \in SUBSET U
  OBVIOUS
<1> HIDE DEF g, U
<1>4. \E f : AreLevels(f, h)
  <2>1. PICK f \in [Nat -> SUBSET U] : Iterates(f, {h}, g)
    BY <1>1, <1>3, IterationExists
  <2>2. f = [n \in Nat |-> IF n = 0 THEN {h} ELSE g[f[n - 1]]]
    BY <2>1 DEF Iterates
  <2>3. \A n \in Nat : n # 0 => g[f[n - 1]] = Over(f[n - 1])
    BY <1>2
  <2>4. AreLevels(f, h)
    BY <2>2, <2>3 DEF AreLevels
  <2> QED BY <2>4
<1>5. Levels(h) = CHOOSE f : AreLevels(f, h)
  BY DEF Levels, AreLevels, Over
<1> QED BY <1>4, <1>5

LEMMA LevelsStep ==
  ASSUME NEW h
  PROVE  /\ Levels(h)[0] = {h}
         /\ \A n \in Nat : Levels(h)[n + 1] = Over(Levels(h)[n])
<1>1. Levels(h) = [n \in Nat |-> IF n = 0 THEN {h} ELSE Over(Levels(h)[n - 1])]
  BY LevelsAre DEF AreLevels
<1> DEFINE f == Levels(h)
<1> HIDE DEF f
<1>2. f[0] = {h} /\ \A n \in Nat : n # 0 => f[n] = Over(f[n - 1])
  BY <1>1 DEF f
<1>3. \A n \in Nat : n + 1 \in Nat /\ n + 1 # 0 /\ (n + 1) - 1 = n
  OBVIOUS
<1> QED BY <1>2, <1>3 DEF f

(* What stands on a snapshot is among its descendants. *)
LEMMA ChildrenDescend ==
  ASSUME NEW h
  PROVE  Children({h}) \subseteq Descendants(h)
<1>1. h \in Levels(h)[0]
  BY LevelsStep
<1>2. 0 \in 0..MaxRevs
  BY BoundsAssumption
<1> QED BY <1>1, <1>2 DEF Descendants

-----------------------------------------------------------------------------
(* What a process is after it has started a command. *)
LEMMA StartIs ==
  ASSUME IInv, NEW p \in Procs, NEW op, NEW id, NEW todo, Start(p, op, id, todo)
  PROVE  /\ proc'[p].op = op /\ proc'[p].id = id /\ proc'[p].before = revisions
         /\ proc'[p].todo = todo /\ DOMAIN proc'[p].memo = {}
         /\ proc'[p].first = Head(todo) /\ revisions' = revisions
<1> DEFINE pr == [op |-> op, id |-> id, before |-> revisions, memo |-> <<>>,
                 first |-> Head(todo), todo |-> todo]
<1>1. proc'[p] = pr
  <2>1. proc = [q \in Procs |-> proc[q]]
    BY DEF IInv, ProcsOK
  <2> QED BY <2>1 DEF Start
<1>2. DOMAIN <<>> = {}
  OBVIOUS
<1> QED BY <1>1, <1>2 DEF Start, store

(* A command is started: nothing is written yet. *)
LEMMA StartFits ==
  ASSUME OneProcess, IInv, NEW p \in Procs, NEW op, NEW id, NEW todo,
         Start(p, op, id, todo), NEW w, BeganWith(proc'[p], w),
         \A st \in Stmts(todo) : StmtFits(proc'[p], w, st),
         \A d \in Must(proc'[p], w) : Waits(Stmts(todo), d),
         ReadsFirst(proc'[p], w, revisions),
         \A st \in Stmts(todo) : st.do # "clean",
         op = "ignore" => TargetIsSeen(proc'[p])
  PROVE  CommandsInv'
<1> DEFINE pr == proc'[p]
<1>1. /\ pr.before = revisions /\ pr.todo = todo /\ DOMAIN pr.memo = {}
      /\ pr.op = op /\ revisions' = revisions
  BY StartIs
<1>2. ParentsFirst(pr) /\ MemoFits(pr, w)
  BY <1>1 DEF ParentsFirst, MemoFits, Stmts
<1> HIDE DEF pr
<1>3. Working(pr, w, revisions')
  BY <1>1, <1>2 DEF Working, pr
<1> QED BY <1>3, OnlyProcess DEF pr

(* Commands of which nothing more is asked than what they write. *)
LEMMA PlainStartFits ==
  ASSUME OneProcess, IInv, NEW p \in Procs, NEW op, NEW id, NEW todo,
         Start(p, op, id, todo),
         op \notin {"rebase", "squash", "resolve", "drop", "ignore"},
         op \in {"amend", "message"} => id \in Known,
         \A st \in Stmts(todo) : /\ Plain(st) /\ StmtFits(proc'[p], None, st)
  PROVE  CommandsInv'
<1> DEFINE pr == proc'[p]
<1>1. /\ pr.op = op /\ pr.id = id /\ pr.before = revisions /\ pr.todo = todo
  BY StartIs
<1>2. \A d \in DOMAIN revisions : revisions[d].hash.rev = d
  BY CurrentFacts DEF Known, Current
<1>3. BeganWith(pr, None)
  BY <1>1, <1>2 DEF BeganWith, Known
<1>4. Must(pr, None) = {}
  BY <1>1 DEF Must
<1>5. ReadsFirst(pr, None, revisions)
  BY <1>1 DEF ReadsFirst, Plain
<1>6. \A st \in Stmts(todo) : st.do # "clean"
  BY DEF Plain
<1> QED BY <1>3, <1>4, <1>5, <1>6, StartFits

(* A new snapshot and its row, for the one revision a command works on. *)
LEMMA PutFits ==
  ASSUME NEW pr, NEW w, pr.op \in {"commit", "revert", "branch", "message"}, NEW s, NEW fork,
         pr.op = "message" => s.parents = pr.before[pr.id].hash.parents
  PROVE  /\ Plain(PutSnapshot(s)) /\ StmtFits(pr, w, PutSnapshot(s))
         /\ Plain(PutRevision(pr.id, Row(s, fork)))
         /\ StmtFits(pr, w, PutRevision(pr.id, Row(s, fork)))
<1> DEFINE a == PutSnapshot(s)
           b == PutRevision(pr.id, Row(s, fork))
<1>1. a.do = "snapshot" /\ b.do = "revision" /\ b.id = pr.id /\ AimOf(b) = s
  BY DEF PutSnapshot, PutRevision, PutOver, Row, AimOf
<1>2. Fits(pr, w, pr.id, s)
  BY DEF Fits, OfOne
<1> HIDE DEF a, b
<1>3. Plain(a) /\ StmtFits(pr, w, a) /\ Plain(b) /\ StmtFits(pr, w, b)
  BY <1>1, <1>2 DEF Plain, StmtFits, Aims
<1> QED BY <1>3 DEF a, b

LEMMA CommitNewFits ==
  ASSUME OneProcess, IInv, NEW p \in Procs, NEW parents, CommitNew(p, parents)
  PROVE  CommandsInv'
<1>1. PICK tree :
        LET s == Snapshot(nextId, parents, tree, "commit")
        IN  Fresh /\ Start(p, "commit", nextId, <<Commit(nextId, Row(s, None))>>)
  BY DEF CommitNew
<1> DEFINE s == Snapshot(nextId, parents, tree, "commit")
           st == Commit(nextId, Row(s, None))
           pr == proc'[p]
<1>2. Start(p, "commit", nextId, <<st>>)
  BY <1>1
<1>3. st.do = "commit" /\ st.id = nextId
  BY DEF Commit
<1> HIDE DEF st
<1>4. pr.op = "commit" /\ pr.id = nextId
  BY <1>2, StartIs
<1> HIDE DEF pr
<1>5. Fits(pr, None, st.id, AimOf(st))
  BY <1>3, <1>4 DEF Fits, OfOne
<1>6. Plain(st) /\ StmtFits(pr, None, st)
  BY <1>3, <1>5 DEF Plain, StmtFits
<1>7. Stmts(<<st>>) = {st}
  BY StmtsOfFew
<1> QED BY <1>2, <1>6, <1>7, PlainStartFits DEF pr

LEMMA AmendFits ==
  ASSUME OneProcess, IInv, NEW p \in Procs, NEW id \in Known, CommitCurrent(p, id) \/ Amend(p, id)
  PROVE  CommandsInv'
<1>1. PICK tree, desc, again : Start(p, "amend", id, <<AmendWith(id, tree, desc, again)>>)
  BY DEF CommitCurrent, Amend
<1> DEFINE st == AmendWith(id, tree, desc, again)
           pr == proc'[p]
<1>2. st.do = "amend" /\ st.id = id
  BY DEF AmendWith
<1> HIDE DEF st
<1>3. Start(p, "amend", id, <<st>>)
  BY <1>1 DEF st
<1>4. pr.op = "amend" /\ pr.id = id
  BY <1>3, StartIs
<1> HIDE DEF pr
<1>5. Plain(st) /\ StmtFits(pr, None, st)
  BY <1>2, <1>4 DEF Plain, StmtFits, Aims
<1>6. Stmts(<<st>>) = {st}
  BY StmtsOfFew
<1> QED BY <1>3, <1>5, <1>6, PlainStartFits DEF pr

LEMMA RevertFits ==
  ASSUME OneProcess, IInv, NEW p \in Procs, NEW id, NEW onto, Revert(p, id, onto)
  PROVE  CommandsInv'
<1> DEFINE s == Snapshot(nextId, <<onto>>,
                         MergeTrees(Current(id).tree, BaseTree(Current(id)), onto.tree), "revert")
           pr == proc'[p]
           a == PutSnapshot(s)
           b == PutRevision(nextId, Row(s, None))
<1>1. Start(p, "revert", nextId, <<a, b>>)
  BY DEF Revert
<1> HIDE DEF s
<1>2. pr.op = "revert" /\ pr.id = nextId
  BY <1>1, StartIs
<1> HIDE DEF pr
<1>3. Plain(a) /\ StmtFits(pr, None, a) /\ Plain(b) /\ StmtFits(pr, None, b)
  <2>1. b = PutRevision(pr.id, Row(s, None))
    BY <1>2
  <2> QED BY <1>2, <2>1, PutFits
<1> HIDE DEF a, b
<1>4. Stmts(<<a, b>>) = {a, b}
  BY StmtsOfFew
<1> QED BY <1>1, <1>3, <1>4, PlainStartFits DEF pr

LEMMA SetDescriptionFits ==
  ASSUME OneProcess, IInv, NEW p \in Procs, NEW id \in Known, NEW desc, SetDescription(p, id, desc)
  PROVE  CommandsInv'
<1> DEFINE cur == Current(id)
           s == Snapshot(cur.rev, cur.parents, cur.tree, desc)
           fork == revisions[id].forkFrom
           pr == proc'[p]
           a == PutSnapshot(s)
           b == PutRevision(id, Row(s, fork))
<1>1. Start(p, "message", id, <<a, b>>)
  BY DEF SetDescription
<1>2. pr.op = "message" /\ pr.id = id /\ pr.before = revisions
  BY <1>1, StartIs
<1>3. s.parents = pr.before[pr.id].hash.parents
  BY <1>2 DEF Snapshot, Current
<1> HIDE DEF s, fork, pr
<1>4. Plain(a) /\ StmtFits(pr, None, a) /\ Plain(b) /\ StmtFits(pr, None, b)
  <2>1. b = PutRevision(pr.id, Row(s, fork))
    BY <1>2
  <2> QED BY <1>2, <1>3, <2>1, PutFits
<1> HIDE DEF a, b
<1>5. Stmts(<<a, b>>) = {a, b}
  BY StmtsOfFew
<1> QED BY <1>1, <1>4, <1>5, PlainStartFits DEF pr

LEMMA BranchFits ==
  ASSUME OneProcess, IInv, NEW p \in Procs, NEW id, NEW name, Branch(p, name, id)
  PROVE  CommandsInv'
<1> DEFINE pr == proc'[p]
<1>1. ASSUME NEW st, st.do = "ref" PROVE Plain(st) /\ StmtFits(pr, None, st)
  <2> HIDE DEF pr
  <2> QED BY <1>1 DEF Plain, StmtFits, Aims
<1>2. CASE name \in DOMAIN refs /\ refs[name].kind = "branch"
  <2> DEFINE st == PutRef(name, "branch", refs[name].target)
  <2>1. Start(p, "branch", id, <<st>>)
    BY <1>2 DEF Branch
  <2>2. st.do = "ref"
    BY DEF PutRef
  <2> HIDE DEF st, pr
  <2>3. Stmts(<<st>>) = {st} /\ Plain(st) /\ StmtFits(pr, None, st)
    BY <1>1, <2>2, StmtsOfFew
  <2> QED BY <2>1, <2>3, PlainStartFits DEF pr
<1>3. CASE ~(name \in DOMAIN refs /\ refs[name].kind = "branch")
  <2> DEFINE cur == Current(id)
             s == Snapshot(nextId, cur.parents, cur.tree, cur.desc)
             a == PutSnapshot(s)
             b == PutRevision(nextId, Row(s, id))
             c == PutRef(name, "branch", nextId)
  <2>1. Start(p, "branch", nextId, <<a, b, c>>)
    BY <1>3 DEF Branch
  <2> HIDE DEF s
  <2>2. pr.op = "branch" /\ pr.id = nextId
    BY <2>1, StartIs
  <2> HIDE DEF pr
  <2>3. Plain(a) /\ StmtFits(pr, None, a) /\ Plain(b) /\ StmtFits(pr, None, b)
    <3>1. b = PutRevision(pr.id, Row(s, id))
      BY <2>2
    <3> QED BY <2>2, <3>1, PutFits
  <2>4. Plain(c) /\ StmtFits(pr, None, c)
    <3>1. c.do = "ref"
      BY DEF PutRef
    <3> HIDE DEF c
    <3> QED BY <1>1, <3>1
  <2> HIDE DEF a, b, c
  <2>5. Stmts(<<a, b, c>>) = {a, b, c}
    BY Few3
  <2> QED BY <2>1, <2>3, <2>4, <2>5, PlainStartFits DEF pr
<1> QED BY <1>2, <1>3

LEMMA TagFits ==
  ASSUME OneProcess, IInv, NEW p \in Procs, NEW id, NEW name, Tag(p, name, id)
  PROVE  CommandsInv'
<1> DEFINE st == TagOrFail(name, id)
           pr == proc'[p]
<1>1. Start(p, "tag", id, <<st>>)
  BY DEF Tag
<1>2. st.do = "tag"
  BY DEF TagOrFail
<1> HIDE DEF st, pr
<1>3. Plain(st) /\ StmtFits(pr, None, st)
  BY <1>2 DEF Plain, StmtFits, Aims
<1>4. Stmts(<<st>>) = {st}
  BY StmtsOfFew
<1> QED BY <1>1, <1>3, <1>4, PlainStartFits DEF pr

(* Every row there is when a command begins points at a snapshot of its own. *)
LEMMA OwnRows ==
  ASSUME IInv
  PROVE  /\ \A d \in DOMAIN revisions : revisions[d].hash.rev = d
         /\ \A d \in DOMAIN revisions : OwnedIn(revisions, revisions[d].hash)
BY CurrentFacts DEF Known, Current, OwnedIn

LEMMA RebaseFits ==
  ASSUME OneProcess, IInv, NEW p \in Procs, NEW id \in Known, NEW onto, Rebase(p, id, onto)
  PROVE  CommandsInv'
<1> DEFINE st == RebaseRest(<<id>>, onto)
           pr == proc'[p]
<1>1. Start(p, "rebase", id, <<st>>)
  BY DEF Rebase
<1>2. pr.op = "rebase" /\ pr.id = id /\ pr.before = revisions /\ pr.todo = <<st>>
  BY <1>1, StartIs
<1>3. st.do = "rebase" /\ st.ids = <<id>> /\ st = RebaseRest(<<pr.id>>, onto)
  BY <1>2 DEF RebaseRest
<1> HIDE DEF st, pr
<1>4. BeganWith(pr, onto)
  BY <1>2, OwnRows DEF BeganWith, Known
<1>5. StmtFits(pr, onto, st) /\ Stmts(<<st>>) = {st}
  BY <1>2, <1>3, StmtsOfFew DEF StmtFits, Aims
<1>6. ASSUME NEW d \in Must(pr, onto) PROVE Waits(Stmts(<<st>>), d)
  <2>1. d = id
    BY <1>2, <1>6 DEF Must
  <2>2. 1 \in 1..Len(st.ids) /\ st.ids[1] = d
    BY <1>3, <2>1
  <2> QED BY <1>3, <1>5, <2>2 DEF Waits
<1>7. ReadsFirst(pr, onto, revisions)
  BY <1>2, <1>3, <1>5 DEF ReadsFirst
<1> QED BY <1>1, <1>3, <1>4, <1>5, <1>6, <1>7, StartFits DEF pr

LEMMA SquashFits ==
  ASSUME OneProcess, IInv, NEW p \in Procs, NEW id \in Known, Squash(p, id)
  PROVE  CommandsInv'
<1> DEFINE st == SquashInto(Current(id))
           pr == proc'[p]
<1>1. Start(p, "squash", Parent(Current(id)).rev, <<st>>) /\ ~IsRoot(Current(id))
  BY DEF Squash
<1>2. /\ pr.op = "squash" /\ pr.id = Parent(Current(id)).rev /\ pr.before = revisions
      /\ pr.todo = <<st>>
  BY <1>1, StartIs
<1>3. st.do = "squash" /\ st = SquashInto(pr.before[id].hash)
  BY <1>2 DEF SquashInto, Current
<1> HIDE DEF st, pr
<1>4. BeganWith(pr, id)
  BY <1>1, <1>2, OwnRows DEF BeganWith, Known, Current
<1>5. StmtFits(pr, id, st) /\ Stmts(<<st>>) = {st}
  BY <1>2, <1>3, StmtsOfFew DEF StmtFits, Aims
<1>6. Must(pr, id) = {}
  BY <1>2 DEF Must
<1>7. ReadsFirst(pr, id, revisions)
  BY <1>2, <1>3, <1>5 DEF ReadsFirst
<1> QED BY <1>1, <1>3, <1>4, <1>5, <1>6, <1>7, StartFits DEF pr

LEMMA RewriteIgnoredFits ==
  ASSUME OneProcess, IInv, NEW p \in Procs, NEW id \in Known, NEW path \in Paths,
         RewriteIgnored(p, id, path)
  PROVE  CommandsInv'
<1> DEFINE st == Visit(Current(id), path)
           pr == proc'[p]
<1>1. Start(p, "ignore", id, <<st>>)
  BY DEF RewriteIgnored
<1>2. /\ pr.op = "ignore" /\ pr.id = id /\ pr.before = revisions /\ pr.todo = <<st>>
      /\ DOMAIN pr.memo = {} /\ pr.first = st
  <2>1. Head(<<st>>) = st
    OBVIOUS
  <2> HIDE DEF st
  <2> QED BY <1>1, <2>1, StartIs
<1>3. /\ st.do = "visit" /\ st.path = path /\ OwnedIn(pr.before, st.snap)
      /\ st.snap = pr.before[pr.id].hash
  BY <1>2, OwnRows DEF Visit, Current, Known
<1> HIDE DEF st, pr
<1>4. BeganWith(pr, path)
  BY <1>2, <1>3, OwnRows DEF BeganWith, Known
<1>5. StmtFits(pr, path, st) /\ Stmts(<<st>>) = {st}
  BY <1>2, <1>3, StmtsOfFew DEF StmtFits, Aims
<1>6. Must(pr, path) = {}
  BY <1>2 DEF Must
<1>7. ReadsFirst(pr, path, revisions)
  BY <1>2, <1>3, <1>5 DEF ReadsFirst
<1>8. TargetIsSeen(pr)
  BY <1>2, <1>3, <1>5 DEF TargetIsSeen, IsRewriteOf
<1> QED BY <1>1, <1>3, <1>4, <1>5, <1>6, <1>7, <1>8, StartFits DEF pr

LEMMA ResolveFits ==
  ASSUME OneProcess, IInv, NEW p \in Procs, NEW id \in Known, NEW path \in Paths,
         Resolve(p, id, path)
  PROVE  CommandsInv'
<1> DEFINE cur  == Current(id)
           e    == FindEntry(cur.tree, path)
           same == {d \in Descendants(cur) \ {id} : FindEntry(Current(d).tree, path) = e}
           pr   == proc'[p]
<1>1. PICK side \in Sides(e), order \in AncestorFirst(cur, same) :
        LET new  == Resolution(cur, path, Chosen(e, side))
            list == [i \in DOMAIN order |-> Current(order[i])]
        IN  Start(p, "resolve", id,
                  <<PutSnapshot(new), Repoint(id, {cur}, new),
                    RepairRest(list, path, Chosen(e, side))>>)
  BY DEF Resolve
<1> DEFINE entry == Chosen(e, side)
           new   == Resolution(cur, path, entry)
           list  == [i \in DOMAIN order |-> Current(order[i])]
           a == PutSnapshot(new)
           b == Repoint(id, {cur}, new)
           c == RepairRest(list, path, entry)
           w == [path |-> path, entry |-> entry, ids |-> {id} \cup same]
<1>2. Start(p, "resolve", id, <<a, b, c>>) /\ IsConflict(e)
  BY <1>1 DEF Resolve
<1>3. /\ pr.op = "resolve" /\ pr.id = id /\ pr.before = revisions /\ pr.todo = <<a, b, c>>
  <2> HIDE DEF a, b, c, pr
  <2> QED BY <1>2, StartIs DEF pr
<1>4. w.path = path /\ w.entry = entry /\ w.ids = {id} \cup same
  OBVIOUS
<1>5. same \subseteq Known /\ \A d \in same : FindEntry(Current(d).tree, path) = e
  BY DescendantsKnown
<1>6. \A d \in UnderIn(revisions, cur) : FindEntry(Current(d).tree, path) = e => d \in {id} \cup same
  <2>1. UnderIn(revisions, cur) \subseteq Descendants(cur)
    BY ChildrenDescend DEF UnderIn, Children, Known, Current
  <2> QED BY <2>1
<1>7. ~IsTree(entry) /\ ~IsConflict(entry)
  BY DEF Chosen, Blob, IsTree, IsConflict
<1>8. order \in Seq(same) /\ DOMAIN order = 1..Len(order) /\ \A d \in same : \E j \in DOMAIN order : order[j] = d
  <2>1. \A d \in same : \E j \in DOMAIN order : order[j] = d
    BY <1>1 DEF AncestorFirst
  <2> HIDE DEF same, cur
  <2> QED BY <1>1, <1>5, <2>1, OrderIsSeq
<1>9. /\ Len(list) = Len(order) /\ Len(order) \in Nat
      /\ \A j \in 1..Len(order) : order[j] \in same /\ list[j] = Current(order[j])
  <2>1. Len(order) \in Nat /\ \A j \in 1..Len(order) : order[j] \in same
    BY <1>8
  <2>2. DOMAIN list = 1..Len(order) /\ \A j \in 1..Len(order) : list[j] = Current(order[j])
    BY <1>8
  <2>3. list \in [1..Len(order) -> {Current(order[j]) : j \in 1..Len(order)}]
    BY <1>8
  <2> HIDE DEF list, same
  <2>4. list \in Seq({Current(order[j]) : j \in 1..Len(order)})
    BY <2>1, <2>3, SeqDef
  <2>5. Len(list) = Len(order)
    BY <2>1, <2>2, <2>4, LenProperties
  <2> QED BY <2>1, <2>2, <2>5
<1> HIDE DEF w, list, pr
<1>10. Fits(pr, w, id, new)
  <2>1. new = Resolution(pr.before[id].hash, w.path, w.entry)
    BY <1>3, <1>4 DEF Current
  <2> HIDE DEF new
  <2> QED BY <1>3, <1>4, <2>1 DEF Fits, OfOne
<1>11. /\ a.do = "snapshot" /\ b.do = "repoint" /\ b.id = id /\ AimOf(b) = new
       /\ c.do = "repair" /\ c.list = list /\ c.path = path /\ c.entry = entry
  BY DEF PutSnapshot, Repoint, AimOf, RepairRest
<1> HIDE DEF a, b, c, new, entry
<1>12. \A j \in 1..Len(list) : list[j].rev \in w.ids /\ OwnedIn(pr.before, list[j])
  <2> SUFFICES ASSUME NEW j \in 1..Len(list)
               PROVE  list[j].rev \in w.ids /\ OwnedIn(pr.before, list[j])
    OBVIOUS
  <2>1. order[j] \in same /\ list[j] = Current(order[j]) /\ order[j] \in Known
    BY <1>5, <1>9
  <2>2. list[j].rev = order[j] /\ OwnedIn(revisions, list[j])
    BY <2>1, OwnRows, CurrentFacts DEF Known, Current
  <2> QED BY <1>3, <1>4, <2>1, <2>2
<1>13. StmtFits(pr, w, a) /\ StmtFits(pr, w, b) /\ StmtFits(pr, w, c)
  BY <1>3, <1>4, <1>10, <1>11, <1>12 DEF StmtFits, Aims
<1>14. Stmts(<<a, b, c>>) = {a, b, c}
  BY Few3
<1>15. ASSUME NEW d \in Must(pr, w) PROVE Waits(Stmts(<<a, b, c>>), d)
  <2>1. d \in {id} \cup same
    BY <1>3, <1>4, <1>15 DEF Must
  <2>2. CASE d = id
    BY <1>11, <1>14, <2>2 DEF Waits, Aims
  <2>3. CASE d \in same
    <3>1. PICK j \in 1..Len(order) : order[j] = d
      BY <1>8, <2>3
    <3>2. c.list[j].rev = d /\ j \in 1..Len(c.list)
      BY <1>5, <1>9, <1>11, <3>1, CurrentFacts, <2>3
    <3> QED BY <1>11, <1>14, <3>2 DEF Waits
  <2> QED BY <2>1, <2>2, <2>3
<1>16. CarriersIn(revisions, id, w)
  <2>1. \A d \in DOMAIN revisions : revisions[d].hash = Current(d)
    BY DEF Current
  <2> HIDE DEF same
  <2>2. id \in DOMAIN revisions /\ w.ids \subseteq DOMAIN revisions
    BY <1>4, <1>5 DEF Known
  <2>3. \A d \in w.ids : FindEntry(Current(d).tree, path) = e
    BY <1>4, <1>5
  <2> QED BY <1>2, <1>4, <1>6, <1>7, <2>1, <2>2, <2>3 DEF CarriersIn
<1>17. BeganWith(pr, w)
  BY <1>3, <1>16, OwnRows DEF BeganWith, Known
<1>18. ReadsFirst(pr, w, revisions)
  BY <1>3, <1>11, <1>13, <1>14 DEF ReadsFirst, StmtFits
<1>19. \A st \in Stmts(<<a, b, c>>) : StmtFits(pr, w, st) /\ st.do # "clean"
  BY <1>11, <1>13, <1>14
<1> QED BY <1>2, <1>15, <1>17, <1>18, <1>19, StartFits DEF pr

-----------------------------------------------------------------------------
(***************************************************************************)
(* No snapshot is its own ancestor: a snapshot is stored after the parent  *)
(* it names, so the stored ones can be ranked with parents first.          *)
(***************************************************************************)
Ranks(r, S) == r \in [S -> Nat] /\ \A s \in S : ~IsRoot(s) => r[Parent(s)] < r[s]

Ranked == \E r : Ranks(r, snapshots)

(* Storing one more snapshot, of a stored parent. *)
LEMMA RankGrows ==
  ASSUME IInv, Ranked, NEW x, HistoryIn(x, snapshots), snapshots' = snapshots \cup {x}
  PROVE  Ranked'
<1>1. PICK r : Ranks(r, snapshots)
  BY DEF Ranked
<1>2. CASE x \in snapshots
  <2>1. snapshots' = snapshots
    BY <1>2
  <2> QED BY <2>1 DEF Ranked
<1>3. CASE x \notin snapshots
  <2> DEFINE top == IF IsRoot(x) THEN 0 ELSE r[Parent(x)] + 1
             q == [s \in snapshots' |-> IF s = x THEN top ELSE r[s]]
  <2>1. top \in Nat
    BY <1>1 DEF Ranks, HistoryIn
  <2>2. q \in [snapshots' -> Nat]
    BY <1>1, <2>1 DEF Ranks
  <2>3. ASSUME NEW s \in snapshots', ~IsRoot(s) PROVE q[Parent(s)] < q[s]
    <3>1. Parent(s) \in snapshots /\ Parent(s) # x
      BY <1>3, <2>3 DEF IInv, HistoryIsStored, HistoryIn
    <3>2. q[Parent(s)] = r[Parent(s)] /\ r[Parent(s)] \in Nat
      BY <1>1, <3>1 DEF Ranks
    <3>3. CASE s = x
      <4>1. q[s] = r[Parent(s)] + 1
        BY <2>3, <3>3
      <4> HIDE DEF q
      <4> QED BY <3>2, <4>1
    <3>4. CASE s # x
      <4>1. s \in snapshots /\ q[s] = r[s]
        BY <3>4
      <4> HIDE DEF q
      <4> QED BY <1>1, <2>3, <3>2, <4>1 DEF Ranks
    <3> QED BY <3>3, <3>4
  <2> HIDE DEF q
  <2> QED BY <2>2, <2>3 DEF Ranked, Ranks
<1> QED BY <1>2, <1>3

LEMMA NextRanked == IInv /\ Ranked /\ [Next]_vars => Ranked'
<1> SUFFICES ASSUME IInv, Ranked, [Next]_vars PROVE Ranked'
  OBVIOUS
<1>1. ASSUME snapshots' = snapshots PROVE Ranked'
  BY <1>1 DEF Ranked
<1>2. ASSUME NEW p \in Procs, DoPutSnapshot(p) PROVE Ranked'
  <2>1. HistoryIn(Stmt(p).snap, snapshots) /\ snapshots' = snapshots \cup {Stmt(p).snap}
    BY <1>2, StmtIsSound DEF DoPutSnapshot, Sound
  <2> QED BY <2>1, RankGrows
<1>3. ASSUME NEW p \in Procs, DoCommit(p) PROVE Ranked'
  <2>1. HistoryIn(Stmt(p).row.hash, snapshots) /\ snapshots' = snapshots \cup {Stmt(p).row.hash}
    BY <1>3, StmtIsSound DEF DoCommit, Sound
  <2> QED BY <2>1, RankGrows
<1>4. ASSUME NEW p \in Procs, Execute(p) PROVE Ranked'
  <2>1. CASE DoPutRevision(p) \/ DoPutRef(p)
    BY <1>1, <2>1 DEF DoPutRevision, DoPutRef
  <2>2. CASE \/ DoRepoint(p) \/ DoRebase(p) \/ DoAmend(p) \/ DoSquash(p) \/ DoRepair(p)
             \/ DoVisit(p) \/ DoClean(p) \/ DoTag(p)
    BY <1>1, <2>2 DEF DoRepoint, DoRebase, DoAmend, DoSquash, DoRepair, DoVisit, DoClean, DoTag,
                      store
  <2> QED BY <1>2, <1>3, <1>4, <2>1, <2>2 DEF Execute
<1>5. ASSUME NEW p \in Procs, Begin(p) PROVE Ranked'
  BY <1>1, <1>5, BeginWritesNothing
<1>6. ASSUME NEW p \in Procs, Crash(p) PROVE Ranked'
  BY <1>1, <1>6 DEF Crash, store
<1>7. CASE UNCHANGED vars
  BY <1>1, <1>7 DEF vars
<1> QED BY <1>4, <1>5, <1>6, <1>7 DEF Next

LEMMA InitRanked == Init => Ranked
<1> SUFFICES ASSUME Init PROVE Ranked
  OBVIOUS
<1> DEFINE r == [s \in snapshots |-> 0]
<1>1. Ranks(r, snapshots)
  BY DEF Init, Ranks
<1> QED BY <1>1 DEF Ranked

-----------------------------------------------------------------------------
(* The walk over what stands on the snapshot h of a revision, in a chain. *)
LEMMA LevelsAreCurrent ==
  ASSUME NEW id \in Known
  PROVE  \A n \in Nat : \A x \in Levels(Current(id))[n] : \E d \in Known : x = Current(d)
<1> DEFINE h == Current(id)
           S == {n \in Nat : \A x \in Levels(h)[n] : \E d \in Known : x = Current(d)}
<1>1. 0 \in S
  BY LevelsStep
<1>2. ASSUME NEW n \in Nat, n \in S PROVE n + 1 \in S
  <2>1. Levels(h)[n + 1] = Over(Levels(h)[n])
    BY LevelsStep
  <2> QED BY <2>1 DEF Over, Children
<1>3. Nat \subseteq S
  <2> HIDE DEF S
  <2> QED BY <1>1, <1>2, NatSetInduction
<1> QED BY <1>3

AtMostOne(x) == \A a, b \in x : a = b

LEMMA LevelsAreSingle ==
  ASSUME NEW id \in Known, LinearIn(revisions)
  PROVE  \A n \in Nat : /\ AtMostOne(Levels(Current(id))[n])
                        /\ AtMostOne(Children(Levels(Current(id))[n]))
<1> DEFINE h == Current(id)
           L == Levels(h)
           S == {n \in Nat : AtMostOne(L[n])}
<1>1. \A n \in Nat : \A x \in L[n] : \E d \in Known : x = Current(d)
  BY LevelsAreCurrent
<1>2. L[0] = {h} /\ \A n \in Nat : L[n + 1] = Over(L[n])
  BY LevelsStep
<1> HIDE DEF L
<1>3. ASSUME NEW n \in Nat, AtMostOne(L[n]) PROVE AtMostOne(Children(L[n]))
  <2> SUFFICES ASSUME NEW a \in Children(L[n]), NEW b \in Children(L[n]) PROVE a = b
    BY DEF AtMostOne
  <2>1. /\ a \in Known /\ ~IsRoot(Current(a)) /\ Parent(Current(a)) \in L[n]
        /\ b \in Known /\ ~IsRoot(Current(b)) /\ Parent(Current(b)) = Parent(Current(a))
    BY <1>3 DEF Children, AtMostOne
  <2>2. PICK d \in Known : Parent(Current(a)) = Current(d)
    BY <1>1, <2>1
  <2>3. a \in UnderIn(revisions, revisions[d].hash) /\ b \in UnderIn(revisions, revisions[d].hash)
    BY <2>1, <2>2 DEF UnderIn, Known, Current
  <2>4. UnderIn(revisions, revisions[d].hash) = {a}
    BY <2>1, <2>2, <2>3 DEF LinearIn, Known
  <2> QED BY <2>3, <2>4
<1>4. 0 \in S
  BY <1>2 DEF AtMostOne
<1>5. ASSUME NEW n \in Nat, n \in S PROVE n + 1 \in S
  <2>1. AtMostOne(Children(L[n])) /\ L[n + 1] = Over(L[n])
    BY <1>2, <1>3, <1>5
  <2> QED BY <2>1 DEF Over, AtMostOne
<1>6. Nat \subseteq S
  <2> HIDE DEF S
  <2> QED BY <1>4, <1>5, NatSetInduction
<1> QED BY <1>3, <1>6 DEF L

(* In a chain a level is below all the earlier ones. *)
LEMMA LevelsGoUp ==
  ASSUME IInv, NEW id \in Known, LinearIn(revisions), NEW r, Ranks(r, snapshots)
  PROVE  \A n, m \in Nat : n < m =>
           \A x \in Levels(Current(id))[n], y \in Levels(Current(id))[m] : r[x] < r[y]
<1> DEFINE h == Current(id)
           L == Levels(h)
           S == {m \in Nat : \A n \in Nat : n < m => \A x \in L[n], y \in L[m] : r[x] < r[y]}
<1>1. \A n \in Nat : AtMostOne(L[n]) /\ \A x \in L[n] : \E d \in Known : x = Current(d)
  BY LevelsAreSingle, LevelsAreCurrent
<1>2. \A n \in Nat : L[n + 1] = Over(L[n])
  BY LevelsStep
<1> HIDE DEF L
<1>3. \A n \in Nat : \A x \in L[n] : x \in snapshots /\ r[x] \in Nat
  BY <1>1, CurrentFacts DEF Ranks
<1>4. 0 \in S
  OBVIOUS
<1>5. ASSUME NEW m \in Nat, m \in S PROVE m + 1 \in S
  <2> SUFFICES ASSUME NEW n \in Nat, n < m + 1, NEW x \in L[n], NEW y \in L[m + 1]
               PROVE  r[x] < r[y]
    OBVIOUS
  <2>1. PICK d \in Known : ~IsRoot(Current(d)) /\ Parent(Current(d)) \in L[m] /\ y = Current(d)
    BY <1>2 DEF Over, Children
  <2>2. r[Parent(y)] < r[y] /\ Parent(y) \in L[m]
    BY <2>1, CurrentFacts DEF Ranks
  <2>3. r[x] \in Nat /\ r[Parent(y)] \in Nat /\ r[y] \in Nat
    BY <1>3, <2>2
  <2>4. CASE n = m
    BY <1>1, <2>2, <2>4 DEF AtMostOne
  <2>5. CASE n < m
    <3>1. r[x] < r[Parent(y)]
      BY <1>5, <2>2, <2>5
    <3> QED BY <2>2, <2>3, <3>1
  <2> QED BY <2>4, <2>5
<1>6. Nat \subseteq S
  <2> HIDE DEF S
  <2> QED BY <1>4, <1>5, NatSetInduction
<1> QED BY <1>6 DEF L

(* An order of some revisions lists each of them once. *)
LEMMA OrderIsInjective ==
  ASSUME IInv, NEW h, NEW ds, ds \subseteq Known, NEW q \in AncestorFirst(h, ds)
  PROVE  /\ \A i, j \in 1..Len(q) : q[i] = q[j] => i = j
         /\ \A i \in 1..Len(q) : q[i] \in ds
         /\ \A d \in ds : \E i \in 1..Len(q) : q[i] = d
         /\ Len(q) \in Nat
<1> DEFINE n == Cardinality(ds)
<1>1. IsFiniteSet(ds)
  <2>1. IsFiniteSet(RevIds)
    BY BoundsAssumption, FS_Interval DEF RevIds
  <2> QED BY <2>1, FS_Subset DEF IInv, TypeOK
<1>2. n \in Nat
  BY <1>1, FS_CardinalityType
<1>3. q \in [1..n -> ds] /\ \A d \in ds : \E i \in DOMAIN q : q[i] = d
  BY DEF AncestorFirst
<1>4. q \in Surjection(1..n, ds)
  BY <1>3 DEF Surjection
<1>5. IsFiniteSet(1..n) /\ Cardinality(1..n) = n
  BY <1>2, FS_Interval
<1>6. q \in Injection(1..n, ds)
  <2> HIDE DEF n
  <2>1. Cardinality(1..n) = Cardinality(ds)
    BY <1>5 DEF n
  <2> QED BY <1>4, <1>5, <2>1, FS_SurjSameCardinalityImpliesInj
<1>7. \A i, j \in 1..n : q[i] = q[j] => i = j
  BY <1>3, <1>6 DEF Injection, IsInjective
<1>8. DOMAIN q = 1..Len(q) /\ Len(q) \in Nat
  <2>1. q \in Seq(ds) /\ DOMAIN q = 1..Len(q)
    BY OrderIsSeq
  <2> QED BY <2>1
<1>9. 1..Len(q) = 1..n
  BY <1>3, <1>8
<1> QED BY <1>3, <1>7, <1>8, <1>9

(* In a chain, the order a drop lists what stands on a revision in is the order
   in which they stand on one another. *)
LEMMA OrderIsAChain ==
  ASSUME IInv, Ranked, NEW id \in Known,
         NEW q \in AncestorFirst(Current(id), Descendants(Current(id)))
  PROVE  ChainIn(revisions, id, q)
<1> SUFFICES ASSUME LinearIn(revisions), NEW k \in 1..Len(q)
             PROVE  /\ ~IsRoot(Current(q[k]))
                    /\ k = 1 => Parent(Current(q[k])) = Current(id)
                    /\ k > 1 => /\ Parent(Current(q[k])) = Current(q[k - 1])
                                /\ Current(q[k - 1]) # Current(id)
  BY DEF ChainIn, Current
<1> DEFINE h == Current(id)
           L == Levels(h)
           ds == Descendants(h)
           depth(d) == CHOOSE n \in 0..MaxRevs : d \in Children(L[n])
<1>1. PICK r : Ranks(r, snapshots)
  BY DEF Ranked
<1>2. L[0] = {h} /\ \A n \in Nat : L[n + 1] = Over(L[n])
  BY LevelsStep
<1>3. \A n \in Nat : AtMostOne(Children(L[n]))
  BY LevelsAreSingle
<1>4. \A n, m \in Nat : n < m => \A x \in L[n], y \in L[m] : r[x] < r[y]
  BY <1>1, LevelsGoUp
<1>5. \A n \in Nat : \A x \in L[n] : r[x] \in Nat
  <2>1. \A n \in Nat : \A x \in L[n] : \E d \in Known : x = Current(d)
    BY LevelsAreCurrent
  <2> HIDE DEF L
  <2> QED BY <1>1, <2>1, CurrentFacts DEF Ranks
<1>6. \A d \in ds : \E n \in 0..MaxRevs : d \in Children(L[n])
  BY DEF Descendants, Children
<1>7. \A n \in 0..MaxRevs : Children(L[n]) \subseteq ds
  BY DEF Descendants, Children
<1>8. \A i, j \in DOMAIN q : i < j => depth(q[i]) =< depth(q[j])
  BY DEF AncestorFirst
<1>9. /\ \A i, j \in 1..Len(q) : q[i] = q[j] => i = j
      /\ \A i \in 1..Len(q) : q[i] \in ds
      /\ \A d \in ds : \E i \in 1..Len(q) : q[i] = d
      /\ Len(q) \in Nat
  BY DescendantsKnown, OrderIsInjective
<1>a. DOMAIN q = 1..Len(q)
  BY DescendantsKnown, OrderIsSeq
<1> HIDE DEF L, ds
<1>10. ASSUME NEW d \in ds PROVE depth(d) \in 0..MaxRevs /\ d \in Children(L[depth(d)])
  BY <1>6
<1> HIDE DEF depth
<1>11. ASSUME NEW n \in Nat, NEW m \in Nat, NEW x \in L[n], x \in L[m] PROVE n = m
  <2>1. r[x] \in Nat /\ ~(r[x] < r[x])
    BY <1>5
  <2> QED BY <1>4, <1>11, <2>1
<1>12. ASSUME NEW d \in ds, NEW n \in 0..MaxRevs, d \in Children(L[n]) PROVE depth(d) = n
  <2>1. Parent(Current(d)) \in L[n] /\ Parent(Current(d)) \in L[depth(d)]
        /\ depth(d) \in Nat /\ n \in Nat
    BY <1>10, <1>12 DEF Children
  <2> QED BY <1>11, <2>1
<1>13. ASSUME NEW d \in ds, NEW e \in ds, depth(d) = depth(e) PROVE d = e
  <2>1. d \in Children(L[depth(d)]) /\ e \in Children(L[depth(d)]) /\ depth(d) \in Nat
    BY <1>10, <1>13
  <2> QED BY <1>3, <2>1 DEF AtMostOne
<1> DEFINE d == q[k]  n == depth(d)
<1>14. d \in ds /\ n \in 0..MaxRevs /\ n \in Nat /\ d \in Children(L[n])
  BY <1>9, <1>10
<1>15. d \in Known /\ ~IsRoot(Current(d)) /\ Parent(Current(d)) \in L[n]
  BY <1>14 DEF Children
<1>16. ASSUME n # 0
       PROVE  \E j \in 1..Len(q) : Parent(Current(d)) = Current(q[j]) /\ depth(q[j]) = n - 1
  <2>1. n - 1 \in 0..MaxRevs /\ n - 1 \in Nat /\ (n - 1) + 1 = n
    <3> HIDE DEF n
    <3> QED BY <1>14, <1>16, BoundsAssumption
  <2>2. Parent(Current(d)) \in Over(L[n - 1])
    BY <1>2, <1>15, <2>1
  <2>3. PICK e \in Children(L[n - 1]) : Parent(Current(d)) = Current(e)
    BY <2>2 DEF Over
  <2>4. e \in ds /\ depth(e) = n - 1
    BY <1>7, <1>12, <2>1, <2>3
  <2> QED BY <1>9, <2>3, <2>4
<1> HIDE DEF d, n
<1>17. CASE k = 1
  <2>1. n = 0
    <3>1. ASSUME n # 0 PROVE FALSE
      <4>1. PICK j \in 1..Len(q) : depth(q[j]) = n - 1
        BY <1>16, <3>1
      <4>2. j = 1
        <5>1. ASSUME j # 1 PROVE FALSE
          <6>1. 1 < j /\ 1 \in DOMAIN q /\ j \in DOMAIN q
            BY <1>9, <1>a, <1>17, <5>1
          <6>2. depth(q[1]) =< depth(q[j])
            BY <1>8, <6>1
          <6> QED BY <1>14, <1>17, <4>1, <6>2 DEF n, d
        <5> QED BY <5>1
      <4> QED BY <1>14, <1>17, <4>1, <4>2 DEF n, d
    <3> QED BY <3>1
  <2>2. Parent(Current(d)) = h
    BY <1>2, <1>15, <2>1
  <2> QED BY <1>15, <1>17, <2>2 DEF d
<1>18. CASE k > 1
  <2> DEFINE e == q[k - 1]
  <2>1. k - 1 \in 1..Len(q) /\ k - 1 \in DOMAIN q /\ k \in DOMAIN q /\ k - 1 < k /\ k - 1 # k
    BY <1>9, <1>a, <1>18
  <2>2. e \in ds /\ depth(e) =< n /\ depth(e) \in Nat /\ depth(e) # n
    <3>1. e \in ds
      BY <1>9, <2>1
    <3>2. depth(e) =< depth(q[k])
      BY <1>8, <2>1
    <3>3. e # q[k]
      BY <1>9, <2>1
    <3> HIDE DEF e
    <3>4. depth(e) # depth(q[k])
      BY <1>13, <1>14, <3>1, <3>3 DEF d
    <3>5. depth(e) \in 0..MaxRevs
      BY <1>10, <3>1
    <3> QED BY <3>1, <3>2, <3>4, <3>5 DEF n, d
  <2>3. PICK j \in 1..Len(q) : Parent(Current(d)) = Current(q[j]) /\ depth(q[j]) = n - 1
    <3>1. n # 0
      BY <1>14, <2>2
    <3> QED BY <1>16, <3>1
  <2>4. j = k - 1
    <3>1. ASSUME j >= k PROVE FALSE
      <4>1. j # k
        BY <1>14, <2>3 DEF n, d
      <4>2. k < j /\ j \in DOMAIN q
        BY <1>9, <1>a, <3>1, <4>1
      <4>3. depth(q[k]) =< depth(q[j])
        BY <1>8, <2>1, <4>2
      <4> QED BY <1>14, <2>3, <4>3 DEF n, d
    <3>2. ASSUME j < k - 1 PROVE FALSE
      <4>1. j \in DOMAIN q
        BY <1>a
      <4>2. depth(q[j]) =< depth(e)
        BY <1>8, <2>1, <3>2, <4>1
      <4> HIDE DEF e
      <4>3. depth(e) = n - 1
        BY <1>14, <2>2, <2>3, <4>2
      <4>4. q[j] = e
        BY <1>9, <1>13, <2>2, <2>3, <4>3
      <4> QED BY <1>9, <2>1, <3>2, <4>4 DEF e
    <3> QED BY <1>9, <2>1, <3>1, <3>2
  <2>5. Parent(Current(d)) = Current(e)
    BY <2>3, <2>4
  <2>6. Current(e) # h
    <3>1. e \in Children(L[depth(e)]) /\ L[depth(e) + 1] = Over(L[depth(e)])
      BY <1>2, <1>10, <2>2
    <3> HIDE DEF e
    <3>2. Current(e) \in L[depth(e) + 1]
      BY <3>1 DEF Over
    <3>3. depth(e) + 1 \in Nat /\ depth(e) + 1 # 0
      BY <2>2
    <3> QED BY <1>2, <1>11, <3>2, <3>3
  <2> QED BY <1>15, <1>18, <2>5, <2>6 DEF d
<1>19. k = 1 \/ k > 1
  BY <1>9
<1> QED BY <1>15, <1>17, <1>18, <1>19 DEF d

LEMMA DropFits ==
  ASSUME OneProcess, IInv, Ranked, NEW p \in Procs, NEW id \in Known, Drop(p, id)
  PROVE  CommandsInv'
<1> DEFINE cur == Current(id)
           pr == proc'[p]
<1>1. PICK order \in AncestorFirst(cur, Descendants(cur)) :
        Len(order) > 0 /\ Start(p, "drop", id, <<RebaseRest(order, Parent(cur))>>)
  BY DEF Drop
<1> DEFINE st == RebaseRest(order, Parent(cur))
<1>2. Start(p, "drop", id, <<st>>)
  BY <1>1
<1>3. st.do = "rebase" /\ st.ids = order /\ st.onto = Parent(cur)
  BY DEF RebaseRest
<1> HIDE DEF st, pr
<1>4. pr.op = "drop" /\ pr.id = id /\ pr.before = revisions /\ pr.todo = <<st>>
  BY <1>2, StartIs DEF pr
<1>5. order \in Seq(Known) /\ Len(order) \in Nat
  <2>1. order \in Seq(Descendants(cur)) /\ Descendants(cur) \subseteq Known
    BY <1>1, DescendantsKnown, OrderIsSeq
  <2> QED BY <2>1
<1>6. ChainIn(revisions, id, order)
  BY <1>1, OrderIsAChain
<1>7. BeganWith(pr, order)
  BY <1>4, <1>5, <1>6, OwnRows DEF BeganWith, Known
<1>8. RestOf(order, 1, st.ids) /\ 1 \in 1..Len(order)
  <2>1. Len(order) = Len(order) - 1 + 1 /\ \A j \in 1..Len(order) : 1 + j - 1 = j
    BY <1>5
  <2> QED BY <1>1, <1>3, <1>5, <2>1 DEF RestOf
<1>9. st.onto.rev = PlaceOf(pr, order, 1)
  BY <1>3, <1>4 DEF PlaceOf, Current
<1>10. StmtFits(pr, order, st) /\ Stmts(<<st>>) = {st}
  BY <1>3, <1>4, <1>8, <1>9, StmtsOfFew DEF StmtFits, Aims
<1>11. Must(pr, order) = {}
  BY <1>4 DEF Must
<1>12. ReadsFirst(pr, order, revisions)
  BY <1>3, <1>4, <1>10 DEF ReadsFirst
<1> QED BY <1>2, <1>3, <1>7, <1>10, <1>11, <1>12, StartFits DEF pr

-----------------------------------------------------------------------------
(* What a command aims at stays as it is through every step. *)
LEMMA BeginFits ==
  ASSUME OneProcess, IInv, Ranked, CommandsInv, NEW p \in Procs, Begin(p)
  PROVE  CommandsInv'
<1>1. CASE CommitRoot(p)
  BY <1>1, CommitNewFits DEF CommitRoot
<1>2. ASSUME NEW id \in Known, CommitOn(p, id) \/ CommitCurrent(p, id) \/ Amend(p, id)
      PROVE  CommandsInv'
  BY <1>2, CommitNewFits, AmendFits DEF CommitOn
<1>3. ASSUME NEW id \in Known, Drop(p, id) \/ Squash(p, id) PROVE CommandsInv'
  BY <1>3, DropFits, SquashFits
<1>4. ASSUME NEW id \in Known, NEW onto \in snapshots, Rebase(p, id, onto) \/ Revert(p, id, onto)
      PROVE  CommandsInv'
  BY <1>4, RebaseFits, RevertFits
<1>5. ASSUME NEW id \in Known, NEW path \in Paths, Resolve(p, id, path) \/ RewriteIgnored(p, id, path)
      PROVE  CommandsInv'
  BY <1>5, ResolveFits, RewriteIgnoredFits
<1>6. ASSUME NEW id \in Known, NEW desc \in Messages, SetDescription(p, id, desc)
      PROVE  CommandsInv'
  BY <1>6, SetDescriptionFits
<1>7. ASSUME NEW id \in Known, NEW name \in RefNames, Branch(p, name, id) \/ Tag(p, name, id)
      PROVE  CommandsInv'
  BY <1>7, BranchFits, TagFits
<1>8. ASSUME NEW name \in RefNames, DeleteRef(p, name) PROVE CommandsInv'
  <2>1. proc' = proc /\ revisions' = revisions
    BY <1>8 DEF DeleteRef
  <2> QED BY <2>1 DEF CommandsInv
<1> QED BY <1>1, <1>2, <1>3, <1>4, <1>5, <1>6, <1>7, <1>8 DEF Begin

LEMMA NextCommandsInv ==
  ASSUME OneProcess
  PROVE  IInv /\ Ranked /\ CommandsInv /\ [Next]_vars => CommandsInv'
<1> SUFFICES ASSUME IInv, Ranked, CommandsInv, [Next]_vars PROVE CommandsInv'
  OBVIOUS
<1>1. ASSUME NEW p \in Procs, Begin(p) PROVE CommandsInv'
  BY <1>1, BeginFits
<1>2. ASSUME NEW p \in Procs, Execute(p) PROVE CommandsInv'
  BY <1>2, DoPutSnapshotFits, DoPutRevisionFits, DoCommitFits, DoRepointFits, DoRebaseFits,
     DoAmendFits, DoSquashFits, DoRepairFits, DoVisitFits, DoCleanFits, DoTagFits, DoPutRefFits
     DEF Execute
<1>3. ASSUME NEW p \in Procs, Crash(p) PROVE CommandsInv'
  BY <1>3, AbortFits DEF Crash
<1>4. CASE UNCHANGED vars
  <2>1. proc' = proc /\ revisions' = revisions
    BY <1>4 DEF vars
  <2> QED BY <2>1 DEF CommandsInv
<1> QED BY <1>1, <1>2, <1>3, <1>4 DEF Next

LEMMA InitCommandsInv == Init => CommandsInv
<1> SUFFICES ASSUME Init, NEW p \in Procs PROVE \E w : Working(proc[p], w, revisions)
  BY DEF CommandsInv
<1>1. proc[p] = Idle
  BY DEF Init
<1>2. Stmts(<<>>) = {}
  BY StmtsOfFew
<1>3. Working(Idle, None, revisions)
  BY <1>2 DEF Working, Idle, BeganWith, Must, ReadsFirst
<1> QED BY <1>1, <1>3

LEMMA CommandsInvariance ==
  ASSUME OneProcess
  PROVE  Spec => [](IInv /\ CommandsInv)
<1>1. Init => IInv /\ Ranked /\ CommandsInv
  BY InitIInv, InitRanked, InitCommandsInv
<1>2. (IInv /\ Ranked /\ CommandsInv) /\ [Next]_vars => (IInv /\ Ranked /\ CommandsInv)'
  BY NextIInv, NextRanked, NextCommandsInv
<1> QED BY <1>1, <1>2, PTL DEF Spec

-----------------------------------------------------------------------------
(* A command that has run to its end has nothing left to wait for. *)
LEMMA DoneFacts ==
  ASSUME IInv, CommandsInv, NEW p \in Procs
  PROVE  \E w : /\ Working(proc[p], w, revisions)
                /\ ~Running(p) => /\ proc[p].todo = <<>>
                                  /\ \A d \in Must(proc[p], w) :
                                       Fits(proc[p], w, d, revisions[d].hash)
<1>1. PICK w : Working(proc[p], w, revisions)
  BY DEF CommandsInv
<1>2. ASSUME ~Running(p), NEW d \in Must(proc[p], w) PROVE Fits(proc[p], w, d, revisions[d].hash)
  <2>1. Stmts(proc[p].todo) = {}
    BY <1>2, StmtsOfFew DEF Running, Todo
  <2> QED BY <1>1, <1>2, <2>1 DEF Working, Waits
<1> QED BY <1>1, <1>2 DEF Running, Todo

(***************************************************************************)
(* Amending, re-describing and resolving leave a revision in its place,    *)
(* and a command about one revision leaves every other row as it was.      *)
(***************************************************************************)
LEMMA InPlace ==
  ASSUME IInv, CommandsInv
  PROVE  RewritesStayInPlace
<1> SUFFICES ASSUME NEW p \in Procs
             PROVE  /\ \A op \in {"amend", "message", "resolve"} :
                         Done(p, op) =>
                           Current(proc[p].id).parents = Before(p, proc[p].id).parents
                    /\ proc[p].op \notin {"idle", "drop", "resolve", "ignore"} =>
                         \A d \in DOMAIN proc[p].before \ {proc[p].id} :
                           revisions[d] = proc[p].before[d]
  BY DEF RewritesStayInPlace
<1>1. PICK w : Working(proc[p], w, revisions)
  BY DEF CommandsInv
<1> DEFINE pr == proc[p]
<1>2. \A d \in DOMAIN pr.before :
        revisions[d] = pr.before[d] \/ Fits(pr, w, d, revisions[d].hash)
  BY <1>1 DEF Working
<1>3. ASSUME pr.op \in {"amend", "message", "resolve"}
      PROVE  revisions[pr.id].hash.parents = pr.before[pr.id].hash.parents
  <2>1. pr.id \in DOMAIN pr.before
    BY <1>1, <1>3 DEF Working, BeganWith
  <2>2. ASSUME Fits(pr, w, pr.id, revisions[pr.id].hash)
        PROVE  revisions[pr.id].hash.parents = pr.before[pr.id].hash.parents
    <3> HIDE DEF pr
    <3> QED BY <1>3, <2>2 DEF Fits, Resolution, WithTree, Snapshot
  <2> QED BY <1>2, <2>1, <2>2
<1>4. ASSUME pr.op \notin {"idle", "drop", "resolve", "ignore"},
             NEW d \in DOMAIN pr.before, d # pr.id
      PROVE  revisions[d] = pr.before[d]
  <2>1. pr.op \in OfOne
    BY <1>4 DEF IInv, ProcsOK, OpNames, OfOne
  <2> QED BY <1>2, <1>4, <2>1 DEF Fits
<1> QED BY <1>3, <1>4 DEF Done, Current, Before

(***************************************************************************)
(* An amended, re-described or resolved revision has the parents it had,   *)
(* and other revisions are left alone, when commands run one after the     *)
(* other and crash anywhere.                                               *)
(***************************************************************************)
THEOREM RewritesKeepTheirPlace ==
  ASSUME OneProcess
  PROVE  Spec => []RewritesStayInPlace
<1>1. IInv /\ CommandsInv => RewritesStayInPlace
  BY InPlace
<1> QED BY <1>1, CommandsInvariance, PTL

-----------------------------------------------------------------------------
(* A merge of a side that is still the base takes what the other side has. *)
LEMMA UnchangedSideYields ==
  ASSUME NEW b, NEW t
  PROVE  MergeName(b, b, t).id = t.id
<1>1. NoEntry.id = Zero
  BY DEF NoEntry
<1> QED BY <1>1 DEF MergeName, MergeLeaf, TakesOurs, TakesTheirs, TakesDeletion, Present

(* A merge keeps what ours had changed, in the result or in a conflict. *)
LEMMA ChangedSideStays ==
  ASSUME NEW b, NEW o, NEW t, o.id # b.id
  PROVE  HoldsId(MergeName(b, o, t), o.id)
<1> DEFINE e == MergeName(b, o, t)
<1>1. NoEntry.id = Zero
  BY DEF NoEntry
<1>2. ASSUME e # ConflictEntry(b, o, t) PROVE e.id = o.id
  BY <1>1, <1>2 DEF MergeName, MergeLeaf, TakesOurs, TakesTheirs, TakesDeletion, Present
<1>3. ASSUME e = ConflictEntry(b, o, t) PROVE HoldsId(e, o.id)
  <2> DEFINE ours == Term(o.id, "ours")  theirs == Term(t.id, "theirs")
             goneO == Term(Zero, "ours")  goneT == Term(Zero, "theirs")
             adds == e.id.adds
  <2>1. /\ ours.id = o.id /\ goneO.id = Zero /\ goneT.id = Zero
    BY DEF Term
  <2>2. IsConflict(e)
    BY <1>3 DEF ConflictEntry, IsConflict
  <2>3. adds = Conflict(b, o, t).adds
    BY <1>3 DEF ConflictEntry
  <2>4. CASE Present(o)
    <3>1. CASE Present(t)
      <4>1. adds = <<ours>> \o <<theirs>> \o <<>>
        BY <2>3, <2>4, <3>1 DEF Conflict
      <4> HIDE DEF ours, theirs, adds
      <4>2. 1 \in DOMAIN adds /\ adds[1] = ours
        BY <4>1
      <4> QED BY <2>1, <2>2, <4>2 DEF HoldsId, Sides, adds
    <3>2. CASE ~Present(t)
      <4>1. adds = <<ours>> \o <<>> \o <<goneT>>
        BY <2>3, <2>4, <3>2 DEF Conflict
      <4> HIDE DEF ours, goneT, adds
      <4>2. 1 \in DOMAIN adds /\ adds[1] = ours
        BY <4>1
      <4> QED BY <2>1, <2>2, <4>2 DEF HoldsId, Sides, adds
    <3> QED BY <3>1, <3>2
  <2>5. CASE ~Present(o)
    <3>0. o.id = Zero
      BY <2>5 DEF Present
    <3>1. CASE Present(t)
      <4>1. adds = <<>> \o <<theirs>> \o <<goneO>>
        BY <2>3, <2>5, <3>1 DEF Conflict
      <4> HIDE DEF theirs, goneO, adds
      <4>2. 2 \in DOMAIN adds /\ adds[2] = goneO
        BY <4>1
      <4> QED BY <2>1, <2>2, <3>0, <4>2 DEF HoldsId, Sides, adds
    <3>2. CASE ~Present(t)
      <4>1. adds = <<>> \o <<>> \o <<goneT>>
        BY <2>3, <2>5, <3>2 DEF Conflict
      <4> HIDE DEF goneT, adds
      <4>2. 1 \in DOMAIN adds /\ adds[1] = goneT
        BY <4>1
      <4> QED BY <2>1, <2>2, <3>0, <4>2 DEF HoldsId, Sides, adds
    <3> QED BY <3>1, <3>2
  <2> QED BY <2>4, <2>5
<1> QED BY <1>2, <1>3 DEF HoldsId

(* Paths have one name or two. *)
LEMMA PathShape ==
  ASSUME NEW path \in Paths
  PROVE  \/ \E n \in Names : path = <<n>>
         \/ \E n, m \in Names : path = <<n, m>>
BY PathsAssumption

LEMMA FindFile ==
  ASSUME NEW t, NEW n
  PROVE  FindEntry(t, <<n>>) = t[n]
<1>1. Len(<<n>>) = 1 /\ <<n>>[1] = n
  OBVIOUS
<1> QED BY <1>1 DEF FindEntry

LEMMA FindBelow ==
  ASSUME NEW t, NEW n, NEW m
  PROVE  FindEntry(t, <<n, m>>) = SubTree(t[n])[m]
<1>1. Len(<<n, m>>) = 2 /\ <<n, m>>[1] = n /\ <<n, m>>[2] = m
  OBVIOUS
<1> QED BY <1>1 DEF FindEntry

(* No entry: below something that is not a directory. *)
LEMMA NothingBelow ==
  ASSUME NEW e, ~IsTree(e), NEW m \in Names
  PROVE  SubTree(e)[m] = NoEntry
BY DEF SubTree, EmptyTree

(* A name that is a directory nowhere is merged as a file. *)
LEMMA MergedFile ==
  ASSUME NEW b, NEW o, NEW t, NEW n \in Names, ~IsTree(b[n]), ~IsTree(o[n]), ~IsTree(t[n])
  PROVE  /\ MergeTrees(b, o, t)[n] = MergeName(b[n], o[n], t[n])
         /\ ~IsTree(MergeName(b[n], o[n], t[n]))
<1>1. ~IsTree(NoEntry) /\ ~IsTree(ConflictEntry(b[n], o[n], t[n]))
  BY DEF IsTree, NoEntry, ConflictEntry
<1>2. ~IsTree(MergeName(b[n], o[n], t[n]))
  BY <1>1 DEF MergeName, MergeLeaf
<1>3. MergeTrees(b, o, t)[n] = MergeEntry(b[n], o[n], t[n])
  BY DEF MergeTrees
<1>4. MergeEntry(b[n], o[n], t[n]) = MergeName(b[n], o[n], t[n])
  BY DEF MergeEntry
<1> QED BY <1>2, <1>3, <1>4

(* A name that is a directory somewhere: its files are merged each by itself. *)
LEMMA MergedBelow ==
  ASSUME NEW b, NEW o, NEW t, NEW n \in Names, NEW m \in Names,
         IsTree(b[n]) \/ IsTree(o[n]) \/ IsTree(t[n])
  PROVE  SubTree(MergeTrees(b, o, t)[n])[m] =
           MergeName(SubTree(b[n])[m], SubTree(o[n])[m], SubTree(t[n])[m])
<1> DEFINE sub == [k \in Names |-> MergeName(SubTree(b[n])[k], SubTree(o[n])[k], SubTree(t[n])[k])]
           e == MergeTrees(b, o, t)[n]
<1>1. e = IF sub = EmptyTree THEN NoEntry ELSE Dir(sub)
  BY DEF MergeTrees, MergeEntry
<1>2. sub[m] = MergeName(SubTree(b[n])[m], SubTree(o[n])[m], SubTree(t[n])[m])
  OBVIOUS
<1> HIDE DEF sub, e
<1>3. CASE sub = EmptyTree
  <2>1. ~IsTree(e) /\ sub[m] = NoEntry
    BY <1>1, <1>3 DEF IsTree, NoEntry, EmptyTree
  <2> QED BY <1>2, <2>1, NothingBelow DEF e
<1>4. CASE sub # EmptyTree
  <2>1. SubTree(e) = sub
    BY <1>1, <1>4 DEF SubTree, Dir, IsTree
  <2> QED BY <1>2, <2>1 DEF e
<1> QED BY <1>3, <1>4

(* Merging with a side that is the base leaves the other side's files. *)
LEMMA AbsorbedTree ==
  ASSUME NEW b, NEW t, NEW path \in Paths, NoDirectoryAt(path, {t, b})
  PROVE  FindEntry(MergeTrees(b, b, t), path).id = FindEntry(t, path).id
<1>1. ASSUME NEW n \in Names, path = <<n>>
      PROVE  FindEntry(MergeTrees(b, b, t), path).id = FindEntry(t, path).id
  <2>0. FindEntry(b, path) = b[n] /\ FindEntry(t, path) = t[n]
    BY <1>1, FindFile
  <2>1. ~IsTree(b[n]) /\ ~IsTree(t[n])
    BY <2>0 DEF NoDirectoryAt
  <2>2. MergeTrees(b, b, t)[n] = MergeName(b[n], b[n], t[n])
    BY <2>1, MergedFile
  <2> DEFINE new == MergeTrees(b, b, t)
  <2> HIDE DEF new
  <2>3. FindEntry(new, path) = new[n]
    BY <1>1, FindFile
  <2>4. new[n] = MergeName(b[n], b[n], t[n])
    BY <2>2 DEF new
  <2>5. FindEntry(new, path).id = FindEntry(t, path).id
    BY <2>0, <2>3, <2>4, UnchangedSideYields
  <2> QED BY <2>5 DEF new
<1>2. ASSUME NEW n \in Names, NEW m \in Names, path = <<n, m>>
      PROVE  FindEntry(MergeTrees(b, b, t), path).id = FindEntry(t, path).id
  <2> DEFINE new == MergeTrees(b, b, t)
  <2>1. FindEntry(new, path) = SubTree(new[n])[m] /\ FindEntry(t, path) = SubTree(t[n])[m]
    <3> HIDE DEF new
    <3> QED BY <1>2, FindBelow
  <2>2. CASE IsTree(b[n]) \/ IsTree(t[n])
    <3>1. SubTree(new[n])[m] = MergeName(SubTree(b[n])[m], SubTree(b[n])[m], SubTree(t[n])[m])
      BY <2>2, MergedBelow
    <3> QED BY <2>1, <3>1, UnchangedSideYields
  <2>3. CASE ~IsTree(b[n]) /\ ~IsTree(t[n])
    <3>1. ~IsTree(new[n])
      BY <2>3, MergedFile
    <3> HIDE DEF new
    <3>2. SubTree(new[n])[m] = NoEntry /\ SubTree(t[n])[m] = NoEntry
      BY <2>3, <3>1, NothingBelow
    <3>3. FindEntry(new, path).id = FindEntry(t, path).id
      BY <2>1, <3>2
    <3> QED BY <3>3 DEF new
  <2> QED BY <2>2, <2>3
<1> QED BY <1>1, <1>2, PathShape

(* Merging keeps what ours had changed. *)
LEMMA ReappliedChange ==
  ASSUME NEW b, NEW o, NEW t, NEW path \in Paths, NoDirectoryAt(path, {o, b, t}),
         FindEntry(o, path).id # FindEntry(b, path).id
  PROVE  HoldsId(FindEntry(MergeTrees(b, o, t), path), FindEntry(o, path).id)
<1> DEFINE new == MergeTrees(b, o, t)
<1>1. ASSUME NEW n \in Names, path = <<n>>
      PROVE  HoldsId(FindEntry(new, path), FindEntry(o, path).id)
  <2>0. FindEntry(b, path) = b[n] /\ FindEntry(o, path) = o[n] /\ FindEntry(t, path) = t[n]
    BY <1>1, FindFile
  <2>1. ~IsTree(b[n]) /\ ~IsTree(o[n]) /\ ~IsTree(t[n])
    BY <2>0 DEF NoDirectoryAt
  <2>2. new[n] = MergeName(b[n], o[n], t[n])
    BY <2>1, MergedFile
  <2>3. FindEntry(new, path) = new[n] /\ FindEntry(o, path) = o[n] /\ FindEntry(b, path) = b[n]
    <3> HIDE DEF new
    <3> QED BY <1>1, FindFile
  <2> HIDE DEF new
  <2> QED BY <2>2, <2>3, ChangedSideStays
<1>2. ASSUME NEW n \in Names, NEW m \in Names, path = <<n, m>>
      PROVE  HoldsId(FindEntry(new, path), FindEntry(o, path).id)
  <2>1. /\ FindEntry(new, path) = SubTree(new[n])[m] /\ FindEntry(o, path) = SubTree(o[n])[m]
        /\ FindEntry(b, path) = SubTree(b[n])[m]
    <3> HIDE DEF new
    <3> QED BY <1>2, FindBelow
  <2>2. IsTree(b[n]) \/ IsTree(o[n]) \/ IsTree(t[n])
    <3>1. ~IsTree(b[n]) /\ ~IsTree(o[n]) => FindEntry(o, path) = FindEntry(b, path)
      BY <2>1, NothingBelow
    <3> QED BY <3>1
  <2>3. SubTree(new[n])[m] = MergeName(SubTree(b[n])[m], SubTree(o[n])[m], SubTree(t[n])[m])
    BY <2>2, MergedBelow
  <2> HIDE DEF new
  <2> QED BY <2>1, <2>3, ChangedSideStays
<1> QED BY <1>1, <1>2, PathShape

(***************************************************************************)
(* Squash leaves the child's content in the parent's revision, in the      *)
(* place the child's parent snapshot had.                                  *)
(***************************************************************************)
LEMMA ChildAbsorbed ==
  ASSUME IInv, CommandsInv
  PROVE  SquashAbsorbsTheChild
<1> SUFFICES ASSUME NEW p \in Procs, Done(p, "squash"),
                    Current(proc[p].id) # Before(p, proc[p].id)
             PROVE  \E d \in DOMAIN proc[p].before :
                      LET child == Before(p, d)  new == Current(proc[p].id)
                      IN  /\ ~IsRoot(child) /\ Parent(child).rev = proc[p].id
                          /\ Parent(child).parents = new.parents
                          /\ \A path \in Paths :
                               NoDirectoryAt(path, {child.tree, Parent(child).tree}) =>
                                 FindEntry(new.tree, path).id = FindEntry(child.tree, path).id
  BY DEF SquashAbsorbsTheChild
<1> DEFINE pr == proc[p]
<1>1. PICK w : Working(pr, w, revisions) /\ pr.todo = <<>>
  BY DoneFacts DEF Done
<1>2. pr.op = "squash"
  BY DEF Done
<1>3. pr.id \in DOMAIN pr.before
  <2>1. <<>> # <<SquashInto(pr.before[w].hash)>>
    OBVIOUS
  <2> QED BY <1>1, <1>2, <2>1 DEF Working, ReadsFirst
<1> DEFINE child == pr.before[w].hash
           new == revisions[pr.id].hash
<1>4. new = Absorbed(child)
  <2>1. revisions[pr.id] = pr.before[pr.id] \/ Fits(pr, w, pr.id, revisions[pr.id].hash)
    BY <1>1, <1>3 DEF Working
  <2>2. Fits(pr, w, pr.id, new)
    BY <2>1 DEF Current, Before
  <2> HIDE DEF pr, new
  <2> QED BY <1>2, <2>2 DEF Fits
<1>5. w \in DOMAIN pr.before /\ ~IsRoot(child) /\ Parent(child).rev = pr.id
  BY <1>1, <1>2 DEF Working, BeganWith
<1>6. /\ new.parents = Parent(child).parents
      /\ new.tree = MergeTrees(Parent(child).tree, Parent(child).tree, child.tree)
  <2> HIDE DEF child, new
  <2> QED BY <1>4 DEF Absorbed, WithTree, Snapshot
<1>7. ASSUME NEW path \in Paths, NoDirectoryAt(path, {child.tree, Parent(child).tree})
      PROVE  FindEntry(new.tree, path).id = FindEntry(child.tree, path).id
  <2> HIDE DEF child, new
  <2> QED BY <1>6, <1>7, AbsorbedTree
<1>8. Before(p, w) = child /\ Current(pr.id) = new
  BY DEF Before, Current
<1> HIDE DEF child, new
<1> QED BY <1>5, <1>6, <1>7, <1>8

(***************************************************************************)
(* A squash alone in the repository puts the child's tree into the         *)
(* parent's revision, under the parents its old parent snapshot had.       *)
(***************************************************************************)
THEOREM SquashKeepsTheChild ==
  ASSUME OneProcess
  PROVE  Spec => []SquashAbsorbsTheChild
<1>1. IInv /\ CommandsInv => SquashAbsorbsTheChild
  BY ChildAbsorbed
<1> QED BY <1>1, CommandsInvariance, PTL

(***************************************************************************)
(* A rebase re-applies the revision's own change, or records a conflict    *)
(* that holds it.                                                          *)
(***************************************************************************)
LEMMA ChangeReapplied ==
  ASSUME IInv, CommandsInv
  PROVE  RebaseReappliesChange
<1> SUFFICES ASSUME NEW p \in Procs, Done(p, "rebase")
             PROVE  LET old == Before(p, proc[p].id)  new == Current(proc[p].id)
                    IN  \A path \in Paths :
                          LET mine == FindEntry(old.tree, path)
                          IN  NoDirectoryAt(path, {old.tree, BaseTree(old), BaseTree(new)})
                                /\ mine.id # FindEntry(BaseTree(old), path).id =>
                                HoldsId(FindEntry(new.tree, path), mine.id)
  BY DEF RebaseReappliesChange
<1> DEFINE pr == proc[p]
           old == pr.before[pr.id].hash
           new == revisions[pr.id].hash
<1>1. pr.op = "rebase"
  BY DEF Done
<1>2. PICK w : \A d \in Must(pr, w) : Fits(pr, w, d, revisions[d].hash)
  BY DoneFacts DEF Done
<1>3. new = Rebased(old, w)
  <2>1. pr.id \in Must(pr, w)
    BY <1>1 DEF Must
  <2>2. Fits(pr, w, pr.id, new)
    BY <1>2, <2>1
  <2> HIDE DEF pr, new
  <2> QED BY <1>1, <2>2 DEF Fits
<1>4. new.tree = MergeTrees(BaseTree(old), old.tree, w.tree) /\ new.parents = <<w>>
  <2> HIDE DEF old, new
  <2> QED BY <1>3 DEF Rebased, Snapshot
<1>5. BaseTree(new) = w.tree
  <2> HIDE DEF new
  <2> QED BY <1>4 DEF BaseTree, IsRoot, Parent
<1>6. Before(p, pr.id) = old /\ Current(pr.id) = new
  BY DEF Before, Current
<1> HIDE DEF old, new
<1>7. ASSUME NEW path \in Paths, NoDirectoryAt(path, {old.tree, BaseTree(old), BaseTree(new)}),
             FindEntry(old.tree, path).id # FindEntry(BaseTree(old), path).id
      PROVE  HoldsId(FindEntry(new.tree, path), FindEntry(old.tree, path).id)
  BY <1>4, <1>5, <1>7, ReappliedChange
<1> QED BY <1>6, <1>7

(***************************************************************************)
(* A rebase alone in the repository loses nothing of the revision's own    *)
(* change, its deletions included: it is there, or in a conflict.          *)
(***************************************************************************)
THEOREM RebaseKeepsTheChange ==
  ASSUME OneProcess
  PROVE  Spec => []RebaseReappliesChange
<1>1. IInv /\ CommandsInv => RebaseReappliesChange
  BY ChangeReapplied
<1> QED BY <1>1, CommandsInvariance, PTL

(***************************************************************************)
(* Dropping a revision from a chain closes the gap it leaves.              *)
(***************************************************************************)
LEMMA GapClosed ==
  ASSUME IInv, CommandsInv
  PROVE  DropClosesTheGapInAChain
<1> SUFFICES ASSUME NEW p \in Procs, Done(p, "drop"), Linear(p),
                    NEW d \in DOMAIN proc[p].before, revisions[d] # proc[p].before[d]
             PROVE  Parent(Current(d)).rev = Predecessor(p, d)
  BY DEF DropClosesTheGapInAChain, DropClosesTheGap
<1> DEFINE pr == proc[p]  B == pr.before  h == revisions[d].hash
<1>1. pr.op = "drop"
  BY DEF Done
<1>2. PICK w : Working(pr, w, revisions)
  BY DEF CommandsInv
<1>3. LinearIn(B)
  BY DEF Linear, LinearIn, Under, UnderIn, Before
<1>4. /\ w \in Seq(DOMAIN B) /\ \A e \in DOMAIN B : B[e].hash.rev = e
      /\ \A k \in 1..Len(w) :
           /\ k = 1 => Parent(B[w[k]].hash) = B[pr.id].hash
           /\ k > 1 => Parent(B[w[k]].hash) = B[w[k - 1]].hash /\ B[w[k - 1]].hash # B[pr.id].hash
  BY <1>1, <1>2, <1>3 DEF Working, BeganWith, ChainIn
<1>5. Fits(pr, w, d, h)
  BY <1>2 DEF Working
<1>6. PICK k \in 1..Len(w) : d = w[k] /\ Parent(h).rev = PlaceOf(pr, w, k)
  <2> HIDE DEF pr, h
  <2> QED BY <1>1, <1>5 DEF Fits
<1>7. Parent(Current(d)) = Parent(h)
  BY DEF Current
<1> HIDE DEF h
<1>8. CASE k = 1
  <2>1. Parent(B[d].hash) = B[pr.id].hash
    BY <1>4, <1>6, <1>8
  <2>2. Predecessor(p, d) = Parent(B[pr.id].hash).rev
    BY <2>1 DEF Predecessor, Before
  <2>3. PlaceOf(pr, w, k) = Parent(B[pr.id].hash).rev
    BY <1>8 DEF PlaceOf
  <2> QED BY <1>6, <1>7, <2>2, <2>3
<1>9. CASE k # 1
  <2>1. k > 1 /\ k - 1 \in 1..Len(w)
    BY <1>4, <1>6, <1>9
  <2>2. w[k - 1] \in DOMAIN B
    BY <1>4, <2>1
  <2>3. Parent(B[d].hash) = B[w[k - 1]].hash /\ B[w[k - 1]].hash # B[pr.id].hash
    BY <1>4, <1>6, <2>1
  <2>4. Predecessor(p, d) = B[w[k - 1]].hash.rev
    BY <2>3 DEF Predecessor, Before
  <2>5. B[w[k - 1]].hash.rev = w[k - 1]
    BY <1>4, <2>2
  <2>6. PlaceOf(pr, w, k) = w[k - 1]
    BY <1>9 DEF PlaceOf
  <2> QED BY <1>6, <1>7, <2>4, <2>5, <2>6
<1> QED BY <1>8, <1>9

(***************************************************************************)
(* A drop from a chain, alone in the repository, puts every later revision *)
(* back on its predecessor and the first one on the dropped one's.         *)
(***************************************************************************)
THEOREM DropLeavesNoGap ==
  ASSUME OneProcess
  PROVE  Spec => []DropClosesTheGapInAChain
<1>1. IInv /\ CommandsInv => DropClosesTheGapInAChain
  BY GapClosed
<1> QED BY <1>1, CommandsInvariance, PTL

-----------------------------------------------------------------------------
(***************************************************************************)
(* Trees are total on names on both levels: every tree that is stored or   *)
(* is still to be stored comes from the empty one by merges, edits and     *)
(* resolutions.  This holds whatever the processes do.                     *)
(***************************************************************************)
Shaped(t) ==
  /\ DOMAIN t = Names
  /\ \A n \in Names : IsTree(t[n]) => DOMAIN t[n].id.entries = Names

WritesTrees(st) ==
  /\ st.do = "snapshot" => Shaped(st.snap.tree)
  /\ st.do = "commit" => Shaped(st.row.hash.tree)
  /\ st.do = "amend" => Shaped(st.tree)
  /\ st.do = "repair" => st.path \in Paths /\ ~IsTree(st.entry)
  /\ st.do \in {"visit", "clean"} => st.path \in Paths

TreesAreShaped ==
  /\ \A s \in snapshots : Shaped(s.tree)
  /\ \A p \in Procs : /\ \A st \in Stmts(proc[p].todo) : WritesTrees(st)
                      /\ \A d \in DOMAIN proc[p].before : Shaped(proc[p].before[d].hash.tree)

LEMMA EmptyIsShaped == Shaped(EmptyTree)
<1>1. ~IsTree(NoEntry)
  BY DEF IsTree, NoEntry
<1> QED BY <1>1 DEF Shaped, EmptyTree

LEMMA MergeIsShaped ==
  ASSUME NEW b, NEW o, NEW t
  PROVE  Shaped(MergeTrees(b, o, t))
<1> SUFFICES ASSUME NEW n \in Names, IsTree(MergeTrees(b, o, t)[n])
             PROVE  DOMAIN MergeTrees(b, o, t)[n].id.entries = Names
  BY DEF Shaped, MergeTrees
<1> DEFINE sub == [k \in Names |-> MergeName(SubTree(b[n])[k], SubTree(o[n])[k], SubTree(t[n])[k])]
           e == MergeTrees(b, o, t)[n]
<1>1. IsTree(b[n]) \/ IsTree(o[n]) \/ IsTree(t[n])
  BY MergedFile
<1>2. e = IF sub = EmptyTree THEN NoEntry ELSE Dir(sub)
  BY <1>1 DEF MergeTrees, MergeEntry
<1>3. DOMAIN sub = Names
  OBVIOUS
<1> HIDE DEF sub
<1>4. DOMAIN e.id.entries = Names
  <2> HIDE DEF e
  <2>1. IsTree(e)
    BY DEF e
  <2> QED BY <1>2, <1>3, <2>1 DEF IsTree, NoEntry, Dir
<1> QED BY <1>4

(* A directory is total on names, and so is what stands in for one. *)
LEMMA SubTreeIsTotal ==
  ASSUME NEW t, Shaped(t), NEW n \in Names
  PROVE  DOMAIN SubTree(t[n]) = Names
BY DEF Shaped, SubTree, EmptyTree

(***************************************************************************)
(* resolvePath replaces the entry at the path, and disturbs no other path  *)
(* where the tree has a conflict.                                          *)
(***************************************************************************)
LEMMA ResolvedTree ==
  ASSUME NEW t, Shaped(t), NEW path \in Paths, NEW e, ~IsTree(e)
  PROVE  /\ Shaped(ResolvePath(t, path, e))
         /\ FindEntry(ResolvePath(t, path, e), path) = e
         /\ \A q \in Paths :
              q # path /\ IsConflict(FindEntry(t, path)) /\ IsConflict(FindEntry(t, q)) =>
                FindEntry(ResolvePath(t, path, e), q) = FindEntry(t, q)
<1> DEFINE new == ResolvePath(t, path, e)
<1>1. DOMAIN t = Names /\ \A n \in Names : IsTree(t[n]) => DOMAIN t[n].id.entries = Names
  BY DEF Shaped
<1>2. ~IsConflict(NoEntry) /\ ~IsTree(NoEntry)
  BY DEF IsConflict, IsTree, NoEntry
<1>3. ASSUME NEW n \in Names, path = <<n>>
      PROVE  /\ Shaped(new) /\ FindEntry(new, path) = e
             /\ \A q \in Paths : q # path /\ IsConflict(FindEntry(t, path)) /\ IsConflict(FindEntry(t, q))
                  => FindEntry(new, q) = FindEntry(t, q)
  <2>1. new = [t EXCEPT ![n] = e]
    <3>1. Len(path) = 1 /\ path[1] = n
      BY <1>3
    <3> QED BY <3>1 DEF ResolvePath
  <2> HIDE DEF new
  <2>2. DOMAIN new = Names /\ new[n] = e /\ \A k \in Names : k # n => new[k] = t[k]
    BY <1>1, <2>1
  <2>3. Shaped(new)
    BY <1>1, <2>2 DEF Shaped
  <2>4. FindEntry(new, path) = e
    BY <1>3, <2>2, FindFile
  <2>5. ASSUME NEW q \in Paths, q # path, IsConflict(FindEntry(t, path)), IsConflict(FindEntry(t, q))
        PROVE  FindEntry(new, q) = FindEntry(t, q)
    <3>1. IsConflict(t[n]) /\ ~IsTree(t[n])
      <4>1. FindEntry(t, path) = t[n]
        BY <1>3, FindFile
      <4> QED BY <2>5, <4>1 DEF IsConflict, IsTree
    <3>2. ASSUME NEW k \in Names, q = <<k>> PROVE FindEntry(new, q) = FindEntry(t, q)
      <4>1. k # n
        BY <1>3, <2>5, <3>2
      <4>2. FindEntry(new, q) = new[k] /\ FindEntry(t, q) = t[k]
        BY <3>2, FindFile
      <4> QED BY <2>2, <4>1, <4>2
    <3>3. ASSUME NEW k \in Names, NEW m \in Names, q = <<k, m>>
          PROVE  FindEntry(new, q) = FindEntry(t, q)
      <4>1. FindEntry(new, q) = SubTree(new[k])[m] /\ FindEntry(t, q) = SubTree(t[k])[m]
        BY <3>3, FindBelow
      <4>2. k # n
        <5>1. ASSUME k = n PROVE FALSE
          <6>1. SubTree(t[k])[m] = NoEntry
            BY <3>1, <5>1, NothingBelow
          <6> QED BY <1>2, <2>5, <4>1, <6>1
        <5> QED BY <5>1
      <4> QED BY <2>2, <4>1, <4>2
    <3> QED BY <3>2, <3>3, PathShape
  <2> QED BY <2>3, <2>4, <2>5
<1>4. ASSUME NEW n \in Names, NEW m \in Names, path = <<n, m>>
      PROVE  /\ Shaped(new) /\ FindEntry(new, path) = e
             /\ \A q \in Paths : q # path /\ IsConflict(FindEntry(t, path)) /\ IsConflict(FindEntry(t, q))
                  => FindEntry(new, q) = FindEntry(t, q)
  <2> DEFINE old == SubTree(t[n])
             sub == [old EXCEPT ![m] = e]
             x == IF sub = EmptyTree THEN NoEntry ELSE Dir(sub)
  <2>1. new = [t EXCEPT ![n] = x]
    <3>1. Len(path) # 1 /\ path[1] = n /\ path[2] = m
      BY <1>4
    <3> QED BY <3>1 DEF ResolvePath
  <2>2. DOMAIN old = Names
    BY SubTreeIsTotal
  <2> HIDE DEF old
  <2>3. DOMAIN sub = Names /\ sub[m] = e /\ \A k \in Names : k # m => sub[k] = old[k]
    BY <2>2
  <2> HIDE DEF sub
  <2>4. SubTree(x)[m] = e /\ (\A k \in Names : SubTree(x)[k] = sub[k])
        /\ (IsTree(x) => DOMAIN x.id.entries = Names)
    <3>1. CASE sub = EmptyTree
      <4>1. \A k \in Names : sub[k] = NoEntry
        BY <3>1 DEF EmptyTree
      <4>2. x = NoEntry /\ \A k \in Names : SubTree(x)[k] = NoEntry
        BY <1>2, <3>1, NothingBelow
      <4> QED BY <1>2, <2>3, <4>1, <4>2
    <3>2. CASE sub # EmptyTree
      <4>1. SubTree(x) = sub /\ x.id.entries = sub
        BY <3>2 DEF SubTree, Dir, IsTree
      <4> QED BY <2>3, <4>1
    <3> QED BY <3>1, <3>2
  <2> HIDE DEF new, x
  <2>5. DOMAIN new = Names /\ new[n] = x /\ \A k \in Names : k # n => new[k] = t[k]
    BY <1>1, <2>1
  <2>6. Shaped(new)
    BY <1>1, <2>4, <2>5 DEF Shaped
  <2>7. FindEntry(new, path) = e
    <3>1. FindEntry(new, path) = SubTree(new[n])[m]
      BY <1>4, FindBelow
    <3> QED BY <2>4, <2>5, <3>1
  <2>8. ASSUME NEW q \in Paths, q # path, IsConflict(FindEntry(t, path)), IsConflict(FindEntry(t, q))
        PROVE  FindEntry(new, q) = FindEntry(t, q)
    <3>1. IsTree(t[n])
      <4>1. FindEntry(t, path) = SubTree(t[n])[m]
        BY <1>4, FindBelow
      <4>2. ASSUME ~IsTree(t[n]) PROVE SubTree(t[n])[m] = NoEntry
        BY <4>2, NothingBelow
      <4> QED BY <1>2, <2>8, <4>1, <4>2
    <3>2. ASSUME NEW k \in Names, q = <<k>> PROVE FindEntry(new, q) = FindEntry(t, q)
      <4>1. FindEntry(new, q) = new[k] /\ FindEntry(t, q) = t[k]
        BY <3>2, FindFile
      <4>2. k # n
        BY <2>8, <3>1, <4>1 DEF IsConflict, IsTree
      <4> QED BY <2>5, <4>1, <4>2
    <3>3. ASSUME NEW k \in Names, NEW l \in Names, q = <<k, l>>
          PROVE  FindEntry(new, q) = FindEntry(t, q)
      <4>1. FindEntry(new, q) = SubTree(new[k])[l] /\ FindEntry(t, q) = SubTree(t[k])[l]
        BY <3>3, FindBelow
      <4>2. CASE k # n
        BY <2>5, <4>1, <4>2
      <4>3. CASE k = n
        <5>1. l # m
          BY <1>4, <2>8, <3>3, <4>3
        <5> QED BY <2>3, <2>4, <2>5, <4>1, <4>3, <5>1 DEF old
      <4> QED BY <4>2, <4>3
    <3> QED BY <3>2, <3>3, PathShape
  <2> QED BY <2>6, <2>7, <2>8
<1> QED BY <1>3, <1>4, PathShape

(* Ignoring a path removes what is there and no place apart from it. *)
LEMMA DroppedTree ==
  ASSUME NEW t, Shaped(t), NEW path \in Paths
  PROVE  /\ Shaped(DropIgnored(t, path))
         /\ ~Present(FindEntry(DropIgnored(t, path), path))
         /\ \A q \in Paths : Apart(q, path) =>
              FindEntry(DropIgnored(t, path), q) = FindEntry(t, q)
<1> DEFINE new == DropIgnored(t, path)
<1>1. ~IsTree(NoEntry) /\ ~Present(NoEntry) /\ ~IsConflict(NoEntry)
  BY DEF IsTree, Present, NoEntry, IsConflict
<1>2. DOMAIN t = Names /\ \A n \in Names : IsTree(t[n]) => DOMAIN t[n].id.entries = Names
  BY DEF Shaped
<1>3. /\ Shaped(ResolvePath(t, path, NoEntry))
      /\ FindEntry(ResolvePath(t, path, NoEntry), path) = NoEntry
  BY <1>1, ResolvedTree
<1>4. ASSUME NEW n \in Names, path = <<n>>
      PROVE  /\ Shaped(new) /\ ~Present(FindEntry(new, path))
             /\ \A q \in Paths : Apart(q, path) => FindEntry(new, q) = FindEntry(t, q)
  <2>1. Len(path) = 1 /\ path[1] = n
    BY <1>4
  <2>2. new = ResolvePath(t, path, NoEntry) /\ new = [t EXCEPT ![n] = NoEntry]
    BY <2>1 DEF DropIgnored, ResolvePath
  <2> HIDE DEF new
  <2>3. \A k \in Names : k # n => new[k] = t[k]
    BY <1>2, <2>2
  <2>4. ASSUME NEW q \in Paths, Apart(q, path) PROVE FindEntry(new, q) = FindEntry(t, q)
    <3>1. ASSUME NEW k \in Names, q = <<k>> PROVE FindEntry(new, q) = FindEntry(t, q)
      <4>1. q[1] = k
        BY <3>1
      <4>2. new[k] = t[k]
        BY <2>1, <2>3, <2>4, <4>1 DEF Apart
      <4> QED BY <3>1, <4>2, FindFile
    <3>2. ASSUME NEW k \in Names, NEW l \in Names, q = <<k, l>>
          PROVE  FindEntry(new, q) = FindEntry(t, q)
      <4>1. q[1] = k
        BY <3>2
      <4>2. new[k] = t[k]
        BY <2>1, <2>3, <2>4, <4>1 DEF Apart
      <4> QED BY <3>2, <4>2, FindBelow
    <3> QED BY <3>1, <3>2, PathShape
  <2> QED BY <1>1, <1>3, <2>2, <2>4
<1>5. ASSUME NEW n \in Names, NEW m \in Names, path = <<n, m>>, ~IsTree(t[n])
      PROVE  new = t /\ ~Present(FindEntry(t, path))
  <2>1. Len(path) = 2 /\ path[1] = n
    BY <1>5
  <2>2. SubTree(t[n])[m] = NoEntry
    BY <1>5, NothingBelow
  <2> QED BY <1>1, <1>5, <2>1, <2>2, FindBelow DEF DropIgnored
<1>6. ASSUME NEW n \in Names, NEW m \in Names, path = <<n, m>>, IsTree(t[n])
      PROVE  /\ new = ResolvePath(t, path, NoEntry)
             /\ \A q \in Paths : Apart(q, path) => FindEntry(new, q) = FindEntry(t, q)
  <2> DEFINE sub == [SubTree(t[n]) EXCEPT ![m] = NoEntry]
             x == IF sub = EmptyTree THEN NoEntry ELSE Dir(sub)
  <2>1. Len(path) = 2 /\ Len(path) # 1 /\ path[1] = n /\ path[2] = m
    BY <1>6
  <2>2. new = ResolvePath(t, path, NoEntry)
    BY <1>6, <2>1 DEF DropIgnored
  <2>3. new = [t EXCEPT ![n] = x]
    BY <2>1, <2>2 DEF ResolvePath
  <2>4. DOMAIN SubTree(t[n]) = Names
    BY SubTreeIsTotal
  <2>5. \A l \in Names : SubTree(x)[l] = sub[l]
    <3>1. CASE sub = EmptyTree
      <4>1. \A l \in Names : sub[l] = NoEntry
        BY <3>1 DEF EmptyTree
      <4>2. x = NoEntry /\ \A l \in Names : SubTree(x)[l] = NoEntry
        BY <1>1, <3>1, NothingBelow
      <4> QED BY <4>1, <4>2
    <3>2. CASE sub # EmptyTree
      <4> HIDE DEF sub
      <4> QED BY <3>2 DEF SubTree, Dir, IsTree
    <3> QED BY <3>1, <3>2
  <2>6. \A l \in Names : l # m => sub[l] = SubTree(t[n])[l]
    BY <2>4
  <2> HIDE DEF new, x, sub
  <2>7. new[n] = x /\ \A k \in Names : k # n => new[k] = t[k]
    BY <1>2, <2>3
  <2>8. ASSUME NEW q \in Paths, Apart(q, path) PROVE FindEntry(new, q) = FindEntry(t, q)
    <3>1. ASSUME NEW k \in Names, q = <<k>> PROVE FindEntry(new, q) = FindEntry(t, q)
      <4>1. q[1] = k /\ Len(q) = 1
        BY <3>1
      <4>2. new[k] = t[k]
        BY <2>1, <2>7, <2>8, <4>1 DEF Apart
      <4> QED BY <3>1, <4>2, FindFile
    <3>2. ASSUME NEW k \in Names, NEW l \in Names, q = <<k, l>>
          PROVE  FindEntry(new, q) = FindEntry(t, q)
      <4>1. FindEntry(new, q) = SubTree(new[k])[l] /\ FindEntry(t, q) = SubTree(t[k])[l]
        BY <3>2, FindBelow
      <4>2. q[1] = k
        BY <3>2
      <4>3. CASE k # n
        BY <2>7, <4>1, <4>3
      <4>4. CASE k = n
        <5>1. l # m
          BY <1>6, <2>1, <2>8, <3>2, <4>2, <4>4 DEF Apart
        <5> QED BY <2>5, <2>6, <2>7, <4>1, <4>4, <5>1
      <4> QED BY <4>3, <4>4
    <3> QED BY <3>1, <3>2, PathShape
  <2> QED BY <2>2, <2>8
<1> HIDE DEF new
<1>7. CASE \E n \in Names : path = <<n>>
  BY <1>4, <1>7 DEF new
<1>8. CASE \E n, m \in Names : path = <<n, m>>
  <2>1. PICK n \in Names, m \in Names : path = <<n, m>>
    BY <1>8
  <2>2. CASE IsTree(t[n])
    BY <1>1, <1>3, <1>6, <2>1, <2>2 DEF new
  <2>3. CASE ~IsTree(t[n])
    BY <1>5, <2>1, <2>3 DEF new
  <2> QED BY <2>2, <2>3
<1> QED BY <1>7, <1>8, PathShape

-----------------------------------------------------------------------------
(* A process goes on, begins or gives up: what it is still to write is shaped. *)
LEMMA TreesGoOn ==
  ASSUME IInv, TreesAreShaped, NEW p \in Procs, Running(p), NEW more, IsSeq(more),
         Continue(p, more), \A st \in Stmts(more) : WritesTrees(st),
         \A s \in snapshots' : Shaped(s.tree)
  PROVE  TreesAreShaped'
<1>1. /\ proc'[p].before = proc[p].before /\ proc'[p].todo = more \o Tail(proc[p].todo)
  BY GoesOnAs DEF SameJob
<1>2. \A q \in Procs : q # p => proc'[q] = proc[q]
  <2>1. proc = [q \in Procs |-> proc[q]]
    BY DEF IInv, ProcsOK
  <2> QED BY <2>1 DEF Continue
<1>3. IsSeq(proc[p].todo) /\ proc[p].todo # <<>>
  BY DEF IInv, ProcsOK, ProcOK, PlanOK, Running, Todo
<1>4. \A st \in Stmts(proc'[p].todo) : WritesTrees(st)
  <2>1. Stmts(proc'[p].todo) = Stmts(more) \cup Stmts(Tail(proc[p].todo))
    BY <1>1, <1>3, StmtsGoOn
  <2>2. Stmts(Tail(proc[p].todo)) \subseteq Stmts(proc[p].todo)
    BY <1>3, FewSeq, StmtsGoOn
  <2> QED BY <2>1, <2>2 DEF TreesAreShaped
<1> QED BY <1>1, <1>2, <1>4 DEF TreesAreShaped

LEMMA TreesStart ==
  ASSUME IInv, TreesAreShaped, NEW p \in Procs, NEW op, NEW id, NEW todo,
         Start(p, op, id, todo), \A st \in Stmts(todo) : WritesTrees(st)
  PROVE  TreesAreShaped'
<1>1. proc'[p].before = revisions /\ proc'[p].todo = todo
  BY StartIs
<1>2. \A q \in Procs : q # p => proc'[q] = proc[q]
  <2>1. proc = [q \in Procs |-> proc[q]]
    BY DEF IInv, ProcsOK
  <2> QED BY <2>1 DEF Start
<1>3. \A d \in DOMAIN revisions : Shaped(revisions[d].hash.tree)
  BY CurrentFacts DEF TreesAreShaped, Known, Current
<1>4. snapshots' = snapshots
  BY DEF Start, store
<1> QED BY <1>1, <1>2, <1>3, <1>4 DEF TreesAreShaped

LEMMA TreesAbort ==
  ASSUME IInv, TreesAreShaped, NEW p \in Procs, Abort(p), snapshots' = snapshots
  PROVE  TreesAreShaped'
<1>1. proc'[p] = Idle /\ \A q \in Procs : q # p => proc'[q] = proc[q]
  <2>1. proc = [q \in Procs |-> proc[q]]
    BY DEF IInv, ProcsOK
  <2> QED BY <2>1 DEF Abort
<1>2. Stmts(Idle.todo) = {} /\ DOMAIN Idle.before = {}
  <2>1. Idle.todo = <<>> /\ Idle.before = <<>> /\ DOMAIN <<>> = {}
    BY DEF Idle
  <2>2. Stmts(<<>>) = {}
    BY StmtsOfFew
  <2> QED BY <2>1, <2>2
<1> QED BY <1>1, <1>2 DEF TreesAreShaped

(* The next statement writes a shaped tree. *)
LEMMA WritesTreesNow ==
  ASSUME IInv, TreesAreShaped, NEW p \in Procs, Running(p)
  PROVE  WritesTrees(Stmt(p))
<1>1. IsSeq(proc[p].todo) /\ proc[p].todo # <<>>
  BY DEF IInv, ProcsOK, ProcOK, PlanOK, Running, Todo
<1>2. Head(proc[p].todo) \in Stmts(proc[p].todo)
  BY <1>1, FewSeq, StmtsGoOn
<1> QED BY <1>1, <1>2 DEF TreesAreShaped, Stmt, Todo

(* What a working directory holds is shaped like what was checked out. *)
LEMMA EditsAreShaped ==
  ASSUME NEW t, Shaped(t), NEW tree \in Edits(t)
  PROVE  Shaped(tree)
<1>1. CASE tree = t
  BY <1>1
<1>2. ASSUME NEW path \in Paths, NEW e \in {NoEntry} \cup {Blob(b) : b \in Blobs},
             tree = ResolvePath(t, path, e)
      PROVE  Shaped(tree)
  <2>1. ~IsTree(e)
    BY DEF IsTree, NoEntry, Blob
  <2> QED BY <1>2, <2>1, ResolvedTree
<1> QED BY <1>1, <1>2 DEF Edits

-----------------------------------------------------------------------------
(* Plans that write shaped trees. *)
LEMMA TreePlans ==
  ASSUME NEW s, NEW id, NEW row, NEW expect, NEW h
  PROVE  /\ Shaped(s.tree) => WritesTrees(PutSnapshot(s))
         /\ WritesTrees(PutOver(id, expect, row)) /\ WritesTrees(Repoint(id, expect, h))
BY DEF WritesTrees, PutSnapshot, PutOver, Repoint

LEMMA RefPlans ==
  ASSUME NEW name, NEW kind, NEW id
  PROVE  WritesTrees(PutRef(name, kind, id)) /\ WritesTrees(TagOrFail(name, id))
BY DEF WritesTrees, PutRef, TagOrFail

LEMMA ReadPlans ==
  ASSUME NEW ids, NEW onto
  PROVE  WritesTrees(RebaseRest(ids, onto)) /\ WritesTrees(SquashInto(onto))
BY DEF WritesTrees, RebaseRest, SquashInto

LEMMA CommandsBeginShaped ==
  ASSUME IInv, TreesAreShaped, NEW p \in Procs, Begin(p)
  PROVE  TreesAreShaped'
<1>1. ASSUME NEW a, NEW op, NEW id, Start(p, op, id, <<a>>), WritesTrees(a)
      PROVE  TreesAreShaped'
  <2>1. \A st \in Stmts(<<a>>) : WritesTrees(st)
    <3>1. Stmts(<<a>>) = {a}
      BY StmtsOfFew
    <3> QED BY <1>1, <3>1
  <2> QED BY <1>1, <2>1, TreesStart
<1>2. ASSUME NEW a, NEW b, NEW op, NEW id, Start(p, op, id, <<a, b>>), WritesTrees(a), WritesTrees(b)
      PROVE  TreesAreShaped'
  <2>1. \A st \in Stmts(<<a, b>>) : WritesTrees(st)
    <3>1. Stmts(<<a, b>>) = {a, b}
      BY StmtsOfFew
    <3> QED BY <1>2, <3>1
  <2> QED BY <1>2, <2>1, TreesStart
<1>3. ASSUME NEW a, NEW b, NEW c, NEW op, NEW id, Start(p, op, id, <<a, b, c>>),
             WritesTrees(a), WritesTrees(b), WritesTrees(c)
      PROVE  TreesAreShaped'
  <2>1. \A st \in Stmts(<<a, b, c>>) : WritesTrees(st)
    BY <1>3, Few3
  <2> QED BY <1>3, <2>1, TreesStart
<1>4. \A id \in Known : Shaped(Current(id).tree)
  BY CurrentFacts DEF TreesAreShaped
<1>5. ASSUME NEW parents, CommitNew(p, parents),
             Shaped(IF parents = <<>> THEN EmptyTree ELSE parents[1].tree)
      PROVE  TreesAreShaped'
  <2>1. PICK tree \in Edits(IF parents = <<>> THEN EmptyTree ELSE parents[1].tree) :
          LET s == Snapshot(nextId, parents, tree, "commit")
          IN  Fresh /\ Start(p, "commit", nextId, <<Commit(nextId, Row(s, None))>>)
    BY <1>5 DEF CommitNew
  <2>2. Shaped(tree)
    BY <1>5, <2>1, EditsAreShaped
  <2> DEFINE st == Commit(nextId, Row(Snapshot(nextId, parents, tree, "commit"), None))
  <2>3. WritesTrees(st)
    BY <2>2 DEF WritesTrees, Commit, Row, Snapshot
  <2>4. Start(p, "commit", nextId, <<st>>)
    BY <2>1
  <2> HIDE DEF st
  <2> QED BY <1>1, <2>3, <2>4
<1>6. CASE CommitRoot(p)
  BY <1>5, <1>6, EmptyIsShaped DEF CommitRoot
<1>7. ASSUME NEW id \in Known, CommitOn(p, id) PROVE TreesAreShaped'
  <2> DEFINE parents == <<Current(id)>>
  <2>1. parents # <<>> /\ parents[1] = Current(id)
    OBVIOUS
  <2>2. CommitNew(p, parents)
    BY <1>7 DEF CommitOn
  <2> HIDE DEF parents
  <2> QED BY <1>4, <1>5, <2>1, <2>2
<1>8. ASSUME NEW id \in Known, CommitCurrent(p, id) \/ Amend(p, id) PROVE TreesAreShaped'
  <2>1. PICK tree, desc, again :
          /\ tree \in Edits(Current(id).tree)
          /\ Start(p, "amend", id, <<AmendWith(id, tree, desc, again)>>)
    BY <1>8 DEF CommitCurrent, Amend
  <2>2. WritesTrees(AmendWith(id, tree, desc, again))
    BY <1>4, <2>1, EditsAreShaped DEF WritesTrees, AmendWith
  <2> QED BY <1>1, <2>1, <2>2
<1>9. ASSUME NEW id \in Known, Drop(p, id) PROVE TreesAreShaped'
  <2>1. PICK order : Start(p, "drop", id, <<RebaseRest(order, Parent(Current(id)))>>)
    BY <1>9 DEF Drop
  <2> QED BY <1>1, <2>1, ReadPlans
<1>10. ASSUME NEW id \in Known, Squash(p, id) PROVE TreesAreShaped'
  <2>1. Start(p, "squash", Parent(Current(id)).rev, <<SquashInto(Current(id))>>)
    BY <1>10 DEF Squash
  <2> QED BY <1>1, <2>1, ReadPlans
<1>11. ASSUME NEW id \in Known, NEW onto, Rebase(p, id, onto) PROVE TreesAreShaped'
  <2>1. Start(p, "rebase", id, <<RebaseRest(<<id>>, onto)>>)
    BY <1>11 DEF Rebase
  <2> QED BY <1>1, <2>1, ReadPlans
<1>12. ASSUME NEW id \in Known, NEW onto, Revert(p, id, onto) PROVE TreesAreShaped'
  <2> DEFINE tree == MergeTrees(Current(id).tree, BaseTree(Current(id)), onto.tree)
             s == Snapshot(nextId, <<onto>>, tree, "revert")
  <2>1. Start(p, "revert", nextId, <<PutSnapshot(s), PutRevision(nextId, Row(s, None))>>)
    BY <1>12 DEF Revert
  <2>2. Shaped(s.tree)
    BY MergeIsShaped DEF Snapshot
  <2> HIDE DEF s
  <2>3. WritesTrees(PutSnapshot(s)) /\ WritesTrees(PutRevision(nextId, Row(s, None)))
    BY <2>2, TreePlans DEF PutRevision
  <2> QED BY <1>2, <2>1, <2>3
<1>13. ASSUME NEW id \in Known, NEW path \in Paths, Resolve(p, id, path) PROVE TreesAreShaped'
  <2>1. PICK e, list :
          /\ ~IsTree(e)
          /\ Start(p, "resolve", id,
                   <<PutSnapshot(Resolution(Current(id), path, e)),
                     Repoint(id, {Current(id)}, Resolution(Current(id), path, e)),
                     RepairRest(list, path, e)>>)
    BY <1>13 DEF Resolve, IsTree, Chosen, Blob
  <2> DEFINE s == Resolution(Current(id), path, e)
  <2>2. Shaped(s.tree)
    BY <1>4, <2>1, ResolvedTree DEF Resolution, WithTree, Snapshot
  <2>3. WritesTrees(RepairRest(list, path, e))
    BY <2>1 DEF WritesTrees, RepairRest
  <2> HIDE DEF s
  <2>4. WritesTrees(PutSnapshot(s)) /\ WritesTrees(Repoint(id, {Current(id)}, s))
    BY <2>2, TreePlans
  <2>5. Start(p, "resolve", id,
              <<PutSnapshot(s), Repoint(id, {Current(id)}, s), RepairRest(list, path, e)>>)
    BY <2>1 DEF s
  <2> QED BY <1>3, <2>3, <2>4, <2>5
<1>14. ASSUME NEW id \in Known, NEW path \in Paths, RewriteIgnored(p, id, path)
       PROVE  TreesAreShaped'
  <2>1. Start(p, "ignore", id, <<Visit(Current(id), path)>>)
    BY <1>14 DEF RewriteIgnored
  <2>2. WritesTrees(Visit(Current(id), path))
    BY DEF WritesTrees, Visit
  <2> QED BY <1>1, <2>1, <2>2
<1>15. ASSUME NEW id \in Known, NEW desc, SetDescription(p, id, desc) PROVE TreesAreShaped'
  <2> DEFINE cur == Current(id)
             s == Snapshot(cur.rev, cur.parents, cur.tree, desc)
             row == Row(s, revisions[id].forkFrom)
  <2>1. Start(p, "message", id, <<PutSnapshot(s), PutRevision(id, row)>>)
    BY <1>15 DEF SetDescription
  <2>2. Shaped(s.tree)
    BY <1>4 DEF Snapshot
  <2> HIDE DEF s, row
  <2>3. WritesTrees(PutSnapshot(s)) /\ WritesTrees(PutRevision(id, row))
    BY <2>2, TreePlans DEF PutRevision
  <2> QED BY <1>2, <2>1, <2>3
<1>16. ASSUME NEW id \in Known, NEW name, Branch(p, name, id) PROVE TreesAreShaped'
  <2>1. CASE name \in DOMAIN refs /\ refs[name].kind = "branch"
    <3>1. Start(p, "branch", id, <<PutRef(name, "branch", refs[name].target)>>)
      BY <1>16, <2>1 DEF Branch
    <3> QED BY <1>1, <3>1, RefPlans
  <2>2. CASE ~(name \in DOMAIN refs /\ refs[name].kind = "branch")
    <3> DEFINE cur == Current(id)
               s == Snapshot(nextId, cur.parents, cur.tree, cur.desc)
    <3>1. Start(p, "branch", nextId,
                <<PutSnapshot(s), PutRevision(nextId, Row(s, id)), PutRef(name, "branch", nextId)>>)
      BY <1>16, <2>2 DEF Branch
    <3>2. Shaped(s.tree)
      BY <1>4 DEF Snapshot
    <3> HIDE DEF s
    <3>3. WritesTrees(PutSnapshot(s)) /\ WritesTrees(PutRevision(nextId, Row(s, id)))
          /\ WritesTrees(PutRef(name, "branch", nextId))
      BY <3>2, TreePlans, RefPlans DEF PutRevision
    <3> QED BY <1>3, <3>1, <3>3
  <2> QED BY <2>1, <2>2
<1>17. ASSUME NEW id \in Known, NEW name, Tag(p, name, id) PROVE TreesAreShaped'
  <2>1. Start(p, "tag", id, <<TagOrFail(name, id)>>)
    BY <1>17 DEF Tag
  <2> QED BY <1>1, <2>1, RefPlans
<1>18. ASSUME NEW name, DeleteRef(p, name) PROVE TreesAreShaped'
  BY <1>18 DEF DeleteRef, TreesAreShaped
<1> QED BY <1>6, <1>7, <1>8, <1>9, <1>10, <1>11, <1>12, <1>13, <1>14, <1>15, <1>16, <1>17, <1>18
    DEF Begin

(***************************************************************************)
(* Executing a statement leaves shaped trees behind it.                    *)
(***************************************************************************)
LEMMA CommandsGoOnShaped ==
  ASSUME IInv, TreesAreShaped, NEW p \in Procs, Execute(p)
  PROVE  TreesAreShaped'
<1> DEFINE st == Stmt(p)
<1>0. \A s \in snapshots : Shaped(s.tree)
  BY DEF TreesAreShaped
<1>1. ASSUME Running(p), Continue(p, <<>>), \A s \in snapshots' : Shaped(s.tree)
      PROVE  TreesAreShaped'
  <2>1. Stmts(<<>>) = {} /\ IsSeq(<<>>)
    BY StmtsOfFew, FewSeq
  <2> QED BY <1>1, <2>1, TreesGoOn
<1>2. ASSUME NEW a, Running(p), Continue(p, <<a>>), WritesTrees(a), snapshots' = snapshots
      PROVE  TreesAreShaped'
  <2>1. Stmts(<<a>>) = {a} /\ IsSeq(<<a>>)
    BY StmtsOfFew, FewSeq
  <2> QED BY <1>0, <1>2, <2>1, TreesGoOn
<1>3. ASSUME NEW a, NEW b, Running(p), Continue(p, <<a, b>>), WritesTrees(a), WritesTrees(b),
             snapshots' = snapshots
      PROVE  TreesAreShaped'
  <2>1. Stmts(<<a, b>>) = {a, b}
    BY StmtsOfFew
  <2>2. IsSeq(<<a, b>>)
    BY FewSeq
  <2> QED BY <1>0, <1>3, <2>1, <2>2, TreesGoOn
<1>4. ASSUME NEW a, NEW b, NEW c, Running(p), Continue(p, <<a, b, c>>),
             WritesTrees(a), WritesTrees(b), WritesTrees(c), snapshots' = snapshots
      PROVE  TreesAreShaped'
  <2>1. Stmts(<<a, b, c>>) = {a, b, c} /\ IsSeq(<<a, b, c>>)
    BY Few3
  <2> QED BY <1>0, <1>4, <2>1, TreesGoOn
<1>5. CASE DoPutSnapshot(p)
  <2>1. Running(p) /\ st.do = "snapshot" /\ snapshots' = snapshots \cup {st.snap} /\ Continue(p, <<>>)
    BY <1>5 DEF DoPutSnapshot
  <2>2. Shaped(st.snap.tree)
    BY <2>1, WritesTreesNow DEF WritesTrees
  <2> QED BY <1>0, <1>1, <2>1, <2>2
<1>6. CASE DoPutRevision(p) \/ DoPutRef(p)
  BY <1>0, <1>1, <1>6 DEF DoPutRevision, DoPutRef
<1>7. CASE DoCommit(p)
  <2>1. Running(p) /\ st.do = "commit" /\ snapshots' = snapshots \cup {st.row.hash} /\ Continue(p, <<>>)
    BY <1>7 DEF DoCommit
  <2>2. Shaped(st.row.hash.tree)
    BY <2>1, WritesTreesNow DEF WritesTrees
  <2> QED BY <1>0, <1>1, <2>1, <2>2
<1>8. CASE DoRepoint(p)
  <2> DEFINE put == PutOver(st.id, st.expect, Row(st.hash, revisions[st.id].forkFrom))
  <2>1. Running(p) /\ snapshots' = snapshots /\ (Abort(p) \/ Continue(p, <<put>>))
    BY <1>8 DEF DoRepoint, store
  <2>2. WritesTrees(put)
    BY TreePlans
  <2> HIDE DEF put
  <2> QED BY <1>2, <2>1, <2>2, TreesAbort
<1>9. CASE DoRebase(p)
  <2> DEFINE cur == Current(Head(st.ids))
             new == Rebased(cur, st.onto)
             row == Row(new, revisions[Head(st.ids)].forkFrom)
             a == PutSnapshot(new)
             b == Repoint(Head(st.ids), {cur}, new)
             c == PutRevision(Head(st.ids), row)
             d == RebaseRest(Tail(st.ids), new)
             rest == IF Len(st.ids) > 1 THEN <<d>> ELSE <<>>
             more == <<a, b, c>> \o rest
  <2>1. Running(p) /\ snapshots' = snapshots /\ Continue(p, more)
    BY <1>9 DEF DoRebase, store
  <2>2. Shaped(new.tree)
    BY MergeIsShaped DEF Rebased, Snapshot
  <2> HIDE DEF new, row
  <2>3. WritesTrees(a) /\ WritesTrees(b) /\ WritesTrees(c) /\ WritesTrees(d)
    BY <2>2, TreePlans, ReadPlans DEF PutRevision
  <2> HIDE DEF a, b, c, d
  <2>4. more = IF Len(st.ids) > 1 THEN <<a, b, c, d>> ELSE <<a, b, c>>
    <3>1. CASE Len(st.ids) > 1
      <4>1. <<a, b, c>> \o <<d>> = <<a, b, c, d>>
        BY LastOfFour
      <4> QED BY <3>1, <4>1
    <3>2. CASE ~(Len(st.ids) > 1)
      <4>1. <<a, b, c>> \o <<>> = <<a, b, c>>
        OBVIOUS
      <4> QED BY <3>2, <4>1
    <3> QED BY <3>1, <3>2
  <2>5. Stmts(<<a, b, c>>) = {a, b, c} /\ IsSeq(<<a, b, c>>)
    BY Few3
  <2>6. Stmts(<<a, b, c, d>>) = {a, b, c, d} /\ IsSeq(<<a, b, c, d>>)
    BY Few4
  <2> HIDE DEF more
  <2>7. IsSeq(more) /\ \A x \in Stmts(more) : WritesTrees(x)
    <3>1. CASE Len(st.ids) > 1
      BY <2>3, <2>4, <2>6, <3>1
    <3>2. CASE ~(Len(st.ids) > 1)
      BY <2>3, <2>4, <2>5, <3>2
    <3> QED BY <3>1, <3>2
  <2> QED BY <1>0, <2>1, <2>7, TreesGoOn
<1>10. CASE DoAmend(p)
  <2> DEFINE new == Snapshot(st.id, Current(st.id).parents, st.tree, st.desc)
             a == Commit(st.id, Row(new, None))
             b == Repoint(st.id, {}, new)
  <2>1. /\ Running(p) /\ st.do = "amend" /\ snapshots' = snapshots
        /\ Continue(p, <<a>> \o (IF st.again THEN <<b>> ELSE <<>>))
    BY <1>10 DEF DoAmend, store
  <2>2. Shaped(new.tree)
    BY <2>1, WritesTreesNow DEF WritesTrees, Snapshot
  <2> HIDE DEF new
  <2>3. WritesTrees(a) /\ WritesTrees(b)
    <3>1. WritesTrees(b)
      BY TreePlans
    <3>2. WritesTrees(a)
      BY <2>2 DEF WritesTrees, Commit, Row
    <3> QED BY <3>1, <3>2
  <2> HIDE DEF a, b
  <2>4. <<a>> \o <<b>> = <<a, b>> /\ <<a>> \o <<>> = <<a>>
    <3>1. <<a>> \o <<>> = <<a>>
      OBVIOUS
    <3> QED BY <3>1, LastOfTwo
  <2>5. Continue(p, <<a, b>>) \/ Continue(p, <<a>>)
    <3>1. CASE st.again
      <4>1. Continue(p, <<a>> \o <<b>>)
        BY <2>1, <3>1
      <4> QED BY <2>4, <4>1
    <3>2. CASE ~st.again
      <4>1. Continue(p, <<a>> \o <<>>)
        BY <2>1, <3>2
      <4> QED BY <2>4, <4>1
    <3> QED BY <3>1, <3>2
  <2> QED BY <1>2, <1>3, <2>1, <2>3, <2>5
<1>11. CASE DoSquash(p)
  <2> DEFINE c == st.child
             old == Parent(c)
             new == WithTree(old, MergeTrees(old.tree, old.tree, c.tree))
             a == PutSnapshot(new)
             b == Repoint(old.rev, {Current(old.rev)}, new)
  <2>1. Running(p) /\ snapshots' = snapshots /\ (Abort(p) \/ Continue(p, <<a, b>>))
    BY <1>11 DEF DoSquash, store
  <2>2. Shaped(new.tree)
    BY MergeIsShaped DEF WithTree, Snapshot
  <2> HIDE DEF new
  <2>3. WritesTrees(a) /\ WritesTrees(b)
    BY <2>2, TreePlans
  <2> HIDE DEF a, b
  <2> QED BY <1>3, <2>1, <2>3, TreesAbort
<1>12. CASE DoRepair(p)
  <2> DEFINE d == Head(st.list)
             new == Resolution(d, st.path, st.entry)
             a == PutSnapshot(new)
             b == Repoint(d.rev, {}, new)
             c == RepairRest(Tail(st.list), st.path, st.entry)
  <2>1. /\ Running(p) /\ st.do = "repair" /\ snapshots' = snapshots
        /\ Continue(p, IF st.list = <<>> THEN <<>> ELSE <<a, b, c>>)
    BY <1>12 DEF DoRepair, store
  <2>2. CASE st.list = <<>>
    BY <1>0, <1>1, <2>1, <2>2
  <2>3. CASE st.list # <<>>
    <3>1. st.path \in Paths /\ ~IsTree(st.entry)
      BY <2>1, WritesTreesNow DEF WritesTrees
    <3>2. d \in snapshots
      <4>1. st.list \in Seq({s \in snapshots : s.rev \in Known})
        BY <2>1, StmtIsSound DEF Sound
      <4> QED BY <2>3, <4>1
    <3>3. Shaped(new.tree)
      BY <1>0, <3>1, <3>2, ResolvedTree DEF Resolution, WithTree, Snapshot
    <3>4. WritesTrees(c)
      BY <3>1 DEF WritesTrees, RepairRest
    <3> HIDE DEF new, d
    <3>5. WritesTrees(a) /\ WritesTrees(b)
      BY <3>3, TreePlans
    <3> HIDE DEF a, b, c
    <3> QED BY <1>4, <2>1, <2>3, <3>4, <3>5
  <2> QED BY <2>2, <2>3
<1>13. CASE DoVisit(p)
  <2> DEFINE a == Visit(Parent(st.snap), st.path)
             b == Clean(st.snap, st.path)
             asks == ~IsRoot(st.snap) /\ Owned(p, Parent(st.snap))
  <2>1. /\ Running(p) /\ st.do = "visit" /\ snapshots' = snapshots
        /\ Continue(p, (IF asks THEN <<a>> ELSE <<>>) \o <<b>>)
    BY <1>13 DEF DoVisit, store
  <2>2. st.path \in Paths
    BY <2>1, WritesTreesNow DEF WritesTrees
  <2>3. WritesTrees(a) /\ WritesTrees(b)
    BY <2>2 DEF WritesTrees, Visit, Clean
  <2> HIDE DEF a, b, asks
  <2>4. <<a>> \o <<b>> = <<a, b>> /\ <<>> \o <<b>> = <<b>>
    <3>1. <<>> \o <<b>> = <<b>>
      OBVIOUS
    <3> QED BY <3>1, LastOfTwo
  <2>5. Continue(p, <<a, b>>) \/ Continue(p, <<b>>)
    <3>1. CASE asks
      <4>1. Continue(p, <<a>> \o <<b>>)
        BY <2>1, <3>1
      <4> QED BY <2>4, <4>1
    <3>2. CASE ~asks
      <4>1. Continue(p, <<>> \o <<b>>)
        BY <2>1, <3>2
      <4> QED BY <2>4, <4>1
    <3> QED BY <3>1, <3>2
  <2> QED BY <1>2, <1>3, <2>1, <2>3, <2>5
<1>14. CASE DoClean(p)
  <2> DEFINE s == st.snap
             memo == proc[p].memo
             onto == IF ~IsRoot(s) /\ Parent(s) \in DOMAIN memo THEN <<memo[Parent(s)]>> ELSE s.parents
             new == Snapshot(s.rev, onto, DropIgnored(s.tree, st.path), s.desc)
             a == PutSnapshot(new)
             b == Repoint(s.rev, {}, new)
             more == IF new = s THEN <<>> ELSE <<a, b>>
             kept == Upsert(memo, s, new)
             plan == more \o Tail(proc[p].todo)
  <2>1. /\ Running(p) /\ st.do = "clean" /\ snapshots' = snapshots
        /\ proc' = [proc EXCEPT ![p].memo = kept, ![p].todo = plan]
    BY <1>14 DEF DoClean, store
  <2>2. s \in snapshots /\ st.path \in Paths
    BY <2>1, StmtIsSound, WritesTreesNow DEF Sound, WritesTrees
  <2>3. Shaped(new.tree)
    BY <1>0, <2>2, DroppedTree DEF Snapshot
  <2> HIDE DEF new, kept, plan
  <2>4. WritesTrees(a) /\ WritesTrees(b)
    BY <2>3, TreePlans
  <2> HIDE DEF a, b
  <2>5. proc'[p].before = proc[p].before /\ proc'[p].todo = plan
    <3>1. proc = [q \in Procs |-> proc[q]]
      BY DEF IInv, ProcsOK
    <3>2. proc[p] = [op |-> proc[p].op, id |-> proc[p].id, before |-> proc[p].before,
                     memo |-> proc[p].memo, first |-> proc[p].first,
                     todo |-> proc[p].todo]
      BY DEF IInv, ProcsOK, ProcOK
    <3> QED BY <2>1, <3>1, <3>2
  <2>6. \A q \in Procs : q # p => proc'[q] = proc[q]
    <3>1. proc = [q \in Procs |-> proc[q]]
      BY DEF IInv, ProcsOK
    <3> QED BY <2>1, <3>1
  <2>7. IsSeq(proc[p].todo) /\ proc[p].todo # <<>>
    BY <2>1 DEF IInv, ProcsOK, ProcOK, PlanOK, Running, Todo
  <2>8. IsSeq(more) /\ \A x \in Stmts(more) : WritesTrees(x)
    <3>1. Stmts(<<>>) = {} /\ IsSeq(<<>>) /\ IsSeq(<<a, b>>)
      BY StmtsOfFew, FewSeq
    <3>2. Stmts(<<a, b>>) = {a, b}
      BY StmtsOfFew
    <3> QED BY <2>4, <3>1, <3>2
  <2> HIDE DEF more
  <2>9. \A x \in Stmts(plan) : WritesTrees(x)
    <3>1. Stmts(plan) = Stmts(more) \cup Stmts(Tail(proc[p].todo))
      BY <2>7, <2>8, StmtsGoOn DEF plan
    <3>2. Stmts(Tail(proc[p].todo)) \subseteq Stmts(proc[p].todo)
      BY <2>7, <2>8, StmtsGoOn
    <3> QED BY <2>8, <3>1, <3>2 DEF TreesAreShaped
  <2>10. \A x \in snapshots' : Shaped(x.tree)
    BY <1>0, <2>1
  <2>11. ASSUME NEW q \in Procs
         PROVE  /\ \A x \in Stmts(proc'[q].todo) : WritesTrees(x)
                /\ \A d \in DOMAIN proc'[q].before : Shaped(proc'[q].before[d].hash.tree)
    <3>1. CASE q = p
      <4>1. \A d \in DOMAIN proc[p].before : Shaped(proc[p].before[d].hash.tree)
        BY DEF TreesAreShaped
      <4> QED BY <2>5, <2>9, <3>1, <4>1
    <3>2. CASE q # p
      <4>1. proc'[q] = proc[q]
        BY <2>6, <3>2
      <4> QED BY <4>1 DEF TreesAreShaped
    <3> QED BY <3>1, <3>2
  <2> QED BY <2>10, <2>11 DEF TreesAreShaped
<1>15. CASE DoTag(p)
  <2> DEFINE a == PutRef(st.name, "tag", st.target)
  <2>1. Running(p) /\ snapshots' = snapshots /\ (Abort(p) \/ Continue(p, <<a>>))
    BY <1>15 DEF DoTag, store
  <2>2. WritesTrees(a)
    BY RefPlans
  <2> HIDE DEF a
  <2> QED BY <1>2, <2>1, <2>2, TreesAbort
<1> QED BY <1>5, <1>6, <1>7, <1>8, <1>9, <1>10, <1>11, <1>12, <1>13, <1>14, <1>15 DEF Execute

LEMMA ShapesInvariance == Spec => [](IInv /\ TreesAreShaped)
<1>1. Init => IInv /\ TreesAreShaped
  <2>1. ASSUME Init PROVE TreesAreShaped
    <3>1. \A p \in Procs : proc[p] = Idle
      BY <2>1 DEF Init
    <3>2. Idle.todo = <<>> /\ Idle.before = <<>> /\ DOMAIN <<>> = {}
      BY DEF Idle
    <3>3. Stmts(<<>>) = {}
      BY StmtsOfFew
    <3> QED BY <2>1, <3>1, <3>2, <3>3 DEF Init, TreesAreShaped
  <2> QED BY <2>1, InitIInv
<1>2. (IInv /\ TreesAreShaped) /\ [Next]_vars => (IInv /\ TreesAreShaped)'
  <2> SUFFICES ASSUME IInv, TreesAreShaped, [Next]_vars PROVE TreesAreShaped'
    BY NextIInv
  <2>1. ASSUME NEW p \in Procs, Begin(p) \/ Execute(p) PROVE TreesAreShaped'
    BY <2>1, CommandsBeginShaped, CommandsGoOnShaped
  <2>2. ASSUME NEW p \in Procs, Crash(p) PROVE TreesAreShaped'
    BY <2>2, TreesAbort DEF Crash, store
  <2>3. CASE UNCHANGED vars
    BY <2>3 DEF vars, TreesAreShaped
  <2> QED BY <2>1, <2>2, <2>3 DEF Next
<1> QED BY <1>1, <1>2, PTL DEF Spec

-----------------------------------------------------------------------------
(***************************************************************************)
(* The revision and every child that carried its conflict get the same     *)
(* entry there; a conflict at another path stays as it was in all of them. *)
(***************************************************************************)
LEMMA SideSpreads ==
  ASSUME IInv, CommandsInv, TreesAreShaped
  PROVE  ResolutionPropagates
<1> SUFFICES ASSUME NEW p \in Procs, Done(p, "resolve"), NEW path \in Paths,
                    NEW d \in Under(p, Before(p, proc[p].id)),
                    IsConflict(FindEntry(Before(p, proc[p].id).tree, path)),
                    FindEntry(Before(p, d).tree, path) = FindEntry(Before(p, proc[p].id).tree, path)
             PROVE  FindEntry(Current(d).tree, path) = FindEntry(Current(proc[p].id).tree, path)
  BY DEF ResolutionPropagates
<1> DEFINE pr == proc[p]
           B == pr.before
           id == pr.id
           R == revisions
<1>1. pr.op = "resolve" /\ ~Running(p)
  BY DEF Done
<1>2. PICK w : /\ Working(pr, w, R)
               /\ \A x \in Must(pr, w) : Fits(pr, w, x, R[x].hash)
  BY <1>1, DoneFacts
<1>3. /\ CarriersIn(B, id, w)
      /\ \A x \in DOMAIN B : R[x] = B[x] \/ Fits(pr, w, x, R[x].hash)
  BY <1>1, <1>2 DEF Working, BeganWith
<1>4. \A x \in w.ids : R[x].hash = Resolution(B[x].hash, w.path, w.entry)
  BY <1>1, <1>2 DEF Must, Fits
<1>5. /\ d \in DOMAIN B /\ d \in UnderIn(B, B[id].hash)
      /\ IsConflict(FindEntry(B[id].hash.tree, path))
      /\ FindEntry(B[d].hash.tree, path) = FindEntry(B[id].hash.tree, path)
  BY DEF Under, UnderIn, Before
<1>6. \A x \in DOMAIN B : Shaped(B[x].hash.tree)
  BY DEF TreesAreShaped
<1>7. \A x \in DOMAIN B : Fits(pr, w, x, R[x].hash) => x \in w.ids
  BY <1>1 DEF Fits
<1>a. Current(d) = R[d].hash /\ Current(id) = R[id].hash
  BY DEF Current
<1> HIDE DEF pr, B, id, R
<1>8. /\ w.path \in Paths /\ ~IsTree(w.entry) /\ id \in w.ids /\ w.ids \subseteq DOMAIN B
      /\ IsConflict(FindEntry(B[id].hash.tree, w.path))
      /\ \A x \in w.ids : FindEntry(B[x].hash.tree, w.path) = FindEntry(B[id].hash.tree, w.path)
      /\ FindEntry(B[d].hash.tree, w.path) = FindEntry(B[id].hash.tree, w.path) => d \in w.ids
  BY <1>3, <1>5 DEF CarriersIn
<1>9. ASSUME NEW x \in w.ids, IsConflict(FindEntry(B[x].hash.tree, path))
      PROVE  FindEntry(R[x].hash.tree, path) =
               IF path = w.path THEN w.entry ELSE FindEntry(B[x].hash.tree, path)
  <2> DEFINE t == B[x].hash.tree
  <2>1. R[x].hash.tree = ResolvePath(t, w.path, w.entry)
    <3>1. R[x].hash = Resolution(B[x].hash, w.path, w.entry)
      BY <1>4
    <3> QED BY <3>1 DEF Resolution, WithTree, Snapshot
  <2>2. Shaped(t) /\ IsConflict(FindEntry(t, w.path))
    BY <1>6, <1>8
  <2>3. IsConflict(FindEntry(t, path))
    BY <1>9
  <2> HIDE DEF t
  <2>4. /\ FindEntry(ResolvePath(t, w.path, w.entry), w.path) = w.entry
        /\ path # w.path => FindEntry(ResolvePath(t, w.path, w.entry), path) = FindEntry(t, path)
    BY <1>8, <2>2, <2>3, ResolvedTree
  <2> QED BY <2>1, <2>4 DEF t
<1>10. FindEntry(R[id].hash.tree, path) =
         IF path = w.path THEN w.entry ELSE FindEntry(B[id].hash.tree, path)
  BY <1>5, <1>8, <1>9
<1>11. ASSUME d \in w.ids
       PROVE  FindEntry(R[d].hash.tree, path) = FindEntry(R[id].hash.tree, path)
  <2>1. IsConflict(FindEntry(B[d].hash.tree, path))
    BY <1>5
  <2>2. FindEntry(R[d].hash.tree, path) =
          IF path = w.path THEN w.entry ELSE FindEntry(B[d].hash.tree, path)
    BY <1>9, <1>11, <2>1
  <2> QED BY <1>5, <1>10, <2>2
<1>12. ASSUME d \notin w.ids
       PROVE  FindEntry(R[d].hash.tree, path) = FindEntry(R[id].hash.tree, path)
  <2>1. path # w.path /\ R[d] = B[d]
    BY <1>3, <1>5, <1>7, <1>8, <1>12
  <2> QED BY <1>5, <1>10, <2>1
<1>13. FindEntry(Current(d).tree, path) = FindEntry(Current(id).tree, path)
  BY <1>a, <1>11, <1>12
<1> QED BY <1>13 DEF id, pr

(***************************************************************************)
(* A resolution alone in the repository resolves the same conflict in the  *)
(* same way in every revision that stood on the resolved one.              *)
(***************************************************************************)
THEOREM ResolutionSpreads ==
  ASSUME OneProcess
  PROVE  Spec => []ResolutionPropagates
<1>1. IInv /\ CommandsInv /\ TreesAreShaped => ResolutionPropagates
  BY SideSpreads
<1> QED BY <1>1, CommandsInvariance, ShapesInvariance, PTL

-----------------------------------------------------------------------------
(***************************************************************************)
(* The memo holds a snapshot of every revision of the lineage: it holds    *)
(* one of the revision the rewrite is for and, with one of a revision, one *)
(* of its parent.                                                          *)
(***************************************************************************)
LEMMA LineageIsSeen ==
  ASSUME NEW p \in Procs, NEW w, proc[p].op = "ignore", proc[p].todo = <<>>,
         Working(proc[p], w, revisions)
  PROVE  \A d \in Ancestry(p) : proc[p].before[d].hash \in DOMAIN proc[p].memo
<1> DEFINE pr == proc[p]
           B == pr.before
           memo == pr.memo
           C == {x \in DOMAIN B : B[x].hash \in DOMAIN memo}
<1>1. /\ pr.id \in DOMAIN B /\ \A x \in DOMAIN B : B[x].hash.rev = x
      /\ MemoFits(pr, w) /\ TargetIsSeen(pr)
  BY DEF Working, BeganWith
<1>2. pr.id \in C
  <2>1. Stmts(pr.todo) = {}
    BY StmtsOfFew
  <2> QED BY <1>1, <2>1 DEF TargetIsSeen
<1>3. GoesBack(p, C)
  <2> SUFFICES ASSUME NEW d \in C, NEW e \in DOMAIN B, d \in Under(p, Before(p, e))
               PROVE  e \in C
    BY DEF GoesBack
  <2>1. ~IsRoot(B[d].hash) /\ Parent(B[d].hash) = B[e].hash
    BY DEF Under, Before
  <2>2. OwnedIn(B, B[e].hash)
    BY <1>1 DEF OwnedIn
  <2> QED BY <1>1, <2>1, <2>2 DEF MemoFits
<1>4. C \in SUBSET DOMAIN B
  OBVIOUS
<1> QED BY <1>2, <1>3, <1>4 DEF Ancestry

(***************************************************************************)
(* Every revision of the lineage is at the snapshot the memo holds for its *)
(* old one: without the ignored path, on what the memo holds for its       *)
(* parent.                                                                 *)
(***************************************************************************)
LEMMA LineageKept ==
  ASSUME IInv, CommandsInv, TreesAreShaped
  PROVE  IgnoreRewriteKeepsLineage
<1> SUFFICES ASSUME NEW p \in Procs, Done(p, "ignore"), NEW d \in Ancestry(p)
             PROVE  LET path == proc[p].first.path
                    IN  /\ ~Present(FindEntry(Current(d).tree, path))
                        /\ \A e \in DOMAIN proc[p].before :
                             d \in Under(p, Before(p, e)) => Parent(Current(d)) = Current(e)
                        /\ Current(d).desc = Before(p, d).desc
                        /\ \A q \in Paths : Apart(q, path) =>
                             FindEntry(Current(d).tree, q) = FindEntry(Before(p, d).tree, q)
  BY DEF IgnoreRewriteKeepsLineage
<1> DEFINE pr == proc[p]
           B == pr.before
           R == revisions
           memo == pr.memo
           s == B[d].hash
<1>1. pr.op = "ignore" /\ ~Running(p)
  BY DEF Done
<1>2. PICK w : /\ Working(pr, w, R) /\ pr.todo = <<>>
               /\ \A x \in Must(pr, w) : Fits(pr, w, x, R[x].hash)
  BY <1>1, DoneFacts
<1>3. /\ w \in Paths /\ w = pr.first.path /\ \A x \in DOMAIN B : B[x].hash.rev = x
      /\ MemoFits(pr, w)
  BY <1>1, <1>2 DEF Working, BeganWith
<1>4. \A x \in DOMAIN B : B[x].hash \in DOMAIN memo => R[x].hash = memo[B[x].hash]
  BY <1>1, <1>2 DEF Must, Fits
<1>5. d \in DOMAIN B /\ s \in DOMAIN memo
  BY <1>1, <1>2, LineageIsSeen DEF Ancestry
<1>6. /\ memo[s] = Cleaned(s, memo, w)
      /\ ~IsRoot(s) /\ OwnedIn(B, Parent(s)) => Parent(s) \in DOMAIN memo
  BY <1>3, <1>5 DEF MemoFits
<1>7. Current(d) = Cleaned(s, memo, w)
  BY <1>4, <1>5, <1>6 DEF Current
<1>8. Shaped(s.tree)
  BY <1>5 DEF TreesAreShaped
<1>9. Before(p, d) = s
  BY DEF Before
<1>10. ASSUME NEW e \in DOMAIN B, d \in Under(p, Before(p, e))
       PROVE  Parent(Current(d)) = Current(e)
  <2> DEFINE u == B[e].hash
  <2>1. ~IsRoot(s) /\ Parent(s) = u
    BY <1>10 DEF Under, Before
  <2>2. OwnedIn(B, u)
    BY <1>3 DEF OwnedIn
  <2>3. u \in DOMAIN memo /\ Current(e) = memo[u]
    BY <1>4, <1>6, <2>1, <2>2 DEF Current
  <2> HIDE DEF s, u, memo
  <2>4. Cleaned(s, memo, w).parents = <<memo[u]>>
    BY <2>1, <2>3 DEF Cleaned, Snapshot
  <2> QED BY <1>7, <2>3, <2>4 DEF Parent
<1> HIDE DEF s, memo
<1>11. Current(d).tree = DropIgnored(s.tree, w) /\ Current(d).desc = s.desc
  BY <1>7 DEF Cleaned, Snapshot
<1>12. /\ ~Present(FindEntry(Current(d).tree, w))
       /\ \A q \in Paths : Apart(q, w) =>
            FindEntry(Current(d).tree, q) = FindEntry(s.tree, q)
  BY <1>3, <1>8, <1>11, DroppedTree
<1> QED BY <1>3, <1>9, <1>10, <1>11, <1>12

(***************************************************************************)
(* The ignore rewrite, alone in the repository: no revision of the lineage *)
(* it was asked for, as it was when the rewrite began, holds the path when *)
(* it has ended, each stands on what its parent became, and nothing else   *)
(* of any of them is lost.                                                 *)
(***************************************************************************)
THEOREM IgnoreRewriteIsWhole ==
  ASSUME OneProcess
  PROVE  Spec => []IgnoreRewriteKeepsLineage
<1>1. IInv /\ CommandsInv /\ TreesAreShaped => IgnoreRewriteKeepsLineage
  BY LineageKept
<1> QED BY <1>1, CommandsInvariance, ShapesInvariance, PTL
=============================================================================
