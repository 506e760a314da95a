--------------------------- MODULE TransferProofs ---------------------------
(***************************************************************************)
(* Proofs about Transfer, for any number of clients, branches, commands    *)
(* and transfers under way, lost requests, kills and restarts, where users *)
(* wait for a command before they give the next one (Patient).             *)
(*                                                                         *)
(* The argument is about who may know a revision.  As long as the server   *)
(* has not got it, only the client that made it knows it; so a push that   *)
(* another client gets in first brings nothing of what this one is about   *)
(* to send, and what it left out at the start is still what the server has *)
(* of it at the end.                                                       *)
(***************************************************************************)
EXTENDS Transfer, Induction

(* The states of a transfer, and what its record holds in them. *)
Shape(t) ==
  CASE t.phase = "idle"    -> t = NoTask
    [] t.phase = "fetch"   -> t = [phase |-> "fetch", branch |-> t.branch, tip |-> t.tip,
                                   have |-> t.have, local |-> t.local]
    [] t.phase = "apply"   -> t = [phase |-> "apply", branch |-> t.branch, tip |-> t.tip,
                                   local |-> t.local, revs |-> t.revs, refs |-> t.refs]
    [] t.phase \in {"rebase", "place"} ->
                              t = [phase |-> t.phase, branch |-> t.branch, tip |-> t.tip,
                                   local |-> t.local]
    [] t.phase = "collect" -> t = [phase |-> "collect", have |-> t.have]
    [] t.phase = "send"    -> t = [phase |-> "send", revs |-> t.revs]
    [] OTHER               -> FALSE

TypeOK ==
  /\ snapshots = [r \in Repos |-> snapshots[r]]
  /\ revisions = [r \in Repos |-> revisions[r]]
  /\ refs = [r \in Repos |-> refs[r]]
  /\ task = [c \in Clients |-> task[c]]
  /\ nextId \in Nat \ {0} /\ ops \in Nat
  /\ \A c \in Clients : Shape(task[c])
  /\ \A q \in requests : q.from \in Clients
  /\ checked \subseteq requests

(* A patient user has one thing under way; the lock has one holder. *)
PatienceInv ==
  /\ \A q \in requests : task[q.from] = NoTask
  /\ \A q1, q2 \in requests : q1.from = q2.from => q1 = q2
  /\ \A q1, q2 \in checked : q1 = q2

(* Every row of a bundle or of a repository stands under its own id. *)
OwnRows(revs) == \A id \in DOMAIN revs : revs[id].rev = id

StandsInv ==
  \A r \in Repos : OwnRows(revisions[r]) /\ Range(revisions[r]) \subseteq snapshots[r]

(* What the server has not got is known to one client at most. *)
SecretsInv ==
  /\ \A r \in Repos : Known(r) \subseteq 1..(nextId - 1)
  /\ \A c1, c2 \in Clients : c1 # c2 => Known(c1) \cap Known(c2) \subseteq Known(Server)

(* Branches of a client name what it has or what the server has. *)
NamesInv ==
  /\ Range(refs[Server]) \subseteq Known(Server)
  /\ \A c \in Clients : Range(refs[c]) \subseteq Known(c) \cup Known(Server)

(* What a client has on its way to the server: news only, and nothing missing. *)
News(revs, known, server) ==
  /\ OwnRows(revs)
  /\ DOMAIN revs \subseteq known /\ DOMAIN revs \cap server = {}

(* A transfer under way, of a client with revisions revs while the server has server. *)
Underway(t, revs, server) ==
  CASE t.phase = "idle"    -> TRUE
    [] t.phase = "fetch"   -> t.tip \in server /\ t.have \subseteq DOMAIN revs
    [] t.phase = "apply"   -> /\ t.tip \in server
                              /\ OwnRows(t.revs) /\ DOMAIN t.revs \subseteq server
                              /\ Range(t.refs) \subseteq server
                              /\ t.tip \in DOMAIN revs \cup DOMAIN t.revs
    [] t.phase = "rebase"  -> t.tip \in server
    [] t.phase = "place"   -> /\ t.tip \in server
                              /\ \A l \in t.local :
                                   revs[l] \in {revs[t.tip]} \cup ParentsOf(revs[t.tip])
    [] t.phase = "collect" -> t.have \subseteq server /\ DOMAIN revs \cap server \subseteq t.have
    [] t.phase = "send"    -> News(t.revs, DOMAIN revs, server) /\ DOMAIN revs \subseteq DOMAIN t.revs \cup server
    [] OTHER               -> FALSE

UnderwayInv ==
  /\ \A c \in Clients : Underway(task[c], revisions[c], Known(Server))
  /\ \A c \in Clients : "local" \in DOMAIN task[c] => \A x, y \in task[c].local : x = y

RequestsInv ==
  \A q \in requests : /\ News(q.revs, Known(q.from), Known(Server))
                      /\ Range(q.refs) \subseteq DOMAIN q.revs \cup Known(Server)

(* Nothing has changed since the push that holds the lock was checked. *)
CheckedInv == \A q \in checked : Conflicts(q) = {}

IInv == /\ TypeOK /\ PatienceInv /\ StandsInv /\ SecretsInv /\ NamesInv
        /\ UnderwayInv /\ RequestsInv /\ CheckedInv

-----------------------------------------------------------------------------
(***************************************************************************)
(* The functions defined by recursion are what their equations say.        *)
(***************************************************************************)
LEMMA WantedIsFound ==
  ASSUME NEW want, NEW have, want \notin have
  PROVE  want \in WithAncestors(want, have)
<1> DEFINE U == Known(Server) \cup {want}
           More(x) == Owners(UNION {ParentsOf(revisions[Server][id]) : id \in x \cap Known(Server)}) \ have
           Found(f) == f = [n \in Nat |-> IF n = 0 THEN {want} \ have ELSE f[n - 1] \cup More(f[n - 1])]
           g == [x \in SUBSET U |-> x \cup More(x)]
           found == CHOOSE f : Found(f)
<1>1. WithAncestors(want, have) = found[MaxRevs]
  BY DEF WithAncestors
<1>2. \A x : More(x) \subseteq U
  BY DEF Owners
<1> HIDE DEF More
<1>3. g \in [SUBSET U -> SUBSET U] /\ {want} \ have \in SUBSET U
  BY <1>2
<1>4. \A x \in SUBSET U : g[x] = x \cup More(x)
  OBVIOUS
<1> HIDE DEF g, U
<1>5. \E f : Found(f)
  <2>1. PICK f \in [Nat -> SUBSET U] : Iterates(f, {want} \ have, g)
    BY <1>3, IterationExists
  <2>2. f = [n \in Nat |-> IF n = 0 THEN {want} \ have ELSE g[f[n - 1]]]
    BY <2>1 DEF Iterates
  <2>3. \A n \in Nat : n # 0 => g[f[n - 1]] = f[n - 1] \cup More(f[n - 1])
    BY <1>4
  <2>4. Found(f)
    BY <2>2, <2>3
  <2> QED BY <2>4
<1>6. Found(found)
  <2> HIDE DEF Found
  <2> QED BY <1>5
<1> HIDE DEF found
<1> DEFINE S == {n \in Nat : want \in found[n]}
<1>7. 0 \in S
  BY <1>6
<1>8. ASSUME NEW n \in Nat, n \in S PROVE n + 1 \in S
  <2>1. n + 1 \in Nat /\ n + 1 # 0 /\ (n + 1) - 1 = n
    OBVIOUS
  <2>2. found[n + 1] = found[n] \cup More(found[n])
    BY <1>6, <2>1
  <2> QED BY <1>8, <2>2
<1>9. Nat \subseteq S
  <2> HIDE DEF S
  <2> QED BY <1>7, <1>8, NatSetInduction
<1>10. MaxRevs \in Nat
  BY TransferAssumption
<1> QED BY <1>1, <1>9, <1>10

(* Going back from s: in a graph, or wherever parents lead. *)
Earlier(x, graph, everywhere) ==
  x \cup UNION {ParentsOf(s) : s \in IF everywhere THEN x ELSE x \cap graph}

GoesBack(f, s, graph, everywhere) ==
  f = [n \in Nat |-> IF n = 0 THEN {s} ELSE Earlier(f[n - 1], graph, everywhere)]

LEMMA GoingBackExists ==
  ASSUME NEW s, NEW graph, NEW everywhere
  PROVE  \E f : GoesBack(f, s, graph, everywhere)
<1> DEFINE E(x) == Earlier(x, graph, everywhere)
           Part(p, n) == p[0] = {s} /\ \A k \in 1..n : p[k] = E(p[k - 1])
           S == {n \in Nat : \E p : Part(p, n)}
<1>1. 0 \in S
  <2> DEFINE p == [k \in 0..0 |-> {s}]
  <2>1. Part(p, 0)
    OBVIOUS
  <2> HIDE DEF Part, p
  <2> QED BY <2>1
<1>2. ASSUME NEW n \in Nat, n \in S PROVE n + 1 \in S
  <2> HIDE DEF E
  <2>1. PICK p : Part(p, n)
    BY <1>2
  <2> DEFINE q == [k \in 0..(n + 1) |-> IF k = n + 1 THEN E(p[n]) ELSE p[k]]
  <2>2. q[0] = {s}
    BY <2>1
  <2>3. ASSUME NEW k \in 1..(n + 1) PROVE q[k] = E(q[k - 1])
    BY <2>1
  <2>4. Part(q, n + 1)
    BY <2>2, <2>3
  <2> HIDE DEF Part, q
  <2> QED BY <2>4
<1> HIDE DEF E
<1>3. ASSUME NEW n \in Nat PROVE \E p : Part(p, n)
  <2>1. Nat \subseteq S
    <3> HIDE DEF S
    <3> QED BY <1>1, <1>2, NatSetInduction
  <2> HIDE DEF Part
  <2> QED BY <2>1
<1>4. ASSUME NEW m \in Nat, NEW n \in Nat, NEW p, NEW q, Part(p, m), Part(q, n)
      PROVE  \A k \in Nat : k <= m /\ k <= n => p[k] = q[k]
  <2> DEFINE A == {k \in Nat : k <= m /\ k <= n => p[k] = q[k]}
  <2>1. 0 \in A
    BY <1>4
  <2>2. ASSUME NEW k \in Nat, k \in A PROVE k + 1 \in A
    <3> SUFFICES ASSUME k + 1 <= m, k + 1 <= n PROVE p[k + 1] = q[k + 1]
      OBVIOUS
    <3>1. k + 1 \in 1..m /\ k + 1 \in 1..n /\ (k + 1) - 1 = k /\ p[k] = q[k]
      BY <2>2
    <3> QED BY <3>1, <1>4
  <2>3. Nat \subseteq A
    <3> HIDE DEF A
    <3> QED BY <2>1, <2>2, NatSetInduction
  <2> QED BY <2>3
<1> DEFINE f == [n \in Nat |-> (CHOOSE p : Part(p, n))[n]]
<1>5. ASSUME NEW n \in Nat PROVE \E p : Part(p, n) /\ \A k \in 0..n : f[k] = p[k]
  <2>1. PICK p : Part(p, n)
    BY <1>3
  <2>2. ASSUME NEW k \in 0..n PROVE f[k] = p[k]
    <3>1. Part(CHOOSE q : Part(q, k), k)
      <4> HIDE DEF Part
      <4>1. \E q : Part(q, k)
        BY <1>3
      <4> QED BY <4>1
    <3> DEFINE q == CHOOSE r : Part(r, k)
    <3>2. f[k] = q[k] /\ Part(q, k) /\ k \in Nat /\ k <= n
      BY <3>1
    <3> HIDE DEF q, Part, f
    <3> QED BY <1>4, <2>1, <3>2
  <2> QED BY <2>1, <2>2
<1>6. f = [n \in Nat |-> f[n]]
  OBVIOUS
<1>7. ASSUME NEW n \in Nat PROVE f[n] = IF n = 0 THEN {s} ELSE E(f[n - 1])
  <2>1. PICK p : Part(p, n) /\ \A k \in 0..n : f[k] = p[k]
    BY <1>5
  <2>2. /\ n \in 0..n /\ 0 \in 0..n
        /\ n # 0 => n - 1 \in 0..n /\ n \in 1..n
    OBVIOUS
  <2> HIDE DEF f
  <2> QED BY <2>1, <2>2
<1> HIDE DEF f
<1>8. GoesBack(f, s, graph, everywhere)
  BY <1>6, <1>7 DEF GoesBack, E
<1> QED BY <1>8

(* The lineage of s holds s, its parents, and what going back in a graph finds. *)
LEMMA LineageIs ==
  ASSUME NEW s
  PROVE  /\ s \in Lineage(s) /\ ParentsOf(s) \subseteq Lineage(s)
         /\ \A f, graph : GoesBack(f, s, graph, FALSE) => f[MaxOps + 1] \subseteq Lineage(s)
<1> DEFINE Back(f) == f = [n \in Nat |-> IF n = 0 THEN {s}
                                        ELSE f[n - 1] \cup UNION {ParentsOf(x) : x \in f[n - 1]}]
           back == CHOOSE f : Back(f)
<1>1. Lineage(s) = back[MaxOps + 1] /\ MaxOps \in Nat
  BY TransferAssumption DEF Lineage
<1>2. \E f : Back(f)
  <2>1. PICK f : GoesBack(f, s, {}, TRUE)
    BY GoingBackExists
  <2>2. Back(f)
    BY <2>1 DEF GoesBack, Earlier
  <2> QED BY <2>2
<1>3. Back(back)
  <2> HIDE DEF Back
  <2> QED BY <1>2
<1> HIDE DEF back
<1>4. back[0] = {s} /\ \A n \in Nat : back[n + 1] = back[n] \cup UNION {ParentsOf(x) : x \in back[n]}
  <2>1. \A n \in Nat : n + 1 \in Nat /\ n + 1 # 0 /\ (n + 1) - 1 = n
    OBVIOUS
  <2> QED BY <1>3, <2>1
<1> HIDE DEF Back
<1>5. ASSUME NEW n \in Nat PROVE s \in back[n]
  <2> DEFINE S == {k \in Nat : s \in back[k]}
  <2>1. 0 \in S /\ \A k \in Nat : k \in S => k + 1 \in S
    BY <1>4
  <2> HIDE DEF S
  <2>2. Nat \subseteq S
    BY <2>1, NatSetInduction
  <2> QED BY <2>2 DEF S
<1>6. s \in back[MaxOps + 1] /\ ParentsOf(s) \subseteq back[MaxOps + 1]
  BY <1>1, <1>4, <1>5
<1>7. ASSUME NEW f, NEW graph, GoesBack(f, s, graph, FALSE)
      PROVE  f[MaxOps + 1] \subseteq back[MaxOps + 1]
  <2> DEFINE S == {k \in Nat : f[k] \subseteq back[k]}
  <2>1. /\ f[0] = {s}
        /\ \A n \in Nat : f[n + 1] = f[n] \cup UNION {ParentsOf(x) : x \in f[n] \cap graph}
    <3>1. \A n \in Nat : n + 1 \in Nat /\ n + 1 # 0 /\ (n + 1) - 1 = n
      OBVIOUS
    <3> QED BY <1>7, <3>1 DEF GoesBack, Earlier
  <2>2. 0 \in S
    BY <1>4, <2>1
  <2>3. ASSUME NEW k \in Nat, k \in S PROVE k + 1 \in S
    <3>1. f[k] \subseteq back[k]
      BY <2>3
    <3>2. UNION {ParentsOf(x) : x \in f[k] \cap graph} \subseteq UNION {ParentsOf(x) : x \in back[k]}
      BY <3>1
    <3>3. f[k + 1] \subseteq back[k + 1]
      BY <3>1, <3>2, <1>4, <2>1
    <3> QED BY <3>3
  <2> HIDE DEF S
  <2>4. Nat \subseteq S
    BY <2>2, <2>3, NatSetInduction
  <2> QED BY <2>4, <1>1 DEF S
<1> QED BY <1>1, <1>6, <1>7

(* So what the server takes for an ancestor is one. *)
LEMMA AncestorsAreInLineage ==
  ASSUME NEW q, NEW a, NEW c, AncestorUnion(q, a, c)
  PROVE  Resolve(q, a) \in Lineage(Resolve(q, c))
<1> DEFINE s == Resolve(q, c)
           graph == snapshots[Server] \cup Range(q.revs)
           Back(f) == f = [n \in Nat |-> IF n = 0 THEN {s}
                                        ELSE f[n - 1] \cup UNION {ParentsOf(x) : x \in f[n - 1] \cap graph}]
           back == CHOOSE f : Back(f)
<1>1. Resolve(q, a) \in back[MaxOps + 1]
  BY DEF AncestorUnion
<1>2. \E f : Back(f)
  <2> HIDE DEF graph, s
  <2>1. PICK f : GoesBack(f, s, graph, FALSE)
    BY GoingBackExists
  <2>2. Back(f)
    BY <2>1 DEF GoesBack, Earlier
  <2> HIDE DEF Back
  <2> QED BY <2>2
<1>3. Back(back)
  <2> HIDE DEF Back
  <2> QED BY <1>2
<1> HIDE DEF back, graph, s
<1>4. GoesBack(back, s, graph, FALSE)
  BY <1>3 DEF GoesBack, Earlier
<1>5. back[MaxOps + 1] \subseteq Lineage(s)
  BY <1>4, LineageIs
<1> QED BY <1>1, <1>5 DEF s

-----------------------------------------------------------------------------
LEMMA OverKeys ==
  ASSUME NEW f, NEW g
  PROVE  /\ DOMAIN Over(f, g) = DOMAIN f \cup DOMAIN g
         /\ \A k \in DOMAIN g : Over(f, g)[k] = g[k]
         /\ \A k \in DOMAIN f \ DOMAIN g : Over(f, g)[k] = f[k]
         /\ Range(Over(f, g)) \subseteq Range(f) \cup Range(g)
         /\ OwnRows(f) /\ OwnRows(g) => OwnRows(Over(f, g))
BY DEF Over, Range, OwnRows

LEMMA OnlyKeys ==
  ASSUME NEW f, NEW S
  PROVE  /\ DOMAIN Only(f, S) = DOMAIN f \cap S
         /\ \A k \in DOMAIN f \cap S : Only(f, S)[k] = f[k]
         /\ Range(Only(f, S)) \subseteq Range(f)
         /\ OwnRows(f) => OwnRows(Only(f, S))
BY DEF Only, Range, OwnRows

(* A step of a client changes its repository and its transfer at most. *)
Alone(c) ==
  /\ snapshots' = [snapshots EXCEPT ![c] = snapshots'[c]]
  /\ revisions' = [revisions EXCEPT ![c] = revisions'[c]]
  /\ refs' = [refs EXCEPT ![c] = refs'[c]]
  /\ task' = [task EXCEPT ![c] = task'[c]]

LEMMA ServerIsNoClient == Server \in Repos /\ Server \notin Clients /\ Clients \subseteq Repos
BY TransferAssumption DEF Server, Repos

LEMMA OthersStay ==
  ASSUME TypeOK, NEW c \in Clients, Alone(c)
  PROVE  /\ \A r \in Repos \ {c} : /\ snapshots'[r] = snapshots[r]
                                   /\ revisions'[r] = revisions[r]
                                   /\ refs'[r] = refs[r]
                                   /\ Known(r)' = Known(r)
         /\ \A d \in Clients \ {c} : task'[d] = task[d]
         /\ snapshots' = [r \in Repos |-> snapshots'[r]]
         /\ revisions' = [r \in Repos |-> revisions'[r]]
         /\ refs' = [r \in Repos |-> refs'[r]]
         /\ task' = [d \in Clients |-> task'[d]]
<1>1. \A r \in Repos \ {c} : snapshots'[r] = snapshots[r] /\ revisions'[r] = revisions[r]
  BY DEF TypeOK, Alone
<1>2. \A r \in Repos \ {c} : refs'[r] = refs[r]
  BY DEF TypeOK, Alone
<1>3. \A d \in Clients \ {c} : task'[d] = task[d]
  BY DEF TypeOK, Alone
<1>4. /\ snapshots' = [r \in Repos |-> snapshots'[r]]
      /\ revisions' = [r \in Repos |-> revisions'[r]]
  BY DEF TypeOK, Alone
<1>5. /\ refs' = [r \in Repos |-> refs'[r]]
      /\ task' = [d \in Clients |-> task'[d]]
  BY DEF TypeOK, Alone
<1> QED BY <1>1, <1>2, <1>3, <1>4, <1>5 DEF Known

LEMMA Ranges ==
  ASSUME NEW a \in Nat \ {0}, NEW b \in Nat, a <= b
  PROVE  1..(a - 1) \subseteq 1..(b - 1) /\ a..(b - 1) \subseteq 1..(b - 1)
OBVIOUS

(***************************************************************************)
(* What is left to show of a step of client c that sends nothing: it ends  *)
(* up knowing what it knew, what the server knows and what is new.         *)
(***************************************************************************)
LEMMA ClientKeeps ==
  ASSUME IInv, NEW c \in Clients, Alone(c), requests' = requests, checked' = checked,
         nextId' \in Nat, nextId <= nextId', ops' \in Nat,
         task'[c] = NoTask \/ \A q \in requests : q.from # c,
         Known(c) \subseteq Known(c)',
         Known(c)' \subseteq Known(c) \cup Known(Server) \cup nextId..(nextId' - 1),
         OwnRows(revisions'[c]), Range(revisions'[c]) \subseteq snapshots'[c],
         Range(refs'[c]) \subseteq Known(c)' \cup Known(Server),
         Shape(task'[c]), Underway(task'[c], revisions'[c], Known(Server)),
         "local" \in DOMAIN task'[c] => \A x, y \in task'[c].local : x = y
  PROVE  IInv'
<1>1. /\ TypeOK /\ PatienceInv /\ StandsInv /\ SecretsInv /\ NamesInv
      /\ UnderwayInv /\ RequestsInv /\ CheckedInv
  BY DEF IInv
<1>2. /\ \A r \in Repos \ {c} : /\ snapshots'[r] = snapshots[r]
                                /\ revisions'[r] = revisions[r]
                                /\ refs'[r] = refs[r]
                                /\ Known(r)' = Known(r)
      /\ \A d \in Clients \ {c} : task'[d] = task[d]
      /\ Server \in Repos \ {c} /\ Clients \subseteq Repos
  BY <1>1, OthersStay, ServerIsNoClient
<1>3. /\ Known(Server)' = Known(Server) /\ revisions'[Server] = revisions[Server]
      /\ refs'[Server] = refs[Server] /\ snapshots'[Server] = snapshots[Server]
  BY <1>2
<1>4. TypeOK'
  <2>1. \A d \in Clients : Shape(task'[d])
    BY <1>1, <1>2 DEF TypeOK
  <2>2. nextId' \in Nat \ {0} /\ ops' \in Nat
    BY <1>1 DEF TypeOK
  <2>3. (\A q \in requests' : q.from \in Clients) /\ checked' \subseteq requests'
    BY <1>1 DEF TypeOK
  <2> QED BY <2>1, <2>2, <2>3, <1>1, OthersStay DEF TypeOK
<1>5. PatienceInv'
  BY <1>1, <1>2 DEF PatienceInv, TypeOK
<1>6. StandsInv'
  BY <1>1, <1>2 DEF StandsInv
<1>7. SecretsInv'
  <2>1. nextId \in Nat \ {0} /\ \A r \in Repos : Known(r) \subseteq 1..(nextId - 1)
    BY <1>1 DEF TypeOK, SecretsInv
  <2>2. 1..(nextId - 1) \subseteq 1..(nextId' - 1) /\ nextId..(nextId' - 1) \subseteq 1..(nextId' - 1)
    BY <2>1, Ranges
  <2>3. ASSUME NEW r \in Repos PROVE Known(r)' \subseteq 1..(nextId' - 1)
    BY <2>1, <2>2, <1>2
  <2>4. ASSUME NEW c1 \in Clients, NEW c2 \in Clients, c1 # c2
        PROVE  Known(c1)' \cap Known(c2)' \subseteq Known(Server)
    <3>1. \A r \in Repos : Known(r) \cap nextId..(nextId' - 1) = {}
      BY <2>1
    <3>2. Known(c1) \cap Known(c2) \subseteq Known(Server)
      BY <2>4, <1>1 DEF SecretsInv
    <3>3. Known(c1) \cap nextId..(nextId' - 1) = {} /\ Known(c2) \cap nextId..(nextId' - 1) = {}
      BY <3>1, <1>2
    <3>4. CASE c1 = c
      BY <2>4, <3>2, <3>3, <3>4, <1>2
    <3>5. CASE c2 = c
      BY <2>4, <3>2, <3>3, <3>5, <1>2
    <3>6. CASE c1 # c /\ c2 # c
      BY <3>2, <3>6, <1>2
    <3> QED BY <3>4, <3>5, <3>6
  <2> QED BY <2>3, <2>4, <1>3 DEF SecretsInv
<1>8. NamesInv'
  BY <1>1, <1>2, <1>3 DEF NamesInv
<1>9. UnderwayInv'
  BY <1>1, <1>2, <1>3 DEF UnderwayInv
<1>10. RequestsInv'
  <2>1. ASSUME NEW q \in requests PROVE Known(q.from) \subseteq Known(q.from)'
    <3>1. q.from \in Clients
      BY <1>1 DEF TypeOK
    <3> QED BY <3>1, <1>2
  <2> QED BY <2>1, <1>1, <1>3 DEF RequestsInv, News
<1>11. CheckedInv'
  <2>1. \A q : Conflicts(q)' = Conflicts(q)
    BY <1>3 DEF Conflicts, AncestorUnion, Resolve, Known
  <2> QED BY <2>1, <1>1 DEF CheckedInv
<1> QED BY <1>4, <1>5, <1>6, <1>7, <1>8, <1>9, <1>10, <1>11 DEF IInv

-----------------------------------------------------------------------------
(* What the invariant says of client c. *)
LEMMA ClientHas ==
  ASSUME IInv, NEW c \in Clients
  PROVE  /\ OwnRows(revisions[c]) /\ Range(revisions[c]) \subseteq snapshots[c]
         /\ Range(refs[c]) \subseteq Known(c) \cup Known(Server)
         /\ Shape(task[c]) /\ Underway(task[c], revisions[c], Known(Server))
         /\ "local" \in DOMAIN task[c] => \A x, y \in task[c].local : x = y
         /\ task[c] # NoTask => \A q \in requests : q.from # c
         /\ nextId \in Nat \ {0} /\ ops \in Nat
         /\ Range(refs[Server]) \subseteq Known(Server)
<1>1. OwnRows(revisions[c]) /\ Range(revisions[c]) \subseteq snapshots[c]
  BY ServerIsNoClient DEF IInv, StandsInv
<1>2. /\ Range(refs[c]) \subseteq Known(c) \cup Known(Server)
      /\ Range(refs[Server]) \subseteq Known(Server)
  BY DEF IInv, NamesInv
<1>3. /\ Shape(task[c]) /\ nextId \in Nat \ {0} /\ ops \in Nat
      /\ Underway(task[c], revisions[c], Known(Server))
      /\ "local" \in DOMAIN task[c] => \A x, y \in task[c].local : x = y
  BY DEF IInv, TypeOK, UnderwayInv
<1>4. task[c] # NoTask => \A q \in requests : q.from # c
  BY DEF IInv, PatienceInv
<1> QED BY <1>1, <1>2, <1>3, <1>4

LEMMA Idle == NoTask.phase = "idle" /\ "local" \notin DOMAIN NoTask /\ Shape(NoTask)
              /\ \A revs, server : Underway(NoTask, revs, server)
BY DEF NoTask, Shape, Underway

(* What a pull has in hand in its phases. *)
LEMMA PullHas ==
  ASSUME NEW t, NEW revs, NEW server, Shape(t), Underway(t, revs, server),
         t.phase \in {"fetch", "apply", "rebase", "place"}
  PROVE  /\ t # NoTask /\ t.tip \in server /\ "local" \in DOMAIN t
         /\ t.phase = "fetch" => t.have \subseteq DOMAIN revs
         /\ t.phase = "apply" => /\ OwnRows(t.revs) /\ DOMAIN t.revs \subseteq server
                               /\ Range(t.refs) \subseteq server
<1>1. t # NoTask
  BY Idle
<1>2. "local" \in DOMAIN t
  <2>1. CASE t.phase = "fetch"
    BY <2>1 DEF Shape
  <2>2. CASE t.phase = "apply"
    BY <2>2 DEF Shape
  <2>3. CASE t.phase \in {"rebase", "place"}
    BY <2>3 DEF Shape
  <2> QED BY <2>1, <2>2, <2>3
<1>3. t.tip \in server
  BY DEF Underway
<1>4. t.phase = "fetch" => t.have \subseteq DOMAIN revs
  BY DEF Underway
<1>5. t.phase = "apply" => /\ OwnRows(t.revs) /\ DOMAIN t.revs \subseteq server
                           /\ Range(t.refs) \subseteq server
  BY DEF Underway
<1> QED BY <1>1, <1>2, <1>3, <1>4, <1>5

LEMMA TaskKeeps ==
  ASSUME TypeOK, NEW c \in Clients, NEW t, task' = [task EXCEPT ![c] = t], UNCHANGED rows
  PROVE  /\ Alone(c) /\ task'[c] = t
         /\ snapshots'[c] = snapshots[c] /\ revisions'[c] = revisions[c] /\ refs'[c] = refs[c]
         /\ Known(c)' = Known(c)
BY ServerIsNoClient DEF TypeOK, Alone, rows, Known

(* A step of a client that writes no row. *)
LEMMA TaskStepInv ==
  ASSUME IInv, NEW c \in Clients, NEW t, task' = [task EXCEPT ![c] = t],
         UNCHANGED <<rows, requests, checked, nextId>>, ops' \in Nat,
         t = NoTask \/ \A q \in requests : q.from # c,
         Shape(t), Underway(t, revisions[c], Known(Server)),
         "local" \in DOMAIN t => \A x, y \in t.local : x = y
  PROVE  IInv'
<1>1. TypeOK
  BY DEF IInv
<1>2. UNCHANGED rows /\ requests' = requests /\ checked' = checked /\ nextId' = nextId
  OBVIOUS
<1>3. /\ Alone(c) /\ task'[c] = t
      /\ snapshots'[c] = snapshots[c] /\ revisions'[c] = revisions[c] /\ refs'[c] = refs[c]
      /\ Known(c)' = Known(c)
  BY <1>1, <1>2, TaskKeeps
<1>4. nextId' \in Nat /\ nextId <= nextId'
  BY <1>2, ClientHas
<1> QED BY <1>2, <1>3, <1>4, ClientHas, ClientKeeps

LEMMA KillInv ==
  ASSUME IInv, NEW c \in Clients, Kill(c)
  PROVE  IInv'
<1>1. task' = [task EXCEPT ![c] = NoTask] /\ UNCHANGED <<rows, requests, checked, nextId>> /\ ops' \in Nat
  BY ClientHas DEF Kill
<1> QED BY <1>1, Idle, TaskStepInv

(* A command is given when nothing of the client is under way. *)
LEMMA CommandWaits ==
  ASSUME IInv, Patient, NEW c \in Clients, Command(c)
  PROVE  task[c] = NoTask /\ (\A q \in requests : q.from # c) /\ ops' \in Nat
BY ClientHas DEF Command, Waits

LEMMA StoreKeeps ==
  ASSUME IInv, NEW c \in Clients, NEW s, Store(c, s)
  PROVE  /\ snapshots' = [snapshots EXCEPT ![c] = snapshots'[c]]
         /\ revisions' = [revisions EXCEPT ![c] = revisions'[c]]
         /\ Known(c)' = Known(c) \cup {s.rev}
         /\ revisions'[c][s.rev] = s
         /\ \A id \in Known(c) \ {s.rev} : revisions'[c][id] = revisions[c][id]
         /\ OwnRows(revisions'[c]) /\ Range(revisions'[c]) \subseteq snapshots'[c]
<1> DEFINE new == [id \in {s.rev} |-> s]
<1>1. snapshots'[c] = snapshots[c] \cup {s} /\ revisions'[c] = Over(revisions[c], new)
  BY ServerIsNoClient DEF IInv, TypeOK, Store
<1>2. DOMAIN new = {s.rev} /\ new[s.rev] = s /\ OwnRows(new) /\ Range(new) = {s}
  BY DEF OwnRows, Range
<1>3. /\ snapshots' = [snapshots EXCEPT ![c] = snapshots'[c]]
      /\ revisions' = [revisions EXCEPT ![c] = revisions'[c]]
  BY <1>1 DEF Store
<1> HIDE DEF new
<1>4. /\ DOMAIN Over(revisions[c], new) = DOMAIN revisions[c] \cup DOMAIN new
      /\ \A k \in DOMAIN new : Over(revisions[c], new)[k] = new[k]
      /\ \A k \in DOMAIN revisions[c] \ DOMAIN new : Over(revisions[c], new)[k] = revisions[c][k]
      /\ Range(Over(revisions[c], new)) \subseteq Range(revisions[c]) \cup Range(new)
      /\ OwnRows(revisions[c]) /\ OwnRows(new) => OwnRows(Over(revisions[c], new))
  BY OverKeys
<1> QED BY <1>1, <1>2, <1>3, <1>4, ClientHas DEF Known

LEMMA SnapshotIs ==
  ASSUME NEW id, NEW parents, NEW text
  PROVE  /\ Snapshot(id, parents, text).rev = id
         /\ Snapshot(id, parents, text).parents = parents
BY DEF Snapshot

LEMMA CommitInv ==
  ASSUME IInv, Patient, NEW c \in Clients, NEW parents, NEW text, Commit(c, parents, text)
  PROVE  IInv'
<1> DEFINE s == Snapshot(nextId, parents, text)
<1>1. s.rev = nextId
  BY SnapshotIs
<1>2. /\ Command(c) /\ Store(c, s) /\ nextId' = nextId + 1
      /\ refs' = refs /\ task' = task /\ requests' = requests /\ checked' = checked
  BY DEF Commit
<1> HIDE DEF s
<1>3. task[c] = NoTask /\ (\A q \in requests : q.from # c) /\ ops' \in Nat
  BY <1>2, CommandWaits
<1>4. Alone(c)
  BY <1>2, StoreKeeps, ServerIsNoClient DEF Alone, IInv, TypeOK
<1>5. nextId' \in Nat /\ nextId <= nextId' /\ nextId \in nextId..(nextId' - 1)
  BY <1>2, ClientHas
<1>6. /\ Known(c)' = Known(c) \cup {nextId}
      /\ OwnRows(revisions'[c]) /\ Range(revisions'[c]) \subseteq snapshots'[c]
  BY <1>1, <1>2, StoreKeeps
<1>7. task'[c] = NoTask /\ Range(refs'[c]) \subseteq Known(c)' \cup Known(Server)
  BY <1>2, <1>3, <1>6, ClientHas
<1> QED BY <1>2, <1>3, <1>4, <1>5, <1>6, <1>7, Idle, ClientKeeps

LEMMA AmendInv ==
  ASSUME IInv, Patient, NEW c \in Clients, NEW id \in Known(c), NEW text, Amend(c, id, text)
  PROVE  IInv'
<1> DEFINE s == Snapshot(id, revisions[c][id].parents, text)
<1>1. s.rev = id
  BY SnapshotIs
<1>2. /\ Command(c) /\ Store(c, s) /\ nextId' = nextId
      /\ refs' = refs /\ task' = task /\ requests' = requests /\ checked' = checked
  BY DEF Amend
<1> HIDE DEF s
<1>3. task[c] = NoTask /\ (\A q \in requests : q.from # c) /\ ops' \in Nat
  BY <1>2, CommandWaits
<1>4. Alone(c)
  BY <1>2, StoreKeeps, ServerIsNoClient DEF Alone, IInv, TypeOK
<1>5. nextId' \in Nat /\ nextId <= nextId'
  BY <1>2, ClientHas
<1>6. /\ Known(c)' = Known(c)
      /\ OwnRows(revisions'[c]) /\ Range(revisions'[c]) \subseteq snapshots'[c]
  <2>1. Known(c)' = Known(c) \cup {id}
    BY <1>1, <1>2, StoreKeeps
  <2> QED BY <1>2, <2>1, StoreKeeps
<1>7. task'[c] = NoTask /\ Range(refs'[c]) \subseteq Known(c)' \cup Known(Server)
  BY <1>2, <1>3, <1>6, ClientHas
<1> QED BY <1>2, <1>3, <1>4, <1>5, <1>6, <1>7, Idle, ClientKeeps

(* Only references change, and to ids that the client or the server has. *)
LEMMA NamingInv ==
  ASSUME IInv, NEW c \in Clients, NEW names, refs' = [refs EXCEPT ![c] = names],
         Range(names) \subseteq Known(c) \cup Known(Server),
         task' = [task EXCEPT ![c] = NoTask],
         UNCHANGED <<snapshots, revisions, requests, checked, nextId>>, ops' \in Nat
  PROVE  IInv'
<1>1. refs'[c] = names /\ task'[c] = NoTask /\ Alone(c)
  BY ServerIsNoClient DEF IInv, TypeOK, Alone
<1>2. /\ requests' = requests /\ checked' = checked /\ Known(c)' = Known(c)
      /\ snapshots'[c] = snapshots[c] /\ revisions'[c] = revisions[c]
      /\ nextId' \in Nat /\ nextId <= nextId'
  BY ClientHas DEF Known
<1> QED BY <1>1, <1>2, ClientHas, Idle, ClientKeeps

LEMMA SetBranchInv ==
  ASSUME IInv, Patient, NEW c \in Clients, NEW b, NEW id \in Known(c), SetBranch(c, b, id)
  PROVE  IInv'
<1> DEFINE new == [n \in {b} |-> id]
           names == Over(refs[c], new)
<1>1. /\ Command(c) /\ refs' = [refs EXCEPT ![c] = names]
      /\ task' = task
      /\ UNCHANGED <<snapshots, revisions, requests, checked, nextId>>
  BY DEF SetBranch
<1>2. Range(new) = {id}
  BY DEF Range
<1> HIDE DEF new
<1>3. Range(names) \subseteq Known(c) \cup Known(Server)
  <2>1. Range(names) \subseteq Range(refs[c]) \cup Range(new)
    BY OverKeys
  <2> QED BY <1>2, <2>1, ClientHas
<1>4. task' = [task EXCEPT ![c] = NoTask] /\ ops' \in Nat
  BY <1>1, CommandWaits DEF IInv, TypeOK
<1> HIDE DEF names
<1> QED BY <1>1, <1>3, <1>4, NamingInv

LEMMA DeleteBranchInv ==
  ASSUME IInv, Patient, NEW c \in Clients, NEW b, DeleteBranch(c, b)
  PROVE  IInv'
<1> DEFINE names == Only(refs[c], DOMAIN refs[c] \ {b})
<1>1. /\ Command(c) /\ refs' = [refs EXCEPT ![c] = names]
      /\ task' = task
      /\ UNCHANGED <<snapshots, revisions, requests, checked, nextId>>
  BY DEF DeleteBranch
<1>2. Range(names) \subseteq Known(c) \cup Known(Server)
  BY OnlyKeys, ClientHas
<1>3. task' = [task EXCEPT ![c] = NoTask] /\ ops' \in Nat
  BY <1>1, CommandWaits DEF IInv, TypeOK
<1> HIDE DEF names
<1> QED BY <1>1, <1>2, <1>3, NamingInv

LEMMA WorkInv ==
  ASSUME IInv, Patient, NEW c \in Clients, Work(c)
  PROVE  IInv'
BY CommitInv, AmendInv, SetBranchInv, DeleteBranchInv DEF Work

-----------------------------------------------------------------------------
LEMMA PullAdvertiseInv ==
  ASSUME IInv, Patient, NEW c \in Clients, NEW b, PullAdvertise(c, b)
  PROVE  IInv'
<1> DEFINE local == IF b \in DOMAIN refs[c] THEN {refs[c][b]} ELSE {}
           tip == refs[Server][b]
           t == [phase |-> "fetch", branch |-> b, tip |-> tip, have |-> Known(c), local |-> local]
<1>1. /\ Command(c) /\ task' = [task EXCEPT ![c] = t] /\ b \in DOMAIN refs[Server]
      /\ UNCHANGED <<rows, requests, checked, nextId>>
  BY DEF PullAdvertise
<1>2. (\A q \in requests : q.from # c) /\ ops' \in Nat
  BY <1>1, CommandWaits
<1>3. tip \in Known(Server)
  BY <1>1, ClientHas DEF Range
<1>4. \A x, y \in local : x = y
  OBVIOUS
<1> HIDE DEF local, tip
<1>5. /\ Shape(t) /\ t.phase = "fetch" /\ t.tip = tip /\ t.have = Known(c) /\ t.local = local
  BY DEF Shape
<1> HIDE DEF t
<1>6. Underway(t, revisions[c], Known(Server))
  BY <1>3, <1>5 DEF Underway, Known
<1> QED BY <1>1, <1>2, <1>4, <1>5, <1>6, TaskStepInv

(* What the server sends is what it knows, and has the tip among it. *)
LEMMA FetchedIs ==
  ASSUME NEW tip, NEW have, NEW wanted, OwnRows(revisions[Server])
  PROVE  LET revs == FilterWant(Collect(Server, have), wanted)
         IN  /\ OwnRows(revs) /\ DOMAIN revs \subseteq Known(Server)
             /\ tip \in wanted /\ tip \in Known(Server) \ have => tip \in DOMAIN revs
<1> DEFINE all == Collect(Server, have)
<1>1. DOMAIN all = Known(Server) \ have /\ OwnRows(all)
  <2>1. /\ DOMAIN Only(revisions[Server], Known(Server) \ have)
              = DOMAIN revisions[Server] \cap (Known(Server) \ have)
        /\ OwnRows(revisions[Server]) => OwnRows(Only(revisions[Server], Known(Server) \ have))
    BY OnlyKeys
  <2> QED BY <2>1 DEF Collect, Known
<1> HIDE DEF all
<1>2. DOMAIN Only(all, wanted) = DOMAIN all \cap wanted /\ OwnRows(Only(all, wanted))
  BY <1>1, OnlyKeys
<1> QED BY <1>1, <1>2 DEF FilterWant, all

LEMMA PullFetchInv ==
  ASSUME IInv, NEW c \in Clients, PullFetch(c)
  PROVE  IInv'
<1> DEFINE u == task[c]
           wanted == WithAncestors(u.tip, u.have)
           revs == FilterWant(Collect(Server, u.have), wanted)
           t == [phase |-> "apply", branch |-> u.branch, tip |-> u.tip, local |-> u.local,
                 revs |-> revs, refs |-> refs[Server]]
<1>1. /\ u.phase = "fetch" /\ task' = [task EXCEPT ![c] = t]
      /\ UNCHANGED <<rows, requests, checked, nextId>> /\ ops' = ops
  BY DEF PullFetch
<1>2. /\ u.tip \in Known(Server) /\ u.have \subseteq Known(c) /\ "local" \in DOMAIN u
      /\ u # NoTask
  BY <1>1, ClientHas, PullHas DEF Known
<1>3. OwnRows(revisions[Server]) /\ Range(refs[Server]) \subseteq Known(Server)
  BY ServerIsNoClient DEF IInv, StandsInv, NamesInv
<1>4. u.tip \notin u.have => u.tip \in wanted
  BY WantedIsFound
<1> HIDE DEF wanted
<1>5. /\ OwnRows(revs) /\ DOMAIN revs \subseteq Known(Server)
      /\ u.tip \in Known(c) \cup DOMAIN revs
  BY <1>2, <1>3, <1>4, FetchedIs
<1> HIDE DEF revs
<1>6. /\ Shape(t) /\ t.phase = "apply" /\ t.tip = u.tip /\ t.local = u.local
      /\ t.revs = revs /\ t.refs = refs[Server]
  BY DEF Shape
<1> HIDE DEF t
<1>7. Underway(t, revisions[c], Known(Server))
  BY <1>2, <1>3, <1>5, <1>6 DEF Underway, Known
<1>8. /\ \A q \in requests : q.from # c
      /\ \A x, y \in t.local : x = y
      /\ ops' \in Nat
  BY <1>1, <1>2, <1>6, ClientHas
<1> HIDE DEF u
<1> QED BY <1>1, <1>6, <1>7, <1>8, TaskStepInv

LEMMA PullApplyInv ==
  ASSUME IInv, NEW c \in Clients, PullApply(c)
  PROVE  IInv'
<1> DEFINE u == task[c]
           n == [phase |-> IF u.local = {} THEN "place" ELSE "rebase", branch |-> u.branch,
                 tip |-> u.tip, local |-> u.local]
           t == IF u.tip \notin Known(c) \cup DOMAIN u.revs THEN NoTask ELSE n
<1>1. /\ u.phase = "apply" /\ Apply(c, u.revs, u.refs) /\ task' = [task EXCEPT ![c] = t]
      /\ requests' = requests /\ checked' = checked /\ nextId' = nextId /\ ops' = ops
  BY DEF PullApply
<1>2. /\ u.tip \in Known(Server) /\ "local" \in DOMAIN u /\ u # NoTask
      /\ OwnRows(u.revs) /\ DOMAIN u.revs \subseteq Known(Server) /\ Range(u.refs) \subseteq Known(Server)
  BY <1>1, ClientHas, PullHas
<1>3. /\ \A q \in requests : q.from # c
      /\ \A x, y \in u.local : x = y
      /\ nextId' \in Nat /\ nextId <= nextId' /\ ops' \in Nat
  BY <1>1, <1>2, ClientHas
<1>4. /\ snapshots'[c] = snapshots[c] \cup Range(u.revs)
      /\ revisions'[c] = Over(revisions[c], u.revs)
      /\ refs'[c] = Over(refs[c], u.refs)
      /\ task'[c] = t /\ Alone(c)
  BY <1>1, ServerIsNoClient DEF IInv, TypeOK, Apply, Alone
<1> HIDE DEF u
<1>5. Known(c)' = Known(c) \cup DOMAIN u.revs
  <2>1. DOMAIN Over(revisions[c], u.revs) = DOMAIN revisions[c] \cup DOMAIN u.revs
    BY OverKeys
  <2> QED BY <2>1, <1>4 DEF Known
<1>6. OwnRows(revisions'[c]) /\ Range(revisions'[c]) \subseteq snapshots'[c]
  <2>1. Range(revisions'[c]) \subseteq Range(revisions[c]) \cup Range(u.revs)
    BY <1>4, OverKeys
  <2>2. OwnRows(revisions[c]) /\ OwnRows(u.revs) => OwnRows(Over(revisions[c], u.revs))
    BY OverKeys
  <2> QED BY <2>1, <2>2, <1>2, <1>4, ClientHas
<1>7. Range(refs'[c]) \subseteq Known(c)' \cup Known(Server)
  <2>1. Range(refs'[c]) \subseteq Range(refs[c]) \cup Range(u.refs)
    BY <1>4, OverKeys
  <2> QED BY <2>1, <1>2, <1>5, ClientHas
<1>8. /\ Shape(n) /\ n.phase \in {"place", "rebase"} /\ n.tip = u.tip /\ n.local = u.local
      /\ n.phase = "place" => n.local = {}
  BY DEF Shape
<1>9. Underway(n, revisions'[c], Known(Server))
  <2> HIDE DEF n
  <2> QED BY <1>2, <1>8 DEF Underway
<1> HIDE DEF n
<1>10. /\ Shape(t) /\ Underway(t, revisions'[c], Known(Server))
       /\ "local" \in DOMAIN t => \A x, y \in t.local : x = y
  BY <1>3, <1>8, <1>9, Idle
<1> HIDE DEF t
<1>11. /\ Known(c) \subseteq Known(c)'
       /\ Known(c)' \subseteq Known(c) \cup Known(Server) \cup nextId..(nextId' - 1)
  BY <1>2, <1>5
<1> QED BY <1>1, <1>3, <1>4, <1>6, <1>7, <1>10, <1>11, ClientKeeps

LEMMA PullRebaseInv ==
  ASSUME IInv, NEW c \in Clients, PullRebase(c)
  PROVE  IInv'
<1> DEFINE u == task[c]
           t == [phase |-> "place", branch |-> u.branch, tip |-> u.tip, local |-> u.local]
<1>1. /\ u.phase = "rebase" /\ requests' = requests /\ checked' = checked
      /\ refs' = refs /\ nextId' = nextId /\ ops' = ops
  BY DEF PullRebase
<1>2. /\ u.tip \in Known(Server) /\ "local" \in DOMAIN u /\ u # NoTask
  BY <1>1, ClientHas, PullHas
<1>3. /\ \A q \in requests : q.from # c
      /\ \A x, y \in u.local : x = y
      /\ nextId' \in Nat /\ nextId <= nextId' /\ ops' \in Nat
  BY <1>1, <1>2, ClientHas
<1>4. CASE /\ ~(u.local \subseteq Known(c))
           /\ task' = [task EXCEPT ![c] = NoTask]
           /\ UNCHANGED <<snapshots, revisions>>
  <2>1. UNCHANGED <<rows, requests, checked, nextId>>
    BY <1>1, <1>4 DEF rows
  <2> QED BY <1>3, <1>4, <2>1, Idle, TaskStepInv
<1>5. CASE /\ u.local \subseteq Known(c)
           /\ \E l \in u.local :
                /\ Store(c, Snapshot(u.tip, <<revisions[c][l]>>, revisions[c][u.tip].text))
                /\ task' = [task EXCEPT ![c] = t]
  <2>1. PICK l \in u.local :
               /\ Store(c, Snapshot(u.tip, <<revisions[c][l]>>, revisions[c][u.tip].text))
               /\ task' = [task EXCEPT ![c] = t]
    BY <1>5
  <2> DEFINE s == Snapshot(u.tip, <<revisions[c][l]>>, revisions[c][u.tip].text)
  <2>2. s.rev = u.tip /\ revisions[c][l] \in ParentsOf(s)
    <3>1. s.rev = u.tip /\ s.parents = <<revisions[c][l]>>
      BY SnapshotIs
    <3> HIDE DEF s
    <3>2. 1 \in DOMAIN s.parents /\ s.parents[1] = revisions[c][l]
      BY <3>1
    <3> QED BY <3>1, <3>2 DEF ParentsOf
  <2>3. Store(c, s) /\ task' = [task EXCEPT ![c] = t]
    BY <2>1
  <2> HIDE DEF s
  <2>4. /\ Known(c)' = Known(c) \cup {u.tip}
        /\ revisions'[c][u.tip] = s
        /\ \A id \in Known(c) \ {u.tip} : revisions'[c][id] = revisions[c][id]
        /\ OwnRows(revisions'[c]) /\ Range(revisions'[c]) \subseteq snapshots'[c]
    BY <2>2, <2>3, StoreKeeps
  <2>5. task'[c] = t /\ Alone(c)
    BY <1>1, <2>3, StoreKeeps, ServerIsNoClient DEF Alone, IInv, TypeOK
  <2> HIDE DEF u
  <2>6. Shape(t) /\ t.phase = "place" /\ t.tip = u.tip /\ t.local = u.local
    BY DEF Shape
  <2> HIDE DEF t
  <2>7. ASSUME NEW x \in u.local
        PROVE  revisions'[c][x] \in {revisions'[c][u.tip]} \cup ParentsOf(revisions'[c][u.tip])
    <3>1. x = l /\ x \in Known(c)
      BY <1>3, <1>5, <2>1
    <3>2. CASE x = u.tip
      BY <3>2
    <3>3. CASE x # u.tip
      BY <3>1, <3>3, <2>2, <2>4
    <3> QED BY <3>2, <3>3
  <2>8. Underway(t, revisions'[c], Known(Server))
    BY <1>2, <2>6, <2>7 DEF Underway
  <2>9. /\ Known(c) \subseteq Known(c)'
        /\ Known(c)' \subseteq Known(c) \cup Known(Server) \cup nextId..(nextId' - 1)
        /\ Range(refs'[c]) \subseteq Known(c)' \cup Known(Server)
    BY <1>1, <1>2, <2>4, ClientHas
  <2> QED BY <1>1, <1>3, <2>4, <2>5, <2>6, <2>8, <2>9, ClientKeeps
<1> QED BY <1>4, <1>5 DEF PullRebase

LEMMA PullPlaceInv ==
  ASSUME IInv, NEW c \in Clients, PullPlace(c)
  PROVE  IInv'
<1> DEFINE u == task[c]
           new == [n \in {u.branch} |-> u.tip]
           names == Over(refs[c], new)
<1>1. /\ u.phase = "place" /\ refs' = [refs EXCEPT ![c] = names]
      /\ task' = [task EXCEPT ![c] = NoTask]
      /\ UNCHANGED <<snapshots, revisions, requests, checked, nextId>> /\ ops' = ops
  BY DEF PullPlace
<1>2. u.tip \in Known(Server)
  BY <1>1, ClientHas DEF Underway
<1>3. Range(new) = {u.tip}
  BY DEF Range
<1> HIDE DEF new, u
<1>4. Range(names) \subseteq Range(refs[c]) \cup Range(new)
  BY OverKeys
<1>5. Range(names) \subseteq Known(c) \cup Known(Server) /\ ops' \in Nat
  BY <1>1, <1>2, <1>3, <1>4, ClientHas
<1> HIDE DEF names
<1> QED BY <1>1, <1>5, NamingInv

-----------------------------------------------------------------------------
LEMMA PushAdvertiseInv ==
  ASSUME IInv, Patient, NEW c \in Clients, PushAdvertise(c)
  PROVE  IInv'
<1> DEFINE t == [phase |-> "collect", have |-> Known(Server)]
<1>1. /\ Command(c) /\ task' = [task EXCEPT ![c] = t]
      /\ UNCHANGED <<rows, requests, checked, nextId>>
  BY DEF PushAdvertise
<1>2. (\A q \in requests : q.from # c) /\ ops' \in Nat
  BY <1>1, CommandWaits
<1>3. /\ Shape(t) /\ t.phase = "collect" /\ t.have = Known(Server) /\ "local" \notin DOMAIN t
  BY DEF Shape
<1> HIDE DEF t
<1>4. Underway(t, revisions[c], Known(Server))
  BY <1>3 DEF Underway
<1> QED BY <1>1, <1>2, <1>3, <1>4, TaskStepInv

LEMMA PushCollectInv ==
  ASSUME IInv, NEW c \in Clients, PushCollect(c)
  PROVE  IInv'
<1> DEFINE have == task[c].have
           revs == Collect(c, have)
           t == [phase |-> "send", revs |-> revs]
<1>1. /\ task[c].phase = "collect" /\ task' = [task EXCEPT ![c] = t]
      /\ UNCHANGED <<rows, requests, checked, nextId>> /\ ops' = ops
  BY DEF PushCollect
<1>2. have \subseteq Known(Server) /\ Known(c) \cap Known(Server) \subseteq have
  BY <1>1, ClientHas DEF Underway, Known
<1>3. (\A q \in requests : q.from # c) /\ ops' \in Nat
  <2>1. task[c] # NoTask
    BY <1>1, Idle
  <2> QED BY <1>1, <2>1, ClientHas
<1> HIDE DEF have
<1>4. DOMAIN revs = Known(c) \ have /\ OwnRows(revs)
  <2>1. /\ DOMAIN Only(revisions[c], Known(c) \ have) = DOMAIN revisions[c] \cap (Known(c) \ have)
        /\ OwnRows(revisions[c]) => OwnRows(Only(revisions[c], Known(c) \ have))
    BY OnlyKeys
  <2> QED BY <2>1, ClientHas DEF Collect, Known
<1> HIDE DEF revs
<1>5. Shape(t) /\ t.phase = "send" /\ t.revs = revs /\ "local" \notin DOMAIN t
  BY DEF Shape
<1> HIDE DEF t
<1>6. Underway(t, revisions[c], Known(Server))
  <2>1. News(revs, Known(c), Known(Server)) /\ Known(c) \subseteq DOMAIN revs \cup Known(Server)
    BY <1>2, <1>4 DEF News
  <2> QED BY <2>1, <1>5 DEF Underway, Known
<1> QED BY <1>1, <1>3, <1>5, <1>6, TaskStepInv

LEMMA PushSendInv ==
  ASSUME IInv, NEW c \in Clients, PushSend(c)
  PROVE  IInv'
<1> DEFINE u == task[c]
           q == [from |-> c, revs |-> u.revs, refs |-> refs[c]]
<1>1. /\ u.phase = "send" /\ requests' = requests \cup {q} /\ task' = [task EXCEPT ![c] = NoTask]
      /\ UNCHANGED rows /\ nextId' = nextId /\ checked' = checked /\ ops' = ops
  BY DEF PushSend
<1>2. /\ News(u.revs, Known(c), Known(Server)) /\ Known(c) \subseteq DOMAIN u.revs \cup Known(Server)
      /\ \A x \in requests : x.from # c
  <2>1. u # NoTask
    BY <1>1, Idle
  <2> QED BY <1>1, <2>1, ClientHas DEF Underway, Known
<1>3. q.from = c /\ q.revs = u.revs /\ q.refs = refs[c]
  OBVIOUS
<1> HIDE DEF q, u
<1>4. /\ TypeOK /\ PatienceInv /\ StandsInv /\ SecretsInv /\ NamesInv
      /\ UnderwayInv /\ RequestsInv /\ CheckedInv
  BY DEF IInv
<1>5. /\ snapshots' = snapshots /\ revisions' = revisions /\ refs' = refs
      /\ \A r : Known(r)' = Known(r)
  BY <1>1 DEF rows, Known
<1>6. /\ task'[c] = NoTask /\ \A d \in Clients \ {c} : task'[d] = task[d]
      /\ task' = [d \in Clients |-> task'[d]]
  BY <1>1, <1>4 DEF TypeOK
<1>7. TypeOK'
  BY <1>1, <1>3, <1>4, <1>5, <1>6, Idle DEF TypeOK
<1>8. PatienceInv'
  BY <1>1, <1>2, <1>3, <1>4, <1>6 DEF PatienceInv, TypeOK
<1>9. StandsInv' /\ SecretsInv' /\ NamesInv'
  BY <1>1, <1>4, <1>5 DEF StandsInv, SecretsInv, NamesInv
<1>10. UnderwayInv'
  <2>1. \A d \in Clients : /\ Underway(task'[d], revisions[d], Known(Server))
                           /\ "local" \in DOMAIN task'[d] => \A x, y \in task'[d].local : x = y
    BY <1>4, <1>6, Idle DEF UnderwayInv
  <2>2. Known(Server)' = Known(Server) /\ \A d \in Clients : revisions'[d] = revisions[d]
    BY <1>5
  <2>3. \A d \in Clients : Underway(task'[d], revisions'[d], Known(Server)')
    BY <2>1, <2>2
  <2>4. \A d \in Clients : "local" \in DOMAIN task'[d] => \A x, y \in task'[d].local : x = y
    BY <2>1
  <2> QED BY <2>3, <2>4 DEF UnderwayInv
<1>11. RequestsInv'
  <2>1. Range(q.refs) \subseteq DOMAIN q.revs \cup Known(Server)
    BY <1>2, <1>3, ClientHas
  <2> QED BY <2>1, <1>1, <1>2, <1>3, <1>4, <1>5 DEF RequestsInv
<1>12. CheckedInv'
  <2>1. \A x : Conflicts(x)' = Conflicts(x)
    BY <1>5 DEF Conflicts, AncestorUnion, Resolve, Known
  <2> QED BY <2>1, <1>1, <1>4 DEF CheckedInv
<1> QED BY <1>7, <1>8, <1>9, <1>10, <1>11, <1>12 DEF IInv

(* Requests are answered, lost or taken up, and nothing else changes. *)
LEMMA RequestsStepInv ==
  ASSUME IInv, UNCHANGED <<rows, nextId, task, ops>>, requests' \subseteq requests,
         checked' \subseteq requests', \A q1, q2 \in checked' : q1 = q2,
         \A q \in checked' : Conflicts(q) = {}
  PROVE  IInv'
<1>1. /\ TypeOK /\ PatienceInv /\ StandsInv /\ SecretsInv /\ NamesInv
      /\ UnderwayInv /\ RequestsInv /\ CheckedInv
  BY DEF IInv
<1>2. /\ snapshots' = snapshots /\ revisions' = revisions /\ refs' = refs /\ nextId' = nextId
      /\ task' = task /\ ops' = ops
      /\ \A r : Known(r)' = Known(r)
  BY DEF rows, Known
<1>3. TypeOK' /\ PatienceInv'
  BY <1>1, <1>2 DEF TypeOK, PatienceInv
<1>4. StandsInv' /\ SecretsInv' /\ NamesInv' /\ UnderwayInv'
  BY <1>1, <1>2 DEF StandsInv, SecretsInv, NamesInv, UnderwayInv
<1>5. RequestsInv'
  BY <1>1, <1>2 DEF RequestsInv
<1>6. CheckedInv'
  <2>1. \A x : Conflicts(x)' = Conflicts(x)
    BY <1>2 DEF Conflicts, AncestorUnion, Resolve, Known
  <2> QED BY <2>1 DEF CheckedInv
<1> QED BY <1>3, <1>4, <1>5, <1>6 DEF IInv

LEMMA CheckPushInv ==
  ASSUME IInv, NEW q \in requests, CheckPush(q)
  PROVE  IInv'
<1>1. UNCHANGED <<rows, nextId, task, ops>> /\ checked = {}
  BY DEF CheckPush
<1>2. CASE Conflicts(q) = {}
  BY <1>1, <1>2, RequestsStepInv DEF CheckPush
<1>3. CASE Conflicts(q) # {}
  BY <1>1, <1>3, RequestsStepInv DEF CheckPush
<1> QED BY <1>2, <1>3

LEMMA LoseInv ==
  ASSUME IInv, NEW q \in requests, Lose(q)
  PROVE  IInv'
<1>1. /\ UNCHANGED <<rows, nextId, task, ops>> /\ checked' = checked
      /\ requests' = requests \ {q} /\ q \notin checked
  BY DEF Lose
<1>2. /\ checked \subseteq requests /\ \A q1, q2 \in checked : q1 = q2
      /\ \A x \in checked : Conflicts(x) = {}
  BY DEF IInv, TypeOK, PatienceInv, CheckedInv
<1> QED BY <1>1, <1>2, RequestsStepInv

LEMMA RestartInv ==
  ASSUME IInv, Restart
  PROVE  IInv'
<1>1. UNCHANGED <<rows, nextId, task, ops>> /\ checked' = {} /\ requests' = {}
  BY DEF Restart
<1> QED BY <1>1, RequestsStepInv

-----------------------------------------------------------------------------
(* What the server writes when it applies a push: nothing that it has. *)
LEMMA ApplyPushDoes ==
  ASSUME IInv, NEW q \in requests, ApplyPush(q)
  PROVE  /\ q \in checked /\ checked' = {} /\ requests' = requests \ {q}
         /\ nextId' = nextId /\ task' = task /\ ops' = ops
         /\ \A c \in Clients : /\ snapshots'[c] = snapshots[c] /\ revisions'[c] = revisions[c]
                               /\ refs'[c] = refs[c] /\ Known(c)' = Known(c)
         /\ snapshots' = [r \in Repos |-> snapshots'[r]]
         /\ revisions' = [r \in Repos |-> revisions'[r]]
         /\ refs' = [r \in Repos |-> refs'[r]]
         /\ snapshots'[Server] = snapshots[Server] \cup Range(q.revs)
         /\ refs'[Server] = Over(refs[Server], q.refs)
         /\ Known(Server)' = Known(Server) \cup DOMAIN q.revs
         /\ DOMAIN q.revs \cap Known(Server) = {}
         /\ \A id \in Known(Server) : revisions'[Server][id] = revisions[Server][id]
         /\ \A id \in DOMAIN q.revs : revisions'[Server][id] = q.revs[id]
         /\ OwnRows(revisions'[Server]) /\ Range(revisions'[Server]) \subseteq snapshots'[Server]
<1>1. /\ q \in checked /\ Apply(Server, q.revs, q.refs) /\ checked' = checked \ {q}
      /\ requests' = requests \ {q} /\ nextId' = nextId /\ task' = task /\ ops' = ops
  BY DEF ApplyPush
<1>2. checked' = {}
  BY <1>1 DEF IInv, PatienceInv
<1>3. /\ snapshots'[Server] = snapshots[Server] \cup Range(q.revs)
      /\ revisions'[Server] = Over(revisions[Server], q.revs)
      /\ refs'[Server] = Over(refs[Server], q.refs)
  BY <1>1, ServerIsNoClient DEF IInv, TypeOK, Apply
<1>4. \A c \in Clients : /\ snapshots'[c] = snapshots[c] /\ revisions'[c] = revisions[c]
                         /\ refs'[c] = refs[c]
  BY <1>1, ServerIsNoClient DEF IInv, TypeOK, Apply
<1>5. /\ snapshots' = [r \in Repos |-> snapshots'[r]]
      /\ revisions' = [r \in Repos |-> revisions'[r]]
      /\ refs' = [r \in Repos |-> refs'[r]]
  BY <1>1 DEF IInv, TypeOK, Apply
<1>6. OwnRows(q.revs) /\ DOMAIN q.revs \cap Known(Server) = {}
  BY DEF IInv, RequestsInv, News
<1>7. OwnRows(revisions[Server]) /\ Range(revisions[Server]) \subseteq snapshots[Server]
  BY ServerIsNoClient DEF IInv, StandsInv
<1>8. /\ DOMAIN revisions'[Server] = DOMAIN revisions[Server] \cup DOMAIN q.revs
      /\ \A k \in DOMAIN q.revs : revisions'[Server][k] = q.revs[k]
      /\ \A k \in DOMAIN revisions[Server] \ DOMAIN q.revs : revisions'[Server][k] = revisions[Server][k]
      /\ Range(revisions'[Server]) \subseteq Range(revisions[Server]) \cup Range(q.revs)
      /\ OwnRows(revisions'[Server])
  <2>1. /\ DOMAIN Over(revisions[Server], q.revs) = DOMAIN revisions[Server] \cup DOMAIN q.revs
        /\ \A k \in DOMAIN q.revs : Over(revisions[Server], q.revs)[k] = q.revs[k]
        /\ \A k \in DOMAIN revisions[Server] \ DOMAIN q.revs :
              Over(revisions[Server], q.revs)[k] = revisions[Server][k]
        /\ Range(Over(revisions[Server], q.revs)) \subseteq Range(revisions[Server]) \cup Range(q.revs)
        /\ OwnRows(revisions[Server]) /\ OwnRows(q.revs) => OwnRows(Over(revisions[Server], q.revs))
    BY OverKeys
  <2> QED BY <2>1, <1>3, <1>6, <1>7
<1>9. Known(Server)' = Known(Server) \cup DOMAIN q.revs
  BY <1>8 DEF Known
<1>10. \A id \in Known(Server) : revisions'[Server][id] = revisions[Server][id]
  BY <1>6, <1>8 DEF Known
<1>11. Range(revisions'[Server]) \subseteq snapshots'[Server]
  BY <1>3, <1>7, <1>8
<1>12. \A c \in Clients : Known(c)' = Known(c)
  BY <1>4 DEF Known
<1> QED BY <1>1, <1>2, <1>3, <1>4, <1>5, <1>6, <1>8, <1>9, <1>10, <1>11, <1>12

(* What other clients have on its way is still news to the server. *)
LEMMA NewsStaysNews ==
  ASSUME IInv, NEW q \in requests, NEW c \in Clients, c # q.from
  PROVE  Known(c) \cap DOMAIN q.revs = {}
<1>1. q.from \in Clients /\ DOMAIN q.revs \subseteq Known(q.from) /\ DOMAIN q.revs \cap Known(Server) = {}
  BY DEF IInv, TypeOK, RequestsInv, News
<1>2. Known(c) \cap Known(q.from) \subseteq Known(Server)
  BY <1>1 DEF IInv, SecretsInv
<1> QED BY <1>1, <1>2

LEMMA ApplyPushInv ==
  ASSUME IInv, NEW q \in requests, ApplyPush(q)
  PROVE  IInv'
<1> DEFINE server == Known(Server)
           more == Known(Server) \cup DOMAIN q.revs
<1>1. /\ TypeOK /\ PatienceInv /\ StandsInv /\ SecretsInv /\ NamesInv
      /\ UnderwayInv /\ RequestsInv
  BY DEF IInv
<1>2. q.from \in Clients /\ task[q.from] = NoTask /\ \A x \in requests \ {q} : x.from # q.from
  BY <1>1 DEF TypeOK, PatienceInv
<1>3. TypeOK'
  BY <1>1, ApplyPushDoes DEF TypeOK
<1>4. PatienceInv'
  BY <1>1, ApplyPushDoes DEF PatienceInv
<1>5. StandsInv'
  <2>1. \A r \in Repos : r = Server \/ r \in Clients
    BY DEF Repos
  <2> QED BY <2>1, <1>1, ApplyPushDoes DEF StandsInv
<1>6. SecretsInv'
  <2>1. \A r \in Repos : r = Server \/ r \in Clients
    BY DEF Repos
  <2>2. DOMAIN q.revs \subseteq Known(q.from)
    BY <1>1 DEF RequestsInv, News
  <2>3. \A r \in Repos : Known(r)' \subseteq 1..(nextId' - 1)
    BY <2>1, <2>2, <1>1, <1>2, ApplyPushDoes, ServerIsNoClient DEF SecretsInv
  <2>4. \A c1, c2 \in Clients : c1 # c2 => Known(c1)' \cap Known(c2)' \subseteq Known(Server)'
    BY <1>1, ApplyPushDoes DEF SecretsInv
  <2> QED BY <2>3, <2>4 DEF SecretsInv
<1>7. NamesInv'
  <2>1. Range(refs'[Server]) \subseteq Range(refs[Server]) \cup Range(q.refs)
    <3>1. Range(Over(refs[Server], q.refs)) \subseteq Range(refs[Server]) \cup Range(q.refs)
      BY OverKeys
    <3> QED BY <3>1, ApplyPushDoes
  <2>2. Range(q.refs) \subseteq DOMAIN q.revs \cup Known(Server)
    BY <1>1 DEF RequestsInv
  <2> QED BY <2>1, <2>2, <1>1, ApplyPushDoes DEF NamesInv
<1>8. UnderwayInv'
  <2>1. ASSUME NEW c \in Clients PROVE Underway(task[c], revisions[c], more)
    <3>1. CASE c = q.from
      BY <3>1, <1>2, Idle
    <3>2. CASE c # q.from
      <4>1. DOMAIN revisions[c] \cap DOMAIN q.revs = {}
        BY <3>2, NewsStaysNews DEF Known
      <4>2. Underway(task[c], revisions[c], Known(Server))
        BY <1>1 DEF UnderwayInv
      <4>3. CASE task[c].phase = "collect"
        BY <4>1, <4>2, <4>3 DEF Underway
      <4>4. CASE task[c].phase = "send"
        <5>1. /\ News(task[c].revs, DOMAIN revisions[c], Known(Server))
              /\ DOMAIN revisions[c] \subseteq DOMAIN task[c].revs \cup Known(Server)
          BY <4>2, <4>4 DEF Underway
        <5>2. /\ News(task[c].revs, DOMAIN revisions[c], more)
              /\ DOMAIN revisions[c] \subseteq DOMAIN task[c].revs \cup more
          BY <5>1, <4>1 DEF News
        <5> QED BY <5>2, <4>4 DEF Underway
      <4>5. CASE task[c].phase \notin {"collect", "send"}
        BY <4>2, <4>5 DEF Underway
      <4> QED BY <4>3, <4>4, <4>5
    <3> QED BY <3>1, <3>2
  <2>2. /\ Known(Server)' = more /\ task' = task
        /\ \A c \in Clients : revisions'[c] = revisions[c]
    BY ApplyPushDoes
  <2> HIDE DEF more
  <2> QED BY <2>1, <2>2, <1>1 DEF UnderwayInv
<1>9. RequestsInv'
  <2>1. ASSUME NEW x \in requests \ {q} PROVE News(x.revs, Known(x.from), more)
    <3>1. x.from \in Clients /\ x.from # q.from
      BY <1>1, <1>2 DEF TypeOK
    <3>2. Known(x.from) \cap DOMAIN q.revs = {}
      BY <3>1, NewsStaysNews
    <3>3. News(x.revs, Known(x.from), Known(Server))
      BY <1>1 DEF RequestsInv
    <3> QED BY <3>2, <3>3 DEF News
  <2>2. ASSUME NEW x \in requests \ {q} PROVE Known(x.from)' = Known(x.from)
    BY <1>1, ApplyPushDoes DEF TypeOK
  <2>3. Known(Server)' = more /\ requests' = requests \ {q}
    BY ApplyPushDoes
  <2>4. \A x \in requests : Range(x.refs) \subseteq DOMAIN x.revs \cup more
    BY <1>1 DEF RequestsInv
  <2> HIDE DEF more
  <2> QED BY <2>1, <2>2, <2>3, <2>4 DEF RequestsInv
<1>10. CheckedInv'
  BY ApplyPushDoes DEF CheckedInv
<1> QED BY <1>3, <1>4, <1>5, <1>6, <1>7, <1>8, <1>9, <1>10 DEF IInv

-----------------------------------------------------------------------------
LEMMA InitIInv == Init => IInv
<1> SUFFICES ASSUME Init PROVE IInv
  OBVIOUS
<1>1. /\ \A r \in Repos : snapshots[r] = {} /\ revisions[r] = <<>> /\ refs[r] = <<>>
      /\ \A c \in Clients : task[c] = NoTask
      /\ requests = {} /\ checked = {} /\ nextId = 1 /\ ops = 0
      /\ Server \in Repos /\ Clients \subseteq Repos
  BY ServerIsNoClient DEF Init
<1>2. DOMAIN <<>> = {}
  OBVIOUS
<1>3. \A r \in Repos : /\ Known(r) = {} /\ DOMAIN revisions[r] = {}
                       /\ Range(revisions[r]) = {} /\ Range(refs[r]) = {}
  BY <1>1, <1>2 DEF Known, Range
<1>4. TypeOK
  <2>1. /\ snapshots = [r \in Repos |-> snapshots[r]]
        /\ revisions = [r \in Repos |-> revisions[r]]
        /\ refs = [r \in Repos |-> refs[r]]
        /\ task = [c \in Clients |-> task[c]]
    BY DEF Init
  <2> QED BY <2>1, <1>1, Idle DEF TypeOK
<1>5. StandsInv
  BY <1>3 DEF StandsInv, OwnRows
<1>6. PatienceInv /\ RequestsInv /\ CheckedInv
  BY <1>1 DEF PatienceInv, RequestsInv, CheckedInv
<1>7. SecretsInv /\ NamesInv
  BY <1>1, <1>3 DEF SecretsInv, NamesInv
<1>8. UnderwayInv
  BY <1>1, Idle DEF UnderwayInv
<1> QED BY <1>4, <1>5, <1>6, <1>7, <1>8 DEF IInv

LEMMA NextInv ==
  ASSUME IInv, Patient, Next
  PROVE  IInv'
<1>1. ASSUME NEW c \in Clients, Work(c) \/ Pull(c) \/ Push(c) \/ Kill(c) PROVE IInv'
  <2>1. CASE Pull(c)
    BY <2>1, PullAdvertiseInv, PullFetchInv, PullApplyInv, PullRebaseInv, PullPlaceInv DEF Pull
  <2>2. CASE Push(c)
    BY <2>2, PushAdvertiseInv, PushCollectInv, PushSendInv DEF Push
  <2> QED BY <1>1, <2>1, <2>2, WorkInv, KillInv
<1>2. ASSUME NEW q \in requests, CheckPush(q) \/ ApplyPush(q) \/ Lose(q) PROVE IInv'
  BY <1>2, CheckPushInv, ApplyPushInv, LoseInv
<1> QED BY <1>1, <1>2, RestartInv DEF Next

LEMMA StutterInv ==
  ASSUME IInv, UNCHANGED vars
  PROVE  IInv'
<1>1. /\ UNCHANGED <<rows, nextId, task, ops>> /\ requests' = requests /\ checked' = checked
  BY DEF vars, rows
<1>2. /\ checked \subseteq requests /\ \A q1, q2 \in checked : q1 = q2
      /\ \A x \in checked : Conflicts(x) = {}
  BY DEF IInv, TypeOK, PatienceInv, CheckedInv
<1> QED BY <1>1, <1>2, RequestsStepInv

LEMMA Invariance ==
  ASSUME Patient
  PROVE  Spec => []IInv
<1>1. IInv /\ [Next]_vars => IInv'
  BY NextInv, StutterInv
<1> QED BY InitIInv, <1>1, PTL DEF Spec

(***************************************************************************)
(* A branch of the server names a revision the server has, and everywhere  *)
(* a revision stands at a stored snapshot of its own: whatever a filtered  *)
(* pull left out, and wherever a transfer stopped.                         *)
(***************************************************************************)
THEOREM ServerBranchesNeverDangle ==
  ASSUME Patient
  PROVE  Spec => []ServerBranchesResolve
<1>1. IInv => ServerBranchesResolve
  <2> SUFFICES ASSUME IInv PROVE ServerBranchesResolve
    OBVIOUS
  <2>1. Range(refs[Server]) \subseteq Known(Server)
    BY DEF IInv, NamesInv
  <2>2. ASSUME NEW r \in Repos, NEW id \in Known(r)
        PROVE  revisions[r][id] \in snapshots[r] /\ revisions[r][id].rev = id
    <3>1. OwnRows(revisions[r]) /\ Range(revisions[r]) \subseteq snapshots[r]
      BY DEF IInv, StandsInv
    <3> QED BY <3>1 DEF Known, OwnRows, Range
  <2> QED BY <2>1, <2>2 DEF ServerBranchesResolve
<1> QED BY <1>1, Invariance, PTL

(***************************************************************************)
(* The bundle of a pull holds the tip that was asked for, or the client    *)
(* has it, whatever was pushed between the two answers of the server.      *)
(***************************************************************************)
THEOREM TipsDoArrive ==
  ASSUME Patient
  PROVE  Spec => []TipsArrive
<1>1. IInv => TipsArrive
  <2> SUFFICES ASSUME IInv, NEW c \in Clients, task[c].phase = "apply"
               PROVE  task[c].tip \in Known(c) \cup DOMAIN task[c].revs
    BY DEF TipsArrive
  <2>1. Underway(task[c], revisions[c], Known(Server))
    BY DEF IInv, UnderwayInv
  <2> QED BY <2>1 DEF Underway, Known
<1> QED BY <1>1, Invariance, PTL

-----------------------------------------------------------------------------
(* A client's command writes in its own repository only. *)
LEMMA ServerRowsStay ==
  ASSUME TypeOK, NEW c \in Clients, Work(c) \/ Pull(c) \/ Push(c) \/ Kill(c)
  PROVE  revisions'[Server] = revisions[Server] /\ refs'[Server] = refs[Server]
<1>1. Server \in Repos /\ c # Server
  BY ServerIsNoClient
<1>2. /\ revisions = [r \in Repos |-> revisions[r]]
      /\ refs = [r \in Repos |-> refs[r]]
  BY DEF TypeOK
<1>3. CASE Work(c)
  <2>1. CASE \E parents, text : Commit(c, parents, text)
    BY <2>1, <1>1, <1>2 DEF Commit, Store
  <2>2. CASE \E id, text : Amend(c, id, text)
    BY <2>2, <1>1, <1>2 DEF Amend, Store
  <2>3. CASE \E b, id : SetBranch(c, b, id)
    BY <2>3, <1>1, <1>2 DEF SetBranch
  <2>4. CASE \E b : DeleteBranch(c, b)
    BY <2>4, <1>1, <1>2 DEF DeleteBranch
  <2> QED BY <1>3, <2>1, <2>2, <2>3, <2>4 DEF Work
<1>4. CASE Pull(c)
  <2>1. CASE \E b : PullAdvertise(c, b)
    BY <2>1 DEF PullAdvertise, rows
  <2>2. CASE PullFetch(c)
    BY <2>2 DEF PullFetch, rows
  <2>3. CASE PullApply(c)
    BY <2>3, <1>1, <1>2 DEF PullApply, Apply
  <2>4. CASE PullRebase(c)
    BY <2>4, <1>1, <1>2 DEF PullRebase, Store
  <2>5. CASE PullPlace(c)
    BY <2>5, <1>1, <1>2 DEF PullPlace
  <2> QED BY <1>4, <2>1, <2>2, <2>3, <2>4, <2>5 DEF Pull
<1>5. CASE Push(c)
  BY <1>5 DEF Push, PushAdvertise, PushCollect, PushSend, rows
<1>6. CASE Kill(c)
  BY <1>6 DEF Kill, rows
<1> QED BY <1>3, <1>4, <1>5, <1>6

(* So only a push that is applied changes what the server has. *)
LEMMA OnlyPushesWrite ==
  ASSUME IInv, [Next]_vars, \A q \in requests : ~ApplyPush(q)
  PROVE  revisions'[Server] = revisions[Server] /\ refs'[Server] = refs[Server]
<1>1. CASE \E c \in Clients : Work(c) \/ Pull(c) \/ Push(c) \/ Kill(c)
  BY <1>1, ServerRowsStay DEF IInv
<1>2. CASE \E q \in requests : CheckPush(q) \/ Lose(q)
  BY <1>2 DEF CheckPush, Lose, rows
<1>3. CASE Restart
  BY <1>3 DEF Restart, rows
<1>4. CASE UNCHANGED vars
  BY <1>4 DEF vars
<1> QED BY <1>1, <1>2, <1>3, <1>4 DEF Next

(* Where the check of a push looks a revision up, the server has it afterwards. *)
LEMMA ResolvedIsApplied ==
  ASSUME IInv, NEW q \in requests, ApplyPush(q), NEW id \in Known(Server) \cup DOMAIN q.revs
  PROVE  revisions'[Server][id] = Resolve(q, id)
BY ApplyPushDoes DEF Resolve

LEMMA NamesApplied ==
  ASSUME IInv, NEW q \in requests, ApplyPush(q), NEW b \in DOMAIN refs[Server]
  PROVE  /\ b \in DOMAIN q.refs => refs'[Server][b] = q.refs[b]
         /\ b \notin DOMAIN q.refs => refs'[Server][b] = refs[Server][b]
<1>1. refs'[Server] = Over(refs[Server], q.refs)
  BY ApplyPushDoes
<1>2. ASSUME NEW f, NEW g
      PROVE  /\ \A k \in DOMAIN g : Over(f, g)[k] = g[k]
             /\ \A k \in DOMAIN f : k \notin DOMAIN g => Over(f, g)[k] = f[k]
  BY DEF Over
<1> DEFINE f == refs[Server]
           g == q.refs
<1>3. refs'[Server] = Over(f, g) /\ b \in DOMAIN f
  BY <1>1
<1>4. /\ b \in DOMAIN g => refs'[Server][b] = g[b]
      /\ b \notin DOMAIN g => refs'[Server][b] = f[b]
  <2> HIDE DEF f, g
  <2> QED BY <1>2, <1>3
<1> QED BY <1>4

(***************************************************************************)
(* A revision the server has given out stays as it is: what a push brings  *)
(* is news to the server, although the server may have moved on since the  *)
(* push began.                                                             *)
(***************************************************************************)
THEOREM PublishedAreNotRewritten ==
  ASSUME Patient
  PROVE  Spec => PublishedRevisionsStay
<1>1. IInv /\ [Next]_vars
      => [\A id \in Known(Server) : revisions'[Server][id] = revisions[Server][id]]_vars
  <2> SUFFICES ASSUME IInv, [Next]_vars, NEW id \in Known(Server)
               PROVE  revisions'[Server][id] = revisions[Server][id]
    OBVIOUS
  <2>1. CASE \E q \in requests : ApplyPush(q)
    BY <2>1, ApplyPushDoes
  <2>2. CASE \A q \in requests : ~ApplyPush(q)
    BY <2>2, OnlyPushesWrite
  <2> QED BY <2>1, <2>2
<1> QED BY <1>1, Invariance, PTL DEF PublishedRevisionsStay, Spec

(***************************************************************************)
(* The server's branches move forward only: what was checked under the     *)
(* lock still holds when the push is applied, and what the check finds     *)
(* going back over stored snapshots is in the history.                     *)
(***************************************************************************)
THEOREM BranchesDoMoveForward ==
  ASSUME Patient
  PROVE  Spec => BranchesMoveForward
<1> DEFINE Forward ==
      \A b \in DOMAIN refs[Server] :
        LET a == refs[Server][b]  c == refs'[Server][b]
        IN  a \in Known(Server) /\ c \in DOMAIN revisions'[Server] =>
              revisions[Server][a] \in Lineage(revisions'[Server][c])
<1>1. IInv /\ [Next]_vars => [Forward]_vars
  <2> SUFFICES ASSUME IInv, [Next]_vars, NEW b \in DOMAIN refs[Server],
                      refs[Server][b] \in Known(Server)
               PROVE  revisions[Server][refs[Server][b]] \in Lineage(revisions'[Server][refs'[Server][b]])
    OBVIOUS
  <2> DEFINE a == refs[Server][b]
             c == refs'[Server][b]
  <2>1. CASE \A q \in requests : ~ApplyPush(q)
    BY <2>1, OnlyPushesWrite, LineageIs
  <2>2. ASSUME NEW q \in requests, ApplyPush(q)
        PROVE  revisions[Server][a] \in Lineage(revisions'[Server][c])
    <3>1. /\ Conflicts(q) = {}
          /\ revisions'[Server][a] = revisions[Server][a]
      BY <2>2, ApplyPushDoes DEF IInv, CheckedInv
    <3>2. /\ b \in DOMAIN q.refs => c = q.refs[b]
          /\ b \notin DOMAIN q.refs => c = a
      BY <2>2, NamesApplied
    <3>3. CASE c = a
      BY <3>1, <3>3, LineageIs
    <3>4. CASE c # a
      <4>1. AncestorUnion(q, a, c)
        BY <3>1, <3>2, <3>4 DEF Conflicts
      <4>2. c \in Known(Server) \cup DOMAIN q.revs
        BY <4>1 DEF AncestorUnion
      <4>3. Resolve(q, a) = revisions[Server][a] /\ Resolve(q, c) = revisions'[Server][c]
        BY <4>2, <2>2, ResolvedIsApplied DEF Resolve
      <4>4. Resolve(q, a) \in Lineage(Resolve(q, c))
        BY <4>1, AncestorsAreInLineage
      <4> QED BY <4>3, <4>4
    <3> QED BY <3>3, <3>4
  <2> QED BY <2>1, <2>2
<1> QED BY <1>1, Invariance, PTL DEF BranchesMoveForward, Spec

(***************************************************************************)
(* A pull that comes to its end leaves the branch on a history that has    *)
(* both lines: nothing came between the rebase and the branch.             *)
(***************************************************************************)
THEOREM PullsKeepTheLocalLine ==
  ASSUME Patient
  PROVE  Spec => PullMergesLines
<1> DEFINE Both ==
      \A c \in Clients : PullPlace(c) =>
        \A l \in task[c].local : revisions[c][l] \in Lineage(revisions[c][task[c].tip])
<1>1. IInv => [Both]_vars
  <2> SUFFICES ASSUME IInv, NEW c \in Clients, PullPlace(c), NEW l \in task[c].local
               PROVE  revisions[c][l] \in Lineage(revisions[c][task[c].tip])
    OBVIOUS
  <2>1. Underway(task[c], revisions[c], Known(Server)) /\ task[c].phase = "place"
    BY DEF IInv, UnderwayInv, PullPlace
  <2>2. revisions[c][l] \in {revisions[c][task[c].tip]} \cup ParentsOf(revisions[c][task[c].tip])
    BY <2>1 DEF Underway
  <2> QED BY <2>2, LineageIs
<1> QED BY <1>1, Invariance, PTL DEF PullMergesLines, Spec
=============================================================================
