---------------------------- MODULE HostingProofs ----------------------------
(***************************************************************************)
(* Theorems about Hosting, for any number of requests, names, users and    *)
(* operations.  The inductive invariant IInv says what the statements a    *)
(* request has left may rely on, whatever other requests do before them    *)
(* and wherever the request ends.                                          *)
(***************************************************************************)
EXTENDS Hosting, FiniteSetTheorems, TLAPS

Spaces == {SpaceOf[n] : n \in Names}
Roles  == {"maintainer", "developer"}

UserRow   == [id : Nat]
TokenRow  == [user : Nat, created : Nat]
SpaceRow  == [owner : Nat, space : Spaces, created : Nat]
RepoRow   == [id : Nat, owner : Nat, name : Names]
MemberRow == [repo : Nat, user : Nat, role : Roles, created : Nat]
MrRow     == [id : Nat, repo : Nat, iid : Nat]
ClaimRow  == [owner : Nat, name : Names, created : Nat]

OneStatement ==
  [do : {"namespace"}, row : SpaceRow] \cup [do : {"repo"}, user : Nat, name : Names]
    \cup [do : {"open"}, name : Names] \cup [do : {"invalidate"}, user : Nat]
    \cup [do : {"clear"}, user : Nat,
          table : {"members", "tokens", "namespaces", "claims", "users"}]
    \cup [do : {"mr"}, repo : Nat, iid : Nat] \cup [do : {"note"}, mr : Nat]
    \cup [do : {"grant"}, row : MemberRow] \cup [do : {"claim"}, row : ClaimRow]
    \cup [do : {"remember"}, value : {"open", "closed"}]
    \cup [do : {"mrs", "members", "notes", "drop"}, repo : Nat]

Database ==
  [users : SUBSET UserRow, tokens : SUBSET TokenRow, namespaces : SUBSET SpaceRow,
   repos : SUBSET RepoRow, members : SUBSET MemberRow, mrs : SUBSET MrRow,
   notes : SUBSET [mr : Nat], claims : SUBSET ClaimRow]

TypeOK ==
  /\ db \in Database
  /\ next \in [user : Nat, repo : Nat, mr : Nat]
  /\ cache \in {"unknown", "open", "closed"}
  /\ lock \in Requests \cup {NoOne}
  /\ todo \in [Requests -> Seq(OneStatement)]
  /\ ops \in Nat

-----------------------------------------------------------------------------
(* These statements are the whole of a request, or the first of it. *)
Single == {"remember", "namespace", "grant", "claim", "mr"}

FirstOnly ==
  \A p \in Requests : \A i \in 2..Len(todo[p]) : todo[p][i].do \notin Single

(* Who remembers whether the instance is open holds the lock, and every user
   that came in between is about to invalidate the cache itself. *)
CacheInv ==
  /\ \A p \in Requests : Doing(p, "remember") => lock = p
  /\ \/ cache = "open"
     \/ \E p \in Requests : Doing(p, "remember") /\ Head(todo[p]).value = "open"
     => \A x \in db.users : \E p \in Requests : Invalidating(p, x.id)

(***************************************************************************)
(* The numbers of a repository that nobody began to delete are 1..n, and a *)
(* request that asked for the next number asked when there were at most    *)
(* the merge requests there are now.                                       *)
(***************************************************************************)
Own(id, mrs)     == {m \in mrs : m.repo = id}
HasLargest(id, mrs) == \E t \in Own(id, mrs) : \A m \in Own(id, mrs) : m.iid <= t.iid
Gapless(id, mrs) == {m.iid : m \in Own(id, mrs)} = 1..Cardinality(Own(id, mrs))

NumbersInv ==
  /\ IsFiniteSet(db.mrs)
  /\ \A m \in db.mrs : HasLargest(m.repo, db.mrs)
  /\ \A m \in db.mrs : m.repo \notin DOMAIN doomed => Gapless(m.repo, db.mrs)
  /\ \A p \in Requests : Doing(p, "mr") /\ Head(todo[p]).repo \notin DOMAIN doomed =>
       Head(todo[p]).iid \in 1..(Cardinality(Own(Head(todo[p]).repo, db.mrs)) + 1)
  /\ \A p \in Requests : \A i \in 1..Len(todo[p]) :
       todo[p][i].do \in {"mrs", "drop"} => todo[p][i].repo \in DOMAIN doomed

-----------------------------------------------------------------------------
(* The rows there are, and those that the history keeps of deletions. *)
Stored == db.repos \cup db.namespaces \cup db.claims \cup db.members \cup db.tokens \cup db.mrs

Recorded ==
  (UNION {doomed[id] : id \in DOMAIN doomed}) \cup (UNION {leaving[u] : u \in DOMAIN leaving})

(* A row that has been stored: another like it will get another id or time. *)
Past(x, ids, now) ==
  \/ x \in RepoRow /\ x.id < ids.repo
  \/ x \in MrRow /\ x.id < ids.mr
  \/ x \in TokenRow \cup SpaceRow \cup MemberRow \cup ClaimRow /\ x.created < now

Stamped(p) == Doing(p, "namespace") \/ Doing(p, "grant") \/ Doing(p, "claim")

RowsInv ==
  /\ IsFiniteSet(db.repos)
  /\ \A x, y \in db.repos : x.name = y.name => x = y
  /\ \A x \in Stored \cup Recorded : Past(x, next, ops)
  /\ \A p \in Requests : Stamped(p) =>
       /\ Past(Head(todo[p]).row, next, ops)
       /\ Head(todo[p]).row \notin Stored \cup Recorded
       /\ \A q \in Requests \ {p} : Stamped(q) => Head(todo[q]).row # Head(todo[p]).row

(* The statement removes the row, or opens the repository to have it removed. *)
Undoes(s, x) ==
  \/ s.do = "open" /\ x \in RepoRow /\ x.name = s.name
  \/ s.do = "drop" /\ x \in RepoRow /\ x.id = s.repo
  \/ s.do = "mrs" /\ x \in MrRow /\ x.repo = s.repo
  \/ s.do = "members" /\ x \in MemberRow /\ x.repo = s.repo
  \/ /\ s.do = "clear"
     /\ \/ s.table = "members" /\ x \in MemberRow /\ x.user = s.user
        \/ s.table = "tokens" /\ x \in TokenRow /\ x.user = s.user
        \/ s.table = "namespaces" /\ x \in SpaceRow /\ x.owner = s.user
        \/ s.table = "claims" /\ x \in ClaimRow /\ x.owner = s.user

(* The rows that must be gone when the statement is executed, from what the
   history keeps of repositories and of users. *)
Due(s, ofRepos, ofUsers) ==
  IF s.do = "drop" THEN ofRepos[s.repo]
  ELSE IF s.do = "clear" /\ s.table = "users" THEN ofUsers[s.user]
  ELSE {}

Kept(s, ofRepos, ofUsers) ==
  /\ s.do = "drop" => s.repo \in DOMAIN ofRepos
  /\ s.do = "clear" /\ s.table = "users" => s.user \in DOMAIN ofUsers

Covers(plan, ofRepos, ofUsers, rows) ==
  \A i \in 1..Len(plan) :
    /\ Kept(plan[i], ofRepos, ofUsers)
    /\ \A x \in Due(plan[i], ofRepos, ofUsers) \cap rows :
         \E j \in 1..(i - 1) : Undoes(plan[j], x)

Covered(p) == Covers(todo[p], doomed, leaving, Stored)

(***************************************************************************)
(* What is left of a deletion covers what is left of its rows; where the   *)
(* deletion came to its end there are none.                                *)
(***************************************************************************)
DeletionInv ==
  /\ \A id \in DOMAIN doomed : \A x \in doomed[id] : x \in MrRow \cup MemberRow /\ x.repo = id
  /\ \A u \in DOMAIN leaving : \A x \in leaving[u] :
       \/ x \in RepoRow \cup SpaceRow \cup ClaimRow /\ x.owner = u
       \/ x \in MemberRow \cup TokenRow /\ x.user = u
  /\ \A p \in Requests : Covered(p)
  /\ \A id \in DOMAIN doomed \ RepoIds : doomed[id] \cap Stored = {}
  /\ \A u \in DOMAIN leaving \ UserIds : leaving[u] \cap Stored = {}

IInv == TypeOK /\ FirstOnly /\ CacheInv /\ NumbersInv /\ RowsInv /\ DeletionInv

-----------------------------------------------------------------------------
(* What a statement carries. *)
LEMMA StatementFields ==
  ASSUME NEW s \in OneStatement
  PROVE  /\ s.do = "namespace" => s.row \in SpaceRow
         /\ s.do = "grant" => s.row \in MemberRow
         /\ s.do = "claim" => s.row \in ClaimRow
         /\ s.do = "repo" => s.user \in Nat /\ s.name \in Names
         /\ s.do = "open" => s.name \in Names
         /\ s.do = "mr" => s.repo \in Nat /\ s.iid \in Nat
         /\ s.do = "note" => s.mr \in Nat
         /\ s.do = "remember" => s.value \in {"open", "closed"}
         /\ s.do \in {"mrs", "members", "notes"} => s.repo \in Nat
         /\ s.do = "drop" => s.repo \in Nat /\ s = [do |-> "drop", repo |-> s.repo]
         /\ s.do = "clear" => /\ s.user \in Nat
                              /\ s.table \in {"members", "tokens", "namespaces", "claims", "users"}
                              /\ s = [do |-> "clear", table |-> s.table, user |-> s.user]
BY DEF OneStatement

(* Rows of two tables are never alike. *)
LEMMA RowKinds ==
  /\ RepoRow \cap (TokenRow \cup SpaceRow \cup MemberRow \cup MrRow \cup ClaimRow) = {}
  /\ MrRow \cap (TokenRow \cup SpaceRow \cup MemberRow \cup ClaimRow) = {}
  /\ TokenRow \cap (SpaceRow \cup MemberRow \cup ClaimRow) = {}
  /\ SpaceRow \cap (MemberRow \cup ClaimRow) = {}
  /\ MemberRow \cap ClaimRow = {}
<1> DEFINE Fields(R, F) == \A x \in R : DOMAIN x = F
<1>1. /\ Fields(RepoRow, {"id", "owner", "name"}) /\ Fields(MrRow, {"id", "repo", "iid"})
      /\ Fields(TokenRow, {"user", "created"}) /\ Fields(SpaceRow, {"owner", "space", "created"})
      /\ Fields(MemberRow, {"repo", "user", "role", "created"})
      /\ Fields(ClaimRow, {"owner", "name", "created"})
  BY DEF RepoRow, MrRow, TokenRow, SpaceRow, MemberRow, ClaimRow
<1>2. /\ "iid" \notin {"id", "owner", "name"} /\ "user" \notin {"id", "owner", "name"}
      /\ "space" \notin {"id", "owner", "name"} /\ "created" \notin {"id", "owner", "name"}
      /\ "created" \notin {"id", "repo", "iid"}
      /\ "owner" \notin {"user", "created"} /\ "repo" \notin {"user", "created"}
      /\ "space" \notin {"repo", "user", "role", "created"} /\ "space" \notin {"owner", "name", "created"}
      /\ "role" \notin {"owner", "name", "created"}
  OBVIOUS
<1> QED BY <1>1, <1>2

LEMMA Tables ==
  ASSUME TypeOK
  PROVE  /\ db.users \subseteq UserRow /\ db.tokens \subseteq TokenRow
         /\ db.namespaces \subseteq SpaceRow /\ db.repos \subseteq RepoRow
         /\ db.members \subseteq MemberRow /\ db.mrs \subseteq MrRow
         /\ db.notes \subseteq [mr : Nat] /\ db.claims \subseteq ClaimRow
BY DEF TypeOK, Database

(* A stored row is in the table of its kind. *)
LEMMA StoredKinds ==
  ASSUME TypeOK, NEW x \in Stored
  PROVE  /\ x \in RepoRow => x \in db.repos
         /\ x \in MrRow => x \in db.mrs
         /\ x \in TokenRow => x \in db.tokens
         /\ x \in SpaceRow => x \in db.namespaces
         /\ x \in MemberRow => x \in db.members
         /\ x \in ClaimRow => x \in db.claims
BY Tables, RowKinds DEF Stored

(* Concatenation: its length and its elements. *)
LEMMA Joined ==
  ASSUME NEW a \in Seq(OneStatement), NEW b \in Seq(OneStatement)
  PROVE  /\ a \o b \in Seq(OneStatement) /\ Len(a) \in Nat /\ Len(b) \in Nat
         /\ Len(a \o b) = Len(a) + Len(b)
         /\ \A i \in 1..Len(a) : (a \o b)[i] = a[i]
         /\ \A i \in 1..Len(b) : (a \o b)[Len(a) + i] = b[i]
OBVIOUS

(* Four statements in place of the first one of a plan. *)
LEMMA JoinedAfterFour ==
  ASSUME NEW c \in Seq(OneStatement), Len(c) = 4, NEW plan \in Seq(OneStatement), plan # <<>>
  PROVE  /\ c \o Tail(plan) \in Seq(OneStatement)
         /\ Len(plan) \in Nat \ {0} /\ Len(c \o Tail(plan)) = Len(plan) + 3
         /\ \A i \in 1..4 : (c \o Tail(plan))[i] = c[i]
         /\ \A i \in 2..Len(plan) : (c \o Tail(plan))[i + 3] = plan[i]
         /\ \A i \in 1..Len(c \o Tail(plan)) :
               i \in 1..4 \/ \E j \in 2..Len(plan) : (c \o Tail(plan))[i] = plan[j]
<1> DEFINE rest == Tail(plan)
           new == c \o rest
<1>1. /\ rest \in Seq(OneStatement) /\ Len(rest) = Len(plan) - 1 /\ Len(plan) \in Nat \ {0}
      /\ \A i \in 1..Len(rest) : rest[i] = plan[i + 1]
  OBVIOUS
<1> HIDE DEF rest
<1>2. /\ new \in Seq(OneStatement) /\ Len(new) = 4 + Len(rest)
      /\ \A i \in 1..4 : new[i] = c[i]
      /\ \A i \in 1..Len(rest) : new[4 + i] = rest[i]
  <2>1. /\ new \in Seq(OneStatement) /\ Len(new) = Len(c) + Len(rest)
        /\ \A i \in 1..Len(c) : new[i] = c[i]
        /\ \A i \in 1..Len(rest) : new[Len(c) + i] = rest[i]
    BY <1>1, Joined
  <2> HIDE DEF new
  <2> QED BY <2>1
<1> HIDE DEF new
<1>3. ASSUME NEW j \in 1..Len(rest) PROVE new[4 + j] = plan[j + 1]
  BY <1>1, <1>2
<1>4. ASSUME NEW i \in 2..Len(plan) PROVE new[i + 3] = plan[i]
  <2>1. i - 1 \in 1..Len(rest) /\ 4 + (i - 1) = i + 3 /\ (i - 1) + 1 = i
    BY <1>1
  <2>2. new[4 + (i - 1)] = plan[(i - 1) + 1]
    BY <1>3, <2>1
  <2> QED BY <2>1, <2>2
<1>5. ASSUME NEW i \in 1..Len(new), i \notin 1..4 PROVE \E j \in 2..Len(plan) : new[i] = plan[j]
  <2>1. i - 3 \in 2..Len(plan) /\ (i - 3) + 3 = i
    BY <1>1, <1>2, <1>5
  <2>2. new[(i - 3) + 3] = plan[i - 3]
    BY <1>4, <2>1
  <2> QED BY <2>1, <2>2
<1>6. Len(plan) \in Nat \ {0} /\ Len(new) = Len(plan) + 3
  BY <1>1, <1>2
<1> QED BY <1>2, <1>4, <1>5, <1>6 DEF new, rest

(* The other requests keep their statements. *)
LEMMA PlanOf ==
  ASSUME TypeOK, NEW p \in Requests, NEW plan \in Seq(OneStatement),
         todo' = [todo EXCEPT ![p] = plan]
  PROVE  /\ todo' \in [Requests -> Seq(OneStatement)]
         /\ todo'[p] = plan
         /\ \A q \in Requests \ {p} : todo'[q] = todo[q]
BY DEF TypeOK

(* The rest of a request. *)
LEMMA AfterFinish ==
  ASSUME TypeOK, FirstOnly, NEW p \in Requests, Finish(p)
  PROVE  /\ todo' \in [Requests -> Seq(OneStatement)]
         /\ FirstOnly'
         /\ Head(todo[p]) \in OneStatement /\ Head(todo[p]) = todo[p][1]
         /\ Len(todo[p]) \in Nat \ {0} /\ Len(todo'[p]) = Len(todo[p]) - 1
         /\ \A i \in 1..Len(todo'[p]) : todo'[p][i] = todo[p][i + 1] /\ todo'[p][i].do \notin Single
         /\ \A q \in Requests \ {p} : todo'[q] = todo[q]
<1>1. todo[p] \in Seq(OneStatement) /\ todo[p] # <<>>
  BY DEF TypeOK, Finish
<1>2. /\ Tail(todo[p]) \in Seq(OneStatement) /\ Head(todo[p]) \in OneStatement
      /\ Head(todo[p]) = todo[p][1] /\ Len(todo[p]) \in Nat \ {0}
      /\ Len(Tail(todo[p])) = Len(todo[p]) - 1
      /\ \A i \in 1..(Len(todo[p]) - 1) : Tail(todo[p])[i] = todo[p][i + 1]
  BY <1>1
<1>3. todo' = [todo EXCEPT ![p] = Tail(todo[p])]
  BY DEF Finish
<1>4. /\ todo' \in [Requests -> Seq(OneStatement)]
      /\ todo'[p] = Tail(todo[p])
      /\ \A q \in Requests \ {p} : todo'[q] = todo[q]
  BY <1>2, <1>3, PlanOf
<1>5. \A i \in 1..Len(todo'[p]) : todo'[p][i] = todo[p][i + 1] /\ todo'[p][i].do \notin Single
  BY <1>2, <1>4 DEF FirstOnly
<1>6. ASSUME NEW q \in Requests, NEW i \in 2..Len(todo'[q]) PROVE todo'[q][i].do \notin Single
  <2>1. CASE q = p
    <3>1. Len(todo'[p]) \in Nat /\ i \in 1..Len(todo'[p])
      BY <1>2, <1>4, <2>1
    <3> QED BY <1>5, <2>1, <3>1
  <2>2. CASE q # p
    BY <1>4, <2>2 DEF FirstOnly
  <2> QED BY <2>1, <2>2
<1>7. FirstOnly'
  BY <1>6 DEF FirstOnly
<1> QED BY <1>2, <1>4, <1>5, <1>7

(* No request stands before another statement of this kind than it did. *)
NoNewSingles ==
  \A q \in Requests : \A d \in Single :
    Doing(q, d)' => Doing(q, d) /\ todo'[q] = todo[q]

LEMMA FinishSingles ==
  ASSUME TypeOK, FirstOnly, NEW p \in Requests, Finish(p)
  PROVE  /\ NoNewSingles
         /\ \A q \in Requests \ {p} : \A d : Doing(q, d) => Doing(q, d)'
<1>1. \A d \in Single : ~Doing(p, d)'
  <2>1. todo'[p] \in Seq(OneStatement)
    BY AfterFinish
  <2>2. todo'[p] # <<>> => Head(todo'[p]) = todo'[p][1] /\ 1 \in 1..Len(todo'[p])
    BY <2>1
  <2> QED BY <2>2, AfterFinish DEF Doing
<1>2. \A q \in Requests \ {p} : todo'[q] = todo[q]
  BY AfterFinish
<1> QED BY <1>1, <1>2 DEF NoNewSingles, Doing

-----------------------------------------------------------------------------
(* What leaves a part of the invariant alone, whichever action it is. *)
LEMMA CacheStays ==
  ASSUME CacheInv, NoNewSingles, UNCHANGED <<cache, lock>>, db.users' \subseteq db.users,
         \A q \in Requests : Doing(q, "invalidate") => todo'[q] = todo[q]
  PROVE  CacheInv'
<1>1. "remember" \in Single
  BY DEF Single
<1>2. \A q \in Requests : Doing(q, "remember")' => Doing(q, "remember") /\ todo'[q] = todo[q]
  BY <1>1 DEF NoNewSingles
<1>3. \A q \in Requests : \A u : Invalidating(q, u) => Invalidating(q, u)'
  BY DEF Invalidating, Doing
<1> QED BY <1>2, <1>3 DEF CacheInv

LEMMA NumbersStay ==
  ASSUME NumbersInv, NoNewSingles, DOMAIN doomed \subseteq DOMAIN doomed',
         db.mrs' \subseteq db.mrs, \A m \in db.mrs \ db.mrs' : m.repo \in DOMAIN doomed,
         \A m \in db.mrs \ db.mrs' : \A x \in db.mrs' : x.repo # m.repo,
         \A q \in Requests : \A i \in 1..Len(todo'[q]) :
           todo'[q][i].do \in {"mrs", "drop"} => todo'[q][i].repo \in DOMAIN doomed'
  PROVE  NumbersInv'
<1>1. "mr" \in Single
  BY DEF Single
<1>2. \A q \in Requests : Doing(q, "mr")' => Doing(q, "mr") /\ todo'[q] = todo[q]
  BY <1>1 DEF NoNewSingles
<1>3. \A id : id \notin DOMAIN doomed' => Own(id, db.mrs') = Own(id, db.mrs)
  BY DEF Own
<1>4. IsFiniteSet(db.mrs')
  BY FS_Subset DEF NumbersInv
<1>5. \A m \in db.mrs' : m.repo \notin DOMAIN doomed' => Gapless(m.repo, db.mrs')
  BY <1>3 DEF NumbersInv, Gapless
<1>6. ASSUME NEW q \in Requests, Doing(q, "mr")', Head(todo'[q]).repo \notin DOMAIN doomed'
      PROVE  Head(todo'[q]).iid \in 1..(Cardinality(Own(Head(todo'[q]).repo, db.mrs')) + 1)
  BY <1>2, <1>3, <1>6 DEF NumbersInv
<1>7. ASSUME NEW m \in db.mrs' PROVE HasLargest(m.repo, db.mrs')
  <2>1. Own(m.repo, db.mrs') = Own(m.repo, db.mrs)
    BY DEF Own
  <2> QED BY <2>1 DEF NumbersInv, HasLargest
<1> QED BY <1>4, <1>5, <1>6, <1>7 DEF NumbersInv

(* Rows are removed, and the given ones inserted. *)
LEMMA RowsStay ==
  ASSUME TypeOK, TypeOK', RowsInv, NoNewSingles, NEW N,
         Stored' \subseteq Stored \cup N, Recorded' \subseteq Recorded \cup Stored,
         next.repo <= next'.repo, next.mr <= next'.mr, ops <= ops',
         \A x \in N : Past(x, next', ops'),
         \A q \in Requests : Stamped(q)' => Head(todo[q]).row \notin N,
         IsFiniteSet(db.repos'), \A x, y \in db.repos' : x.name = y.name => x = y
  PROVE  RowsInv'
<1>1. {"namespace", "grant", "claim"} \subseteq Single
  BY DEF Single
<1>2. \A q \in Requests : Stamped(q)' => Stamped(q) /\ todo'[q] = todo[q]
  BY <1>1 DEF NoNewSingles, Stamped
<1>3. ASSUME NEW x, Past(x, next, ops) PROVE Past(x, next', ops')
  <2>1. /\ next.repo \in Nat /\ next'.repo \in Nat /\ next.mr \in Nat /\ next'.mr \in Nat
        /\ ops \in Nat /\ ops' \in Nat
    BY DEF TypeOK
  <2>2. x \in RepoRow => x.id \in Nat
    BY DEF RepoRow
  <2>3. x \in MrRow => x.id \in Nat
    BY DEF MrRow
  <2>4. x \in TokenRow \cup SpaceRow \cup MemberRow \cup ClaimRow => x.created \in Nat
    BY DEF TokenRow, SpaceRow, MemberRow, ClaimRow
  <2> QED BY <1>3, <2>1, <2>2, <2>3, <2>4 DEF Past
<1>4. ASSUME NEW q \in Requests, Stamped(q)'
      PROVE  /\ Past(Head(todo'[q]).row, next', ops')
             /\ Head(todo'[q]).row \notin Stored' \cup Recorded'
             /\ \A r \in Requests \ {q} : Stamped(r)' => Head(todo'[r]).row # Head(todo'[q]).row
  <2>1. Stamped(q) /\ todo'[q] = todo[q]
    BY <1>2, <1>4
  <2>2. Past(Head(todo[q]).row, next, ops) /\ Head(todo[q]).row \notin Stored \cup Recorded
    BY <2>1 DEF RowsInv
  <2>3. \A r \in Requests \ {q} : Stamped(r)' => Head(todo'[r]).row # Head(todo'[q]).row
    BY <1>2, <2>1 DEF RowsInv
  <2> QED BY <1>3, <1>4, <2>1, <2>2, <2>3
<1>5. \A x \in Stored' \cup Recorded' : Past(x, next', ops')
  BY <1>3 DEF RowsInv
<1> QED BY <1>4, <1>5 DEF RowsInv

-----------------------------------------------------------------------------
(* Deletions that have come to their end. *)
Ended ==
  /\ \A id \in DOMAIN doomed \ RepoIds : doomed[id] \cap Stored = {}
  /\ \A u \in DOMAIN leaving \ UserIds : leaving[u] \cap Stored = {}

LEMMA RecordedRows ==
  /\ \A id \in DOMAIN doomed : doomed[id] \subseteq Recorded
  /\ \A u \in DOMAIN leaving : leaving[u] \subseteq Recorded
  /\ \A s : Kept(s, doomed, leaving) => Due(s, doomed, leaving) \subseteq Recorded
BY DEF Recorded, Kept, Due

(* No new row is one the history keeps. *)
LEMMA NothingReturns ==
  ASSUME RowsInv, NEW N, N \cap Recorded = {}, Stored' \subseteq Stored \cup N
  PROVE  Stored' \cap Recorded \subseteq Stored
OBVIOUS

LEMMA EndedStays ==
  ASSUME DeletionInv, UNCHANGED <<doomed, leaving>>, Stored' \cap Recorded \subseteq Stored,
         RepoIds \subseteq RepoIds', UserIds \subseteq UserIds'
  PROVE  Ended'
BY RecordedRows DEF DeletionInv, Ended

(* What a request has left is still covered when another one took a step. *)
LEMMA OthersCovered ==
  ASSUME NEW plan, NEW D, NEW L, NEW S, NEW T, Covers(plan, D, L, S),
         \A s : Kept(s, D, L) => Due(s, D, L) \cap T \subseteq S
  PROVE  Covers(plan, D, L, T)
BY DEF Covers

(* A statement that is done has removed the rows it was there for. *)
LEMMA RestCovered ==
  ASSUME NEW plan, NEW rest, NEW D, NEW L, NEW S, Covers(plan, D, L, S),
         Len(rest) \in Nat, Len(plan) = Len(rest) + 1,
         \A i \in 1..Len(rest) : rest[i] = plan[i + 1],
         \A x \in S : ~Undoes(plan[1], x)
  PROVE  Covers(rest, D, L, S)
<1> SUFFICES ASSUME NEW i \in 1..Len(rest)
             PROVE  /\ Kept(rest[i], D, L)
                    /\ \A x \in Due(rest[i], D, L) \cap S : \E j \in 1..(i - 1) : Undoes(rest[j], x)
  BY DEF Covers
<1>1. i + 1 \in 1..Len(plan) /\ rest[i] = plan[i + 1] /\ i \in Nat \ {0}
  OBVIOUS
<1>2. /\ Kept(rest[i], D, L)
      /\ \A x \in Due(rest[i], D, L) \cap S : \E j \in 1..(i + 1 - 1) : Undoes(plan[j], x)
  BY <1>1 DEF Covers
<1>3. ASSUME NEW x \in Due(rest[i], D, L) \cap S PROVE \E j \in 1..(i - 1) : Undoes(rest[j], x)
  <2>1. PICK j \in 1..i : Undoes(plan[j], x)
    BY <1>1, <1>2
  <2>2. j # 1
    BY <2>1
  <2>3. j - 1 \in 1..(i - 1) /\ rest[j - 1] = plan[j]
    BY <1>1, <2>2
  <2> QED BY <2>1, <2>3
<1> QED BY <1>2, <1>3

LEMMA FinishCovered ==
  ASSUME TypeOK, FirstOnly, DeletionInv, NEW p \in Requests, Finish(p),
         UNCHANGED <<doomed, leaving>>, Stored' \cap Recorded \subseteq Stored,
         \A x \in Stored' : ~Undoes(Head(todo[p]), x)
  PROVE  \A q \in Requests : Covered(q)'
<1>1. \A s : Kept(s, doomed, leaving) => Due(s, doomed, leaving) \cap Stored' \subseteq Stored
  BY RecordedRows
<1>2. \A q \in Requests : Covers(todo[q], doomed, leaving, Stored')
  BY <1>1, OthersCovered DEF DeletionInv, Covered
<1>3. Covers(todo'[p], doomed, leaving, Stored')
  <2>1. /\ Len(todo'[p]) \in Nat /\ Len(todo[p]) = Len(todo'[p]) + 1
        /\ \A i \in 1..Len(todo'[p]) : todo'[p][i] = todo[p][i + 1]
        /\ \A x \in Stored' : ~Undoes(todo[p][1], x)
    BY AfterFinish
  <2> QED BY <1>2, <2>1, RestCovered
<1> QED BY <1>2, <1>3, AfterFinish DEF Covered

(* A request that arrives with no deletion in it has nothing to cover. *)
LEMMA HarmlessPlan ==
  ASSUME NEW plan, NEW D, NEW L, NEW S, \A i \in 1..Len(plan) : plan[i].do \notin {"drop", "clear"}
  PROVE  Covers(plan, D, L, S)
BY DEF Covers, Kept, Due

-----------------------------------------------------------------------------
(* The statements.  What they have in common: *)
LEMMA FinishTyped ==
  ASSUME TypeOK, FirstOnly, NEW p \in Requests, Finish(p), db' \in Database,
         next' \in [user : Nat, repo : Nat, mr : Nat], UNCHANGED <<cache, lock, ops>>
  PROVE  TypeOK'
BY AfterFinish DEF TypeOK

LEMMA FinishDooms ==
  ASSUME TypeOK, FirstOnly, NumbersInv, NEW p \in Requests, Finish(p), UNCHANGED doomed
  PROVE  \A q \in Requests : \A i \in 1..Len(todo'[q]) :
           todo'[q][i].do \in {"mrs", "drop"} => todo'[q][i].repo \in DOMAIN doomed'
<1> SUFFICES ASSUME NEW q \in Requests, NEW i \in 1..Len(todo'[q]), todo'[q][i].do \in {"mrs", "drop"}
             PROVE  todo'[q][i].repo \in DOMAIN doomed
  OBVIOUS
<1>1. \E j \in 1..Len(todo[q]) : todo'[q][i] = todo[q][j]
  <2>1. CASE q = p
    <3>1. i + 1 \in 1..Len(todo[q]) /\ todo'[q][i] = todo[q][i + 1]
      BY AfterFinish, <2>1
    <3> QED BY <3>1
  <2>2. CASE q # p
    BY AfterFinish, <2>2
  <2> QED BY <2>1, <2>2
<1> QED BY <1>1 DEF NumbersInv

LEMMA FinishNumbers ==
  ASSUME IInv, NEW p \in Requests, Finish(p), UNCHANGED doomed, db.mrs' \subseteq db.mrs,
         \A m \in db.mrs \ db.mrs' : m.repo \in DOMAIN doomed /\ \A x \in db.mrs' : x.repo # m.repo
  PROVE  NumbersInv'
BY FinishDooms, FinishSingles, NumbersStay DEF IInv

LEMMA FinishCache ==
  ASSUME IInv, NEW p \in Requests, Finish(p), Head(todo[p]).do # "invalidate",
         UNCHANGED <<cache, lock>>, db.users' \subseteq db.users
  PROVE  CacheInv'
<1>1. NoNewSingles /\ \A q \in Requests \ {p} : todo'[q] = todo[q]
  BY FinishSingles, AfterFinish DEF IInv
<1>2. \A q \in Requests : Doing(q, "invalidate") => todo'[q] = todo[q]
  BY <1>1 DEF Doing
<1> QED BY <1>1, <1>2, CacheStays DEF IInv

(* A statement removes rows and inserts those of a set N. *)
LEMMA StatementKeeps ==
  ASSUME IInv, TypeOK', CacheInv', NumbersInv', Ended',
         NEW p \in Requests, Finish(p), UNCHANGED <<doomed, leaving, ops>>,
         NEW N, Stored' \subseteq Stored \cup N, N \cap Recorded = {},
         \A x \in N : Past(x, next', ops),
         \A q \in Requests \ {p} : Stamped(q) => Head(todo[q]).row \notin N,
         next.repo <= next'.repo, next.mr <= next'.mr,
         IsFiniteSet(db.repos'), \A x, y \in db.repos' : x.name = y.name => x = y,
         \A x \in Stored' : ~Undoes(Head(todo[p]), x)
  PROVE  IInv'
<1>1. NoNewSingles /\ FirstOnly'
  BY FinishSingles, AfterFinish DEF IInv
<1>2. RowsInv'
  <2>1. ~Stamped(p)'
    <3>1. todo'[p] \in Seq(OneStatement)
      BY DEF TypeOK
    <3>2. todo'[p] # <<>> => Head(todo'[p]) = todo'[p][1] /\ 1 \in 1..Len(todo'[p])
      BY <3>1
    <3> QED BY <3>2, AfterFinish DEF Doing, IInv, Stamped, Single
  <2>2. \A q \in Requests : Stamped(q)' => q # p /\ Stamped(q)
    BY <1>1, <2>1 DEF NoNewSingles, Stamped, Single
  <2>3. Recorded' = Recorded /\ ops <= ops'
    BY DEF Recorded, TypeOK
  <2> QED BY <1>1, <2>2, <2>3, RowsStay DEF IInv
<1>3. DeletionInv'
  <2>1. Stored' \cap Recorded \subseteq Stored
    OBVIOUS
  <2>2. \A q \in Requests : Covered(q)'
    BY <2>1, FinishCovered DEF IInv
  <2> QED BY <2>2 DEF IInv, DeletionInv, Ended
<1> QED BY <1>1, <1>2, <1>3 DEF IInv

(* A statement that inserts none of the rows this is about. *)
LEMMA RemovalKeeps ==
  ASSUME IInv, TypeOK', CacheInv', NumbersInv', Ended',
         NEW p \in Requests, Finish(p), UNCHANGED <<next, doomed, leaving, ops>>,
         Stored' \subseteq Stored, db.repos' \subseteq db.repos,
         \A x \in Stored' : ~Undoes(Head(todo[p]), x)
  PROVE  IInv'
<1>1. next.repo <= next'.repo /\ next.mr <= next'.mr
  BY DEF TypeOK
<1>2. IsFiniteSet(db.repos') /\ \A x, y \in db.repos' : x.name = y.name => x = y
  BY FS_Subset DEF IInv, RowsInv
<1> DEFINE N == {}
<1>3. /\ Stored' \subseteq Stored \cup N /\ N \cap Recorded = {}
      /\ \A x \in N : Past(x, next', ops)
      /\ \A q \in Requests \ {p} : Stamped(q) => Head(todo[q]).row \notin N
  OBVIOUS
<1> HIDE DEF N
<1> QED BY <1>1, <1>2, <1>3, StatementKeeps

(* A statement that inserts the row its request was given when it came. *)
LEMMA StampedKeeps ==
  ASSUME IInv, NEW p \in Requests, Finish(p), Stamped(p), TypeOK',
         UNCHANGED <<next, cache, lock, doomed, leaving, ops>>,
         Stored' \subseteq Stored \cup {Head(todo[p]).row},
         db.users' = db.users, db.repos' = db.repos, db.mrs' = db.mrs
  PROVE  IInv'
<1> DEFINE N == {Head(todo[p]).row}
<1>1. /\ N \cap Recorded = {} /\ \A x \in N : Past(x, next', ops)
      /\ \A q \in Requests \ {p} : Stamped(q) => Head(todo[q]).row \notin N
  BY DEF IInv, RowsInv
<1>2. Stored' \subseteq Stored \cup N
  OBVIOUS
<1>3. /\ Head(todo[p]).do # "invalidate" /\ \A x : ~Undoes(Head(todo[p]), x)
      /\ next.repo <= next'.repo /\ next.mr <= next'.mr
      /\ IsFiniteSet(db.repos') /\ \A x, y \in db.repos' : x.name = y.name => x = y
  BY DEF Doing, Stamped, Undoes, IInv, TypeOK, RowsInv
<1> HIDE DEF N
<1>4. CacheInv' /\ NumbersInv'
  BY <1>3, FinishCache, FinishNumbers
<1>5. Ended'
  <2>1. RepoIds' = RepoIds /\ UserIds' = UserIds
    BY DEF RepoIds, UserIds
  <2> QED BY <1>1, <1>2, <2>1, EndedStays DEF IInv
<1> QED BY <1>1, <1>2, <1>3, <1>4, <1>5, StatementKeeps

-----------------------------------------------------------------------------
LEMMA EnsureNamespaceInv ==
  ASSUME IInv, NEW p \in Requests, EnsureNamespace(p)
  PROVE  IInv'
<1> DEFINE row == Head(todo[p]).row
<1>1. Finish(p) /\ Doing(p, "namespace") /\ UNCHANGED <<next, cache, lock, doomed, leaving, ops>>
  BY DEF EnsureNamespace
<1>2. Stamped(p) /\ row \in SpaceRow
  BY <1>1, AfterFinish, StatementFields DEF IInv, Doing, Stamped
<1>3. db' = [db EXCEPT !.namespaces = db'.namespaces] /\ db'.namespaces \subseteq db.namespaces \cup {row}
  BY DEF EnsureNamespace, IInv, TypeOK, Database
<1> HIDE DEF row
<1>4. /\ db' \in Database /\ Stored' \subseteq Stored \cup {row}
      /\ db.users' = db.users /\ db.repos' = db.repos /\ db.mrs' = db.mrs
  BY <1>2, <1>3 DEF IInv, TypeOK, Database, Stored
<1>5. TypeOK'
  BY <1>1, <1>4, FinishTyped DEF IInv, TypeOK
<1> QED BY <1>1, <1>2, <1>4, <1>5, StampedKeeps DEF row

LEMMA UpsertMemberInv ==
  ASSUME IInv, NEW p \in Requests, UpsertMember(p)
  PROVE  IInv'
<1> DEFINE row == Head(todo[p]).row
<1>1. Finish(p) /\ Doing(p, "grant") /\ UNCHANGED <<next, cache, lock, doomed, leaving, ops>>
  BY DEF UpsertMember
<1>2. Stamped(p) /\ row \in MemberRow
  BY <1>1, AfterFinish, StatementFields DEF IInv, Doing, Stamped
<1>3. db' = [db EXCEPT !.members = db'.members] /\ db'.members \subseteq db.members \cup {row}
  BY DEF UpsertMember, IInv, TypeOK, Database
<1> HIDE DEF row
<1>4. /\ db' \in Database /\ Stored' \subseteq Stored \cup {row}
      /\ db.users' = db.users /\ db.repos' = db.repos /\ db.mrs' = db.mrs
  BY <1>2, <1>3 DEF IInv, TypeOK, Database, Stored
<1>5. TypeOK'
  BY <1>1, <1>4, FinishTyped DEF IInv, TypeOK
<1> QED BY <1>1, <1>2, <1>4, <1>5, StampedKeeps DEF row

LEMMA ClaimPackageInv ==
  ASSUME IInv, NEW p \in Requests, ClaimPackage(p)
  PROVE  IInv'
<1> DEFINE row == Head(todo[p]).row
<1>1. Finish(p) /\ Doing(p, "claim") /\ UNCHANGED <<next, cache, lock, doomed, leaving, ops>>
  BY DEF ClaimPackage
<1>2. Stamped(p) /\ row \in ClaimRow
  BY <1>1, AfterFinish, StatementFields DEF IInv, Doing, Stamped
<1>3. db' = [db EXCEPT !.claims = db'.claims] /\ db'.claims \subseteq db.claims \cup {row}
  BY DEF ClaimPackage, IInv, TypeOK, Database
<1> HIDE DEF row
<1>4. /\ db' \in Database /\ Stored' \subseteq Stored \cup {row}
      /\ db.users' = db.users /\ db.repos' = db.repos /\ db.mrs' = db.mrs
  BY <1>2, <1>3 DEF IInv, TypeOK, Database, Stored
<1>5. TypeOK'
  BY <1>1, <1>4, FinishTyped DEF IInv, TypeOK
<1> QED BY <1>1, <1>2, <1>4, <1>5, StampedKeeps DEF row

(* The row of a repository: a new id, a name that was free. *)
LEMMA InsertRepoInv ==
  ASSUME IInv, NEW p \in Requests, InsertRepo(p)
  PROVE  IInv'
<1> DEFINE s == Head(todo[p])
           row == [id |-> next.repo, owner |-> s.user, name |-> s.name]
<1>1. Finish(p) /\ Doing(p, "repo") /\ UNCHANGED <<cache, lock, doomed, leaving, ops>>
  BY DEF InsertRepo
<1>2. s.user \in Nat /\ s.name \in Names /\ next.repo \in Nat /\ next.mr \in Nat /\ ops \in Nat
  BY <1>1, AfterFinish, StatementFields DEF IInv, Doing, TypeOK
<1>3. s.do # "invalidate" /\ \A x : ~Undoes(s, x)
  BY <1>1 DEF Doing, Undoes
<1>4. CASE RepoNamed(s.name) = {}
  <2>1. /\ db' = [db EXCEPT !.repos = @ \cup {row}]
        /\ next' = [next EXCEPT !.repo = @ + 1]
    BY <1>4 DEF InsertRepo
  <2>2. /\ db' \in Database /\ Stored' \subseteq Stored \cup {row}
        /\ db.users' = db.users /\ db.repos' = db.repos \cup {row} /\ db.mrs' = db.mrs
    <3>1. row \in RepoRow
      BY <1>2 DEF RepoRow
    <3> HIDE DEF row
    <3>2. db \in Database
      BY DEF IInv, TypeOK
    <3> QED BY <2>1, <3>1, <3>2 DEF Database, Stored
  <2>3. /\ next' \in [user : Nat, repo : Nat, mr : Nat]
        /\ next'.repo = next.repo + 1 /\ next'.mr = next.mr
    BY <2>1 DEF IInv, TypeOK
  <2>4. row \in RepoRow /\ Past(row, next', ops)
    BY <1>2, <2>3 DEF RepoRow, Past
  <2>5. row \notin Recorded
    <3>1. ~Past(row, next, ops)
      BY <1>2, <2>4, RowKinds DEF Past
    <3> QED BY <3>1 DEF IInv, RowsInv
  <2>6. \A q \in Requests : Stamped(q) => Head(todo[q]).row # row
    <3>1. ~Past(row, next, ops)
      BY <1>2, <2>4, RowKinds DEF Past
    <3> QED BY <3>1 DEF IInv, RowsInv
  <2>7. IsFiniteSet(db.repos') /\ \A x, y \in db.repos' : x.name = y.name => x = y
    <3>1. IsFiniteSet(db.repos) /\ \A x, y \in db.repos : x.name = y.name => x = y
      BY DEF IInv, RowsInv
    <3>2. \A x \in db.repos : x.name # row.name
      BY <1>4 DEF RepoNamed
    <3> HIDE DEF row
    <3> QED BY <2>2, <3>1, <3>2, FS_AddElement
  <2>8. TypeOK'
    BY <1>1, <2>2, <2>3, FinishTyped DEF IInv
  <2>9. next.repo <= next'.repo /\ next.mr <= next'.mr
    BY <1>2, <2>3
  <2> HIDE DEF row, s
  <2>10. NumbersInv' /\ CacheInv'
    BY <1>1, <1>3, <2>2, FinishNumbers, FinishCache DEF s
  <2>11. Ended'
    <3>1. RepoIds \subseteq RepoIds' /\ UserIds' = UserIds
      BY <2>2 DEF RepoIds, UserIds
    <3> QED BY <1>1, <2>2, <2>5, <3>1, EndedStays DEF IInv
  <2> DEFINE N == {row}
  <2>12. /\ N \cap Recorded = {} /\ Stored' \subseteq Stored \cup N
         /\ \A x \in N : Past(x, next', ops)
         /\ \A q \in Requests \ {p} : Stamped(q) => Head(todo[q]).row \notin N
    BY <2>2, <2>4, <2>5, <2>6
  <2> HIDE DEF N
  <2> QED BY <1>1, <1>3, <2>7, <2>8, <2>9, <2>10, <2>11, <2>12, StatementKeeps DEF s
<1>5. CASE RepoNamed(s.name) # {}
  <2>1. UNCHANGED <<db, next>>
    BY <1>5 DEF InsertRepo
  <2>2. TypeOK' /\ Stored' = Stored /\ db.repos' = db.repos /\ RepoIds' = RepoIds /\ UserIds' = UserIds
    BY <1>1, <2>1, FinishTyped DEF IInv, TypeOK, Stored, RepoIds, UserIds
  <2> HIDE DEF s, row
  <2>3. NumbersInv' /\ CacheInv' /\ Ended'
    BY <1>1, <1>3, <2>1, <2>2, FinishNumbers, FinishCache, EndedStays DEF s, IInv
  <2> QED BY <1>1, <1>3, <2>1, <2>2, <2>3, RemovalKeeps DEF s
<1> QED BY <1>4, <1>5

(***************************************************************************)
(* A merge request is stored under a number nobody has.  In a repository   *)
(* that stands, a number of 1..n+1 that nobody of 1..n has is n+1.         *)
(***************************************************************************)
LEMMA NumberIsNext ==
  ASSUME NEW mrs, NEW row, NEW id, Gapless(id, mrs), IsFiniteSet(mrs), row \notin mrs,
         row.repo = id, row.iid \in 1..(Cardinality(Own(id, mrs)) + 1),
         \A x \in mrs : x.repo # id \/ x.iid # row.iid
  PROVE  /\ Gapless(id, mrs \cup {row})
         /\ Cardinality(Own(id, mrs \cup {row})) = Cardinality(Own(id, mrs)) + 1
<1> DEFINE n == Cardinality(Own(id, mrs))
<1>1. IsFiniteSet(Own(id, mrs)) /\ n \in Nat
  <2>1. Own(id, mrs) \in SUBSET mrs
    BY DEF Own
  <2> QED BY <2>1, FS_Subset, FS_CardinalityType
<1>2. Own(id, mrs \cup {row}) = Own(id, mrs) \cup {row} /\ row \notin Own(id, mrs)
  BY DEF Own
<1>3. Cardinality(Own(id, mrs \cup {row})) = n + 1
  BY <1>1, <1>2, FS_AddElement
<1>4. row.iid = n + 1
  <2>1. row.iid \notin {m.iid : m \in Own(id, mrs)}
    BY DEF Own
  <2>2. row.iid \notin 1..n
    BY <2>1 DEF Gapless
  <2> QED BY <1>1, <2>2
<1>5. {m.iid : m \in Own(id, mrs \cup {row})} = {m.iid : m \in Own(id, mrs)} \cup {n + 1}
  BY <1>2, <1>4
<1>6. 1..(n + 1) = (1..n) \cup {n + 1}
  BY <1>1
<1> QED BY <1>3, <1>5, <1>6 DEF Gapless

LEMMA InsertMergeRequestInv ==
  ASSUME IInv, NEW p \in Requests, InsertMergeRequest(p)
  PROVE  IInv'
<1> DEFINE s == Head(todo[p])
           row == [id |-> next.mr, repo |-> s.repo, iid |-> s.iid]
           taken == \E x \in db.mrs : x.repo = s.repo /\ x.iid = s.iid
<1>1. Finish(p) /\ Doing(p, "mr") /\ UNCHANGED <<cache, lock, doomed, leaving, ops>>
  BY DEF InsertMergeRequest
<1>2. s.repo \in Nat /\ s.iid \in Nat /\ next.repo \in Nat /\ next.mr \in Nat /\ ops \in Nat
  BY <1>1, AfterFinish, StatementFields DEF IInv, Doing, TypeOK
<1>3. s.do # "invalidate" /\ \A x : ~Undoes(s, x)
  BY <1>1 DEF Doing, Undoes
<1>4. CASE ~taken
  <2>1. /\ db' = [db EXCEPT !.mrs = @ \cup {row}]
        /\ next' = [next EXCEPT !.mr = @ + 1]
    BY <1>4 DEF InsertMergeRequest
  <2>2. /\ db' \in Database /\ Stored' \subseteq Stored \cup {row}
        /\ db.users' = db.users /\ db.repos' = db.repos /\ db.mrs' = db.mrs \cup {row}
    <3>1. row \in MrRow
      BY <1>2 DEF MrRow
    <3> HIDE DEF row
    <3>2. db \in Database
      BY DEF IInv, TypeOK
    <3> QED BY <2>1, <3>1, <3>2 DEF Database, Stored
  <2>3. /\ next' \in [user : Nat, repo : Nat, mr : Nat]
        /\ next'.mr = next.mr + 1 /\ next'.repo = next.repo
    BY <2>1 DEF IInv, TypeOK
  <2>4. row \in MrRow /\ Past(row, next', ops) /\ row.repo = s.repo /\ row.iid = s.iid
    BY <1>2, <2>3 DEF MrRow, Past
  <2>5. row \notin Recorded \cup Stored /\ \A q \in Requests : Stamped(q) => Head(todo[q]).row # row
    <3>1. ~Past(row, next, ops)
      BY <1>2, <2>4, RowKinds DEF Past
    <3> QED BY <3>1 DEF IInv, RowsInv
  <2>6. IsFiniteSet(db.repos') /\ \A x, y \in db.repos' : x.name = y.name => x = y
    BY <2>2 DEF IInv, RowsInv
  <2>7. TypeOK'
    BY <1>1, <2>2, <2>3, FinishTyped DEF IInv
  <2>8. next.repo <= next'.repo /\ next.mr <= next'.mr
    BY <1>2, <2>3
  <2> HIDE DEF row
  <2>9. CacheInv'
    BY <1>1, <1>3, <2>2, FinishCache
  <2>10. NumbersInv'
    <3>1. row \notin db.mrs /\ IsFiniteSet(db.mrs) /\ IsFiniteSet(db.mrs')
      BY <2>2, <2>5, FS_AddElement DEF IInv, NumbersInv, Stored
    <3>2. s.repo \notin DOMAIN doomed => s.iid \in 1..(Cardinality(Own(s.repo, db.mrs)) + 1)
      BY <1>1 DEF IInv, NumbersInv
    <3>3. ASSUME s.repo \notin DOMAIN doomed PROVE Gapless(s.repo, db.mrs)
      <4>1. CASE Own(s.repo, db.mrs) = {}
        BY <4>1, FS_EmptySet DEF Gapless
      <4>2. CASE Own(s.repo, db.mrs) # {}
        BY <3>3, <4>2 DEF Own, IInv, NumbersInv
      <4> QED BY <4>1, <4>2
    <3>4. ASSUME s.repo \notin DOMAIN doomed
          PROVE  /\ Gapless(s.repo, db.mrs')
                 /\ Cardinality(Own(s.repo, db.mrs')) = Cardinality(Own(s.repo, db.mrs)) + 1
      BY <1>4, <2>2, <2>4, <3>1, <3>2, <3>3, <3>4, NumberIsNext
    <3>5. \A id : id # s.repo => Own(id, db.mrs') = Own(id, db.mrs)
      BY <2>2, <2>4 DEF Own
    <3>6. \A m \in db.mrs' : m.repo \notin DOMAIN doomed => Gapless(m.repo, db.mrs')
      BY <2>2, <2>4, <3>4, <3>5 DEF IInv, NumbersInv, Gapless
    <3>7. ASSUME NEW q \in Requests, Doing(q, "mr")', Head(todo'[q]).repo \notin DOMAIN doomed
          PROVE  Head(todo'[q]).iid \in 1..(Cardinality(Own(Head(todo'[q]).repo, db.mrs')) + 1)
      <4>1. Doing(q, "mr") /\ todo'[q] = todo[q]
        BY <1>1, <3>7, FinishSingles DEF IInv, NoNewSingles, Single
      <4> DEFINE id == Head(todo[q]).repo
      <4>2. Head(todo[q]).iid \in 1..(Cardinality(Own(id, db.mrs)) + 1)
        BY <3>7, <4>1 DEF IInv, NumbersInv
      <4>3. Cardinality(Own(id, db.mrs)) \in Nat
        <5>1. Own(id, db.mrs) \in SUBSET db.mrs
          BY DEF Own
        <5> QED BY <3>1, <5>1, FS_Subset, FS_CardinalityType
      <4>4. \/ Own(id, db.mrs') = Own(id, db.mrs)
            \/ Cardinality(Own(id, db.mrs')) = Cardinality(Own(id, db.mrs)) + 1
        BY <3>4, <3>5, <3>7, <4>1
      <4> QED BY <4>1, <4>2, <4>3, <4>4
    <3>8. \A q \in Requests : \A i \in 1..Len(todo'[q]) :
            todo'[q][i].do \in {"mrs", "drop"} => todo'[q][i].repo \in DOMAIN doomed'
      BY <1>1, FinishDooms DEF IInv
    <3>9. doomed' = doomed
      BY <1>1
    <3>10. ASSUME NEW m \in db.mrs' PROVE HasLargest(m.repo, db.mrs')
      <4>1. CASE m.repo # s.repo
        <5>1. m \in db.mrs /\ Own(m.repo, db.mrs') = Own(m.repo, db.mrs)
          BY <2>2, <2>4, <3>5, <4>1
        <5> QED BY <5>1 DEF IInv, NumbersInv, HasLargest
      <4>2. CASE m.repo = s.repo
        <5>1. /\ Own(s.repo, db.mrs') = Own(s.repo, db.mrs) \cup {row}
              /\ \A x \in Own(s.repo, db.mrs') : x.iid \in Nat
          BY <1>2, <2>2, <2>4, <2>7, Tables DEF Own, TypeOK, Database, MrRow
        <5>2. CASE Own(s.repo, db.mrs) = {}
          BY <4>2, <5>1, <5>2 DEF HasLargest
        <5>3. CASE Own(s.repo, db.mrs) # {}
          <6>1. PICK t \in Own(s.repo, db.mrs) : \A x \in Own(s.repo, db.mrs) : x.iid <= t.iid
            BY <5>3 DEF Own, IInv, NumbersInv, HasLargest
          <6>2. t.iid <= row.iid \/ row.iid <= t.iid
            BY <5>1, <6>1
          <6>3. CASE row.iid <= t.iid
            BY <4>2, <5>1, <6>1, <6>3 DEF HasLargest
          <6>4. CASE t.iid <= row.iid
            <7>1. \A x \in Own(s.repo, db.mrs) : x.iid <= row.iid
              BY <5>1, <6>1, <6>4
            <7> QED BY <4>2, <5>1, <7>1 DEF HasLargest
          <6> QED BY <6>2, <6>3, <6>4
        <5> QED BY <5>2, <5>3
      <4> QED BY <4>1, <4>2
    <3> QED BY <3>1, <3>6, <3>7, <3>8, <3>9, <3>10 DEF NumbersInv
  <2>11. Ended'
    <3>1. RepoIds' = RepoIds /\ UserIds' = UserIds
      BY <2>2 DEF RepoIds, UserIds
    <3> QED BY <1>1, <2>2, <2>5, <3>1, EndedStays DEF IInv
  <2> DEFINE N == {row}
  <2>12. /\ N \cap Recorded = {} /\ Stored' \subseteq Stored \cup N
         /\ \A x \in N : Past(x, next', ops)
         /\ \A q \in Requests \ {p} : Stamped(q) => Head(todo[q]).row \notin N
    BY <2>2, <2>4, <2>5
  <2> HIDE DEF N
  <2> QED BY <1>1, <1>3, <2>6, <2>7, <2>8, <2>9, <2>10, <2>11, <2>12, StatementKeeps
<1>5. CASE taken
  <2>1. UNCHANGED <<db, next>>
    BY <1>5 DEF InsertMergeRequest
  <2>2. TypeOK' /\ Stored' = Stored /\ db.repos' = db.repos /\ RepoIds' = RepoIds /\ UserIds' = UserIds
    BY <1>1, <2>1, FinishTyped DEF IInv, TypeOK, Stored, RepoIds, UserIds
  <2>3. NumbersInv' /\ CacheInv' /\ Ended'
    BY <1>1, <1>3, <2>1, <2>2, FinishNumbers, FinishCache, EndedStays DEF IInv
  <2> QED BY <1>1, <1>3, <2>1, <2>2, <2>3, RemovalKeeps
<1> QED BY <1>4, <1>5

LEMMA InsertNoteInv ==
  ASSUME IInv, NEW p \in Requests, InsertNote(p)
  PROVE  IInv'
<1>1. Finish(p) /\ Doing(p, "note") /\ UNCHANGED <<next, cache, lock, doomed, leaving, ops>>
  BY DEF InsertNote
<1>2. Head(todo[p]).do # "invalidate" /\ \A x : ~Undoes(Head(todo[p]), x)
  BY <1>1 DEF Doing, Undoes
<1>3. /\ db' \in Database /\ Stored' = Stored /\ db'.users = db.users /\ db'.mrs = db.mrs
      /\ db'.repos = db.repos
  <2>1. Head(todo[p]).mr \in Nat
    BY <1>1, AfterFinish, StatementFields DEF IInv, Doing
  <2>2. [mr |-> Head(todo[p]).mr] \in [mr : Nat]
    BY <2>1
  <2>3. db \in Database
    BY DEF IInv, TypeOK
  <2> QED BY <2>2, <2>3 DEF InsertNote, Database, Stored
<1>4. TypeOK' /\ NumbersInv' /\ CacheInv'
  BY <1>1, <1>2, <1>3, FinishTyped, FinishNumbers, FinishCache DEF IInv, TypeOK
<1>5. RepoIds' = RepoIds /\ UserIds' = UserIds
  BY <1>3 DEF RepoIds, UserIds
<1>6. Ended'
  BY <1>1, <1>3, <1>5, EndedStays DEF IInv
<1> QED BY <1>1, <1>2, <1>3, <1>4, <1>6, RemovalKeeps

(* The rows a deletion is about are gone when its last statement is next. *)
LEMMA NothingLeft ==
  ASSUME IInv, NEW p \in Requests, Finish(p)
  PROVE  /\ Doing(p, "drop") => doomed[Head(todo[p]).repo] \cap Stored = {}
         /\ Doing(p, "clear") /\ Head(todo[p]).table = "users" =>
              leaving[Head(todo[p]).user] \cap Stored = {}
<1>1. 1 \in 1..Len(todo[p]) /\ Head(todo[p]) = todo[p][1]
  BY AfterFinish DEF IInv
<1>2. Covers(todo[p], doomed, leaving, Stored)
  BY DEF IInv, DeletionInv, Covered
<1>3. Due(todo[p][1], doomed, leaving) \cap Stored = {}
  BY <1>1, <1>2 DEF Covers
<1> QED BY <1>1, <1>3 DEF Due, Doing

LEMMA ClearRepoInv ==
  ASSUME IInv, NEW p \in Requests, ClearRepo(p)
  PROVE  IInv'
<1> DEFINE s == Head(todo[p])
<1>1. Finish(p) /\ UNCHANGED <<next, cache, lock, doomed, leaving, ops>>
  BY DEF ClearRepo
<1>2. db \in Database /\ s \in OneStatement /\ Head(todo[p]) = todo[p][1] /\ 1 \in 1..Len(todo[p])
  BY <1>1, AfterFinish DEF IInv, TypeOK
<1>3. s.do \in {"mrs", "members", "notes", "drop"}
  BY DEF ClearRepo, Doing
<1>4. /\ db' \in Database /\ db'.users = db.users /\ db'.tokens = db.tokens
      /\ db'.namespaces = db.namespaces /\ db'.claims = db.claims
      /\ db'.mrs = {x \in db.mrs : s.do = "mrs" => x.repo # s.repo}
      /\ db'.members = {x \in db.members : s.do = "members" => x.repo # s.repo}
      /\ db'.repos = {x \in db.repos : s.do = "drop" => x.id # s.repo}
  <2>1. CASE s.do = "mrs"
    BY <1>2, <2>1 DEF ClearRepo, Doing, Database
  <2>2. CASE s.do = "members"
    BY <1>2, <2>2 DEF ClearRepo, Doing, Database
  <2>3. CASE s.do = "notes"
    BY <1>2, <2>3 DEF ClearRepo, Doing, Database
  <2>4. CASE s.do = "drop"
    BY <1>2, <2>4 DEF ClearRepo, Doing, Database
  <2> QED BY <1>3, <2>1, <2>2, <2>3, <2>4
<1> HIDE DEF s
<1>5. TypeOK'
  BY <1>1, <1>4, FinishTyped DEF IInv, TypeOK
<1>6. CacheInv'
  BY <1>1, <1>3, <1>4, FinishCache DEF s
<1>7. NumbersInv'
  <2>1. s.do = "mrs" => s.repo \in DOMAIN doomed
    BY <1>2 DEF s, IInv, NumbersInv
  <2>2. /\ db.mrs' \subseteq db.mrs
        /\ \A m \in db.mrs \ db.mrs' : m.repo \in DOMAIN doomed /\ \A x \in db.mrs' : x.repo # m.repo
    BY <1>4, <2>1
  <2> QED BY <1>1, <2>2, FinishNumbers
<1>8. Stored' \subseteq Stored /\ db.repos' \subseteq db.repos
  BY <1>4 DEF Stored
<1>9. \A x \in Stored' : ~Undoes(s, x)
  BY <1>3, <1>4, <1>5, StoredKinds, RowKinds DEF Undoes, Stored, TypeOK, Database
<1>10. Ended'
  <2>1. UserIds' = UserIds
    BY <1>4 DEF UserIds
  <2>2. CASE s.do = "drop"
    <3>1. RepoIds \subseteq RepoIds' \cup {s.repo} /\ doomed[s.repo] \cap Stored = {}
      BY <1>1, <1>4, <2>2, NothingLeft DEF RepoIds, Doing, Finish, s
    <3> QED BY <1>1, <1>8, <2>1, <3>1 DEF Ended, IInv, DeletionInv
  <2>3. CASE s.do # "drop"
    <3>1. RepoIds' = RepoIds
      BY <1>4, <2>3 DEF RepoIds
    <3> QED BY <1>1, <1>8, <2>1, <3>1, EndedStays DEF IInv
  <2> QED BY <2>2, <2>3
<1> QED BY <1>1, <1>5, <1>6, <1>7, <1>8, <1>9, <1>10, RemovalKeeps DEF s

LEMMA ClearUserInv ==
  ASSUME IInv, NEW p \in Requests, ClearUser(p)
  PROVE  IInv'
<1> DEFINE s == Head(todo[p])
<1>1. Finish(p) /\ UNCHANGED <<next, cache, lock, doomed, leaving, ops>> /\ s.do = "clear"
  BY DEF ClearUser, Doing
<1>2. /\ db \in Database /\ s.table \in {"members", "tokens", "namespaces", "claims", "users"}
  BY <1>1, AfterFinish, StatementFields DEF IInv, TypeOK
<1>3. /\ db' \in Database /\ db'.repos = db.repos /\ db'.mrs = db.mrs
      /\ db'.users = {x \in db.users : s.table = "users" => x.id # s.user}
      /\ db'.tokens = {x \in db.tokens : s.table = "tokens" => x.user # s.user}
      /\ db'.members = {x \in db.members : s.table = "members" => x.user # s.user}
      /\ db'.namespaces = {x \in db.namespaces : s.table = "namespaces" => x.owner # s.user}
      /\ db'.claims = {x \in db.claims : s.table = "claims" => x.owner # s.user}
  <2>1. CASE s.table = "members"
    BY <1>2, <2>1 DEF ClearUser, Database
  <2>2. CASE s.table = "tokens"
    BY <1>2, <2>2 DEF ClearUser, Database
  <2>3. CASE s.table = "namespaces"
    BY <1>2, <2>3 DEF ClearUser, Database
  <2>4. CASE s.table = "claims"
    BY <1>2, <2>4 DEF ClearUser, Database
  <2>5. CASE s.table = "users"
    BY <1>2, <2>5 DEF ClearUser, Database
  <2> QED BY <1>2, <2>1, <2>2, <2>3, <2>4, <2>5
<1> HIDE DEF s
<1>4. TypeOK'
  BY <1>1, <1>3, FinishTyped DEF IInv, TypeOK
<1>5. CacheInv' /\ NumbersInv'
  BY <1>1, <1>3, FinishCache, FinishNumbers DEF s
<1>6. Stored' \subseteq Stored /\ db.repos' \subseteq db.repos
  BY <1>3 DEF Stored
<1>7. \A x \in Stored' : ~Undoes(s, x)
  BY <1>1, <1>2, <1>3, <1>4, StoredKinds, RowKinds DEF Undoes, Stored, TypeOK, Database
<1>8. Ended'
  <2>1. RepoIds' = RepoIds
    BY <1>3 DEF RepoIds
  <2>2. CASE s.table = "users"
    <3>1. UserIds \subseteq UserIds' \cup {s.user} /\ leaving[s.user] \cap Stored = {}
      BY <1>1, <1>3, <2>2, NothingLeft DEF UserIds, Doing, Finish, s
    <3> QED BY <1>1, <1>6, <2>1, <3>1 DEF Ended, IInv, DeletionInv
  <2>3. CASE s.table # "users"
    <3>1. UserIds' = UserIds
      BY <1>3, <2>3 DEF UserIds
    <3> QED BY <1>1, <1>6, <2>1, <3>1, EndedStays DEF IInv
  <2> QED BY <2>2, <2>3
<1> QED BY <1>1, <1>4, <1>5, <1>6, <1>7, <1>8, RemovalKeeps DEF s

(* The two that are about the cache. *)
LEMMA CacheStatementInv ==
  ASSUME IInv, NEW p \in Requests, Finish(p), UNCHANGED <<db, next, doomed, leaving, ops>>,
         Head(todo[p]).do \in {"invalidate", "remember"}, TypeOK', CacheInv'
  PROVE  IInv'
<1>1. NumbersInv'
  BY FinishNumbers
<1>2. Stored' = Stored /\ db.repos' = db.repos /\ RepoIds' = RepoIds /\ UserIds' = UserIds
  BY DEF Stored, RepoIds, UserIds
<1>3. Ended'
  BY <1>2, EndedStays DEF IInv
<1>4. \A x : ~Undoes(Head(todo[p]), x)
  BY DEF Undoes
<1> QED BY <1>1, <1>2, <1>3, <1>4, RemovalKeeps

LEMMA InvalidateOpenCacheInv ==
  ASSUME IInv, NEW p \in Requests, InvalidateOpenCache(p)
  PROVE  IInv'
<1>1. /\ Finish(p) /\ UNCHANGED <<db, next, lock, doomed, leaving, ops>> /\ lock = NoOne
      /\ cache' = "unknown" /\ Head(todo[p]).do = "invalidate"
  BY DEF InvalidateOpenCache, Doing
<1>2. TypeOK'
  BY <1>1, AfterFinish DEF IInv, TypeOK
<1>3. \A q \in Requests : ~Doing(q, "remember")'
  <2>1. \A q \in Requests : ~Doing(q, "remember")
    BY <1>1, HostingAssumption DEF IInv, CacheInv
  <2> QED BY <1>1, <2>1, FinishSingles DEF IInv, NoNewSingles, Single
<1>4. CacheInv'
  BY <1>1, <1>3 DEF CacheInv
<1> QED BY <1>1, <1>2, <1>4, CacheStatementInv

LEMMA FillOpenCacheInv ==
  ASSUME IInv, NEW p \in Requests, FillOpenCache(p)
  PROVE  IInv'
<1>1. /\ Finish(p) /\ UNCHANGED <<db, next, doomed, leaving, ops>> /\ lock' = NoOne
      /\ cache' = Head(todo[p]).value /\ Head(todo[p]).do = "remember" /\ Doing(p, "remember")
  BY DEF FillOpenCache, Doing
<1>2. TypeOK'
  <2>1. Head(todo[p]).value \in {"open", "closed"}
    BY <1>1, AfterFinish, StatementFields DEF IInv
  <2> QED BY <1>1, <2>1, AfterFinish DEF IInv, TypeOK
<1>3. \A q \in Requests : ~Doing(q, "remember")'
  <2>1. \A q \in Requests \ {p} : ~Doing(q, "remember")
    BY <1>1 DEF IInv, CacheInv
  <2>2. ~Doing(p, "remember")'
    <3>1. todo'[p] \in Seq(OneStatement)
      BY <1>2 DEF TypeOK
    <3>2. todo'[p] # <<>> => Head(todo'[p]) = todo'[p][1] /\ 1 \in 1..Len(todo'[p])
      BY <3>1
    <3> QED BY <1>1, <3>2, AfterFinish DEF Doing, IInv, Single
  <2> QED BY <1>1, <2>1, <2>2, FinishSingles DEF IInv, NoNewSingles, Single
<1>4. \A q \in Requests : \A u : Invalidating(q, u) => Invalidating(q, u)'
  BY <1>1, AfterFinish DEF IInv, Invalidating, Doing
<1>5. CacheInv'
  BY <1>1, <1>3, <1>4 DEF IInv, CacheInv
<1> QED BY <1>1, <1>2, <1>5, CacheStatementInv

-----------------------------------------------------------------------------
(* A request ends early: what it had left is forgotten. *)
LEMMA ForgetPlan ==
  ASSUME IInv, NEW p \in Requests, todo' = [todo EXCEPT ![p] = <<>>],
         UNCHANGED <<db, next, doomed, leaving, ops>>, TypeOK', CacheInv'
  PROVE  IInv'
<1>1. todo'[p] = <<>> /\ \A q \in Requests \ {p} : todo'[q] = todo[q]
  BY DEF IInv, TypeOK
<1>2. FirstOnly' /\ NoNewSingles
  BY <1>1 DEF IInv, FirstOnly, NoNewSingles, Doing
<1>3. Stored' = Stored /\ Recorded' = Recorded /\ RepoIds' = RepoIds /\ UserIds' = UserIds
  BY DEF Stored, Recorded, RepoIds, UserIds
<1>4. NumbersInv'
  <2>1. \A q \in Requests : \A i \in 1..Len(todo'[q]) :
          todo'[q][i].do \in {"mrs", "drop"} => todo'[q][i].repo \in DOMAIN doomed'
    BY <1>1 DEF IInv, NumbersInv
  <2> QED BY <1>2, <2>1, NumbersStay DEF IInv
<1>5. RowsInv'
  <2> DEFINE N == {}
  <2>1. /\ Stored' \subseteq Stored \cup N /\ Recorded' \subseteq Recorded \cup Stored
        /\ next.repo <= next'.repo /\ next.mr <= next'.mr /\ ops <= ops'
        /\ \A x \in N : Past(x, next', ops')
    BY <1>3 DEF TypeOK
  <2>2. IsFiniteSet(db.repos') /\ \A x, y \in db.repos' : x.name = y.name => x = y
    BY DEF IInv, RowsInv
  <2>3. \A q \in Requests : Stamped(q)' => Head(todo[q]).row \notin N
    OBVIOUS
  <2> HIDE DEF N
  <2> QED BY <1>2, <2>1, <2>2, <2>3, RowsStay DEF IInv
<1>6. DeletionInv'
  <2>1. Covered(p)'
    BY <1>1 DEF Covered, Covers
  <2>2. \A q \in Requests \ {p} : Covered(q)'
    BY <1>1, <1>3 DEF Covered, IInv, DeletionInv
  <2> QED BY <1>3, <2>1, <2>2 DEF IInv, DeletionInv
<1> QED BY <1>2, <1>4, <1>5, <1>6 DEF IInv

LEMMA FailInv ==
  ASSUME IInv, NEW p \in Requests, Fail(p)
  PROVE  IInv'
<1>1. /\ todo' = [todo EXCEPT ![p] = <<>>] /\ UNCHANGED <<db, next, cache, doomed, leaving, ops>>
      /\ ~Doing(p, "invalidate") /\ lock' = IF lock = p THEN NoOne ELSE lock
  BY DEF Fail
<1>2. /\ todo' \in [Requests -> Seq(OneStatement)] /\ todo'[p] = <<>>
      /\ \A q \in Requests \ {p} : todo'[q] = todo[q]
  <2>1. <<>> \in Seq(OneStatement)
    OBVIOUS
  <2> QED BY <1>1, <2>1, PlanOf DEF IInv
<1>3. TypeOK'
  BY <1>1, <1>2 DEF IInv, TypeOK
<1>4. CacheInv'
  <2>1. \A q \in Requests : \A d : Doing(q, d)' => q # p /\ Doing(q, d) /\ todo'[q] = todo[q]
    BY <1>2 DEF Doing
  <2>2. \A q \in Requests : \A u : Invalidating(q, u) => Invalidating(q, u)'
    BY <1>1, <1>2 DEF Invalidating, Doing
  <2>3. \A q \in Requests : Doing(q, "remember")' => lock' = q
    BY <1>1, <2>1 DEF IInv, CacheInv
  <2> QED BY <1>1, <2>1, <2>2, <2>3 DEF IInv, CacheInv
<1> QED BY <1>1, <1>3, <1>4, ForgetPlan

LEMMA RestartInv ==
  ASSUME IInv, Restart
  PROVE  IInv'
<1>1. /\ \A q \in Requests : todo'[q] = <<>>
      /\ cache' = "unknown" /\ lock' = NoOne /\ UNCHANGED <<db, next, doomed, leaving, ops>>
      /\ todo' \in [Requests -> Seq(OneStatement)]
  BY DEF Restart
<1>2. TypeOK' /\ FirstOnly' /\ CacheInv'
  BY <1>1 DEF IInv, TypeOK, FirstOnly, CacheInv, Doing
<1>3. Stored' = Stored /\ Recorded' = Recorded /\ RepoIds' = RepoIds /\ UserIds' = UserIds
  BY <1>1 DEF Stored, Recorded, RepoIds, UserIds
<1>4. NumbersInv' /\ RowsInv'
  BY <1>1, <1>3 DEF IInv, NumbersInv, RowsInv, Doing, Stamped
<1>5. \A q \in Requests : Covered(q)'
  BY <1>1 DEF Covered, Covers
<1> QED BY <1>1, <1>2, <1>3, <1>4, <1>5 DEF IInv, DeletionInv

(***************************************************************************)
(* Delete opens the repository.  What the history keeps of it is what it   *)
(* has now, all of which will be cleared; or what it kept for a deletion   *)
(* that is still under way, which is cleared by either.                    *)
(***************************************************************************)
LEMMA OpenCovers ==
  ASSUME IInv, NEW plan \in Seq(OneStatement), plan # <<>>, plan[1].do = "open",
         NEW r \in db.repos, r.name = plan[1].name, NEW D,
         Covers(plan, doomed, leaving, Stored),
         DOMAIN doomed \subseteq DOMAIN D,
         \A i \in 1..Len(plan) : plan[i].do = "drop" => D[plan[i].repo] = doomed[plan[i].repo],
         r.id \in DOMAIN D, \A x \in D[r.id] : x \in MrRow \cup MemberRow /\ x.repo = r.id
  PROVE  Covers(Clearances(r.id) \o Tail(plan), D, leaving, Stored)
<1> DEFINE c == Clearances(r.id)
           new == c \o Tail(plan)
<1>1. /\ c \in Seq(OneStatement) /\ Len(c) = 4 /\ c[1] = [do |-> "mrs", repo |-> r.id]
      /\ c[2] = [do |-> "members", repo |-> r.id] /\ c[3] = [do |-> "notes", repo |-> r.id]
      /\ c[4] = [do |-> "drop", repo |-> r.id]
  <2>1. r.id \in Nat
    BY Tables DEF IInv, RepoRow
  <2>2. {[do |-> "mrs", repo |-> r.id], [do |-> "members", repo |-> r.id],
         [do |-> "notes", repo |-> r.id], [do |-> "drop", repo |-> r.id]} \subseteq OneStatement
    BY <2>1 DEF OneStatement
  <2> QED BY <2>2 DEF Clearances
<1> HIDE DEF c
<1>2. /\ Len(plan) \in Nat \ {0} /\ Len(new) = Len(plan) + 3
      /\ \A i \in 1..4 : new[i] = c[i]
      /\ \A i \in 2..Len(plan) : new[i + 3] = plan[i]
  BY <1>1, JoinedAfterFour
<1> HIDE DEF new
<1> SUFFICES ASSUME NEW k \in 1..Len(new)
             PROVE  /\ Kept(new[k], D, leaving)
                    /\ \A x \in Due(new[k], D, leaving) \cap Stored :
                         \E j \in 1..(k - 1) : Undoes(new[j], x)
  BY DEF new, c, Covers
<1>3. CASE k \in 1..3
  BY <1>1, <1>2, <1>3 DEF Kept, Due
<1>4. CASE k = 4
  <2>1. new[4].do = "drop" /\ new[4].repo = r.id /\ 1 \in 1..3 /\ 2 \in 1..3
    BY <1>1, <1>2
  <2>2. \A x \in D[r.id] : Undoes(new[1], x) \/ Undoes(new[2], x)
    BY <1>1, <1>2 DEF Undoes
  <2> QED BY <1>4, <2>1, <2>2 DEF Kept, Due
<1>5. CASE k \in 5..Len(new)
  <2> DEFINE i == k - 3
  <2>1. i \in 2..Len(plan) /\ new[k] = plan[i] /\ i \in 1..Len(plan)
    <3>1. i \in 2..Len(plan) /\ i + 3 = k
      BY <1>2, <1>5
    <3> QED BY <1>2, <3>1
  <2>2. /\ Kept(plan[i], doomed, leaving)
        /\ \A x \in Due(plan[i], doomed, leaving) \cap Stored :
             \E j \in 1..(i - 1) : Undoes(plan[j], x)
    BY <2>1 DEF Covers
  <2>3. Kept(plan[i], D, leaving) /\ Due(plan[i], D, leaving) = Due(plan[i], doomed, leaving)
    BY <2>1, <2>2 DEF Kept, Due
  <2>4. ASSUME NEW x \in Stored, NEW j \in 1..(i - 1), Undoes(plan[j], x)
        PROVE  \E m \in 1..(k - 1) : Undoes(new[m], x)
    <3>1. CASE j = 1
      <4>1. x \in db.repos /\ x.name = r.name
        BY <2>4, <3>1, StoredKinds DEF Undoes, IInv
      <4>2. x = r /\ x \in RepoRow
        BY <4>1, Tables DEF IInv, RowsInv
      <4>3. Undoes(new[4], x)
        BY <1>1, <1>2, <4>2 DEF Undoes
      <4>4. 4 \in 1..(k - 1)
        BY <1>5
      <4> QED BY <4>3, <4>4
    <3>2. CASE j # 1
      <4>1. j \in 2..Len(plan) /\ j + 3 \in 1..(k - 1)
        BY <2>1, <3>2
      <4>2. new[j + 3] = plan[j]
        BY <1>2, <4>1
      <4> QED BY <2>4, <4>1, <4>2
    <3> QED BY <3>1, <3>2
  <2> HIDE DEF i
  <2> QED BY <2>1, <2>2, <2>3, <2>4
<1> QED BY <1>2, <1>3, <1>4, <1>5

(* What the histories keep is not more than they kept and what is stored. *)
LEMMA RecordedGrows ==
  ASSUME NEW D, NEW L, NEW k, DOMAIN doomed' = DOMAIN doomed \cup {k},
         leaving' = leaving, DOMAIN doomed' = D,
         \A x \in DOMAIN doomed \ {k} : doomed'[x] = doomed[x],
         \/ doomed'[k] \subseteq Stored
         \/ k \in DOMAIN doomed /\ doomed'[k] = doomed[k]
  PROVE  Recorded' \subseteq Recorded \cup Stored
BY DEF Recorded

LEMMA OpenToDeleteInv ==
  ASSUME IInv, NEW p \in Requests, OpenToDelete(p)
  PROVE  IInv'
<1> DEFINE s == Head(todo[p])
<1>1. /\ Doing(p, "open") /\ UNCHANGED <<db, next, cache, lock, leaving, ops>>
      /\ todo[p] \in Seq(OneStatement) /\ todo[p] # <<>>
      /\ s = todo[p][1] /\ Len(todo[p]) \in Nat \ {0} /\ s.do = "open"
  BY DEF OpenToDelete, Doing, IInv, TypeOK
<1>2. ASSUME NEW plan \in Seq(OneStatement), todo' = [todo EXCEPT ![p] = plan],
             plan = <<>> \/ plan[1].do \notin Single
      PROVE  /\ TypeOK' /\ NoNewSingles /\ CacheInv'
             /\ todo'[p] = plan /\ \A q \in Requests \ {p} : todo'[q] = todo[q]
  <2>1. /\ todo' \in [Requests -> Seq(OneStatement)] /\ todo'[p] = plan
        /\ \A q \in Requests \ {p} : todo'[q] = todo[q]
    BY <1>2, PlanOf DEF IInv
  <2>2. TypeOK'
    BY <1>1, <2>1 DEF IInv, TypeOK
  <2>3. plan # <<>> => Head(plan) = plan[1]
    OBVIOUS
  <2>4. NoNewSingles
    BY <1>2, <2>1, <2>3 DEF NoNewSingles, Doing
  <2>5. \A q \in Requests : Doing(q, "invalidate") => todo'[q] = todo[q]
    BY <1>1, <2>1 DEF Doing
  <2>6. CacheInv'
    BY <1>1, <2>4, <2>5, CacheStays DEF IInv
  <2> QED BY <2>1, <2>2, <2>4, <2>6
<1>3. CASE todo' = [todo EXCEPT ![p] = <<>>] /\ UNCHANGED doomed
  <2>1. <<>> \in Seq(OneStatement)
    OBVIOUS
  <2> QED BY <1>1, <1>2, <1>3, <2>1, ForgetPlan
<1>4. ASSUME NEW r \in RepoNamed(s.name),
             todo' = [todo EXCEPT ![p] = Clearances(r.id) \o Tail(todo[p])],
             NEW rows, rows = {x \in db.mrs \cup db.members : x.repo = r.id},
             NEW last, last = [do |-> "drop", repo |-> r.id],
             doomed' = With(doomed, r.id, rows, last)
      PROVE  IInv'
  <2> DEFINE plan == Clearances(r.id) \o Tail(todo[p])
  <2>1. r \in db.repos /\ r.name = s.name /\ r.id \in Nat /\ r.id \in RepoIds
    BY <1>4, Tables DEF RepoNamed, RepoIds, IInv, RepoRow
  <2>2. /\ DOMAIN doomed' = DOMAIN doomed \cup {r.id}
        /\ \A x \in DOMAIN doomed \ {r.id} : doomed'[x] = doomed[x]
        /\ doomed'[r.id] \in {rows, doomed[r.id]}
        /\ \A q \in Requests : \A i \in 1..Len(todo[q]) :
             todo[q][i] = last => doomed'[r.id] = doomed[r.id]
    <3> DEFINE w == With(doomed, r.id, rows, last)
    <3>1. /\ DOMAIN w = DOMAIN doomed \cup {r.id}
          /\ \A x \in DOMAIN doomed \ {r.id} : w[x] = doomed[x]
          /\ w[r.id] \in {rows, doomed[r.id]}
          /\ \A q \in Requests : \A i \in 1..Len(todo[q]) : todo[q][i] = last => w[r.id] = doomed[r.id]
      BY DEF IInv, TypeOK, With, Planned
    <3> HIDE DEF w
    <3> QED BY <1>4, <3>1 DEF w
  <2>3. rows \subseteq Stored /\ \A x \in rows : x \in MrRow \cup MemberRow /\ x.repo = r.id
    BY <1>4, Tables DEF Stored, IInv
  <2>4. \/ doomed'[r.id] = rows
        \/ r.id \in DOMAIN doomed /\ doomed'[r.id] = doomed[r.id]
    <3>1. CASE r.id \in DOMAIN doomed
      BY <2>2, <3>1
    <3>2. CASE r.id \notin DOMAIN doomed
      <4>1. \A q \in Requests : \A i \in DOMAIN todo[q] : i \in 1..Len(todo[q])
        BY DEF IInv, TypeOK
      <4>2. last.do = "drop" /\ last.repo = r.id
        BY <1>4
      <4>3. ~Planned(last)
        BY <3>2, <4>1, <4>2 DEF Planned, IInv, NumbersInv
      <4> QED BY <1>4, <4>3 DEF With
    <3> QED BY <3>1, <3>2
  <2>5. \A x \in doomed'[r.id] : x \in MrRow \cup MemberRow /\ x.repo = r.id
    BY <2>3, <2>4 DEF IInv, DeletionInv
  <2>6. \A q \in Requests : \A i \in 1..Len(todo[q]) :
          todo[q][i].do = "drop" =>
            /\ todo[q][i].repo \in DOMAIN doomed
            /\ doomed'[todo[q][i].repo] = doomed[todo[q][i].repo]
    <3> SUFFICES ASSUME NEW q \in Requests, NEW i \in 1..Len(todo[q]), todo[q][i].do = "drop"
                 PROVE  /\ todo[q][i].repo \in DOMAIN doomed
                        /\ doomed'[todo[q][i].repo] = doomed[todo[q][i].repo]
      OBVIOUS
    <3>1. todo[q][i] \in OneStatement
      BY DEF IInv, TypeOK
    <3>2. todo[q][i] = [do |-> "drop", repo |-> todo[q][i].repo]
      BY <3>1, StatementFields
    <3>3. todo[q][i].repo \in DOMAIN doomed
      BY DEF IInv, NumbersInv
    <3> QED BY <1>4, <2>2, <3>2, <3>3
  <2>7. /\ Clearances(r.id) \in Seq(OneStatement) /\ Len(Clearances(r.id)) = 4
        /\ \A i \in 1..4 : /\ Clearances(r.id)[i].do \in {"mrs", "members", "notes", "drop"}
                           /\ Clearances(r.id)[i].repo = r.id
    <3>1. {[do |-> "mrs", repo |-> r.id], [do |-> "members", repo |-> r.id],
           [do |-> "notes", repo |-> r.id], [do |-> "drop", repo |-> r.id]} \subseteq OneStatement
      BY <2>1 DEF OneStatement
    <3> QED BY <3>1 DEF Clearances
  <2>8. /\ plan \in Seq(OneStatement) /\ Len(plan) \in Nat \ {0}
        /\ \A i \in 1..4 : plan[i] = Clearances(r.id)[i]
        /\ \A i \in 1..Len(plan) : i \in 1..4 \/ \E j \in 2..Len(todo[p]) : plan[i] = todo[p][j]
        /\ 1 \in 1..Len(plan)
    <3>1. /\ plan \in Seq(OneStatement) /\ Len(todo[p]) \in Nat \ {0}
          /\ Len(plan) = Len(todo[p]) + 3
          /\ \A i \in 1..4 : plan[i] = Clearances(r.id)[i]
          /\ \A i \in 1..Len(plan) : i \in 1..4 \/ \E j \in 2..Len(todo[p]) : plan[i] = todo[p][j]
      <4> DEFINE c == Clearances(r.id)
                 t == todo[p]
      <4>1. c \in Seq(OneStatement) /\ Len(c) = 4 /\ t \in Seq(OneStatement) /\ t # <<>>
        BY <1>1, <2>7
      <4> HIDE DEF c, t
      <4>2. /\ c \o Tail(t) \in Seq(OneStatement)
            /\ Len(t) \in Nat \ {0} /\ Len(c \o Tail(t)) = Len(t) + 3
            /\ \A i \in 1..4 : (c \o Tail(t))[i] = c[i]
            /\ \A i \in 1..Len(c \o Tail(t)) :
                  i \in 1..4 \/ \E j \in 2..Len(t) : (c \o Tail(t))[i] = t[j]
        BY <4>1, JoinedAfterFour
      <4> QED BY <4>2 DEF c, t
    <3> HIDE DEF plan
    <3> QED BY <3>1
  <2>10. Covers(plan, doomed', leaving, Stored)
    BY <1>1, <2>1, <2>2, <2>5, <2>6, OpenCovers DEF IInv, DeletionInv, Covered
  <2> HIDE DEF plan
  <2>11. \A i \in 1..Len(plan) :
           \/ plan[i].do \in {"mrs", "members", "notes", "drop"} /\ plan[i].repo = r.id
           \/ \E j \in 2..Len(todo[p]) : plan[i] = todo[p][j]
    <3> TAKE i \in 1..Len(plan)
    <3>1. CASE i \in 1..4
      BY <2>7, <2>8, <3>1
    <3>2. CASE i \notin 1..4
      BY <2>8, <3>2
    <3> QED BY <3>1, <3>2
  <2>12. plan[1].do \notin Single
    <3>1. 1 \in 1..4
      OBVIOUS
    <3> QED BY <2>7, <2>8, <3>1 DEF Single
  <2>13. /\ TypeOK' /\ NoNewSingles /\ CacheInv'
         /\ todo'[p] = plan /\ \A q \in Requests \ {p} : todo'[q] = todo[q]
    BY <1>2, <1>4, <2>8, <2>12 DEF plan
  <2>14. FirstOnly'
    BY <2>11, <2>13 DEF IInv, FirstOnly, Single
  <2>15. Stored' = Stored /\ RepoIds' = RepoIds /\ UserIds' = UserIds
    BY <1>1 DEF Stored, RepoIds, UserIds
  <2>16. NumbersInv'
    <3>1. \A q \in Requests : \A i \in 1..Len(todo'[q]) :
            todo'[q][i].do \in {"mrs", "drop"} => todo'[q][i].repo \in DOMAIN doomed'
      <4>1. \A q \in Requests : \A i \in 1..Len(todo[q]) :
              todo[q][i].do \in {"mrs", "drop"} => todo[q][i].repo \in DOMAIN doomed
        BY DEF IInv, NumbersInv
      <4>2. \A i \in 1..Len(plan) : plan[i].do \in {"mrs", "drop"} => plan[i].repo \in DOMAIN doomed'
        <5> TAKE i \in 1..Len(plan)
        <5>1. \A j \in 2..Len(todo[p]) : j \in 1..Len(todo[p])
          BY <1>1
        <5> QED BY <2>2, <2>11, <4>1, <5>1
      <4>3. ASSUME NEW q \in Requests \ {p}, NEW i \in 1..Len(todo[q]),
                   todo[q][i].do \in {"mrs", "drop"}
            PROVE  todo[q][i].repo \in DOMAIN doomed'
        BY <2>2, <4>1, <4>3
      <4> QED BY <2>13, <4>2, <4>3
    <3> QED BY <1>1, <2>2, <2>13, <3>1, NumbersStay DEF IInv
  <2>17. RowsInv'
    <3> DEFINE N == {}
    <3>1. Recorded' \subseteq Recorded \cup Stored
      BY <1>1, <2>2, <2>3, <2>4, RecordedGrows
    <3>2. /\ Stored' \subseteq Stored \cup N
          /\ next.repo <= next'.repo /\ next.mr <= next'.mr /\ ops <= ops'
          /\ \A x \in N : Past(x, next', ops')
      BY <1>1, <2>15 DEF IInv, TypeOK
    <3>3. IsFiniteSet(db.repos') /\ \A x, y \in db.repos' : x.name = y.name => x = y
      BY <1>1 DEF IInv, RowsInv
    <3>4. \A q \in Requests : Stamped(q)' => Head(todo[q]).row \notin N
      OBVIOUS
    <3> HIDE DEF N
    <3> QED BY <2>13, <3>1, <3>2, <3>3, <3>4, RowsStay DEF IInv
  <2>18. \A q \in Requests : Covered(q)'
    <3>1. ASSUME NEW q \in Requests \ {p} PROVE Covers(todo[q], doomed', leaving, Stored)
      <4>1. Covers(todo[q], doomed, leaving, Stored)
        BY DEF IInv, DeletionInv, Covered
      <4>2. \A i \in 1..Len(todo[q]) :
              /\ Kept(todo[q][i], doomed', leaving)
              /\ Due(todo[q][i], doomed', leaving) = Due(todo[q][i], doomed, leaving)
        BY <2>2, <2>6, <4>1 DEF Covers, Kept, Due
      <4> QED BY <4>1, <4>2 DEF Covers
    <3> QED BY <1>1, <2>10, <2>13, <2>15, <3>1 DEF Covered
  <2>19. DeletionInv'
    <3>1. \A id \in DOMAIN doomed' : \A x \in doomed'[id] : x \in MrRow \cup MemberRow /\ x.repo = id
      BY <2>2, <2>5 DEF IInv, DeletionInv
    <3>2. \A id \in DOMAIN doomed' \ RepoIds' : doomed'[id] \cap Stored' = {}
      BY <2>1, <2>2, <2>15 DEF IInv, DeletionInv
    <3> QED BY <1>1, <2>15, <2>18, <3>1, <3>2 DEF IInv, DeletionInv
  <2> QED BY <2>13, <2>14, <2>16, <2>17, <2>19 DEF IInv
<1> QED BY <1>3, <1>4 DEF OpenToDelete

-----------------------------------------------------------------------------
(* A request arrives. *)
LEMMA AfterBegin ==
  ASSUME TypeOK, FirstOnly, NEW p \in Requests, NEW plan \in Seq(OneStatement), Begin(p, plan),
         \A i \in 2..Len(plan) : plan[i].do \notin Single
  PROVE  /\ todo' \in [Requests -> Seq(OneStatement)] /\ FirstOnly'
         /\ todo[p] = <<>> /\ todo'[p] = plan /\ \A q \in Requests \ {p} : todo'[q] = todo[q]
         /\ ops \in Nat /\ ops' = ops + 1
         /\ \A q \in Requests : \A d : Doing(q, d) => Doing(q, d)'
         /\ (plan = <<>> \/ plan[1].do \notin Single) => NoNewSingles
<1>1. /\ todo' \in [Requests -> Seq(OneStatement)]
      /\ todo[p] = <<>> /\ todo'[p] = plan /\ \A q \in Requests \ {p} : todo'[q] = todo[q]
      /\ ops \in Nat /\ ops' = ops + 1
  BY PlanOf DEF Begin, TypeOK
<1>2. FirstOnly'
  BY <1>1 DEF FirstOnly
<1>3. \A q \in Requests : \A d : Doing(q, d) => Doing(q, d)'
  BY <1>1 DEF Doing
<1>4. plan # <<>> => Head(plan) = plan[1]
  OBVIOUS
<1>5. (plan = <<>> \/ plan[1].do \notin Single) => NoNewSingles
  BY <1>1, <1>4 DEF NoNewSingles, Doing
<1> QED BY <1>1, <1>2, <1>3, <1>5

(* One that changes no table yet and deletes nothing.  The row it may bring
   along bears the time it came. *)
LEMMA ArrivalKeeps ==
  ASSUME IInv, NEW p \in Requests, NEW plan \in Seq(OneStatement), Begin(p, plan),
         \A i \in 2..Len(plan) : plan[i].do \notin Single,
         \A i \in 1..Len(plan) : plan[i].do \notin {"mrs", "drop", "clear"},
         UNCHANGED <<db, next, doomed, leaving>>, cache' = cache, lock' \in Requests \cup {NoOne},
         CacheInv',
         plan # <<>> /\ plan[1].do \in {"namespace", "grant", "claim"} => plan[1].row.created = ops,
         plan # <<>> /\ plan[1].do = "mr" /\ plan[1].repo \notin DOMAIN doomed =>
           plan[1].iid \in 1..(Cardinality(Own(plan[1].repo, db.mrs)) + 1)
  PROVE  IInv'
<1>1. /\ todo' \in [Requests -> Seq(OneStatement)] /\ FirstOnly'
      /\ todo[p] = <<>> /\ todo'[p] = plan /\ \A q \in Requests \ {p} : todo'[q] = todo[q]
      /\ ops \in Nat /\ ops' = ops + 1
  BY AfterBegin DEF IInv
<1>2. plan # <<>> => Head(plan) = plan[1] /\ plan[1] \in OneStatement /\ 1 \in 1..Len(plan)
  OBVIOUS
<1>3. TypeOK'
  BY <1>1 DEF IInv, TypeOK
<1>4. Stored' = Stored /\ Recorded' = Recorded /\ RepoIds' = RepoIds /\ UserIds' = UserIds
  BY DEF Stored, Recorded, RepoIds, UserIds
<1>5. NumbersInv'
  <2>1. \A q \in Requests : \A i \in 1..Len(todo'[q]) :
          todo'[q][i].do \in {"mrs", "drop"} => todo'[q][i].repo \in DOMAIN doomed'
    BY <1>1 DEF IInv, NumbersInv
  <2>2. ASSUME NEW q \in Requests, Doing(q, "mr")', Head(todo'[q]).repo \notin DOMAIN doomed
        PROVE  Head(todo'[q]).iid \in 1..(Cardinality(Own(Head(todo'[q]).repo, db.mrs)) + 1)
    BY <1>1, <1>2, <2>2 DEF IInv, NumbersInv, Doing
  <2> QED BY <2>1, <2>2 DEF IInv, NumbersInv
<1>6. RowsInv'
  <2>1. ASSUME NEW x, Past(x, next, ops) PROVE Past(x, next', ops')
    <3>1. x \in TokenRow \cup SpaceRow \cup MemberRow \cup ClaimRow => x.created \in Nat
      BY DEF TokenRow, SpaceRow, MemberRow, ClaimRow
    <3> QED BY <1>1, <2>1, <3>1 DEF Past
  <2>2. ASSUME Stamped(p)'
        PROVE  /\ Past(Head(plan).row, next', ops')
               /\ ~Past(Head(plan).row, next, ops)
    <3>1. plan # <<>> /\ plan[1].do \in {"namespace", "grant", "claim"}
      BY <1>1, <1>2, <2>2 DEF Stamped, Doing
    <3>2. plan[1].row \in SpaceRow \cup MemberRow \cup ClaimRow /\ plan[1].row.created = ops
      BY <1>2, <3>1, StatementFields
    <3> QED BY <1>1, <1>2, <3>1, <3>2, RowKinds DEF Past
  <2>3. ASSUME NEW q \in Requests \ {p}, Stamped(q)'
        PROVE  /\ todo'[q] = todo[q] /\ Stamped(q) /\ Past(Head(todo[q]).row, next, ops)
               /\ Head(todo[q]).row \notin Stored \cup Recorded
    BY <1>1, <2>3 DEF Stamped, Doing, IInv, RowsInv
  <2>4. \A x \in Stored \cup Recorded : Past(x, next, ops)
    BY DEF IInv, RowsInv
  <2>5. ASSUME NEW q \in Requests, Stamped(q)'
        PROVE  /\ Past(Head(todo'[q]).row, next', ops')
               /\ Head(todo'[q]).row \notin Stored \cup Recorded
    BY <1>1, <2>1, <2>2, <2>3, <2>4, <2>5
  <2>6. ASSUME NEW q \in Requests, NEW r \in Requests \ {q}, Stamped(q)', Stamped(r)'
        PROVE  Head(todo'[r]).row # Head(todo'[q]).row
    <3>1. CASE q = p
      BY <1>1, <2>2, <2>3, <2>6, <3>1
    <3>2. CASE r = p
      BY <1>1, <2>2, <2>3, <2>6, <3>2
    <3>3. CASE q # p /\ r # p
      BY <2>3, <2>6, <3>3 DEF IInv, RowsInv
    <3> QED BY <3>1, <3>2, <3>3
  <2>7. IsFiniteSet(db.repos') /\ \A x, y \in db.repos' : x.name = y.name => x = y
    BY DEF IInv, RowsInv
  <2>8. \A x \in Stored' \cup Recorded' : Past(x, next', ops')
    BY <1>4, <2>1, <2>4
  <2> QED BY <1>4, <2>5, <2>6, <2>7, <2>8 DEF RowsInv
<1>7. DeletionInv'
  <2>1. Covers(plan, doomed, leaving, Stored)
    BY HarmlessPlan
  <2>2. \A q \in Requests : Covered(q)'
    BY <1>1, <1>4, <2>1 DEF Covered, IInv, DeletionInv
  <2> QED BY <1>4, <2>2 DEF IInv, DeletionInv
<1> QED BY <1>1, <1>3, <1>5, <1>6, <1>7 DEF IInv

(* One that has nothing to do with the cache either. *)
LEMMA PlainArrival ==
  ASSUME IInv, NEW p \in Requests, NEW plan \in Seq(OneStatement), Arrives(p, plan),
         \A i \in 2..Len(plan) : plan[i].do \notin Single,
         \A i \in 1..Len(plan) : plan[i].do \notin {"mrs", "drop", "clear"},
         plan # <<>> => plan[1].do # "remember",
         plan # <<>> /\ plan[1].do \in {"namespace", "grant", "claim"} => plan[1].row.created = ops,
         plan # <<>> /\ plan[1].do = "mr" /\ plan[1].repo \notin DOMAIN doomed =>
           plan[1].iid \in 1..(Cardinality(Own(plan[1].repo, db.mrs)) + 1)
  PROVE  IInv'
<1>1. Begin(p, plan) /\ UNCHANGED <<db, next, cache, lock, doomed, leaving>>
  BY DEF Arrives
<1>2. lock' \in Requests \cup {NoOne} /\ cache' = cache
  BY <1>1 DEF IInv, TypeOK
<1>3. CacheInv'
  <2>1. /\ todo[p] = <<>> /\ todo'[p] = plan /\ \A q \in Requests \ {p} : todo'[q] = todo[q]
        /\ \A q \in Requests : \A d : Doing(q, d) => Doing(q, d)'
    BY <1>1, AfterBegin DEF IInv
  <2>2. plan # <<>> => Head(plan) = plan[1]
    OBVIOUS
  <2>3. \A q \in Requests : Doing(q, "remember")' => Doing(q, "remember") /\ todo'[q] = todo[q]
    BY <2>1, <2>2 DEF Doing
  <2>4. \A q \in Requests : \A u : Invalidating(q, u) => Invalidating(q, u)'
    BY <2>1 DEF Invalidating, Doing
  <2> QED BY <1>1, <2>3, <2>4 DEF IInv, CacheInv
<1> QED BY <1>1, <1>2, <1>3, ArrivalKeeps

LEMMA OneStatementPlan ==
  ASSUME IInv, NEW p \in Requests, NEW st \in OneStatement, Arrives(p, <<st>>),
         st.do \notin {"mrs", "drop", "clear", "remember"},
         st.do \in {"namespace", "grant", "claim"} => st.row.created = ops,
         st.do = "mr" /\ st.repo \notin DOMAIN doomed =>
           st.iid \in 1..(Cardinality(Own(st.repo, db.mrs)) + 1)
  PROVE  IInv'
<1> DEFINE plan == <<st>>
<1>1. plan \in Seq(OneStatement) /\ Len(plan) = 1 /\ plan[1] = st /\ Arrives(p, plan)
  OBVIOUS
<1> HIDE DEF plan
<1> QED BY <1>1, PlainArrival

LEMMA CreateInv ==
  ASSUME IInv, NEW p \in Requests, NEW u \in UserIds, NEW n \in Names, Create(p, u, n)
  PROVE  IInv'
<1> DEFINE st == [do |-> "namespace", row |-> [owner |-> u, space |-> SpaceOf[n], created |-> ops]]
           sr == [do |-> "repo", user |-> u, name |-> n]
           plan == <<st, sr>>
<1>1. u \in Nat /\ ops \in Nat
  BY Tables DEF UserIds, UserRow, IInv, TypeOK
<1>2. st \in OneStatement /\ sr \in OneStatement /\ st.row.created = ops
  BY <1>1 DEF OneStatement, SpaceRow, Spaces
<1>3. /\ st.do = "namespace" /\ sr.do = "repo" /\ sr.do \notin Single
      /\ Arrives(p, <<st, sr>>)
  BY DEF Create, Single
<1> HIDE DEF st, sr
<1>4. /\ plan \in Seq(OneStatement) /\ Len(plan) = 2 /\ plan[1] = st /\ plan[2] = sr
      /\ Arrives(p, plan)
  BY <1>2, <1>3
<1> HIDE DEF plan
<1>5. /\ \A i \in 2..Len(plan) : plan[i].do \notin Single
      /\ \A i \in 1..Len(plan) : plan[i].do \notin {"mrs", "drop", "clear"}
  BY <1>3, <1>4
<1> QED BY <1>2, <1>3, <1>4, <1>5, PlainArrival

LEMMA AuthorizePublishInv ==
  ASSUME IInv, NEW p \in Requests, NEW n \in Names, NEW u \in UserIds, AuthorizePublish(p, u, n)
  PROVE  IInv'
<1> DEFINE st == [do |-> "claim", row |-> [owner |-> u, name |-> n, created |-> ops]]
<1>1. u \in Nat /\ ops \in Nat
  BY Tables DEF UserIds, UserRow, IInv, TypeOK
<1>2. st \in OneStatement /\ st.do = "claim" /\ st.row.created = ops /\ Arrives(p, <<st>>)
  BY <1>1 DEF OneStatement, ClaimRow, AuthorizePublish
<1> HIDE DEF st
<1> QED BY <1>2, OneStatementPlan

LEMMA SetRepoMemberInv ==
  ASSUME IInv, NEW p \in Requests, NEW u \in UserIds, NEW id \in RepoIds, NEW role \in Roles,
         SetRepoMember(p, id, u, role)
  PROVE  IInv'
<1> DEFINE st == [do |-> "grant", row |-> [repo |-> id, user |-> u, role |-> role, created |-> ops]]
<1>1. u \in Nat /\ ops \in Nat /\ id \in Nat
  BY Tables DEF UserIds, UserRow, RepoIds, RepoRow, IInv, TypeOK
<1>2. st \in OneStatement /\ st.do = "grant" /\ st.row.created = ops /\ Arrives(p, <<st>>)
  BY <1>1 DEF OneStatement, MemberRow, SetRepoMember
<1> HIDE DEF st
<1> QED BY <1>2, OneStatementPlan

LEMMA DeleteBegins ==
  ASSUME IInv, NEW p \in Requests, NEW n \in Names, Delete(p, n)
  PROVE  IInv'
<1> DEFINE st == [do |-> "open", name |-> n]
<1>1. st \in OneStatement /\ st.do = "open" /\ Arrives(p, <<st>>)
  BY DEF Delete, OneStatement
<1> HIDE DEF st
<1> QED BY <1>1, OneStatementPlan

LEMMA CreateUnownedInv ==
  ASSUME IInv, NEW p \in Requests, NEW n \in Names, CreateUnowned(p, n)
  PROVE  IInv'
<1> DEFINE st == [do |-> "repo", user |-> Nobody, name |-> n]
<1>1. st \in OneStatement /\ st.do = "repo" /\ Arrives(p, <<st>>)
  BY DEF CreateUnowned, OneStatement, Nobody
<1> HIDE DEF st
<1> QED BY <1>1, OneStatementPlan

LEMMA AddReviewInv ==
  ASSUME IInv, NEW p \in Requests, NEW m \in db.mrs, AddReview(p, m.id)
  PROVE  IInv'
<1> DEFINE st == [do |-> "note", mr |-> m.id]
<1>1. m.id \in Nat
  BY Tables DEF IInv, MrRow
<1>2. st \in OneStatement /\ st.do = "note" /\ Arrives(p, <<st>>)
  BY <1>1 DEF AddReview, OneStatement
<1> HIDE DEF st
<1> QED BY <1>2, OneStatementPlan

(* The number after the largest there is. *)
LEMMA CreateMergeRequestInv ==
  ASSUME IInv, NEW p \in Requests, NEW id \in RepoIds, CreateMergeRequest(p, id)
  PROVE  IInv'
<1> DEFINE iids == {m.iid : m \in {x \in db.mrs : x.repo = id}}
           own == Own(id, db.mrs)
           n == Cardinality(own)
<1>1. id \in Nat /\ iids = {m.iid : m \in own} /\ \A m \in own : m.iid \in Nat
  BY Tables DEF IInv, RepoIds, RepoRow, MrRow, Own
<1>2. IsFiniteSet(own) /\ n \in Nat
  <2>1. own \in SUBSET db.mrs
    BY DEF Own
  <2> QED BY <2>1, FS_Subset, FS_CardinalityType DEF IInv, NumbersInv
<1>3. \E top \in Nat : top \in iids \cup {0} /\ \A x \in iids \cup {0} : top >= x
  <2>1. CASE own = {}
    BY <1>1, <2>1
  <2>2. CASE own # {}
    <3>1. PICK t \in own : \A m \in own : m.iid <= t.iid
      BY <2>2 DEF Own, IInv, NumbersInv, HasLargest
    <3> HIDE DEF own
    <3>2. t.iid \in Nat /\ t.iid \in iids /\ \A x \in iids \cup {0} : t.iid >= x
      BY <1>1, <3>1
    <3> QED BY <3>2
  <2> QED BY <2>1, <2>2
<1> DEFINE top == Max(iids \cup {0})
           st == [do |-> "mr", repo |-> id, iid |-> 1 + top]
<1>4. Arrives(p, <<st>>)
  BY DEF CreateMergeRequest
<1>5. \A m : m \in iids \cup {0} => m \in Nat
  BY <1>1
<1> HIDE DEF iids
<1>6. top \in iids \cup {0} /\ \A x \in iids \cup {0} : top >= x
  BY <1>3 DEF Max
<1> HIDE DEF top
<1>7. top \in Nat
  BY <1>5, <1>6
<1>8. st \in OneStatement /\ st.do = "mr" /\ st.repo = id /\ st.iid = top + 1
  BY <1>1, <1>7 DEF OneStatement
<1>9. id \notin DOMAIN doomed => st.iid \in 1..(n + 1)
  <2> SUFFICES ASSUME id \notin DOMAIN doomed PROVE top <= n
    BY <1>2, <1>7, <1>8
  <2>1. CASE own = {}
    BY <1>1, <1>2, <1>6, <2>1
  <2>2. CASE own # {}
    <3>1. {m.iid : m \in own} = 1..n
      BY <2>2 DEF Own, IInv, NumbersInv, Gapless
    <3> HIDE DEF own, n
    <3> QED BY <1>1, <1>2, <1>6, <3>1
  <2> QED BY <2>1, <2>2
<1> HIDE DEF st
<1> QED BY <1>4, <1>8, <1>9, OneStatementPlan

(* Whether the instance is open is looked up under the lock. *)
LEMMA InstanceIsOpenInv ==
  ASSUME IInv, NEW p \in Requests, InstanceIsOpen(p)
  PROVE  IInv'
<1> DEFINE st == [do |-> "remember", value |-> IF db.users = {} THEN "open" ELSE "closed"]
           plan == <<st>>
<1>1. /\ Begin(p, plan) /\ lock = NoOne /\ lock' = p /\ UNCHANGED <<db, next, cache, doomed, leaving>>
      /\ cache = "unknown"
  BY DEF InstanceIsOpen
<1>2. st \in OneStatement /\ st.do = "remember" /\ (st.value = "open" => db.users = {})
  BY DEF OneStatement
<1> HIDE DEF st
<1>3. plan \in Seq(OneStatement) /\ Len(plan) = 1 /\ plan[1] = st /\ Head(plan) = st /\ plan # <<>>
  BY <1>2
<1> HIDE DEF plan
<1>4. /\ \A i \in 2..Len(plan) : plan[i].do \notin Single
      /\ \A i \in 1..Len(plan) : plan[i].do \notin {"mrs", "drop", "clear"}
  BY <1>2, <1>3
<1>5. CacheInv'
  <2>1. /\ todo[p] = <<>> /\ todo'[p] = plan /\ \A q \in Requests \ {p} : todo'[q] = todo[q]
    BY <1>1, <1>3, <1>4, AfterBegin DEF IInv
  <2>2. \A q \in Requests : ~Doing(q, "remember")
    BY <1>1, HostingAssumption DEF IInv, CacheInv
  <2>3. \A q \in Requests : Doing(q, "remember")' => q = p
    BY <2>1, <2>2 DEF Doing
  <2>4. Doing(p, "remember")' /\ Head(todo'[p]).value = "open" => db.users = {}
    BY <1>2, <1>3, <2>1
  <2> QED BY <1>1, <2>3, <2>4 DEF CacheInv
<1> QED BY <1>1, <1>2, <1>3, <1>4, <1>5, ArrivalKeeps

(* Requests that write before anything else can happen. *)
LEMMA WritingArrival ==
  ASSUME IInv, NEW p \in Requests, NEW plan \in Seq(OneStatement), Begin(p, plan),
         \A i \in 1..Len(plan) : plan[i].do = "invalidate",
         UNCHANGED <<lock, cache, doomed, leaving>>, db' \in Database,
         next' \in [user : Nat, repo : Nat, mr : Nat], next'.repo = next.repo, next'.mr = next.mr,
         db.repos' = db.repos, db.mrs' = db.mrs, UserIds \subseteq UserIds',
         \A x \in db.users' \ db.users : plan # <<>> /\ plan[1].user = x.id,
         NEW N, Stored' \subseteq Stored \cup N, \A x \in N : Past(x, next, ops') /\ ~Past(x, next, ops)
  PROVE  IInv'
<1>1. \A i \in 2..Len(plan) : plan[i].do \notin Single
  BY DEF Single
<1>2. plan # <<>> => 1 \in 1..Len(plan) /\ Head(plan) = plan[1] /\ plan[1].do \notin Single
  BY DEF Single
<1>3. /\ todo' \in [Requests -> Seq(OneStatement)] /\ FirstOnly'
      /\ todo[p] = <<>> /\ todo'[p] = plan /\ \A q \in Requests \ {p} : todo'[q] = todo[q]
      /\ ops \in Nat /\ ops' = ops + 1 /\ NoNewSingles
      /\ \A q \in Requests : \A d : Doing(q, d) => Doing(q, d)'
  BY <1>1, <1>2, AfterBegin DEF IInv
<1>4. TypeOK'
  BY <1>3 DEF IInv, TypeOK
<1>5. CacheInv'
  <2>1. \A x \in db.users' \ db.users : Invalidating(p, x.id)'
    BY <1>2, <1>3 DEF Invalidating, Doing
  <2>2. \A q \in Requests : \A u : Invalidating(q, u) => Invalidating(q, u)'
    BY <1>3 DEF Invalidating, Doing
  <2>3. \A q \in Requests : Doing(q, "remember")' => Doing(q, "remember") /\ todo'[q] = todo[q]
    BY <1>3 DEF NoNewSingles, Single
  <2> QED BY <2>1, <2>2, <2>3 DEF IInv, CacheInv
<1>6. NumbersInv'
  <2>1. \A q \in Requests : \A i \in 1..Len(todo'[q]) :
          todo'[q][i].do \in {"mrs", "drop"} => todo'[q][i].repo \in DOMAIN doomed'
    BY <1>3 DEF IInv, NumbersInv
  <2> QED BY <1>3, <2>1, NumbersStay DEF IInv
<1>7. N \cap Recorded = {} /\ \A q \in Requests : Stamped(q) => Head(todo[q]).row \notin N
  BY DEF IInv, RowsInv
<1>8. RowsInv'
  <2>1. Recorded' \subseteq Recorded \cup Stored
    BY DEF Recorded
  <2>2. /\ next.repo <= next'.repo /\ next.mr <= next'.mr /\ ops <= ops'
        /\ \A x \in N : Past(x, next', ops')
    BY <1>3 DEF IInv, TypeOK, Past
  <2>3. IsFiniteSet(db.repos') /\ \A x, y \in db.repos' : x.name = y.name => x = y
    BY DEF IInv, RowsInv
  <2>4. \A q \in Requests : Stamped(q)' => Head(todo[q]).row \notin N
    BY <1>3, <1>7 DEF NoNewSingles, Stamped, Single
  <2> QED BY <1>3, <1>4, <2>1, <2>2, <2>3, <2>4, RowsStay DEF IInv
<1>9. DeletionInv'
  <2>1. Stored' \cap Recorded \subseteq Stored /\ RepoIds' = RepoIds
    BY <1>7 DEF RepoIds
  <2>2. \A q \in Requests : Covers(todo[q], doomed, leaving, Stored')
    <3>1. \A s : Kept(s, doomed, leaving) => Due(s, doomed, leaving) \cap Stored' \subseteq Stored
      BY <2>1, RecordedRows
    <3> QED BY <3>1, OthersCovered DEF IInv, DeletionInv, Covered
  <2>3. Covers(plan, doomed, leaving, Stored')
    BY HarmlessPlan
  <2>4. \A q \in Requests : Covered(q)'
    BY <1>3, <2>2, <2>3 DEF Covered
  <2>5. Ended'
    BY <2>1, EndedStays DEF IInv
  <2> QED BY <2>4, <2>5 DEF IInv, DeletionInv, Ended
<1> QED BY <1>3, <1>4, <1>5, <1>6, <1>8, <1>9 DEF IInv

LEMMA CreateUserInv ==
  ASSUME IInv, NEW p \in Requests, CreateUser(p)
  PROVE  IInv'
<1> DEFINE st == [do |-> "invalidate", user |-> next.user]
           plan == <<st>>
           N == {}
<1>1. /\ Begin(p, plan) /\ UNCHANGED <<cache, lock, doomed, leaving>>
      /\ db' = [db EXCEPT !.users = @ \cup {[id |-> next.user]}]
      /\ next' = [next EXCEPT !.user = @ + 1]
  BY DEF CreateUser
<1>2. st \in OneStatement /\ st.do = "invalidate" /\ st.user = next.user
  BY DEF OneStatement, IInv, TypeOK
<1> HIDE DEF st
<1>3. plan \in Seq(OneStatement) /\ Len(plan) = 1 /\ plan[1] = st /\ plan # <<>>
  BY <1>2
<1> HIDE DEF plan
<1>4. \A i \in 1..Len(plan) : plan[i].do = "invalidate"
  BY <1>2, <1>3
<1>5. /\ next' \in [user : Nat, repo : Nat, mr : Nat] /\ next'.repo = next.repo /\ next'.mr = next.mr
      /\ next.user \in Nat
  BY <1>1 DEF IInv, TypeOK
<1>6. /\ db' \in Database /\ db.repos' = db.repos /\ db.mrs' = db.mrs
      /\ db.users \subseteq db.users' /\ Stored' = Stored
      /\ \A x \in db.users' \ db.users : x.id = next.user
  <2> DEFINE row == [id |-> next.user]
  <2>1. row \in UserRow /\ db \in Database
    BY <1>5 DEF UserRow, IInv, TypeOK
  <2>2. row.id = next.user
    OBVIOUS
  <2> HIDE DEF row
  <2>3. db'.users = db.users \cup {row}
    BY <1>1, <2>1 DEF Database, row
  <2>4. /\ db' \in Database /\ db.repos' = db.repos /\ db.mrs' = db.mrs /\ Stored' = Stored
    BY <1>1, <2>1 DEF Database, Stored, row
  <2> QED BY <2>2, <2>3, <2>4
<1>7. UserIds \subseteq UserIds' /\ Stored' \subseteq Stored \cup N
  BY <1>6 DEF UserIds
<1>8. \A x \in N : Past(x, next, ops') /\ ~Past(x, next, ops)
  OBVIOUS
<1>9. \A x \in db.users' \ db.users : plan # <<>> /\ plan[1].user = x.id
  BY <1>2, <1>3, <1>6
<1> HIDE DEF N
<1> QED BY <1>1, <1>3, <1>4, <1>5, <1>6, <1>7, <1>8, <1>9, WritingArrival

LEMMA CreateTokenInv ==
  ASSUME IInv, NEW p \in Requests, NEW u \in UserIds, CreateToken(p, u)
  PROVE  IInv'
<1> DEFINE plan == <<>>
           row == [user |-> u, created |-> ops]
           N == {row}
<1>1. /\ Begin(p, plan) /\ UNCHANGED <<next, cache, lock, doomed, leaving>>
      /\ db' = [db EXCEPT !.tokens = @ \cup {row}]
  BY DEF CreateToken
<1>2. ops \in Nat /\ u \in Nat /\ ops' = ops + 1
  BY <1>1, Tables DEF IInv, TypeOK, UserIds, UserRow, Begin
<1>3. row \in TokenRow /\ row.created = ops
  BY <1>2 DEF TokenRow
<1> HIDE DEF row
<1>4. /\ next' \in [user : Nat, repo : Nat, mr : Nat] /\ next'.repo = next.repo /\ next'.mr = next.mr
  BY <1>1 DEF IInv, TypeOK
<1>5. /\ db' \in Database /\ db.repos' = db.repos /\ db.mrs' = db.mrs
      /\ db.users = db.users' /\ Stored' \subseteq Stored \cup N
  BY <1>1, <1>3 DEF IInv, TypeOK, Database, Stored
<1>6. UserIds \subseteq UserIds'
  BY <1>5 DEF UserIds
<1>7. \A x \in N : Past(x, next, ops') /\ ~Past(x, next, ops)
  BY <1>2, <1>3, RowKinds DEF Past
<1>8. plan \in Seq(OneStatement) /\ \A i \in 1..Len(plan) : plan[i].do = "invalidate"
  OBVIOUS
<1> HIDE DEF N, plan
<1> QED BY <1>1, <1>4, <1>5, <1>6, <1>7, <1>8, WritingArrival

LEMMA RemoveRepoMemberInv ==
  ASSUME IInv, NEW p \in Requests, NEW id, NEW u, RemoveRepoMember(p, id, u)
  PROVE  IInv'
<1> DEFINE plan == <<>>
           N == {}
           left == {x \in db.members : x.repo # id \/ x.user # u}
<1>1. /\ Begin(p, plan) /\ UNCHANGED <<next, cache, lock, doomed, leaving>>
      /\ db' = [db EXCEPT !.members = left]
  BY DEF RemoveRepoMember
<1>2. left \subseteq db.members
  OBVIOUS
<1> HIDE DEF left
<1>3. /\ next' \in [user : Nat, repo : Nat, mr : Nat] /\ next'.repo = next.repo /\ next'.mr = next.mr
  BY <1>1 DEF IInv, TypeOK
<1>4. /\ db' \in Database /\ db.repos' = db.repos /\ db.mrs' = db.mrs
      /\ db.users = db.users' /\ Stored' \subseteq Stored \cup N
  <2>1. db' \in Database
    BY <1>1, <1>2 DEF IInv, TypeOK, Database
  <2>2. /\ db.repos' = db.repos /\ db.mrs' = db.mrs /\ db.users = db.users'
        /\ db.tokens' = db.tokens /\ db.members' = left
        /\ db.namespaces' = db.namespaces /\ db.claims' = db.claims
    BY <1>1 DEF IInv, TypeOK, Database
  <2> QED BY <1>2, <2>1, <2>2 DEF Stored
<1>5. UserIds \subseteq UserIds'
  BY <1>4 DEF UserIds
<1>6. /\ plan \in Seq(OneStatement) /\ \A i \in 1..Len(plan) : plan[i].do = "invalidate"
      /\ \A x \in N : Past(x, next, ops') /\ ~Past(x, next, ops)
  OBVIOUS
<1> HIDE DEF N, plan
<1> QED BY <1>1, <1>3, <1>4, <1>5, <1>6, WritingArrival

-----------------------------------------------------------------------------
(* A finite set as a sequence: nothing else is in it, and nothing missing. *)
LEMMA SetAsSeq ==
  ASSUME NEW S, IsFiniteSet(S)
  PROVE  /\ SetToSeq(S) \in Seq(S)
         /\ \A x \in S : \E i \in 1..Len(SetToSeq(S)) : SetToSeq(S)[i] = x
<1> DEFINE n == Cardinality(S)
<1>1. n \in Nat /\ ExistsBijection(1..n, S)
  BY FS_CardinalityType
<1>2. PICK f \in Bijection(1..n, S) : TRUE
  BY <1>1 DEF ExistsBijection
<1>3. f \in [1..n -> S] /\ \A a, b \in 1..n : f[a] = f[b] => a = b
  BY <1>2 DEF Bijection, Injection, IsInjective
<1>4. IsInjective(f)
  BY <1>3 DEF IsInjective
<1>5. SetToSeq(S) \in [1..n -> S] /\ IsInjective(SetToSeq(S))
  BY <1>3, <1>4 DEF SetToSeq
<1> DEFINE g == SetToSeq(S)
<1> HIDE DEF g
<1>6. g \in [1..n -> S] /\ \A a, b \in 1..n : g[a] = g[b] => a = b
  BY <1>5 DEF IsInjective, g
<1>7. g \in Injection(1..n, S)
  BY <1>6 DEF Injection, IsInjective
<1>8. Cardinality(1..n) = n
  BY <1>1, FS_Interval
<1>9. g \in Surjection(1..n, S)
  BY <1>7, <1>8, FS_Injection
<1>10. \A x \in S : \E i \in 1..n : g[i] = x
  BY <1>9 DEF Surjection
<1>11. g \in Seq(S) /\ Len(g) = n
  BY <1>1, <1>6
<1> QED BY <1>10, <1>11 DEF g

(* The statements of DeleteUser: every repository that was listed, and the
   tables of Farewell. *)
LEMMA DeleteUserPlan ==
  ASSUME IInv, NEW u \in Nat
  PROVE  LET plan == SetToSeq(Listed(u)) \o Farewell(u)
             k == Len(SetToSeq(Listed(u)))
         IN  /\ plan \in Seq(OneStatement) /\ k \in Nat /\ Len(plan) = k + 5
             /\ \A i \in 1..k : plan[i].do = "open"
             /\ \A r \in db.repos : r.owner = u =>
                  \E i \in 1..k : plan[i] = [do |-> "open", name |-> r.name]
             /\ \A i \in 1..5 : plan[k + i] = Farewell(u)[i]
<1> DEFINE mine == {r \in db.repos : r.owner = u}
           f == [r \in mine |-> [do |-> "open", name |-> r.name]]
           opens == Listed(u)
           opened == SetToSeq(opens)
           k == Len(opened)
           plan == opened \o Farewell(u)
<1>1. opens \subseteq OneStatement /\ \A x \in opens : x.do = "open"
  <2>1. \A r \in db.repos : r.name \in Names
    BY Tables DEF IInv, RepoRow
  <2> QED BY <2>1 DEF OneStatement, Listed
<1>2. \A r \in mine : [do |-> "open", name |-> r.name] \in opens
  BY DEF Listed
<1>3. IsFiniteSet(opens)
  <2>1. IsFiniteSet(mine)
    BY FS_Subset DEF IInv, RowsInv
  <2>2. f \in [mine -> opens] /\ \A y \in opens : \E r \in mine : f[r] = y
    BY DEF Listed
  <2> HIDE DEF f, mine
  <2>3. f \in Surjection(mine, opens)
    BY <2>2 DEF Surjection
  <2> QED BY <2>1, <2>3, FS_Surjection
<1>4. opened \in Seq(opens) /\ \A x \in opens : \E i \in 1..Len(opened) : opened[i] = x
  BY <1>3, SetAsSeq
<1> HIDE DEF opened
<1>5. opened \in Seq(OneStatement) /\ k \in Nat /\ \A i \in 1..k : opened[i] \in opens
  BY <1>1, <1>4
<1>6. Farewell(u) \in Seq(OneStatement) /\ Len(Farewell(u)) = 5
  <2>1. \A t \in {"members", "tokens", "namespaces", "claims", "users"} :
          [do |-> "clear", table |-> t, user |-> u] \in OneStatement
    BY DEF OneStatement
  <2> QED BY <2>1 DEF Farewell
<1>7. /\ plan \in Seq(OneStatement) /\ Len(plan) = k + Len(Farewell(u))
      /\ \A i \in 1..k : plan[i] = opened[i]
      /\ \A i \in 1..Len(Farewell(u)) : plan[k + i] = Farewell(u)[i]
  BY <1>5, <1>6, Joined
<1> HIDE DEF plan
<1>8. \A i \in 1..k : plan[i].do = "open"
  BY <1>1, <1>5, <1>7
<1>9. ASSUME NEW r \in db.repos, r.owner = u
      PROVE  \E i \in 1..k : plan[i] = [do |-> "open", name |-> r.name]
  <2>1. r \in mine
    BY <1>9
  <2>2. PICK i \in 1..k : opened[i] = [do |-> "open", name |-> r.name]
    BY <1>2, <1>4, <2>1
  <2> QED BY <1>7, <2>2
<1> QED BY <1>5, <1>6, <1>7, <1>8, <1>9 DEF plan, opened

LEMMA FarewellStatements ==
  ASSUME NEW u
  PROVE  /\ Farewell(u)[1] = [do |-> "clear", table |-> "members", user |-> u]
         /\ Farewell(u)[2] = [do |-> "clear", table |-> "tokens", user |-> u]
         /\ Farewell(u)[3] = [do |-> "clear", table |-> "namespaces", user |-> u]
         /\ Farewell(u)[4] = [do |-> "clear", table |-> "claims", user |-> u]
         /\ Farewell(u)[5] = [do |-> "clear", table |-> "users", user |-> u]
         /\ \A j \in 1..4 : Farewell(u)[j].do = "clear" /\ Farewell(u)[j].table # "users"
BY DEF Farewell

(* They cover what the history keeps of the user, new or old. *)
LEMMA FarewellCovers ==
  ASSUME IInv, NEW u \in Nat, NEW plan \in Seq(OneStatement), NEW k \in Nat, Len(plan) = k + 5,
         \A i \in 1..k : plan[i].do = "open",
         \A r \in db.repos : r.owner = u =>
           \E i \in 1..k : plan[i] = [do |-> "open", name |-> r.name],
         \A i \in 1..5 : plan[k + i] = Farewell(u)[i],
         NEW L, u \in DOMAIN L,
         \A x \in L[u] : \/ x \in RepoRow \cup SpaceRow \cup ClaimRow /\ x.owner = u
                         \/ x \in MemberRow \cup TokenRow /\ x.user = u
  PROVE  Covers(plan, doomed, L, Stored)
<1> SUFFICES ASSUME NEW i \in 1..Len(plan)
             PROVE  /\ Kept(plan[i], doomed, L)
                    /\ \A x \in Due(plan[i], doomed, L) \cap Stored :
                         \E j \in 1..(i - 1) : Undoes(plan[j], x)
  BY DEF Covers
<1>1. CASE i \in 1..k
  BY <1>1 DEF Kept, Due
<1>2. CASE i \in (k + 1)..(k + 4)
  <2>1. PICK j \in 1..4 : i = k + j
    <3>1. i - k \in 1..4 /\ i = k + (i - k)
      BY <1>2
    <3> QED BY <3>1
  <2>2. j \in 1..5
    OBVIOUS
  <2>3. plan[i] = Farewell(u)[j]
    BY <2>1, <2>2
  <2>4. plan[i].do = "clear" /\ plan[i].table # "users"
    <3>1. Farewell(u)[j].do = "clear" /\ Farewell(u)[j].table # "users"
      BY FarewellStatements
    <3> QED BY <2>3, <3>1
  <2> QED BY <2>4 DEF Kept, Due
<1>3. CASE i = k + 5
  <2>1. plan[i] = [do |-> "clear", table |-> "users", user |-> u]
    <3>1. 5 \in 1..5
      OBVIOUS
    <3> QED BY <1>3, <3>1, FarewellStatements
  <2>2. /\ \A j \in 1..4 : k + j \in 1..(i - 1) /\ plan[k + j] = Farewell(u)[j]
        /\ \A j \in 1..k : j \in 1..(i - 1)
    BY <1>3
  <2>3. /\ plan[k + 1] = [do |-> "clear", table |-> "members", user |-> u]
        /\ plan[k + 2] = [do |-> "clear", table |-> "tokens", user |-> u]
        /\ plan[k + 3] = [do |-> "clear", table |-> "namespaces", user |-> u]
        /\ plan[k + 4] = [do |-> "clear", table |-> "claims", user |-> u]
        /\ k + 1 \in 1..(i - 1) /\ k + 2 \in 1..(i - 1) /\ k + 3 \in 1..(i - 1) /\ k + 4 \in 1..(i - 1)
    <3>1. 1 \in 1..4 /\ 2 \in 1..4 /\ 3 \in 1..4 /\ 4 \in 1..4
      OBVIOUS
    <3>2. k + 1 \in 1..(i - 1) /\ k + 2 \in 1..(i - 1) /\ k + 3 \in 1..(i - 1) /\ k + 4 \in 1..(i - 1)
      BY <2>2, <3>1
    <3>3. /\ plan[k + 1] = Farewell(u)[1] /\ plan[k + 2] = Farewell(u)[2]
          /\ plan[k + 3] = Farewell(u)[3] /\ plan[k + 4] = Farewell(u)[4]
      BY <2>2, <3>1
    <3> QED BY <3>2, <3>3, FarewellStatements
  <2>4. ASSUME NEW x \in L[u], x \in Stored PROVE \E j \in 1..(i - 1) : Undoes(plan[j], x)
    <3>1. CASE x \in RepoRow /\ x.owner = u
      <4>1. x \in db.repos
        BY <2>4, <3>1, StoredKinds DEF IInv
      <4>2. PICK j \in 1..k : plan[j] = [do |-> "open", name |-> x.name]
        BY <3>1, <4>1
      <4>3. Undoes(plan[j], x)
        BY <3>1, <4>2 DEF Undoes
      <4> QED BY <2>2, <4>3
    <3>2. CASE x \in SpaceRow /\ x.owner = u
      <4>1. Undoes(plan[k + 3], x)
        BY <2>3, <3>2 DEF Undoes
      <4> QED BY <2>3, <4>1
    <3>3. CASE x \in ClaimRow /\ x.owner = u
      <4>1. Undoes(plan[k + 4], x)
        BY <2>3, <3>3 DEF Undoes
      <4> QED BY <2>3, <4>1
    <3>4. CASE x \in MemberRow /\ x.user = u
      <4>1. Undoes(plan[k + 1], x)
        BY <2>3, <3>4 DEF Undoes
      <4> QED BY <2>3, <4>1
    <3>5. CASE x \in TokenRow /\ x.user = u
      <4>1. Undoes(plan[k + 2], x)
        BY <2>3, <3>5 DEF Undoes
      <4> QED BY <2>3, <4>1
    <3> QED BY <2>4, <3>1, <3>2, <3>3, <3>4, <3>5
  <2>5. Due(plan[i], doomed, L) \cap Stored \subseteq L[u] \cap Stored
    BY <2>1 DEF Due
  <2>6. Kept(plan[i], doomed, L)
    BY <2>1 DEF Kept
  <2> QED BY <2>4, <2>5, <2>6
<1> QED BY <1>1, <1>2, <1>3

LEMMA DeleteUserInv ==
  ASSUME IInv, NEW p \in Requests, NEW u \in UserIds, DeleteUser(p, u)
  PROVE  IInv'
<1> DEFINE plan == SetToSeq(Listed(u)) \o Farewell(u)
           k == Len(SetToSeq(Listed(u)))
           last == [do |-> "clear", table |-> "users", user |-> u]
           rows == OwnedBy(u)
           w == With(leaving, u, rows, last)
<1>1. Begin(p, plan) /\ leaving' = w /\ UNCHANGED <<db, next, cache, lock, doomed>>
  BY DEF DeleteUser
<1>2. u \in Nat
  BY Tables DEF IInv, UserIds, UserRow
<1>3. /\ plan \in Seq(OneStatement) /\ k \in Nat /\ Len(plan) = k + 5
      /\ \A i \in 1..k : plan[i].do = "open"
      /\ \A r \in db.repos : r.owner = u =>
           \E i \in 1..k : plan[i] = [do |-> "open", name |-> r.name]
      /\ \A i \in 1..5 : plan[k + i] = Farewell(u)[i]
  BY <1>2, DeleteUserPlan
<1>4. /\ DOMAIN w = DOMAIN leaving \cup {u}
      /\ \A x \in DOMAIN leaving \ {u} : w[x] = leaving[x]
      /\ ~Planned(last) => w[u] = rows
      /\ Planned(last) => w[u] = leaving[u]
  BY DEF With
<1>5. rows \subseteq Stored /\ \A x \in rows : \/ x \in RepoRow \cup SpaceRow \cup ClaimRow /\ x.owner = u
                                               \/ x \in MemberRow \cup TokenRow /\ x.user = u
  BY Tables DEF IInv, OwnedBy, Stored
<1> HIDE DEF plan, k, rows, w
<1>6. ASSUME NEW q \in Requests, NEW i \in 1..Len(todo[q]), todo[q][i].do = "clear",
             todo[q][i].table = "users"
      PROVE  /\ todo[q][i].user \in DOMAIN leaving
             /\ w[todo[q][i].user] = leaving[todo[q][i].user]
  <2>1. todo[q][i] \in OneStatement /\ i \in DOMAIN todo[q]
    BY DEF IInv, TypeOK
  <2>2. todo[q][i] = [do |-> "clear", table |-> "users", user |-> todo[q][i].user]
    BY <1>6, <2>1, StatementFields
  <2>3. todo[q][i].user \in DOMAIN leaving
    BY <1>6 DEF IInv, DeletionInv, Covered, Covers, Kept
  <2>4. todo[q][i].user = u => Planned(last)
    BY <2>1, <2>2 DEF Planned
  <2> QED BY <1>4, <2>3, <2>4
<1>7. w[u] = rows \/ (u \in DOMAIN leaving /\ w[u] = leaving[u])
  <2>1. CASE Planned(last)
    <3>1. PICK q \in Requests : \E i \in DOMAIN todo[q] : todo[q][i] = last
      BY <2>1 DEF Planned
    <3>2. PICK i \in 1..Len(todo[q]) : todo[q][i] = last
      BY <3>1 DEF IInv, TypeOK
    <3> QED BY <1>6, <3>2
  <2>2. CASE ~Planned(last)
    BY <1>4, <2>2
  <2> QED BY <2>1, <2>2
<1>8. \A x \in w[u] : \/ x \in RepoRow \cup SpaceRow \cup ClaimRow /\ x.owner = u
                      \/ x \in MemberRow \cup TokenRow /\ x.user = u
  BY <1>5, <1>7 DEF IInv, DeletionInv
<1>9. Covers(plan, doomed, w, Stored)
  <2>1. u \in DOMAIN w
    BY <1>4
  <2>2. plan \in Seq(OneStatement) /\ k \in Nat /\ Len(plan) = k + 5
    BY <1>3
  <2>3. \A i \in 1..5 : plan[k + i] = Farewell(u)[i]
    BY <1>3
  <2>4. \A i \in 1..k : plan[i].do = "open"
    BY <1>3
  <2>5. \A r \in db.repos : r.owner = u =>
          \E i \in 1..k : plan[i] = [do |-> "open", name |-> r.name]
    BY <1>3
  <2> QED BY <1>2, <1>8, <2>1, <2>2, <2>3, <2>4, <2>5, FarewellCovers
<1>10. \A i \in 1..Len(plan) : plan[i].do \in {"open", "clear"}
  <2> TAKE i \in 1..Len(plan)
  <2>1. CASE i \in 1..k
    BY <1>3, <2>1
  <2>2. CASE i \notin 1..k
    <3>1. i - k \in 1..5 /\ k + (i - k) = i
      BY <1>3, <2>2
    <3>2. plan[i] = Farewell(u)[i - k]
      BY <1>3, <3>1
    <3>3. \A j \in 1..5 : Farewell(u)[j].do = "clear"
      BY DEF Farewell
    <3> QED BY <3>1, <3>2, <3>3
  <2> QED BY <2>1, <2>2
<1>11. \A i \in 1..Len(plan) : plan[i].do \notin Single
  BY <1>10 DEF Single
<1>12. /\ todo' \in [Requests -> Seq(OneStatement)] /\ FirstOnly'
       /\ todo[p] = <<>> /\ todo'[p] = plan /\ \A q \in Requests \ {p} : todo'[q] = todo[q]
       /\ ops \in Nat /\ ops' = ops + 1 /\ NoNewSingles
       /\ \A q \in Requests : \A d : Doing(q, d) => Doing(q, d)'
  <2>1. Len(plan) \in Nat /\ Len(plan) > 0 /\ 1 \in 1..Len(plan)
    BY <1>3
  <2> QED BY <1>1, <1>3, <1>11, <2>1, AfterBegin DEF IInv
<1>13. TypeOK'
  BY <1>1, <1>12 DEF IInv, TypeOK
<1>14. CacheInv'
  <2>1. \A q \in Requests : Doing(q, "invalidate") => todo'[q] = todo[q]
    BY <1>12 DEF Doing
  <2> QED BY <1>1, <1>12, <2>1, CacheStays DEF IInv
<1>15. NumbersInv'
  <2>1. \A q \in Requests : \A i \in 1..Len(todo'[q]) :
          todo'[q][i].do \in {"mrs", "drop"} => todo'[q][i].repo \in DOMAIN doomed'
    BY <1>1, <1>10, <1>12 DEF IInv, NumbersInv
  <2> QED BY <1>1, <1>12, <2>1, NumbersStay DEF IInv
<1>16. Stored' = Stored /\ RepoIds' = RepoIds /\ UserIds' = UserIds
  BY <1>1 DEF Stored, RepoIds, UserIds
<1>17. RowsInv'
  <2> DEFINE N == {}
  <2>1. Recorded' \subseteq Recorded \cup Stored
    BY <1>1, <1>4, <1>5, <1>7 DEF Recorded
  <2>2. /\ next.repo <= next'.repo /\ next.mr <= next'.mr /\ ops <= ops'
        /\ \A x \in N : Past(x, next', ops')
        /\ Stored' \subseteq Stored \cup N
        /\ \A q \in Requests : Stamped(q)' => Head(todo[q]).row \notin N
    BY <1>1, <1>12, <1>16 DEF IInv, TypeOK
  <2>3. IsFiniteSet(db.repos') /\ \A x, y \in db.repos' : x.name = y.name => x = y
    BY <1>1 DEF IInv, RowsInv
  <2> HIDE DEF N
  <2> QED BY <1>12, <1>13, <2>1, <2>2, <2>3, RowsStay DEF IInv
<1>18. \A q \in Requests : Covered(q)'
  <2>1. ASSUME NEW q \in Requests \ {p} PROVE Covers(todo[q], doomed, w, Stored)
    <3>1. Covers(todo[q], doomed, leaving, Stored)
      BY DEF IInv, DeletionInv, Covered
    <3>2. \A i \in 1..Len(todo[q]) :
            /\ Kept(todo[q][i], doomed, w)
            /\ Due(todo[q][i], doomed, w) = Due(todo[q][i], doomed, leaving)
      BY <1>4, <1>6, <3>1 DEF Covers, Kept, Due
    <3> QED BY <3>1, <3>2 DEF Covers
  <2> QED BY <1>1, <1>9, <1>12, <1>16, <2>1 DEF Covered
<1>19. DeletionInv'
  <2>1. \A v \in DOMAIN leaving' : \A x \in leaving'[v] :
          \/ x \in RepoRow \cup SpaceRow \cup ClaimRow /\ x.owner = v
          \/ x \in MemberRow \cup TokenRow /\ x.user = v
    BY <1>1, <1>4, <1>8 DEF IInv, DeletionInv
  <2>2. \A v \in DOMAIN leaving' \ UserIds' : leaving'[v] \cap Stored' = {}
    BY <1>1, <1>4, <1>16 DEF IInv, DeletionInv
  <2> QED BY <1>1, <1>16, <1>18, <2>1, <2>2 DEF IInv, DeletionInv
<1> QED BY <1>12, <1>13, <1>14, <1>15, <1>17, <1>19 DEF IInv

-----------------------------------------------------------------------------
LEMMA InitIInv == Init => IInv
<1> SUFFICES ASSUME Init PROVE IInv
  OBVIOUS
<1>1. /\ db = [users |-> {}, tokens |-> {}, namespaces |-> {}, repos |-> {},
               members |-> {}, mrs |-> {}, notes |-> {}, claims |-> {}]
      /\ \A p \in Requests : todo[p] = <<>>
      /\ DOMAIN doomed = {} /\ DOMAIN leaving = {} /\ cache = "unknown"
  BY DEF Init
<1>2. TypeOK
  <2>1. <<>> \in Seq(OneStatement)
    OBVIOUS
  <2> QED BY <2>1 DEF Init, TypeOK, Database
<1>3. Stored = {} /\ Recorded = {} /\ db.repos = {} /\ db.mrs = {}
  BY <1>1 DEF Stored, Recorded
<1>4. FirstOnly /\ CacheInv /\ DeletionInv
  BY <1>1, <1>3 DEF FirstOnly, CacheInv, DeletionInv, Doing, Covered, Covers
<1>5. NumbersInv /\ RowsInv
  BY <1>1, <1>3, FS_EmptySet DEF NumbersInv, RowsInv, Doing, Stamped
<1> QED BY <1>2, <1>4, <1>5 DEF IInv

LEMMA ArrivalInv ==
  ASSUME IInv, NEW p \in Requests, Arrival(p)
  PROVE  IInv'
<1>1. CASE CreateUser(p) \/ InstanceIsOpen(p)
  BY <1>1, CreateUserInv, InstanceIsOpenInv
<1>2. CASE \E n \in Names : Delete(p, n) \/ CreateUnowned(p, n)
  BY <1>2, DeleteBegins, CreateUnownedInv
<1>3. ASSUME NEW u \in UserIds, DeleteUser(p, u) \/ CreateToken(p, u) PROVE IInv'
  BY <1>3, DeleteUserInv, CreateTokenInv
<1>4. ASSUME NEW u \in UserIds, NEW n \in Names, Create(p, u, n) \/ AuthorizePublish(p, u, n)
      PROVE  IInv'
  BY <1>4, CreateInv, AuthorizePublishInv
<1>5. ASSUME NEW u \in UserIds, NEW id \in RepoIds, RemoveRepoMember(p, id, u) PROVE IInv'
  BY <1>5, RemoveRepoMemberInv
<1>6. ASSUME NEW u \in UserIds, NEW id \in RepoIds, NEW role \in Roles, SetRepoMember(p, id, u, role)
      PROVE  IInv'
  BY <1>6, SetRepoMemberInv
<1>7. CASE \E id \in RepoIds : CreateMergeRequest(p, id)
  BY <1>7, CreateMergeRequestInv
<1>8. CASE \E m \in db.mrs : AddReview(p, m.id)
  BY <1>8, AddReviewInv
<1> QED BY <1>1, <1>2, <1>3, <1>4, <1>5, <1>6, <1>7, <1>8 DEF Arrival, Roles

LEMMA StatementInv ==
  ASSUME IInv, NEW p \in Requests, Statement(p)
  PROVE  IInv'
BY EnsureNamespaceInv, InsertRepoInv, InsertMergeRequestInv, InsertNoteInv, UpsertMemberInv,
   ClaimPackageInv, OpenToDeleteInv, ClearRepoInv, ClearUserInv, InvalidateOpenCacheInv,
   FillOpenCacheInv DEF Statement

LEMMA StutterInv ==
  ASSUME IInv, UNCHANGED vars
  PROVE  IInv'
<1>1. /\ UNCHANGED <<db, next, cache, lock, todo, doomed, leaving, ops>>
      /\ Stored' = Stored /\ Recorded' = Recorded /\ RepoIds' = RepoIds /\ UserIds' = UserIds
  BY DEF vars, Stored, Recorded, RepoIds, UserIds
<1>2. TypeOK' /\ FirstOnly' /\ CacheInv'
  BY <1>1 DEF IInv, TypeOK, FirstOnly, CacheInv, Doing, Invalidating
<1>3. NumbersInv' /\ RowsInv'
  BY <1>1 DEF IInv, NumbersInv, RowsInv, Doing, Stamped
<1>4. DeletionInv'
  BY <1>1 DEF IInv, DeletionInv, Covered
<1> QED BY <1>2, <1>3, <1>4 DEF IInv

LEMMA Invariance == Spec => []IInv
<1>1. IInv /\ [Next]_vars => IInv'
  BY ArrivalInv, StatementInv, FailInv, RestartInv, StutterInv DEF Next
<1> QED BY InitIInv, <1>1, PTL DEF Spec

(***************************************************************************)
(* Tables keep their columns, and the lock has at most one holder.         *)
(***************************************************************************)
THEOREM TypeCorrect == Spec => []TypeOK
<1>1. IInv => TypeOK
  BY DEF IInv
<1> QED BY <1>1, Invariance, PTL

(***************************************************************************)
(* No two merge requests of a repository get the same number, and none is  *)
(* left out, although many ask for the largest before any is stored.       *)
(***************************************************************************)
THEOREM NumbersStayGapless == Spec => []NumbersAreGapless
<1>1. IInv => NumbersAreGapless
  <2> SUFFICES ASSUME IInv, NEW id \in RepoIds \ DOMAIN doomed
               PROVE  {m.iid : m \in Own(id, db.mrs)} = 1..Cardinality(Own(id, db.mrs))
    BY DEF NumbersAreGapless, Own
  <2>1. CASE Own(id, db.mrs) = {}
    BY <2>1, FS_EmptySet
  <2>2. CASE Own(id, db.mrs) # {}
    BY <2>2 DEF Own, Gapless, IInv, NumbersInv
  <2> QED BY <2>1, <2>2
<1> QED BY <1>1, Invariance, PTL

(***************************************************************************)
(* A deletion that has come to its end leaves nothing of what there was    *)
(* when it began, however many began it, failed or came in between.        *)
(***************************************************************************)
THEOREM DeletionsAreComplete == Spec => []DeletedOnesLeaveNothing
<1>1. IInv => DeletedOnesLeaveNothing
  <2> SUFFICES ASSUME IInv PROVE DeletedOnesLeaveNothing
    OBVIOUS
  <2>1. db.mrs \cup db.members \subseteq Stored /\ \A u : OwnedBy(u) \subseteq Stored
    BY DEF Stored, OwnedBy
  <2> QED BY <2>1 DEF IInv, DeletionInv, DeletedOnesLeaveNothing
<1> QED BY <1>1, Invariance, PTL

(***************************************************************************)
(* Once the creation of a user has returned, its server does not take the  *)
(* instance for open while there is that user, also not where users were   *)
(* counted before the first one was created.                               *)
(***************************************************************************)
THEOREM InstanceCloses == Spec => []OpenCacheIsFresh
<1>1. IInv => OpenCacheIsFresh
  BY DEF IInv, CacheInv, OpenCacheIsFresh
<1> QED BY <1>1, Invariance, PTL
=============================================================================
