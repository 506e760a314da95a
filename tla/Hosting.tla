------------------------------ MODULE Hosting ------------------------------
(***************************************************************************)
(* Who owns what on a server: users, namespaces, repositories, grants,     *)
(* merge requests and package names (store/user.go, store/centralstore.go, *)
(* store/mr.go, store/packageowner.go, store/openinstance.go).             *)
(*                                                                         *)
(* A request is a sequence of statements without a transaction around      *)
(* them.  Any of them may fail, which ends the request; the server may be  *)
(* restarted; and other requests get in between.  A table is a set of      *)
(* rows.  There is one server: its cache is told of every user.  Left out: *)
(* what rows say beyond who and whose (titles, states of merge requests,   *)
(* visibility), and the tables of a repository that are cleared along with *)
(* the two that are here.                                                  *)
(***************************************************************************)
EXTENDS Integers, SequencesExt

CONSTANTS Requests,  \* the requests that are served at the same time
          Names,     \* full names of repositories; a package is named alike
          SpaceOf,   \* the namespace of a name
          NoOne,     \* the holder of a free lock
          MaxUsers,  \* bound on the users ever created
          MaxOps     \* bound on the requests of a behaviour

ASSUME HostingAssumption ==
  /\ MaxUsers \in Nat /\ MaxOps \in Nat /\ NoOne \notin Requests
  /\ DOMAIN SpaceOf = Names

VARIABLES db,       \* the tables
          next,     \* the next id of a table, never given twice
          cache,    \* what the server remembers of being open
          lock,     \* who holds the lock of that cache
          todo,     \* request -> the statements it has left
          doomed,   \* history: repository -> its rows when its last deletion began
          leaving,  \* history: user -> what it owned when its last deletion began
          ops

vars == <<db, next, cache, lock, todo, doomed, leaving, ops>>

Init ==
  /\ db = [users |-> {}, tokens |-> {}, namespaces |-> {}, repos |-> {},
           members |-> {}, mrs |-> {}, notes |-> {}, claims |-> {}]
  /\ next = [user |-> 1, repo |-> 1, mr |-> 1]
  /\ cache = "unknown" /\ lock = NoOne
  /\ todo = [p \in Requests |-> <<>>]
  /\ doomed = <<>> /\ leaving = <<>>
  /\ ops = 0

Nobody       == 0
UserIds      == {x.id : x \in db.users}
RepoIds      == {x.id : x \in db.repos}
RepoNamed(n) == {x \in db.repos : x.name = n}

(* Whether some request is about to execute a statement; what the history keeps
   of a deletion that the given statement would end, if another is under way. *)
Planned(s) == \E p \in Requests : \E i \in DOMAIN todo[p] : todo[p][i] = s

With(f, k, rows, last) ==
  [x \in DOMAIN f \cup {k} |-> IF x = k /\ ~Planned(last) THEN rows ELSE f[x]]

-----------------------------------------------------------------------------
(* A request arrives; these are its statements.  Rows without an id are told
   apart by when they were created. *)
Begin(p, statements) ==
  /\ todo[p] = <<>>
  /\ ops < MaxOps /\ ops' = ops + 1
  /\ todo' = [todo EXCEPT ![p] = statements]

Arrives(p, statements) ==
  /\ Begin(p, statements)
  /\ UNCHANGED <<db, next, cache, lock, doomed, leaving>>

(* Create: the namespace, and then the repository.  One without an owner has no
   row for its namespace. *)
Create(p, u, n) ==
  Arrives(p, <<[do |-> "namespace", row |-> [owner |-> u, space |-> SpaceOf[n], created |-> ops]],
               [do |-> "repo", user |-> u, name |-> n]>>)

CreateUnowned(p, n) == Arrives(p, <<[do |-> "repo", user |-> Nobody, name |-> n]>>)

Delete(p, n) == Arrives(p, <<[do |-> "open", name |-> n]>>)

(* What a user owns. *)
OwnedBy(u) ==
  {x \in db.repos \cup db.namespaces \cup db.claims : x.owner = u}
    \cup {x \in db.members \cup db.tokens : x.user = u}

(* The tables DeleteUser clears when the repositories are gone. *)
Farewell(u) ==
  <<[do |-> "clear", table |-> "members", user |-> u],
    [do |-> "clear", table |-> "tokens", user |-> u],
    [do |-> "clear", table |-> "namespaces", user |-> u],
    [do |-> "clear", table |-> "claims", user |-> u],
    [do |-> "clear", table |-> "users", user |-> u]>>

(* Its repositories as they are listed now, each to be deleted by its name. *)
Listed(u) == {[do |-> "open", name |-> r.name] : r \in {x \in db.repos : x.owner = u}}

DeleteUser(p, u) ==
  /\ Begin(p, SetToSeq(Listed(u)) \o Farewell(u))
  /\ leaving' = With(leaving, u, OwnedBy(u), [do |-> "clear", table |-> "users", user |-> u])
  /\ UNCHANGED <<db, next, cache, lock, doomed>>

(* The user's row is inserted; then the cache is invalidated. *)
CreateUser(p) ==
  /\ next.user <= MaxUsers
  /\ Begin(p, <<[do |-> "invalidate", user |-> next.user]>>)
  /\ db' = [db EXCEPT !.users = @ \cup {[id |-> next.user]}]
  /\ next' = [next EXCEPT !.user = @ + 1]
  /\ UNCHANGED <<cache, lock, doomed, leaving>>

CreateToken(p, u) ==
  /\ Begin(p, <<>>)
  /\ db' = [db EXCEPT !.tokens = @ \cup {[user |-> u, created |-> ops]}]
  /\ UNCHANGED <<next, cache, lock, doomed, leaving>>

(* A merge request asks for the largest number, to take the next. *)
CreateMergeRequest(p, id) ==
  LET iids == {m.iid : m \in {x \in db.mrs : x.repo = id}}
  IN  Arrives(p, <<[do |-> "mr", repo |-> id, iid |-> 1 + Max(iids \cup {0})]>>)

AddReview(p, mr) == Arrives(p, <<[do |-> "note", mr |-> mr]>>)

SetRepoMember(p, id, u, role) ==
  Arrives(p, <<[do |-> "grant", row |-> [repo |-> id, user |-> u, role |-> role, created |-> ops]]>>)

RemoveRepoMember(p, id, u) ==
  /\ Begin(p, <<>>)
  /\ db' = [db EXCEPT !.members = {x \in @ : x.repo # id \/ x.user # u}]
  /\ UNCHANGED <<next, cache, lock, doomed, leaving>>

RepoMemberRole(id, u) == {x.role : x \in {y \in db.members : y.repo = id /\ y.user = u}}

(* RoleOf, as far as it is a role that merges: the owner's or a maintainer's. *)
CanMerge(r, u) == r.owner = u \/ "maintainer" \in RepoMemberRole(r.id, u)

TenantHasNamespace(u, space) == \E x \in db.namespaces : x.owner = u /\ x.space = space

(* AuthorizePublish of a name that is not claimed: its repository decides, and
   the namespace where there is none. *)
AuthorizePublish(p, u, n) ==
  /\ \A c \in db.claims : c.name # n
  /\ \/ \E r \in RepoNamed(n) : CanMerge(r, u)
     \/ RepoNamed(n) = {} /\ TenantHasNamespace(u, SpaceOf[n])
  /\ Arrives(p, <<[do |-> "claim", row |-> [owner |-> u, name |-> n, created |-> ops]]>>)

(* Faulty: without the lock. *)
FaultyInstanceIsOpen(p) ==
  /\ cache = "unknown"
  /\ Begin(p, <<[do |-> "remember", value |-> IF db.users = {} THEN "open" ELSE "closed"]>>)
  /\ UNCHANGED <<db, next, cache, lock, doomed, leaving>>

(* instanceIsOpen: the lock is held from looking into the cache to filling it. *)
InstanceIsOpen(p) ==
  /\ cache = "unknown" /\ lock = NoOne
  /\ Begin(p, <<[do |-> "remember", value |-> IF db.users = {} THEN "open" ELSE "closed"]>>)
  /\ lock' = p
  /\ UNCHANGED <<db, next, cache, doomed, leaving>>

Arrival(p) ==
  \/ CreateUser(p) \/ InstanceIsOpen(p)
  \/ \E n \in Names : Delete(p, n) \/ CreateUnowned(p, n)
  \/ \E u \in UserIds :
       \/ DeleteUser(p, u) \/ CreateToken(p, u)
       \/ \E n \in Names : Create(p, u, n) \/ AuthorizePublish(p, u, n)
       \/ \E id \in RepoIds :
            RemoveRepoMember(p, id, u) \/ \E role \in {"maintainer", "developer"} : SetRepoMember(p, id, u, role)
  \/ \E id \in RepoIds : CreateMergeRequest(p, id)
  \/ \E m \in db.mrs : AddReview(p, m.id)

-----------------------------------------------------------------------------
Doing(p, what) == todo[p] # <<>> /\ Head(todo[p]).do = what
Finish(p)      == todo[p] # <<>> /\ todo' = [todo EXCEPT ![p] = Tail(@)]

(* An insert does nothing, or fails, when its key is taken. *)
EnsureNamespace(p) ==
  LET row == Head(todo[p]).row
  IN  /\ Doing(p, "namespace") /\ Finish(p)
      /\ db' = [db EXCEPT !.namespaces =
                  IF \E x \in @ : x.space = row.space THEN @ ELSE @ \cup {row}]
      /\ UNCHANGED <<next, cache, lock, doomed, leaving, ops>>

InsertRepo(p) ==
  LET s == Head(todo[p])
  IN  /\ Doing(p, "repo") /\ Finish(p)
      /\ IF RepoNamed(s.name) = {}
         THEN /\ db' = [db EXCEPT !.repos =
                          @ \cup {[id |-> next.repo, owner |-> s.user, name |-> s.name]}]
              /\ next' = [next EXCEPT !.repo = @ + 1]
         ELSE UNCHANGED <<db, next>>
      /\ UNCHANGED <<cache, lock, doomed, leaving, ops>>

(* Faulty: the number may be taken. *)
FaultyInsertMergeRequest(p) ==
  LET s == Head(todo[p])
  IN  /\ Doing(p, "mr") /\ Finish(p)
      /\ db' = [db EXCEPT !.mrs = @ \cup {[id |-> next.mr, repo |-> s.repo, iid |-> s.iid]}]
      /\ next' = [next EXCEPT !.mr = @ + 1]
      /\ UNCHANGED <<cache, lock, doomed, leaving, ops>>

InsertMergeRequest(p) ==
  LET s == Head(todo[p])
  IN  /\ Doing(p, "mr") /\ Finish(p)
      /\ IF \E x \in db.mrs : x.repo = s.repo /\ x.iid = s.iid
         THEN UNCHANGED <<db, next>>
         ELSE /\ db' = [db EXCEPT !.mrs = @ \cup {[id |-> next.mr, repo |-> s.repo, iid |-> s.iid]}]
              /\ next' = [next EXCEPT !.mr = @ + 1]
      /\ UNCHANGED <<cache, lock, doomed, leaving, ops>>

InsertNote(p) ==
  /\ Doing(p, "note") /\ Finish(p)
  /\ db' = [db EXCEPT !.notes = @ \cup {[mr |-> Head(todo[p]).mr]}]
  /\ UNCHANGED <<next, cache, lock, doomed, leaving, ops>>

UpsertMember(p) ==
  LET row == Head(todo[p]).row
  IN  /\ Doing(p, "grant") /\ Finish(p)
      /\ db' = [db EXCEPT !.members =
                  {x \in @ : x.repo # row.repo \/ x.user # row.user} \cup {row}]
      /\ UNCHANGED <<next, cache, lock, doomed, leaving, ops>>

(* ClaimPackage: the first claim stays. *)
ClaimPackage(p) ==
  LET row == Head(todo[p]).row
  IN  /\ Doing(p, "claim") /\ Finish(p)
      /\ db' = [db EXCEPT !.claims =
                  IF \E x \in @ : x.name = row.name THEN @ ELSE @ \cup {row}]
      /\ UNCHANGED <<next, cache, lock, doomed, leaving, ops>>

(* Faulty: the members are forgotten. *)
FaultyClearances(id) ==
  <<[do |-> "mrs", repo |-> id], [do |-> "notes", repo |-> id], [do |-> "drop", repo |-> id]>>

(* The statements of Delete, once the repository is found. *)
Clearances(id) ==
  <<[do |-> "mrs", repo |-> id], [do |-> "members", repo |-> id],
    [do |-> "notes", repo |-> id], [do |-> "drop", repo |-> id]>>

(* Delete opens the repository by its name; without one the request fails. *)
OpenToDelete(p) ==
  /\ Doing(p, "open")
  /\ \/ \E r \in RepoNamed(Head(todo[p]).name) :
          /\ todo' = [todo EXCEPT ![p] = Clearances(r.id) \o Tail(@)]
          /\ doomed' = With(doomed, r.id, {x \in db.mrs \cup db.members : x.repo = r.id},
                            [do |-> "drop", repo |-> r.id])
     \/ /\ RepoNamed(Head(todo[p]).name) = {}
        /\ todo' = [todo EXCEPT ![p] = <<>>]
        /\ UNCHANGED doomed
  /\ UNCHANGED <<db, next, cache, lock, leaving, ops>>

ClearRepo(p) ==
  LET s == Head(todo[p])
  IN  /\ Finish(p)
      /\ \/ /\ Doing(p, "mrs")
            /\ db' = [db EXCEPT !.mrs = {x \in @ : x.repo # s.repo}]
         \/ /\ Doing(p, "members")
            /\ db' = [db EXCEPT !.members = {x \in @ : x.repo # s.repo}]
         \/ /\ Doing(p, "notes")   \* of the merge requests there are now
            /\ db' = [db EXCEPT !.notes =
                 {x \in @ : x.mr \notin {m.id : m \in {y \in db.mrs : y.repo = s.repo}}}]
         \/ /\ Doing(p, "drop")
            /\ db' = [db EXCEPT !.repos = {x \in @ : x.id # s.repo}]
      /\ UNCHANGED <<next, cache, lock, doomed, leaving, ops>>

ClearUser(p) ==
  LET s == Head(todo[p])
  IN  /\ Doing(p, "clear") /\ Finish(p)
      /\ db' = CASE s.table = "members"    -> [db EXCEPT !.members = {x \in @ : x.user # s.user}]
                 [] s.table = "tokens"     -> [db EXCEPT !.tokens = {x \in @ : x.user # s.user}]
                 [] s.table = "namespaces" -> [db EXCEPT !.namespaces = {x \in @ : x.owner # s.user}]
                 [] s.table = "claims"     -> [db EXCEPT !.claims = {x \in @ : x.owner # s.user}]
                 [] s.table = "users"      -> [db EXCEPT !.users = {x \in @ : x.id # s.user}]
      /\ UNCHANGED <<next, cache, lock, doomed, leaving, ops>>

InvalidateOpenCache(p) ==
  /\ Doing(p, "invalidate") /\ Finish(p)
  /\ lock = NoOne
  /\ cache' = "unknown"
  /\ UNCHANGED <<db, next, lock, doomed, leaving, ops>>

FillOpenCache(p) ==
  /\ Doing(p, "remember") /\ Finish(p)
  /\ cache' = Head(todo[p]).value
  /\ lock' = NoOne
  /\ UNCHANGED <<db, next, doomed, leaving, ops>>

(* A statement on the database fails: the request ends, its lock is released. *)
Fail(p) ==
  /\ todo[p] # <<>> /\ ~Doing(p, "invalidate")
  /\ todo' = [todo EXCEPT ![p] = <<>>]
  /\ lock' = IF lock = p THEN NoOne ELSE lock
  /\ UNCHANGED <<db, next, cache, doomed, leaving, ops>>

(* The server is restarted in the middle of everything. *)
Restart ==
  /\ \E p \in Requests : todo[p] # <<>>
  /\ todo' = [p \in Requests |-> <<>>]
  /\ cache' = "unknown" /\ lock' = NoOne
  /\ UNCHANGED <<db, next, doomed, leaving, ops>>

Statement(p) ==
  \/ EnsureNamespace(p) \/ InsertRepo(p) \/ InsertMergeRequest(p) \/ InsertNote(p)
  \/ UpsertMember(p) \/ ClaimPackage(p) \/ OpenToDelete(p) \/ ClearRepo(p) \/ ClearUser(p)
  \/ InvalidateOpenCache(p) \/ FillOpenCache(p)

Next ==
  \/ \E p \in Requests : Arrival(p) \/ Statement(p) \/ Fail(p)
  \/ Restart

Spec == Init /\ [][Next]_vars

-----------------------------------------------------------------------------
(***************************************************************************)
(* The merge requests of a repository are numbered without a gap and       *)
(* without a number used twice, although two requests may have asked for   *)
(* the largest number before either was stored (mr.go 49-50: "assigned     *)
(* monotonically per repo").                                               *)
(***************************************************************************)
NumbersAreGapless ==
  \A id \in RepoIds \ DOMAIN doomed :
    LET own == {m \in db.mrs : m.repo = id}
    IN  {m.iid : m \in own} = 1..Cardinality(own)

(***************************************************************************)
(* Where the row of a repository is gone, so are the grants and merge      *)
(* requests it had when its deletion began, however often that failed and  *)
(* was tried again (centralstore.go 351-353: "no silent partial deletes"). *)
(* And where the row of a user is gone, so is everything it owned then:    *)
(* repositories, namespaces, grants, tokens, claims (user.go 115-116).     *)
(***************************************************************************)
DeletedOnesLeaveNothing ==
  /\ \A id \in DOMAIN doomed \ RepoIds : doomed[id] \cap (db.mrs \cup db.members) = {}
  /\ \A u \in DOMAIN leaving \ UserIds : leaving[u] \cap OwnedBy(u) = {}

(* The request has inserted the user and is about to forget the answer. *)
Invalidating(p, u) == Doing(p, "invalidate") /\ Head(todo[p]).user = u

(***************************************************************************)
(* Once the creation of a user has returned, the server that created it    *)
(* does not take the instance for open as long as there is that user       *)
(* (user.go 31-32: "Creating the first user closes the instance"), also    *)
(* when a request was counting users at that moment: only a user whose own *)
(* creation is still about to invalidate the cache may be unknown to it.   *)
(***************************************************************************)
OpenCacheIsFresh ==
  cache = "open" => \A x \in db.users : \E p \in Requests : Invalidating(p, x.id)

=============================================================================
