------------------------------ MODULE Transfer ------------------------------
(***************************************************************************)
(* Repositories that exchange history through a server: pull and push of   *)
(* cmd/easyvcs/remote.go, the bundles of package transfer, the fetch and   *)
(* push handlers of server/server.go and the check of                      *)
(* transfer/nonfastforward.go.                                             *)
(*                                                                         *)
(* A transfer is a conversation: the client reads what the server has,     *)
(* then collects or fetches, then the receiver applies.  Between any two   *)
(* steps other clients talk to the server, a client may be killed and a    *)
(* request may be lost or arrive late.  What a snapshot holds is           *)
(* abstracted to a text; the merge that a pull makes of two texts is in    *)
(* module Revisions.                                                       *)
(***************************************************************************)
EXTENDS Integers, Functions

CONSTANTS Clients,    \* the clients, each with a repository of its own
          Branches,   \* names of branches
          Texts,      \* what a snapshot may hold
          Patient,    \* whether users wait for a command before the next one
          MaxRevs,    \* bound on the revision ids ever generated
          MaxOps      \* bound on the commands of a behaviour

ASSUME TransferAssumption ==
  Patient \in BOOLEAN /\ MaxRevs \in Nat /\ MaxOps \in Nat /\ "server" \notin Clients

Server == "server"
Repos  == Clients \cup {Server}

VARIABLES snapshots,  \* repository -> its stored snapshots
          revisions,  \* repository -> revision id -> current snapshot
          refs,       \* repository -> branch -> revision id
          nextId,     \* the next fresh revision id
          task,       \* client -> the transfer it is in the middle of
          requests,   \* pushes that were sent and not answered
          checked,    \* pushes the server has checked and is about to apply
          ops

rows == <<snapshots, revisions, refs>>
vars == <<snapshots, revisions, refs, nextId, task, requests, checked, ops>>

Snapshot(id, parents, text) == [rev |-> id, parents |-> parents, text |-> text]

ParentsOf(s) == {s.parents[i] : i \in DOMAIN s.parents}
Known(r)     == DOMAIN revisions[r]

(* f with the entries of g written over it, as the upserts of one table. *)
Over(f, g) == [k \in DOMAIN f \cup DOMAIN g |-> IF k \in DOMAIN g THEN g[k] ELSE f[k]]
Only(f, S) == [k \in DOMAIN f \cap S |-> f[k]]

NoTask == [phase |-> "idle"]

Init ==
  /\ snapshots = [r \in Repos |-> {}]
  /\ revisions = [r \in Repos |-> <<>>]
  /\ refs = [r \in Repos |-> <<>>]
  /\ nextId = 1
  /\ task = [c \in Clients |-> NoTask]
  /\ requests = {}
  /\ checked = {}
  /\ ops = 0

-----------------------------------------------------------------------------
(* A command of client c begins.  A user who is not patient goes on working while
   an earlier transfer is under way, or after having given it up. *)
Waits(c) == task[c] # NoTask \/ \E q \in requests : q.from = c

Command(c) ==
  /\ ops < MaxOps /\ ops' = ops + 1
  /\ Patient => ~Waits(c)

(* Work in a client's repository: what commit, amend, SetRef and DeleteRef leave
   behind (their steps are in module Revisions). *)
Store(c, s) ==
  /\ snapshots' = [snapshots EXCEPT ![c] = @ \cup {s}]
  /\ revisions' = [revisions EXCEPT ![c] = Over(@, [id \in {s.rev} |-> s])]

Commit(c, parents, text) ==
  /\ Command(c)
  /\ nextId <= MaxRevs /\ nextId' = nextId + 1
  /\ Store(c, Snapshot(nextId, parents, text))
  /\ UNCHANGED <<refs, task, requests, checked>>

Amend(c, id, text) ==
  /\ Command(c)
  /\ text # revisions[c][id].text
  /\ Store(c, Snapshot(id, revisions[c][id].parents, text))
  /\ UNCHANGED <<refs, nextId, task, requests, checked>>

SetBranch(c, b, id) ==
  /\ Command(c)
  /\ refs' = [refs EXCEPT ![c] = Over(@, [n \in {b} |-> id])]
  /\ UNCHANGED <<snapshots, revisions, nextId, task, requests, checked>>

DeleteBranch(c, b) ==
  /\ Command(c)
  /\ b \in DOMAIN refs[c]
  /\ refs' = [refs EXCEPT ![c] = Only(@, DOMAIN @ \ {b})]
  /\ UNCHANGED <<snapshots, revisions, nextId, task, requests, checked>>

-----------------------------------------------------------------------------
(* Faulty: sends what the other side names as well. *)
FaultyCollect(r, have) == revisions[r]

(* Collect: the current snapshots of the revisions the other side does not name.
   Which references go with them is read afterwards. *)
Collect(r, have) == Only(revisions[r], Known(r) \ have)

(* ApplyTx: one transaction that writes everything over what was there. *)
Apply(r, revs, names) ==
  /\ snapshots' = [snapshots EXCEPT ![r] = @ \cup Range(revs)]
  /\ revisions' = [revisions EXCEPT ![r] = Over(@, revs)]
  /\ refs' = [refs EXCEPT ![r] = Over(@, names)]

-----------------------------------------------------------------------------
(* changeSetWithAncestors: the wanted revision and those whose current snapshot
   is a parent of one found before, as far as the client does not have them. *)
Owners(S) == {id \in Known(Server) : revisions[Server][id] \in S}

(* Faulty: the parents of the wanted revision without itself. *)
FaultyWithAncestors(want, have) == Owners(ParentsOf(revisions[Server][want])) \ have

WithAncestors(want, have) ==
  LET found[n \in Nat] ==
        IF n = 0 THEN {want} \ have
        ELSE found[n - 1] \cup
             (Owners(UNION {ParentsOf(revisions[Server][id]) : id \in found[n - 1] \cap Known(Server)})
                \ have)
  IN  found[MaxRevs]

(* pull: what the server's branch is, what is here, what the branch is here. *)
PullAdvertise(c, b) ==
  /\ Command(c) /\ task[c] = NoTask
  /\ b \in DOMAIN refs[Server]
  /\ task' = [task EXCEPT ![c] =
       [phase |-> "fetch", branch |-> b, tip |-> refs[Server][b], have |-> Known(c),
        local |-> IF b \in DOMAIN refs[c] THEN {refs[c][b]} ELSE {}]]
  /\ UNCHANGED <<rows, nextId, requests, checked>>

(* FilterBundleWant: only the wanted revisions; if none is wanted, all of them. *)
FilterWant(revs, wanted) == IF wanted = {} THEN revs ELSE Only(revs, wanted)

(* handleFetch: the wanted line of revisions, and every reference. *)
PullFetch(c) ==
  LET t == task[c]
      revs == FilterWant(Collect(Server, t.have), WithAncestors(t.tip, t.have))
  IN  /\ t.phase = "fetch"
      /\ task' = [task EXCEPT ![c] =
           [phase |-> "apply", branch |-> t.branch, tip |-> t.tip, local |-> t.local,
            revs |-> revs, refs |-> refs[Server]]]
      /\ UNCHANGED <<rows, nextId, requests, checked, ops>>

(* Faulty: the tip is taken as it is, also where there is a local line. *)
FaultyPullApply(c) ==
  LET t == task[c]
  IN  /\ t.phase = "apply"
      /\ Apply(c, t.revs, t.refs)
      /\ task' = [task EXCEPT ![c] =
           [phase |-> "place", branch |-> t.branch, tip |-> t.tip, local |-> t.local]]
      /\ UNCHANGED <<nextId, requests, checked, ops>>

(* The bundle is applied; without a branch of that name here the tip is taken as
   it is, otherwise it is to be rebased onto the local tip. *)
PullApply(c) ==
  LET t == task[c]
  IN  /\ t.phase = "apply"
      /\ Apply(c, t.revs, t.refs)
      /\ task' = [task EXCEPT ![c] =
           IF t.tip \notin Known(c) \cup DOMAIN t.revs THEN NoTask
           ELSE [phase |-> IF t.local = {} THEN "place" ELSE "rebase", branch |-> t.branch,
                 tip |-> t.tip, local |-> t.local]]
      /\ UNCHANGED <<nextId, requests, checked, ops>>

PullRebase(c) ==
  LET t == task[c]
  IN  /\ t.phase = "rebase"
      /\ \/ /\ t.local \subseteq Known(c)
            /\ \E l \in t.local :
                 LET onto == revisions[c][l]
                 IN  /\ Store(c, Snapshot(t.tip, <<onto>>, revisions[c][t.tip].text))
                     /\ task' = [task EXCEPT ![c] =
                          [phase |-> "place", branch |-> t.branch, tip |-> t.tip, local |-> t.local]]
         \/ /\ ~(t.local \subseteq Known(c))
            /\ task' = [task EXCEPT ![c] = NoTask]
            /\ UNCHANGED <<snapshots, revisions>>
      /\ UNCHANGED <<refs, nextId, requests, checked, ops>>

PullPlace(c) ==
  LET t == task[c]
  IN  /\ t.phase = "place"
      /\ refs' = [refs EXCEPT ![c] = Over(@, [n \in {t.branch} |-> t.tip])]
      /\ task' = [task EXCEPT ![c] = NoTask]
      /\ UNCHANGED <<snapshots, revisions, nextId, requests, checked, ops>>

-----------------------------------------------------------------------------
(* Faulty: what is collected depends on what is known here. *)
FaultyPushAdvertise(c) ==
  /\ Command(c) /\ task[c] = NoTask
  /\ task' = [task EXCEPT ![c] = [phase |-> "collect", have |-> Known(c)]]
  /\ UNCHANGED <<rows, nextId, requests, checked>>

(* push: what the server has; then the revisions it has not; then the references,
   which go with them in one request. *)
PushAdvertise(c) ==
  /\ Command(c) /\ task[c] = NoTask
  /\ task' = [task EXCEPT ![c] = [phase |-> "collect", have |-> Known(Server)]]
  /\ UNCHANGED <<rows, nextId, requests, checked>>

PushCollect(c) ==
  /\ task[c].phase = "collect"
  /\ task' = [task EXCEPT ![c] = [phase |-> "send", revs |-> Collect(c, task[c].have)]]
  /\ UNCHANGED <<rows, nextId, requests, checked, ops>>

PushSend(c) ==
  /\ task[c].phase = "send"
  /\ requests' = requests \cup {[from |-> c, revs |-> task[c].revs, refs |-> refs[c]]}
  /\ task' = [task EXCEPT ![c] = NoTask]
  /\ UNCHANGED <<rows, nextId, checked, ops>>

(***************************************************************************)
(* isAncestorUnion: whether the snapshot of a is found going back from     *)
(* that of c, over snapshots that are stored or in the request.  An id is  *)
(* looked up in the repository first.                                      *)
(***************************************************************************)
Resolve(q, id) == IF id \in Known(Server) THEN revisions[Server][id] ELSE q.revs[id]

AncestorUnion(q, a, c) ==
  LET known == Known(Server) \cup DOMAIN q.revs
      graph == snapshots[Server] \cup Range(q.revs)
      back[n \in Nat] ==
        IF n = 0 THEN {Resolve(q, c)}
        ELSE back[n - 1] \cup UNION {ParentsOf(s) : s \in back[n - 1] \cap graph}
  IN  /\ {a, c} \subseteq known
      /\ Resolve(q, a) \in back[MaxOps + 1]

(* CheckNonFastForward: the branches that would not move forward. *)
Conflicts(q) ==
  {b \in DOMAIN q.refs \cap DOMAIN refs[Server] :
     /\ q.refs[b] # refs[Server][b]
     /\ ~AncestorUnion(q, refs[Server][b], q.refs[b])}

(* Faulty: does not wait for the lock. *)
FaultyCheckPush(q) ==
  /\ q \notin checked
  /\ IF Conflicts(q) = {}
     THEN checked' = checked \cup {q} /\ UNCHANGED requests
     ELSE requests' = requests \ {q} /\ UNCHANGED checked
  /\ UNCHANGED <<rows, nextId, task, ops>>

(* handlePush, under the lock of the repository: check, then apply. *)
CheckPush(q) ==
  /\ checked = {}
  /\ IF Conflicts(q) = {}
     THEN checked' = {q} /\ UNCHANGED requests
     ELSE requests' = requests \ {q} /\ UNCHANGED checked
  /\ UNCHANGED <<rows, nextId, task, ops>>

ApplyPush(q) ==
  /\ q \in checked
  /\ Apply(Server, q.revs, q.refs)
  /\ checked' = checked \ {q}
  /\ requests' = requests \ {q}
  /\ UNCHANGED <<nextId, task, ops>>

-----------------------------------------------------------------------------
(* A client is killed in the middle of a transfer; a request is lost on its way;
   the server is restarted. *)
Kill(c) ==
  /\ task[c] # NoTask
  /\ task' = [task EXCEPT ![c] = NoTask]
  /\ UNCHANGED <<rows, nextId, requests, checked, ops>>

Lose(q) ==
  /\ q \notin checked
  /\ requests' = requests \ {q}
  /\ UNCHANGED <<rows, nextId, task, checked, ops>>

Restart ==
  /\ requests # {}
  /\ requests' = {} /\ checked' = {}
  /\ UNCHANGED <<rows, nextId, task, ops>>

Work(c) ==
  \/ \E text \in Texts : Commit(c, <<>>, text)
  \/ \E id \in Known(c), text \in Texts : Commit(c, <<revisions[c][id]>>, text) \/ Amend(c, id, text)
  \/ \E b \in Branches : DeleteBranch(c, b) \/ \E id \in Known(c) : SetBranch(c, b, id)

Pull(c) ==
  \/ \E b \in Branches : PullAdvertise(c, b)
  \/ PullFetch(c) \/ PullApply(c) \/ PullRebase(c) \/ PullPlace(c)

Push(c) == PushAdvertise(c) \/ PushCollect(c) \/ PushSend(c)

Next ==
  \/ \E c \in Clients : Work(c) \/ Pull(c) \/ Push(c) \/ Kill(c)
  \/ \E q \in requests : CheckPush(q) \/ ApplyPush(q) \/ Lose(q)
  \/ Restart

Spec == Init /\ [][Next]_vars

-----------------------------------------------------------------------------
(***************************************************************************)
(* A branch of the server names a revision the server has, although a      *)
(* filtered pull leaves clients with branches whose revisions they do not  *)
(* have and the next push sends those names back (remote.go 752-759: "so   *)
(* every revision lands before the refs point at them"); and everywhere a  *)
(* revision stands at a stored snapshot of its own.                        *)
(***************************************************************************)
ServerBranchesResolve ==
  /\ Range(refs[Server]) \subseteq Known(Server)
  /\ \A r \in Repos : \A id \in Known(r) : revisions[r][id] \in snapshots[r] /\ revisions[r][id].rev = id

(***************************************************************************)
(* The server's branches move forward only: where a branch stood is in the *)
(* history of where it stands next, however pushes are interleaved, lost   *)
(* or repeated (server.go 369-371).                                        *)
(***************************************************************************)
Lineage(s) ==
  LET back[n \in Nat] == IF n = 0 THEN {s} ELSE back[n - 1] \cup UNION {ParentsOf(x) : x \in back[n - 1]}
  IN  back[MaxOps + 1]

BranchesMoveForward ==
  [][\A b \in DOMAIN refs[Server] :
       LET a == refs[Server][b]  c == refs'[Server][b]
       IN  a \in Known(Server) /\ c \in DOMAIN revisions'[Server] =>
             revisions[Server][a] \in Lineage(revisions'[Server][c])]_vars

(***************************************************************************)
(* A revision the server has given out stays as it is: no push of a client *)
(* that amended or rebased it overwrites it, since a push leaves out what  *)
(* the server had when the push began.                                     *)
(***************************************************************************)
PublishedRevisionsStay ==
  [][\A id \in Known(Server) : revisions'[Server][id] = revisions[Server][id]]_vars

(***************************************************************************)
(* A pull that comes to its end leaves the branch on a history that has    *)
(* both lines: the local tip is below the tip that was fetched             *)
(* (remote.go 575-579).                                                    *)
(***************************************************************************)
PullMergesLines ==
  [][\A c \in Clients : PullPlace(c) =>
       \A l \in task[c].local :
         revisions[c][l] \in Lineage(revisions[c][task[c].tip])]_vars

(***************************************************************************)
(* The bundle a pull gets holds the tip it asked for, or the client has it *)
(* already: what the server answers first still fits what it answers next, *)
(* whatever was pushed in between.                                         *)
(***************************************************************************)
TipsArrive ==
  \A c \in Clients :
     task[c].phase = "apply" => task[c].tip \in Known(c) \cup DOMAIN task[c].revs
=============================================================================
