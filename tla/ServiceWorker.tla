--------------------------- MODULE ServiceWorker ---------------------------
(***************************************************************************)
(* The service worker of the web front end (webapi/static/sw.js): network  *)
(* first, a copy of every answer put aside, the copy when the network      *)
(* fails.  The server is released again and again; a release whose script  *)
(* differs makes the browser install the new worker, which takes over at   *)
(* once and deletes the caches of other names.  Every callback of a        *)
(* promise is a step of its own, and the handlers of a worker that was     *)
(* replaced go on to their end.                                            *)
(*                                                                         *)
(* The browser (caches, registration, clients) is external: it is what     *)
(* sw.js relies on.  A deleted cache stays usable for whoever has it open, *)
(* but nobody finds what is put there.                                     *)
(***************************************************************************)
EXTENDS Naturals, Sequences, FiniteSets, SequencesExt, FiniteSetsExt

CONSTANTS Paths,      \* static paths the page asks for
          Requests,   \* fetch events that may be under way at the same time
          Scripts,    \* release -> the worker script it carries
          CacheName,  \* script -> its constant CACHE
          NoScript, NoAnswer,
          MaxFetches  \* bound on the fetch events of a behaviour

ASSUME ScriptsAssumption == Scripts \in Seq(DOMAIN CacheName) /\ Len(Scripts) > 0
ASSUME AnswerAssumption == NoAnswer \notin 1..Len(Scripts)

VARIABLES release,    \* the release the server serves
          worker,     \* the script of the active worker
          activation, \* how far its activate handler is
          controlled, \* whether the page's requests go through the worker
          caches,     \* the caches in order of creation: [name, entries]
          event,      \* the fetch events under way
          putting,    \* copies on their way into a cache
          page,       \* path -> the last answer the page got
          seen,       \* path -> the last answer of the network, and its cache
          disturbed,  \* paths with overlapping events, a failed copy or one of a replaced worker
          late,       \* whether a replaced worker opened its cache since the last installation
          fetches

workerVars == <<release, worker, activation, controlled, caches, event, putting, page, seen,
          disturbed, late, fetches>>
server == <<release, worker, activation, controlled>>
remembered == <<seen, disturbed, late, fetches>>

(* The worker does not look at the status of a response: what a release
   serves on a path, an error page included, is that release. *)
Responses == 1..Len(Scripts)
NoEvent == [phase |-> "none"]

Names == {caches[i].name : i \in 1..Len(caches)}

WorkerInit ==
  /\ release = 1
  /\ worker = NoScript
  /\ activation = [phase |-> "none"]
  /\ controlled = FALSE
  /\ caches = <<>>
  /\ event = [q \in Requests |-> NoEvent]
  /\ putting = {}
  /\ page = [p \in Paths |-> NoAnswer]
  /\ seen = [p \in Paths |-> NoAnswer]
  /\ disturbed = {}
  /\ late = FALSE
  /\ fetches = 0

-----------------------------------------------------------------------------
(* The server is released anew. *)
Deploy ==
  /\ release < Len(Scripts)
  /\ release' = release + 1
  /\ UNCHANGED <<worker, activation, controlled, caches, event, putting, page, remembered>>

(* The page registers /sw.js, or the browser finds it changed: the install
   handler does not wait, so the new worker is activated over the old one.
   A page that had a worker has the new one from then on. *)
Install ==
  /\ worker # Scripts[release]
  /\ activation.phase \in {"none", "done"}
  /\ worker' = Scripts[release]
  /\ activation' = [phase |-> "keys"]
  /\ late' = FALSE
  /\ UNCHANGED <<release, controlled, caches, event, putting, page, seen, disturbed, fetches>>

(* Faulty: the filter is gone, and the worker deletes its own cache too. *)
FaultyListCaches ==
  /\ activation.phase = "keys"
  /\ activation' = [phase |-> "delete", names |-> Names]
  /\ UNCHANGED <<release, worker, controlled, caches, event, putting, page, remembered>>

(* activate: caches.keys(), and the deletions that follow from it. *)
ListCaches ==
  /\ activation.phase = "keys"
  /\ activation' = [phase |-> "delete", names |-> Names \ {CacheName[worker]}]
  /\ UNCHANGED <<release, worker, controlled, caches, event, putting, page, remembered>>

(* There is at most one cache of a name (OpenCache). *)
CachesWithout(name) ==
  IF name \in Names
  THEN RemoveAt(caches, CHOOSE i \in 1..Len(caches) : caches[i].name = name)
  ELSE caches

(* Faulty: a cache that a handler has open is not deleted. *)
FaultyDeleteCache(name) ==
  /\ activation.phase = "delete" /\ name \in activation.names
  /\ activation' = [activation EXCEPT !.names = @ \ {name}]
  /\ caches' = IF \E x \in putting : x.open /\ x.name = name THEN caches
               ELSE CachesWithout(name)
  /\ UNCHANGED <<release, worker, controlled, event, putting, page, remembered>>

DeleteCache(name) ==
  /\ activation.phase = "delete" /\ name \in activation.names
  /\ activation' = [activation EXCEPT !.names = @ \ {name}]
  /\ caches' = CachesWithout(name)
  /\ putting' = {x \in putting : ~(x.open /\ x.name = name)}
  /\ UNCHANGED <<release, worker, controlled, event, page, remembered>>

(* clients.claim(), when all deletions are done. *)
Claim ==
  /\ activation.phase = "delete" /\ activation.names = {}
  /\ activation' = [phase |-> "done"]
  /\ controlled' = TRUE
  /\ UNCHANGED <<release, worker, caches, event, putting, page, remembered>>

-----------------------------------------------------------------------------
Busy(p) ==
  \/ \E q \in Requests : event[q].phase # "none" /\ event[q].path = p
  \/ \E x \in putting : x.path = p

(* A GET of a static path.  Other requests are left to the browser.  The
   browser holds the event back while the worker is being activated. *)
Fetch(q, p) ==
  /\ event[q].phase = "none"
  /\ controlled /\ activation.phase = "done"
  /\ fetches < MaxFetches /\ fetches' = fetches + 1
  /\ event' = [event EXCEPT ![q] = [phase |-> "network", path |-> p, cache |-> CacheName[worker], no |-> fetches]]
  /\ disturbed' = IF Busy(p) THEN disturbed \cup {p} ELSE disturbed
  /\ UNCHANGED <<server, caches, putting, page, seen, late>>

(* The network answers: the page gets the response, and a clone of it is on
   its way into the cache of the worker. *)
NetworkAnswers(q) ==
  /\ event[q].phase = "network"
  /\ event' = [event EXCEPT ![q] = NoEvent]
  /\ page' = [page EXCEPT ![event[q].path] = release]
  /\ putting' = putting \cup
       {[no |-> event[q].no, name |-> event[q].cache, path |-> event[q].path, resp |-> release, open |-> FALSE]}
  /\ seen' = [seen EXCEPT ![event[q].path] = [resp |-> release, name |-> event[q].cache]]
  /\ UNCHANGED <<server, caches, disturbed, late, fetches>>

NetworkFails(q) ==
  /\ event[q].phase = "network"
  /\ event' = [event EXCEPT ![q].phase = "matching"]
  /\ UNCHANGED <<server, caches, putting, page, remembered>>

(* caches.match: the first cache that has the path, whatever its name. *)
Stored(p) ==
  LET having == {i \in 1..Len(caches) : caches[i].entries[p] # NoAnswer}
  IN  IF having = {} THEN NoAnswer ELSE caches[Min(having)].entries[p]

MatchCaches(q) ==
  /\ event[q].phase = "matching"
  /\ event' = [event EXCEPT ![q] = NoEvent]
  /\ page' = [page EXCEPT ![event[q].path] = Stored(event[q].path)]
  /\ UNCHANGED <<server, caches, putting, remembered>>

(* caches.open creates the cache if there is none of the name. *)
OpenCache(x) ==
  /\ x \in putting /\ ~x.open
  /\ putting' = (putting \ {x}) \cup {[x EXCEPT !.open = TRUE]}
  /\ caches' = IF x.name \in Names THEN caches
               ELSE Append(caches, [name |-> x.name, entries |-> [p \in Paths |-> NoAnswer]])
  /\ late' = (late \/ x.name # CacheName[worker])
  /\ UNCHANGED <<server, event, page, seen, disturbed, fetches>>

PutCopy(x) ==
  /\ x \in putting /\ x.open
  /\ putting' = putting \ {x}
  /\ caches' = [i \in 1..Len(caches) |->
                  IF caches[i].name = x.name THEN [caches[i] EXCEPT !.entries[x.path] = x.resp]
                  ELSE caches[i]]
  /\ disturbed' = IF x.name # CacheName[worker] THEN disturbed \cup {x.path} ELSE disturbed
  /\ UNCHANGED <<server, event, page, seen, late, fetches>>

(* The storage is full, or the body breaks off: nobody hears of it. *)
PutFails(x) ==
  /\ x \in putting /\ x.open
  /\ putting' = putting \ {x}
  /\ disturbed' = disturbed \cup {x.path}
  /\ UNCHANGED <<server, caches, event, page, seen, late, fetches>>

-----------------------------------------------------------------------------
Handler(q) == NetworkAnswers(q) \/ NetworkFails(q) \/ MatchCaches(q)
Copying == \E x \in putting : OpenCache(x) \/ PutCopy(x) \/ PutFails(x)
Activation == ListCaches \/ Claim \/ \E c \in {CacheName[s] : s \in DOMAIN CacheName} : DeleteCache(c)

WorkerNext ==
  \/ Deploy
  \/ Install
  \/ Activation
  \/ \E q \in Requests : Handler(q) \/ \E p \in Paths : Fetch(q, p)
  \/ Copying

WorkerSpec == WorkerInit /\ [][WorkerNext]_workerVars

-----------------------------------------------------------------------------
(* Offline, the page sees what it last saw online: when nothing on a path is
   under way, its events did not overlap, every copy was stored, by the worker
   in charge, then the copy found is the last answer of the network.  A new
   worker that keeps the name of the cache keeps the copies. *)
OfflineCopyIsLastSeen ==
  \A p \in Paths \ disturbed :
    (/\ seen[p] # NoAnswer /\ seen[p].name = CacheName[worker]
     /\ \A x \in putting : x.path # p)
    => Stored(p) = seen[p].resp

(* When a new worker takes over, the caches of other names are gone for good,
   unless a handler of a worker that was replaced has opened its own again. *)
OldCachesAreGone ==
  activation.phase = "done" => late \/ Names \subseteq {CacheName[worker]}
=============================================================================
