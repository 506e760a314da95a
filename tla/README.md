# A TLA+ model of EasyVCS

EasyVCS keeps every repository in one database (the *central store*): content-addressed objects
shared by all repositories, and per repository a table of immutable *snapshots*, a table of
*revisions* (stable ids that are repointed from snapshot to snapshot as history is rewritten) and
a table of *refs*. A CLI, an HTTP server and background jobs work on that database at the same
time, mostly without transactions that span a whole operation. A web client, whose bundle the
server embeds, talks to it and to the services beside it, and listens to streams of events. This
directory models the core of that system in TLA+, checks it with TLC on small instances, and proves
the main invariants of the semantic layer with TLAPS for every size.

Paths below are relative to the repository (`src/`). `PROJECT.json` maps every definition to the
lines it translates.

## 1. Inventory

| Component | State it keeps | Operations | What is hard about it |
|---|---|---|---|
| Three-way merge, conflicts (`merge/merge.go`, `object/conflict.go`) | none; trees, blobs and conflict objects are values | `Trees`, `mergeEntry`, `resolvePath`, `findEntry` | a cascade of rules over presence and equality of three sides; conflicts that are merged again; a name that is a file on one side and a directory on the other |
| Semantic layer (`revision/`) | snapshots, revisions, refs of one repository | commit, amend, rebase, drop, revert, squash, resolve, rewrite with ignores, describe, derive/branch, tag, delete ref | several database statements per operation with no enclosing transaction; rows read before and written after other processes write; a process killed in between |
| Working copy (`revision/scan.go`, `revision/commit_from_changes.go`, `cmd/easyvcs/main.go`) | the directory, the workspace marker | scan, diff, commit, checkout | the user writes while a commit runs; the diff reads trees that may or may not be in the store; commit and marker are separate steps; a checkout that stops half way |
| Object store, gc, verify (`store/centralstore.go`, `revision/gc.go`, `revision/verify.go`) | the set of stored objects, shared by all repositories | write object, mark, sweep, verify | a collection runs beside writers that have stored objects no revision refers to yet; marking is shared between revisions; a sweep is killed |
| Transfer (`transfer/`, `server/server.go`, `cmd/easyvcs/remote.go`) | two repositories, and the client's `remotes` table | clone, fetch, pull (plain and collaborative), push, the fast-forward check | check and apply on the server; filtered bundles whose parents are missing; a pull that dies between overwriting local refs and rebasing |
| Hosting (`store/`, `server/`) | repositories, forks, users, namespaces, tokens, grants, merge requests, package claims | create, fork and delete; grant, claim; open and review a merge request; access checks | deletions that clear table after table and may fail between two; numbers computed in one statement and stored in another; a fork of a repository people work in; a cached answer that gates anonymous access |
| Mirrors (`mirror/`, `store/mirror.go`) | mirror rows, runs, schedule | push and pull mirror, retry after failure | overlap of runs, failures after a partial transfer |
| Git bridge (`gitbridge/`) | git commits carrying a revision header, links | export, import, sync | the same revision exported twice, identities kept over a round trip |
| Queries (`revision/file_history.go`, `annotate.go`, `diff_content.go`) | none | log, file history, annotate, diff hunks | pure algorithms with boundary cases |
| Service worker (`webapi/static/sw.js`) | the browser's caches, the handlers under way | install, activate, fetch | handlers of a worker that was replaced run on; copies land in any order; caches are asked the oldest first |
| Chat session (function `Qy` of `webapi/static/assets/index-CjcZjlKc.js`) | the messages on the page, the stream, the pieces that wait for a frame, requests under way | load, send, load more, abort, revert, nine events of the stream | replies and events overtake each other; what is streaming is replaced by errors, reloads and prompts; the connection breaks |
| Chat page (component `HV`) | the store of every session that was shown, which is on the screen | pick, close, compact, todos | a store is ready when its session may no longer be the one on the screen |
| Job output (component `OB`) | three tabs of lines, a stream, loads under way | open, close, switch tab, load earlier | loads take a view of then into a tab of now, beside a stream |
| Text of messages (marked, in the bundle) | the text so far | parse and render after every piece | blocks are cut off by length; quotes and lists are lexed again |
| Replies (zod, in the bundle) | none | check and copy a reply by its schema | two implementations of one thing |
| Viewer of changes (`JM` and the component that draws) | rows, highlighted lines, highlighting under way | show, highlight | late results; rows find their lines by counting |
| Ignore rules (`ignore/`) | none | matching paths | string patterns |
| Encodings, ids (`encoding/`, `object/`) | none | framing, hashing, signing | byte formats, cryptography |
| Database layer, web API | schema | DDL, read-only JSON views | no logic of their own below or above what is modelled |
| Highlighter grammars (`webapi/static/assets/`) | none | one grammar of a language per file | generated data |

**How they interact.** Commands of the CLI call package `revision`, which reads and writes the
central store statement by statement; it calls `merge` for every rebase, revert and squash and
writes the merged trees and conflicts as objects. A commit first scans the working directory,
diffs it with the current revision's tree, stores the resulting objects one by one, and then
writes snapshot and revision in one transaction; the workspace marker moves afterwards. `gc`
reads all repositories' revisions and deletes objects; nothing keeps it apart from writers. The
server exposes a repository's bundle and applies pushed bundles under an in-process mutex.

The web client is one page. Its chat page makes a store for each session it shows; the store
loads messages, prompts the agent (a service behind `/api/v1/sessions`, outside the repository) and
listens to the session's stream. What the agent says is shown by marked, which the bundle contains,
as are the schema checker that every reply goes through and the highlighter of the viewer of
changes. A dialog shows the output of a job of the sandbox service, from loads and a stream. Below
all of them the service worker answers for static files. The parts share nothing but the page
and, the chat page and its stores apart, do not act on each other.

## 2. Modules

| Module | Models | State | Actions |
|---|---|---|---|
| `Merge3` | merge, conflict terms, path lookup and rewriting | none (operators) | - |
| `MergeWalk` | the life of one revision's tree against a moving tip | trees of both sides, the base | `EditPath`, `RebaseOnTip`, `Resolve`, `Derive` |
| `Revisions` | package `revision` over one repository, several processes | the three tables, and per process the rest of its operation | one action per command that starts (`CommitOn` ... `DeleteRef`), one per kind of statement that is executed (`DoPutSnapshot` ... `DoPutRef`), `Crash` |
| `StableRevisions` | the abstract promise of package `revision` | published snapshots, where each id stands | `Publish`, `Move`, `Record` |
| `WorkingCopy` | one workspace | directory, stored trees, tips, marker, commit under way | `Edit`, `BeginCommit`, `ApplyChange`, `Record`, `MoveMarker`, `Checkout`, `Rebase`, `Crash` |
| `ObjectGC` | objects of several repositories, a writer, a collector, `verify` | stored objects, tips, writer, collector | `BeginCommit`/`Amend`/`BeginRebase`, `WriteObject`, `ReadBack`, `Record`, `KillWriter`, `BeginGC`, `ListRevisions`, `Mark`, `ListObjects`, `DeleteObject`, `EndGC`, `KillGC` |
| `Transfer` | clients that pull from and push to one server | the tables of every repository, the transfer each client is in the middle of, requests on their way, those the server has checked | `Commit`, `Amend`, `SetBranch`, `DeleteBranch`; `PullAdvertise`, `PullFetch`, `PullApply`, `PullRebase`, `PullPlace`; `PushAdvertise`, `PushCollect`, `PushSend`; `CheckPush`, `ApplyPush`; `Kill`, `Lose`, `Restart` |
| `Forking` | `CentralStore.Fork`, of repositories that go on changing | snapshots, revisions and refs of every repository; what each fork has read and has left to write | `Commit`, `Amend`, `SetRef`; `ForkCreate`, `ForkReadSnapshots`, `ForkReadRevisions`, `ForkPutSnapshot`, `ForkPutRevision`, `ForkReadRefs`, `ForkPutRef`, `ForkReturn`; `Kill` |
| `Hosting` | users, namespaces, repositories, grants, merge requests, package claims, the cache of the open instance | the tables, the cache and its lock, the statements every request has left | one action per request that arrives (`CreateUser`, `DeleteUser`, `Create`, `Delete`, `SetRepoMember`, `CreateMergeRequest`, `AuthorizePublish`, `InstanceIsOpen` ...), one per statement (`InsertRepo`, `ClearRepo`, `ClaimPackage`, `FillOpenCache` ...), `Fail`, `Restart` |
| `ServiceWorker` | `sw.js` over several releases | the release, the worker and how far its activation is, the caches in order, fetch events under way, copies on their way | `Deploy`, `Install`, `ListCaches`, `DeleteCache`, `Claim`; `Fetch`, `NetworkAnswers`, `NetworkFails`, `MatchCaches`; `OpenCache`, `PutCopy`, `PutFails` |
| `ChatSession` | the store of one session, with the agent and the connection as its surroundings | messages, stream, waiting pieces, requests; the agent's history and running turn, events on their way | `Emit`, `Break`, `Reconnect`, `Serve`; one action per event (`Receive`), per reply (`Reply`), per thing the user does (`Send`, `LoadMore`, `Abort`, `Revert`); `Frame` |
| `ChatPage` | the page and the stores it makes | the active session, every store ever made, the one on the screen, compactions and todos under way | `Pick`, `CloseSession`, `Messages`, `State`, `Compact`, `Compacted`, `TodosUpdated`, `Todos` |
| `JobLog` | the dialog with a job's output | the job, the stream, the tabs, loads under way | `Write`, `End`, `BreakOff`, `Cut`, `Relisten`; `Open`, `LoadTab`, `Show`, `Close`, `SwitchTab`; `Deliver`; `LoadEarlier`, `ShowEarlier`, `EarlierFails` |
| `Listing` | what `ChatSession` and `JobLog` filter and sort, put in order by counting: `SelectSeq` and `SortSeq` take an operator as a parameter, of which nothing can be proved | none (operators) | - |
| `Markdown` | marked's block lexer and renderer over a text that arrives | the text | `Arrive` |
| `ReplySchema` | zod's two ways to check an object, and the request helper | engine, reply, outcome | `Fetch`, `Refuse` |
| `DiffView` | `diff_content.go`'s edit script, hunks and text; the viewer's parser, highlighting and drawing | comparison, rows, tokens, highlighting under way | `Show`, `Highlight` |
| `MCRevisions`, `MCTransfer`, `MCForking`, `MCHosting`, `MCObjectGC` | instances for TLC (symmetry, repositories a few commits old) | | |
| `MCWorkingCopy`, `MCChat`, `MCPage` | several modules in one run: a behaviour is one of one of them, chosen by `part`, and the others stand still. `MCWorkingCopy` extends both of its modules, so that one definition of a tree serves both, and keeps the merge to one name and the copy to two contents; `MCChat` and `MCPage` extend the modules whose properties are proved (`ChatSession` and `JobLog`; `ServiceWorker` and `ChatPage`), and `MCPage` has an instance of each of its others | | |
| `RevisionsProofs`, `TreeProofs`, `ObjectGCProofs`, `TransferProofs`, `ForkingProofs`, `HostingProofs`, `WebProofs` | the theorems about `Revisions`; `WorkingCopy` and `MergeWalk`; `ObjectGC`; `Transfer`; `Forking`; `Hosting`; `ServiceWorker`, `ChatPage`, `JobLog` and `ChatSession` | | |
| `Induction` | induction over the natural numbers, put with sets; used by `RevisionsProofs` and `TransferProofs` | | |

`Merge3` is extended by `MergeWalk`, `Revisions`, `WorkingCopy` and `ObjectGC`, so that every one
of them merges, resolves and looks up paths exactly as the code does. `Revisions` implements
`StableRevisions` under the mapping `published <- snapshots`, `at <- [id |-> revisions[id].hash]`.

A definition named `Faulty...` is not part of the model: it is a plausible bug (a dropped guard, a
missing reset, a swapped order) in the definition that follows it. Putting it in that definition's
place makes the property named for it in `PROJECT.json` fail, which shows that the property can
see the bug.

### Values

* An object id is the content it names (ids are hashes): a blob id is a member of `Blobs`, a tree
  id the table of its entries, a conflict id the record of its terms, a snapshot hash the snapshot.
  `GetSnapshot(h)` succeeds iff `h \in snapshots`. A snapshot's hash covers its revision, tree,
  parents, description and author, but not its commit time (`revision/change.go:252`). The author,
  the times and `ChangedPaths` do not decide anything and are left out: all commits have one author.
* A tree is a total function on `Names`; an absent name is Go's zero `Entry`. Trees have a root and
  one level of subdirectories: `mergeEntry`, `resolvePath` and the diff treat every level alike.

### Granularity

* `Revisions`: one database statement is one step, and `UpdateRevisionHash[CAS]` is two (it reads
  the row and then writes it). An operation's reads before its first write are one step with its
  start, among them the listing of descendants; where the code reads a row again later
  (`RebaseMany`, amend, squash) the model reads it then.
  `memo` is the package variable of `ignore_history.go` and `before` the listing it starts from.
* `WorkingCopy`: the scan is one step; each change is applied in a step of its own, in any order
  (the code ranges over a map, `scan.go`), and the user edits in between.
* `ObjectGC`: one object written or deleted is one step; so is listing the revisions and listing
  the objects. Marking one revision is a step and the order over revisions is free. Commits change
  one path. A rebase writes its merged objects one by one and is only started on trees that are in
  the store.
* An ignore matcher ignores one path. `DropIgnored` takes it out of a tree, and the directory too if
  it held nothing else; a file in the place of the directory stays. `first` is the statement an
  operation began with, so that its end can be held against what was asked for.
* `Hosting` has one `CentralStore`, whose cached answer all its requests share. The code keeps one
  answer per `CentralStore` (`openinstance.go:7-28`); another one on the same database is left out,
  see section 5.
* `Transfer`: one request, one transaction and one read of a table is a step. The server's check is
  one step, since it holds the lock and only pushes write there (`checked` is not empty while the
  lock is held); so is a fetch, since a reference newer than the listed revisions is no different
  for the client from one that the filter left without its revision. A commit, an amendment or the
  rebase of a pull is one step: `Revisions` has their statements. A snapshot holds its revision's
  own change (`text`); what merging it onto another parent gives is in `Merge3`. Tags travel like
  branches and are never checked; they and the objects are left out, as is the sync tip, which
  nothing reads. Identical requests of one client count as one. `SetBranch` is `SetRef` as a library
  call; on the command line it takes a deletion and `branch`.
* `Forking`: every read of a table and every row written is a step; what happens in memory between
  them belongs to the read before it. Commits, amendments and references of users are one step each.
  Which of a rewritten revision's snapshots comes first in the listing is left open.
* `ServiceWorker`: a callback of a promise is a step. The worker does not look at a response's
  status, so what a release serves on a path is named by the release.
* `ChatSession`, `JobLog`: a handler is a step, and so is each request's service and its reply. A
  piece of text is the number under which the agent said it, a line of output its number. Reasoning
  is text under another part id. At most one event (`MaxWire`) is on its way to the page in `chat`;
  replies and frames come before it, after it, or not at all.
* `ChatPage`: a store is what it was made for, what it asks for and what it listens to; what happens
  within its stream is `ChatSession`.
* `Markdown`: a line is a few atoms ("two spaces", "the mark of a quote", "text"), and its number in
  the text tells apart what is shown. Regular expressions are the predicates on atoms they are on such lines.
* `ReplySchema`: a field is a base type in up to two wrappers; a value is its kind.
* `DiffView`: a line is a model value; two of them look like headers once the mark is in front.
  Highlighting a text is a step that may come after the next text.
* `Hosting`: a statement is a step. What a request does first (the look-up, the count, the listing)
  is one step with its arrival; a check followed by an insert under a unique index is one step, since
  the index decides. `doomed` and `leaving` only remember, for the properties, what a repository or
  user had when its deletion began. Merge requests and grants stand for all tables `Delete` clears
  by repository, and `notes` for reviews and comments, which it clears by merge request.

## 3. Runs

| Run | Question | Bounds |
|---|---|---|
| `rev_seq` | What does each command promise of the history it rewrites? | one process; two operations from a chain, a fork, an amended parent, and a conflict in a file that a child carries; one from the same conflict in a directory; paths at the root and in the directory, up to four revisions |
| `rev_conc` | Do the tables stay consistent, and does the repository implement `StableRevisions`, when two processes interleave statements and die anywhere? | two processes, two operations, two names of branches; from a chain of two revisions, and from a conflict in a file that a child carries; up to 4 revisions |
| `wc` | What does a commit record of a directory that is edited while it runs, through crashes, checkouts and rebases? And is the merge the three-way rule on files, does no written file get lost and no deleted one come back, for all tree triples that edits, rebases, resolutions and derivations reach? | two names, two blobs, two revisions, 6 edits or commands; for the merge one name per directory, three blobs, 4 edits, rebases and resolutions unbounded |
| `gc` | What is kept and what is collected, with writers kept out and with commits beside the collection, and what does verify report? | two repositories (symmetric), 4 commands; two revisions each, one each where collections and commits interleave |
| `transfer` | Do the server's branches resolve, only move forward, and does what it published stay, whatever clients do, and whatever is killed, lost or restarted? Does a pull keep both lines? | two clients (symmetric), two branches, two texts, up to 3 revisions, 5 commands, patient users |
| `fork` | Do forks keep their identities apart and resolve, and hold what their source held, while people work in the source, forks run at the same time or are forked again, and forks are killed? | three repositories (symmetric), one branch, two trees (symmetric), 6 revision ids, 3 commands |
| `hosting` | What is left of a user or repository whose deletion failed, was tried again, and ran beside others? Are merge requests numbered properly? Is the cached answer of who may read right? | two requests at a time (symmetric), one repository and package name, two users, 6 requests |
| `chat` | Does the page show what the agent said, once and in order, and the end of each turn? Does the dialog show a job's lines in order, and its end? | sessions: two messages of before, one per page, turns of up to five events, two things the user does or breaks of the connection; jobs: three lines, one per load, two things the user does or breaks of the connection |
| `page` | Is the copy shown offline the last one seen? Does the page follow the session? Is every line of a text shown, and what was shown left alone? Are replies checked as their schemas say? Do rows show the lines they name? | worker: three releases of which the last renames the cache, two paths, two requests at a time, three in all; page: two sessions (symmetric), three stores; text: 18 kinds of lines, three lines, a fourth among the 9 that nest; replies: two fields, the first of any base in up to two wrappers; changes: files of up to four lines, or two with lines that look like headers, or six, one line of context, two comparisons |
| `wc_subdirs`, `gc_nested`, `fork_history` | see section 5 | |

Properties, by the hazard they are about:

* **Merge.** `LeafMergeIsDiff3`: where no directory is involved the cascade of rules is the
  textbook rule, and a conflict arises exactly when both sides changed a path differently.
  `ChangesOfBothSidesStay`: what a side wrote since the base is in the merge, as a file or as a side
  of a conflict, and a deletion is not undone by a side that left the file alone.
* **Tables.** `CurrentSnapshotIsOwn`, `HistoryIsStored`, `BranchesResolve`: no revision, parent
  edge or branch dangles, and a revision stands on a snapshot that carries its id, although each is
  written in a statement of its own and any process may die in between.
  `BranchesOwnTheirRevision`: two branches never share a revision, also when two processes create
  or delete the same name. `StableIds`: refinement of the abstract store.
* **Commands.** `RewritesStayInPlace` (a rewrite keeps its parents and leaves other revisions
  alone), `ResolutionPropagates`, `RebaseReappliesChange`, `SquashAbsorbsTheChild`, `DropClosesTheGapInAChain`,
  `IgnoreRewriteKeepsLineage` relate the state after a command to the state before it. The last one
  speaks of every revision of the lineage as it was when the command began, rewritten or not, and of
  the path that was asked for: it is gone from all of them, each stands on what its parent has
  become, and the rest of its tree is as it was. Two
  operations in a row are enough to act on a rewritten, amended or conflicted revision, and the
  starting histories put each command in front of a fork, a conflict and an amended parent.
* **Working copy.** `ScanIsCommitted` relates what the scan saw and what the commit recorded,
  whatever happened in between; `RevisionTreesAreStored` rules out the empty tree that `mustTree`
  makes up for an unreadable one, and a marker that names nothing.
* **Collection.** `SweepSparesTheLiving`: what a sweep may not take, beside commits and without.
  `StoreMatchesReferences`: what it must take; and verify reports a tree as whole iff every object
  it names is there, in every state including a half-done sweep.

* **Transfer.** `ServerBranchesResolve`: a branch of the server names a revision, although filtered pulls leave clients with branches they
  cannot resolve, which the next push sends back. `BranchesMoveForward`: what the fast-forward check
  and the lock are for. `PublishedRevisionsStay`: a revision that was given out does not change under
  its readers; the other side of this is that amending a pushed revision and pushing again sends
  nothing. `TipsArrive`: the two answers of the server that a pull relies on fit together although
  others push in between. `PullMergesLines`: the local tip is below the tip that was fetched.
  *Patient* users wait until a command has ended or its request is lost before they start another
  in the same repository; other clients never wait.
* **Forks.** `ForksStandAlone`: ids drawn by forks that overlap never meet, and although references
  are read last, when the source may name revisions the fork did not copy, those are the only ones
  that do not resolve. `ForksCopyVersions`: what the two passes over the snapshots get right.
* **Hosting.** `NumbersAreGapless`: numbers are computed from what was there before other requests
  stored theirs. `DeletedOnesLeaveNothing`: the row that makes a
  repository or user findable must go last, or a deletion that failed could not be finished.
  `OpenCacheIsFresh`: an answer counted before the first user and remembered after it would leave the
  instance open to anonymous readers. While there is a user, "open" may only be remembered until the
  creation of that very user has invalidated it, which it does before it returns.
* **Streams.** `ChunksAreKept`: pieces wait for a frame while prompts, errors, reverts and reloads
  rebuild the messages they belong to. `IdsAreUnique`: pages overlap and the page's own messages get
  the agent's ids later. `TurnsAreSeenToEnd`: the page does not wait for a turn that is over; it
  may have been told before it listened, which is the exception. `LinesAreOrdered`, `EndIsShown`:
  the same for the output of a job, which comes from loads and a stream.
* **Page.** `OfflineCopyIsLastSeen`, `OldCachesAreGone`: however handlers of old and new workers
  overlap. `SettledPageFollowsTheSession`: whichever store becomes ready last. `TextIsShown`: the
  lengths by which blocks are cut off add up however deep quotes and lists are nested.
  `EarlierBlocksStay`: a text that is still arriving does not move under the reader.
  `RepliesAreChecked`: both implementations against what the schema says. `RowsAreLinesOfTheFiles`:
  from `lcsOps` to the drawn row, over a text, a parser, counting and results that come late.

**Why the bounds are enough.** The merge decides per name from three entries, so one name with
three blobs has every pattern of equality; four edits reach a conflict within a conflict. Races
need two processes; `rev_conc` begins with a short chain, which leaves room for two new revisions,
and with a conflict that a child carries, so that `Resolve` and `Drop`, too, meet every other command
statement by statement. Three processes, and longer histories, are left to the proofs.
Two repositories with two revisions share and contain each other's trees in every order the
collector can meet them. Five commands from a shared branch let both clients put different
revisions under one new name, let one of them publish two revisions that the other pulls, and let
an amendment meet a pull and a push. Three repositories are a source, its fork and a fork of the
fork or a second one beside it; three commands make a revision, rewrite it and name it. Six requests
create a user, a repository and what it owns, fail to delete it, act in between and try again; two
that are served at the same time are enough for each of the races above. In
the worker's run a cache is kept, replaced and opened again; overlapping requests need two. Two
things the user does in a chat are enough to prompt, and to abort or revert what the prompt began,
while loads, the running turn and the connection do what they want; one message per page makes
every load overlap. Three lines of text, four where they nest, hold a quote in a list in a quote
that goes on lazily. Four lines on each side with one line of context make hunks that begin with
each kind of line, and six make two of them. Each state machine may stop at its bound
(`CHECK_DEADLOCK FALSE`), and so may the program, once no user asks for more and what fairness
promises (below) has been done.

**Fairness.** Only `ChatSession` and `JobLog` assume any, and only their liveness properties use it.
Weak fairness of `Emit`, `Receive` and `Frame`, and of the requests taken together (some request is
served or its reply handled), says that the agent goes on with a turn it has begun, that requests are
answered or fail, that the browser delivers what has arrived and draws its next frame: event loop,
`fetch` and `requestAnimationFrame` promise that, and no step of the page can disable any of them
for ever. `Reconnect` is fair because an `EventSource` tries again by itself. Of the log, `BreakOff`,
`LoadingTabs` and `Deliver` are fair for the same reasons. The run `chat` checks with less: it leaves
out `Reconnect` and `Frame`. Nothing is assumed of the user, of the job (which may run for ever:
`EndIsShown` begins when it has ended), of connections (which may hold or break), or of a request's
success. Elsewhere no run states a liveness property: a command ends because it has finitely many
statements, and waits for nothing.

## 4. Proofs

Each theorem holds for every value of the constants: any number of processes, clients, requests,
repositories, names, contents and operations (the bounds of the runs, such as `MaxOps`, are
constants too). Each rests on the named assumptions of its module (`ZeroAssumption`,
`BoundsAssumption` and the like, which TLC evaluates; for the dialog that a request asks for a number
of lines, for the chat that what stands for "nothing" is no message's id) and on what the third
column adds.

| Module | Theorem and the property it states | Under |
|---|---|---|
| `RevisionsProofs` | `TypeCorrect`; `RevisionsStandAtTheirOwn` (`CurrentSnapshotIsOwn`); `HistoryNeverDangles` (`HistoryIsStored`); `BranchesNeverDangle` (`BranchesResolve`); `BranchesAreTheirOwn` (`BranchesOwnTheirRevision`); `Implements` (`StableIds`, the refinement) | - |
| | `RewritesKeepTheirPlace` (`RewritesStayInPlace`); `SquashKeepsTheChild` (`SquashAbsorbsTheChild`); `RebaseKeepsTheChange` (`RebaseReappliesChange`); `DropLeavesNoGap` (`DropClosesTheGapInAChain`); `ResolutionSpreads` (`ResolutionPropagates`); `IgnoreRewriteIsWhole` (`IgnoreRewriteKeepsLineage`) | `OneProcess` |
| `TreeProofs` | `TreesAreStored` (`RevisionTreesAreStored`); `ScansAreCommitted` (`ScanIsCommitted`) | - |
| | `LeavesMergeByDiff3` (`LeafMergeIsDiff3`) | - |
| | `RebasesKeepChanges` (`ChangesOfBothSidesStay`) | `ZeroNamesNothing` |
| `ObjectGCProofs` | `CollectionsSpareTheLiving` (`SweepSparesTheLiving`); `CollectionsAreThorough` (`StoreMatchesReferences`) | `KindIsHashed`; finitely many names |
| `TransferProofs` | `ServerBranchesNeverDangle` (`ServerBranchesResolve`); `TipsDoArrive` (`TipsArrive`); `PublishedAreNotRewritten` (`PublishedRevisionsStay`); `BranchesDoMoveForward` (`BranchesMoveForward`); `PullsKeepTheLocalLine` (`PullMergesLines`) | `Patient` |
| `ForkingProofs` | `IdsAreDrawnOnce`; `ForksNeverMix` (`ForksStandAlone`); `ForksHoldTheirSource` (`ForksCopyVersions`) | - |
| `HostingProofs` | `TypeCorrect`; `NumbersStayGapless` (`NumbersAreGapless`); `DeletionsAreComplete` (`DeletedOnesLeaveNothing`); `InstanceCloses` (`OpenCacheIsFresh`) | - |
| `WebProofs` | `ThePageFollows` (`SettledPageFollowsTheSession`); `OldOnesAreGone` (`OldCachesAreGone`); `LinesStayInOrder` (`LinesAreOrdered`); `IdsStayUnique` (`IdsAreUnique`) | - |
| | `OfflineIsLastSeen` (`OfflineCopyIsLastSeen`) | `NamesMoveOn` |

The assumptions of the third column:

* `ZeroNamesNothing`: no conflict object has the zero id, which stands for "no object"
  (`object.go:25`). Without it a recorded conflict could not be told from a deleted file.
* `KindIsHashed`: a blob and a tree never share an id, since `HashID` hashes the kind first
  (`object.go:82`). A revision's file would else be its root tree at the same time, and marked
  before it is visited.
* `Patient`: users wait until a command has ended or its request is lost. The run `transfer` has it
  too; without it properties of published revisions and branches are false (section 5). Kills and
  restarts are not excluded by it.
* `OneProcess`: commands run one after another, each from where the one before it ended or crashed.
  With others beside it no command keeps these promises: what it read would be out of date. The
  run `rev_seq` has it too; the theorems about the tables, and `BranchesAreTheirOwn`, do without.
* `NamesMoveOn`: releases with the same cache name follow one another, so a name that was given up
  is not used again, as the `v1` in it has it (`sw.js:1`). Otherwise a release could go back to a
  name whose cache its predecessor deleted, and the page would find nothing. The releases of the run
  `page` are of this kind.
* Finitely many names: `verify` counts, and only finite sets have a cardinality.

### The arguments

None of the properties is inductive by itself; each module proves an inductive invariant `IInv` (or
`LeftInv`, `ClaimsInv` on top of it) of which they follow. Each such invariant was checked by TLC on
an instance before it was proved.

* **`Revisions`.** Whether `DoPutRevision` leaves a revision on a stored snapshot depends on what
  the process was promised when it put that statement on its list, perhaps many steps of other
  processes ago. `IInv` therefore says that the rest of every process's operation is *sound* for the
  present store: a statement refers only to snapshots and ids that are there (`Sound`), or to the
  snapshot that the first statement is about to store (`Soon`, `PlanOK`), and a branch is put after
  the row it names (`NamesKnown`). Soundness is monotone in the store (`SoundMonotone`,
  `PlanMonotone`, `ProcMonotone`): snapshots and ids are never withdrawn, so no process can spoil
  another's plan. Executing a statement makes the rest of the list sound again (`PlanContinues`,
  `ContinueKeeps`); every operation starts with a sound list (`Plan1` to `Plan4`, `RewritePlan`, one
  lemma per action).
* **Branches.** `ClaimsInv`: an id that a branch stands at, *or that a process still means to put a
  branch at*, was drawn for that branch's name, and no other name has or means to have it. A branch
  that exists is only put to its own id again; a new one gets an id just drawn; and what a dead
  process meant to do is forgotten, never done by another.
* **Commands.** A property that relates the end of a command to its beginning is about a list of
  statements, some done and some not. `CommandsInv` gives each command its *aims*: the snapshot each
  revision is to stand at, as a function of what the command read (`Fits`: for a rebase `Rebased`
  of the old snapshot, for a resolution `Resolution` of it, for the ignore rewrite what `memo` has).
  Its parts (`Working`): every statement left aims at these and nothing else (`StmtFits`); a
  revision stands where it stood or at its aim; and one that must be rewritten (`Must`) has been, or
  a statement still waits for it (`Waits`). When the list is empty all of them have been. What the
  aims are worth is then shown command by command. For a drop that needs the order of the rebases
  (`RestOf`: each is onto its predecessor's new snapshot). For the ignore rewrite it needs that the
  history has no cycle (`Ranked`: a snapshot is stored after its parent), so that visiting
  ancestors first reaches all of them. The listing it starts from fixes the lineage; the revision it
  was asked for, and with any revision its parent, is either still to be visited or in `memo`
  (`TargetIsSeen`, `LineageIsSeen`), so that at the end none was skipped. And for paths in
  directories that trees have two levels (`TreesAreShaped`).
* **`WorkingCopy`.** Changes are applied one by one and in any order, so `IInv` says of every name
  how far its entry has `Come`: the change that makes it what the scan found is still on the list,
  or it is that already; a directory has that for each name in it. And the trees of the half-built
  root are stored before the root is.
* **`MergeWalk`.** For one place the rules are a case analysis over three ids (`MergeNameIsDiff3`,
  `PlaceKeepsChanges`, `PlaceStaysDeleted`). That the places of the merged tree are the merged
  places (`MergedPlaces`) needs `IInv`: trees have two levels, whatever edits, rebases and
  resolutions did to them.
* **`ObjectGC`.** The collector works from lists it made earlier. `StillInv`: while it marks, each
  revision that stood still is yet to be listed, listed, or marked; while it deletes, nothing marked
  for such a revision is on the list. `AloneInv` says the same of files where nobody writes beside
  it. `LeftInv`, for thoroughness, goes the other way: what is marked is referred to by some
  revision, and what is neither marked nor on the list is not stored.
* **`Transfer`.** Who may know a revision: until the server has it, only the client that made it
  does (`SecretsInv`). So a push another client gets in first brings nothing of what this one is
  about to send, what was checked is still so when it is applied (`CheckedInv`), and what a push
  left out at its start is still what the server has at its end. The server's walk back over stored
  snapshots and the closure of a filtered fetch are recursive functions; `Induction` shows what they
  contain.
* **`Forking`.** A revision id has one owner, the repository that knows it or that the fork filling
  it drew it for (`OwnerInv`): so repositories do not share revisions. That a reference is not left
  on an id that was drawn and never written needs the line of sources (`LineInv`): ids of others
  come down to a fork along it, it has no cycle, so none of them was drawn for the fork.
* **`Hosting`.** What the statements left of a request may rely on. For deletions: what there was of
  a repository or user when its deletion began (`doomed`, `leaving`) is gone or still ahead of the
  row that makes it findable (`DeletionInv`), which the first failed attempt leaves in place for the
  second. For numbers: those of a repository nobody began to delete are 1 to n, and a request
  carries at most n + 1, whatever came in since it asked; the unique index refuses it a number that
  is taken (`NumbersInv`).
* **`ChatPage`.** `PageInv` follows every store ever made, the closed ones included, whose answers
  still come. The page's own store was made for the active session (`StoresInv`). As soon as it is
  ready, whichever store is on the screen listens to that session; and as long as nothing was
  *hurried*, the one on the screen is the page's own and all other stores of the page are closed
  (`ShownInv`).
* **`JobLog`.** As long as nothing is *tangled* (`UntangledInv`), a view holds lines
  of its tab, in order and behind those before its first one (`IsView`), and the lines on their way
  come after all of these (`ComeAfter`). The
  same is demanded of the view that each load of earlier lines is going to make, which is why it
  stays so when the answer arrives late: the view it puts back is an older one, and fits.
* **`ChatSession`.** Ids change while pages that name the same messages are on their way. `StoreInv`:
  every message, shown or on its way, was made by the page or the agent before now; the agent's
  history, and every page of it, is in order of the numbers (`Kept`); at most one message waits for
  its id, and while a prompt is under way one does. The id it is going to get is newer than all that
  is shown *and than all that older pages can still bring* (`IsNew` in `PromptInv`). The stream never
  writes to the message that waits (`CurInv`), and what a revert puts back was shown once.
* **`ServiceWorker`.** For old caches: whatever has another name was there when the names were
  listed and is still on the list (`DeletionsInv`). For the copies it takes five parts
  (`CopiesInv`): names in use belong to releases up to the worker's (`OriginInv`); of an undisturbed
  path one handler or copy is under way (`OneAtATime`), and it has what was seen last
  (`CopiesOnTheirWay`); what was seen last is on its way or in the worker's cache (`KeptInv`); and no
  other cache has a copy that `caches.match` would find first (`ShadowsInv`). The last is the one
  that an update endangers. A worker that keeps the name finds other caches empty; one with a new
  name finds no answer kept under it, because a name does not come back; and while the
  deletions are under way, only caches on the list have copies.

### What is only model-checked

* Liveness (`TurnsAreSeenToEnd`, `EndIsShown`): out of the prover's reach.
* What a recursive operator computes: `TextIsShown`, `EarlierBlocksStay`, `RepliesAreChecked` and
  `RowsAreLinesOfTheFiles` compare `Markdown`, `ReplySchema` and `DiffView` with a reference
  definition over bounded inputs. Where a module with theorems recurs it does so with a recursive
  function (`Levels`, `Lineage`, `WithAncestors`). An induction over numbers can be put with a set
  instead of a predicate (`NatSetInduction`); one over texts or nested values is not tried.
* `ChunksAreKept`: it joins the pieces in the parts of the messages, which is an induction over both;
  and its order holds for agents whose turns, like those of the run, write one part after the other.

## 5. Where code and documentation differ

Three divergences are kept as runs in which TLC finds the counterexample:

| Run | What happens |
|---|---|
| `wc_subdirs` | the files of a new subdirectory are not committed: the scan's trees are not in the store, and the diff looks them up there |
| `gc_nested` | the files of subdirectories are swept: a subdirectory is marked before it is visited and therefore not visited |
| `fork_history` | a fork of three generations: the newest names its parent by the hash the parent had before its own parents were translated, which is stored nowhere |

The models contain further behaviour a maintainer should know of. The passing properties are stated
around it, and there is no run for it:

* a file on one side of a directory counts as an empty directory and disappears without a conflict
  (`merge.go:94`): hence the exceptions *Clash* in the merge properties and *NoDirectoryAt* in those
  of rebase and squash;
* `UpdateRevisionHashCAS` compares in one statement and writes in another, and a write in between is
  lost in silence (`centralstore.go:871`), which its comment rules out;
* a push lists revisions and then references (`transfer.go:214`): the server takes a branch that was
  made in between without its revision, and nobody can pull it until a later push (the patient users
  of `transfer` do not do that);
* a rebase of a revision that already holds a conflict makes the conflict a term of the new one,
  and `Resolve` then writes a conflict id as a blob (`merge.go:180`);
* two `SetRef` calls can both find a tag name free, and `branch` writes over a tag (`revision_ops.go:581`);
* the first commit on a branch erases the row's `ForkFrom` (`commit_from_changes.go:126`);
* dropping a revision with two children puts one child on the other (`revision_ops.go:164`):
  hence *InAChain* in `DropClosesTheGapInAChain`;
* squash takes the parent snapshot the child points at; what the parent revision was amended with
  since is lost (`revision_ops.go:547`);
* the ignore rewrite leaves other descendants on old snapshots (`ignore_history.go:112`), and it goes
  back only as long as a parent is some revision's current snapshot (`ignore_history.go:48`): hence
  *Ancestry* in `IgnoreRewriteKeepsLineage`;
* a file that took the place of a directory is not committed (`scan.go:117`), and a checked-out
  conflict is committed as its rendering (`scan.go:123`): hence the exceptions for conflicts and
  directories in the `WorkingCopy` properties;
* a collection takes the tree of an amended parent and the sides of conflicts (`gc.go:45`, `104`),
  verify does not look for those sides (`verify.go:82`), and a commit that runs beside a collection
  can be recorded with files missing: hence revisions that stand still, their roots and their top-level files;
* a push that was given up can arrive after an amendment was pushed and takes the server back
  (without patient users `PublishedRevisionsStay` and `BranchesMoveForward` fail);
* a pull overwrites every local branch with the server's (`transfer.go:338`); if it is killed before
  its rebase, the local line has lost its name, and pulling again rebases the tip onto itself, which
  is also what pulling without news does (`remote.go:633`);
* `Delete` clears the merge requests before the reviews and comments, which it finds by a subquery on
  the merge requests (`centralstore.go:359-368`): they stay. Hence no notes in
  `DeletedOnesLeaveNothing`;
* a fork stands on the first snapshot the database lists for a revision, which need not be the one
  the source stands on (`centralstore.go:561`); a reference made while a fork runs keeps the id of
  the source; and a fork that was killed leaves a repository that makes the next attempt fail
  (`ErrRepoExists`);
* two requests that take the same merge request number: one of them fails, and is not tried again
  (`mr.go:60`);
* `EnsureNamespace` does nothing if another user has the namespace, so the owner of a repository need
  not be the owner of its namespace, as `models.go:15-22` has it;
* `DeleteUser` deletes repositories by the names it listed: one that was deleted and created again by
  somebody else in between goes too (`user.go:125`), and one that is created meanwhile keeps an owner
  that is gone;
* every `CentralStore` remembers for itself that there are no users (`openinstance.go:7-28`) and only
  the one that creates a user forgets it: a second server on the database goes on taking the instance
  for open until it is started again. Hence one server in `OpenCacheIsFresh`;
* a hunk whose first change is above its first kept line says a wrong line of the new file: the kept
  line overwrites a number that was set, and does not set one that was not (`diff_content.go:227-231`;
  line 37 has it as the 1-based start). The viewer counts from there; hence *OneSidedTop*;
* a removed line that begins with `-- `, or an added one that begins with `++ `, is taken for a
  header by the viewer and not shown, and all lines after it get the number before (line 121 of the
  bundle); hence *Mistaken*;
* the copies of two answers for one path can land in the wrong order, a copy can fail unseen, and a
  worker that was replaced can open its old cache again, which `caches.match` then asks first
  (`sw.js:31-37`); hence *disturbed* and *late*. Error pages are kept as well;
* pieces of text that wait for a frame while a new message is begun are put into that message
  (*torn*); a turn that ends between the state of the session and the opening of the stream, or while
  the connection is broken, leaves the page waiting (*missed*); two pending prompts get the same id,
  and a prompt whose message a reload or an undo took away meanwhile may give its id to another
  (*confused*); all line 52 of the bundle;
* a store remembers no session: when the user goes on while it is loading, it may show the messages
  of one session with the stream of another, and a stream may stay open (*hurried*, line 148);
* a connection that breaks while a job runs marks its output as complete, and what is written until
  the browser has a new one is not shown (lines 143-145 of the bundle): `LinesAreOrdered` says
  nothing of gaps, and `EndIsShown` nothing of a job that has not ended;
* earlier lines of a job replace the view by what it was when they were asked for, and those that
  came since are gone, with the mark that the job is over (*overtaken*); a dialog that is opened
  again, or switched, while something is being loaded shows lines twice or in the wrong tab, and a
  load that ends after the dialog was closed opens a stream nobody closes (*tangled*, lines 143-145);
* marked loses a quoted line that begins a block after a quote in a quote went on lazily (lines
  71-72; hence *Overreached*). Whenever a list in a quote is lexed again the source of the quote
  becomes a newline too long: the first takes the newline that follows the quote, which does no
  harm, a second one a character of the text (lines 72-75; the texts of `page` are too short for two).

## 6. Not modelled

* Reads that fail although the row is there (a fault of the database): every such error path ends
  the command, which `Crash` covers, except in gc, which skips what it cannot read.
* The `workspaces` table beyond the marker, `workspace` commands, `export`: bookkeeping and output.
* Ignore patterns, encodings, hashing, signing: data formats below what the properties tell apart.
* Access checks of the server, visibility, states of merge requests, agent bindings, the audit log:
  they read or set one field of one row. `Fork`'s copy of the repository's metadata.
* Mirrors and the git bridge: planned.
* Local remotes (`doLocalPull`, `doPushLocal`), `fetch` into `remote_refs`, read-only mirrors: planned.
* Web API: read-only views. Database layer and migrations: schema set-up.
* Of the web client: the file tree, the terminal, forms and dialogs that show what they load; the
  framework; the highlighter and its generated grammars; what is inside a line of text, and schemas
  other than objects of wrapped fields. The agent and the sandbox behind the client's requests are no
  part of the repository and are modelled from how the client uses them.
* marked and zod are third-party code. They are modelled because the bundle contains them and every
  message and every reply of the client goes through them.

## 7. Plan

1. *(done)* `Merge3`, `MergeWalk`: everything else rests on the merge.
2. *(done)* `Revisions`, `StableRevisions`, `RevisionsProofs`: the core, and its theorems.
3. *(done)* `WorkingCopy`, `ObjectGC`: what stands before and below a revision.
4. *(done in part)* `Transfer`. Next: local remotes, which check and apply without a lock, and tags.
   Abstract specification: a shared branch that only moves to descendants of where it was.
5. *(done in part)* `Forking`, `Hosting`. Next: roles and visibility over the whole of
   `requireRepoAccess`.
6. Mirrors and the git bridge, composed with `Transfer`.
7. *(done)* The web client: `ServiceWorker`, `ChatSession`, `ChatPage`, `JobLog`, `Markdown`,
   `ReplySchema`, `DiffView`. Next: compose `ChatPage` with a `ChatSession` per store. Further pure
   algorithms against reference definitions: annotate, file history, the length prefix.
8. *(done)* The theorems of section 4. Next: `ChunksAreKept`, by an induction over texts put with
   sets; which promises of a command survive a second process on other revisions.
