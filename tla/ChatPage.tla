------------------------------ MODULE ChatPage ------------------------------
(***************************************************************************)
(* The chat page of the web front end (component HV of the bundle) and the *)
(* stores it creates: one for every session that becomes active and one    *)
(* after a compaction.  A store loads the messages, asks for the state and *)
(* opens its stream; only then is it shown, and only then has the page the *)
(* means to close it.  Nobody waits for a store that is no longer wanted.  *)
(* What a store does once its stream is open is module ChatSession.        *)
(*                                                                         *)
(* A store does not remember its session: it asks for the active one each  *)
(* time, and falls back on the session it was made for when none is.       *)
(***************************************************************************)
EXTENDS Naturals, Sequences, FiniteSets

CONSTANTS Sessions, NoSession,
          MaxStores     \* bound on the stores of a behaviour

ASSUME SessionsAssumption == NoSession \notin Sessions

VARIABLES active,      \* the active session
          mounted,     \* number of times the page was put on the screen
          stores,      \* every store ever made
          current,     \* store of the effect that is in force, 0 for none
          shown,       \* store on the screen, 0 for none
          compacting,  \* compactions under way: [of, page]
          fetching,    \* sessions whose todos are under way
          todos,       \* session of the todos on the screen
          hurried      \* whether stores of this page were made while one was loading

pageVars == <<active, mounted, stores, current, shown, compacting, fetching, todos, hurried>>

Loading(i) == stores[i].phase \in {"messages", "state"} /\ stores[i].page = mounted
Settled ==
  /\ active # NoSession /\ compacting = {} /\ fetching = {}
  /\ \A i \in 1..Len(stores) : ~Loading(i)
Streams == {i \in 1..Len(stores) : stores[i].stream # NoSession}

(* Faulty: a store stays with the session it was made for. *)
FaultyIdentity(born) == born

(* e(): what a store made for a session takes for its session. *)
Identity(born) == IF active = NoSession THEN born ELSE active

PageInit ==
  /\ active = NoSession /\ mounted = 0
  /\ stores = <<>> /\ current = 0 /\ shown = 0
  /\ compacting = {} /\ fetching = {} /\ todos = NoSession /\ hurried = FALSE

-----------------------------------------------------------------------------
Store(born, asked, page) ==
  [born |-> born, asked |-> asked, page |-> page, phase |-> "messages",
   messages |-> NoSession, stream |-> NoSession, heard |-> TRUE, closable |-> FALSE]

(* The effect of the previous session is undone: its listener goes, and its
   stream if the store was already shown. *)
Closed(i, ss) ==
  IF i = 0 THEN ss
  ELSE [ss EXCEPT ![i].heard = FALSE,
                  ![i].stream = IF ss[i].closable THEN NoSession ELSE @]

(* Another session becomes active, from the list or from the address bar.  If
   none was, the page is new. *)
Pick(s) ==
  /\ s # active /\ Len(stores) < MaxStores
  /\ active' = s
  /\ mounted' = IF active = NoSession THEN mounted + 1 ELSE mounted
  /\ stores' = Append(Closed(current, stores), Store(s, s, mounted'))
  /\ current' = Len(stores) + 1
  /\ shown' = IF active = NoSession THEN 0 ELSE shown
  /\ todos' = IF active = NoSession THEN NoSession ELSE todos
  /\ fetching' = fetching \cup {s}
  /\ hurried' = (active # NoSession /\ (hurried \/ compacting # {} \/ \E i \in 1..Len(stores) : Loading(i)))
  /\ UNCHANGED compacting

(* Back to the list: the page leaves the screen. *)
CloseSession ==
  /\ active # NoSession /\ active' = NoSession
  /\ stores' = Closed(current, stores) /\ current' = 0 /\ shown' = 0
  /\ UNCHANGED <<mounted, compacting, fetching, todos, hurried>>

-----------------------------------------------------------------------------
(* init, first part: the messages of the session that was active when the
   store was made, or a failure, which init does not notice. *)
Messages(i) ==
  /\ stores[i].phase = "messages"
  /\ \E m \in {stores[i].asked, NoSession} :
       stores' = [stores EXCEPT ![i].phase = "state", ![i].messages = m]
  /\ UNCHANGED <<active, mounted, current, shown, compacting, fetching, todos, hurried>>

(* init, last part, and what the page does then: the stream is opened, the
   store shown, and the means to close it kept with the store. *)
State(i) ==
  /\ stores[i].phase = "state"
  /\ stores' = [stores EXCEPT ![i].phase = "ready", ![i].stream = Identity(stores[i].born),
                              ![i].closable = TRUE]
  /\ shown' = IF stores[i].page = mounted /\ active # NoSession THEN i ELSE shown
  /\ UNCHANGED <<active, mounted, current, compacting, fetching, todos, hurried>>

(* Compact history: a new store when the agent is done, without an effect that
   would ever close it and without closing the one it replaces. *)
Compact ==
  /\ active # NoSession
  /\ compacting' = compacting \cup {[of |-> active, page |-> mounted]}
  /\ UNCHANGED <<active, mounted, stores, current, shown, fetching, todos, hurried>>

Compacted(c) ==
  /\ c \in compacting /\ Len(stores) < MaxStores
  /\ compacting' = compacting \ {c}
  /\ \/ /\ stores' = Append(stores, [Store(c.of, Identity(c.of), c.page) EXCEPT !.heard = FALSE])
        /\ hurried' = TRUE
     \/ UNCHANGED <<stores, hurried>>
  /\ UNCHANGED <<active, mounted, current, shown, fetching, todos>>

(* The stream of a store that is listened to says that the todos, or the turn,
   are done with: the todos of the session the store was made for are fetched. *)
TodosUpdated(i) ==
  /\ stores[i].heard /\ stores[i].stream # NoSession
  /\ fetching' = fetching \cup {stores[i].born}
  /\ UNCHANGED <<active, mounted, stores, current, shown, compacting, todos, hurried>>

Todos(s) ==
  /\ s \in fetching /\ fetching' = fetching \ {s}
  /\ \E answer \in {s, NoSession} : todos' = IF active = s THEN answer ELSE todos
  /\ UNCHANGED <<active, mounted, stores, current, shown, compacting, hurried>>

-----------------------------------------------------------------------------
PageNext ==
  \/ CloseSession \/ Compact
  \/ \E s \in Sessions : Pick(s) \/ Todos(s)
  \/ \E c \in compacting : Compacted(c)
  \/ \E i \in 1..Len(stores) : Messages(i) \/ State(i) \/ TodosUpdated(i)

PageSpec == PageInit /\ [][PageNext]_pageVars

-----------------------------------------------------------------------------
(* However fast the user goes from session to session, when nothing is under
   way the store on the screen listens to the active session, and the todos
   are that session's: the last store to be ready may not be the last one
   made, but it listens to whatever is active by then.  When no session was
   picked while a store was loading and none compacted, the messages on the
   screen are the active session's as well, and no other stream of this page
   is open. *)
SettledPageFollowsTheSession ==
  Settled =>
    /\ shown # 0 /\ stores[shown].stream = active
    /\ todos \in {active, NoSession}
    /\ ~hurried => /\ stores[shown].messages \in {active, NoSession}
                   /\ \A i \in Streams : stores[i].page = mounted => i = shown
=============================================================================
