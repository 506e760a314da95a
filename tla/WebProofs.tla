----------------------------- MODULE WebProofs ------------------------------
(***************************************************************************)
(* Theorems about what the browser runs: the chat page (ChatPage), the     *)
(* service worker (ServiceWorker), the output of a job (JobLog) and the    *)
(* store of a chat session (ChatSession), for any number of sessions,      *)
(* stores, releases, paths, requests, lines, messages and turns.           *)
(***************************************************************************)
EXTENDS ServiceWorker, ChatPage, JobLog, ChatSession, FiniteSetTheorems, SequenceTheorems, TLAPS

-----------------------------------------------------------------------------
(* The chat page *)
AnySession == Sessions \cup {NoSession}

StoreType ==
  [born : Sessions, asked : Sessions, page : Nat, phase : {"messages", "state", "ready"},
   messages : AnySession, stream : AnySession, heard : BOOLEAN, closable : BOOLEAN]

PageTypeOK ==
  /\ active \in AnySession /\ mounted \in Nat
  /\ stores \in Seq(StoreType)
  /\ current \in 0..Len(stores) /\ shown \in 0..Len(stores)
  /\ compacting \subseteq [of : Sessions, page : Nat]
  /\ fetching \subseteq Sessions /\ todos \in AnySession /\ hurried \in BOOLEAN

(* Stores and compactions are of this page or an earlier one; a store that is
   ready can be closed; the page's own store was made for the active session. *)
StoresInv ==
  /\ \A i \in 1..Len(stores) : stores[i].page <= mounted
  /\ \A i \in 1..Len(stores) : stores[i].phase = "ready" => stores[i].closable
  /\ \A c \in compacting : c.page <= mounted
  /\ active = NoSession => current = 0 /\ shown = 0
  /\ active # NoSession =>
       /\ current # 0 /\ stores[current].page = mounted /\ stores[current].asked = active
       /\ stores[current].messages \in {active, NoSession}
  /\ shown # 0 => stores[shown].phase = "ready"

(* Whichever store is on the screen listens to the active session as soon as
   the page's own store is ready, for that one asked last; and when nothing was
   hurried, all others of the page are closed. *)
ShownInv ==
  active # NoSession =>
    /\ stores[current].phase = "ready" => shown # 0 /\ stores[shown].stream = active
    /\ todos \in {active, NoSession} \/ active \in fetching
    /\ ~hurried =>
         /\ stores[current].phase = "ready" => shown = current
         /\ \A i \in 1..Len(stores) : i # current /\ stores[i].page = mounted =>
              stores[i].phase = "ready" /\ stores[i].stream = NoSession

PageInv == PageTypeOK /\ StoresInv /\ ShownInv

LEMMA PageInitInv == PageInit => PageInv
<1> SUFFICES ASSUME PageInit PROVE PageInv
  OBVIOUS
<1>1. stores \in Seq(StoreType) /\ Len(stores) = 0
  BY DEF PageInit
<1>4. fetching \subseteq Sessions /\ compacting \subseteq [of : Sessions, page : Nat]
  BY DEF PageInit
<1>2. PageTypeOK
  <2>1. active \in AnySession /\ todos \in AnySession /\ mounted \in Nat /\ hurried \in BOOLEAN
    BY DEF PageInit, AnySession
  <2>2. current \in 0..Len(stores) /\ shown \in 0..Len(stores)
    BY <1>1 DEF PageInit
  <2> QED BY <1>1, <1>4, <2>1, <2>2 DEF PageTypeOK
<1>3. StoresInv /\ ShownInv
  BY <1>1 DEF PageInit, StoresInv, ShownInv
<1> QED BY <1>2, <1>3 DEF PageInv

(* Closing a store takes its stream, if it is ready, and its listener. *)
LEMMA ClosedStores ==
  ASSUME NEW ss \in Seq(StoreType), NEW i \in 0..Len(ss)
  PROVE  /\ Closed(i, ss) \in Seq(StoreType) /\ Len(Closed(i, ss)) = Len(ss)
         /\ \A j \in 1..Len(ss) :
              LET old == ss[j]  new == Closed(i, ss)[j]
              IN  /\ new.born = old.born /\ new.asked = old.asked /\ new.page = old.page
                  /\ new.phase = old.phase /\ new.messages = old.messages
                  /\ new.closable = old.closable
                  /\ j # i => new = old
                  /\ j = i /\ old.closable => new.stream = NoSession
<1>1. CASE i = 0
  BY <1>1 DEF Closed
<1>2. CASE i # 0
  <2> DEFINE s == [ss[i] EXCEPT !.heard = FALSE, !.stream = IF ss[i].closable THEN NoSession ELSE @]
  <2>1. i \in 1..Len(ss) /\ ss[i] \in StoreType
    BY <1>2
  <2>2. Closed(i, ss) = [ss EXCEPT ![i] = s]
    BY <1>2, <2>1 DEF Closed
  <2>3. s \in StoreType
    BY <2>1 DEF StoreType, AnySession
  <2>4. /\ s.born = ss[i].born /\ s.asked = ss[i].asked /\ s.page = ss[i].page
        /\ s.phase = ss[i].phase /\ s.messages = ss[i].messages /\ s.closable = ss[i].closable
        /\ ss[i].closable => s.stream = NoSession
    BY <2>1 DEF StoreType
  <2> HIDE DEF s
  <2> QED BY <2>1, <2>2, <2>3, <2>4
<1> QED BY <1>1, <1>2

LEMMA NewStore ==
  ASSUME NEW born \in Sessions, NEW asked \in Sessions, NEW n \in Nat
  PROVE  /\ Store(born, asked, n) \in StoreType
         /\ Store(born, asked, n).asked = asked /\ Store(born, asked, n).page = n
         /\ Store(born, asked, n).phase = "messages" /\ Store(born, asked, n).messages = NoSession
BY DEF Store, StoreType, AnySession

(* The element after the last, and those before it. *)
LEMMA Appended ==
  ASSUME NEW S, NEW ss \in Seq(S), NEW s \in S
  PROVE  /\ Append(ss, s) \in Seq(S) /\ Len(Append(ss, s)) = Len(ss) + 1
         /\ Append(ss, s)[Len(ss) + 1] = s
         /\ \A j \in 1..Len(ss) : Append(ss, s)[j] = ss[j]
OBVIOUS

LEMMA PickKeeps ==
  ASSUME PageInv, NEW s \in Sessions, Pick(s)
  PROVE  PageInv'
<1> DEFINE cs == Closed(current, stores)
           new == Store(s, s, mounted')
           n == Len(stores)
<1>1. PageTypeOK /\ StoresInv /\ ShownInv /\ n \in Nat
  BY DEF PageInv, PageTypeOK
<1>2. mounted' \in Nat /\ mounted' >= mounted /\ (active = NoSession => mounted' > mounted)
      /\ (active # NoSession => mounted' = mounted)
  BY <1>1 DEF Pick, PageTypeOK
<1>3. /\ cs \in Seq(StoreType) /\ Len(cs) = n
      /\ \A j \in 1..n : /\ cs[j].asked = stores[j].asked /\ cs[j].page = stores[j].page
                         /\ cs[j].phase = stores[j].phase /\ cs[j].messages = stores[j].messages
                         /\ cs[j].closable = stores[j].closable
                         /\ j # current => cs[j] = stores[j]
                         /\ j = current /\ stores[j].closable => cs[j].stream = NoSession
  BY <1>1, ClosedStores DEF PageTypeOK
<1>4. /\ new \in StoreType /\ new.asked = s /\ new.page = mounted'
      /\ new.phase = "messages" /\ new.messages = NoSession
  BY <1>2, NewStore
<1>5. stores' = Append(cs, new) /\ current' = n + 1 /\ active' = s /\ compacting' = compacting
  BY DEF Pick
<1> HIDE DEF cs, new
<1>6. /\ stores' \in Seq(StoreType) /\ Len(stores') = n + 1 /\ stores'[n + 1] = new
      /\ \A j \in 1..n : stores'[j] = cs[j]
  BY <1>3, <1>4, <1>5, Appended
<1>7. shown' \in 0..n /\ (shown' # 0 => shown' = shown /\ active # NoSession)
  BY <1>1 DEF Pick, PageTypeOK
<1>8. PageTypeOK'
  BY <1>1, <1>2, <1>5, <1>6, <1>7 DEF PageTypeOK, AnySession, Pick
<1>9. StoresInv'
  <2>1. ASSUME NEW i \in 1..Len(stores') PROVE stores'[i].page <= mounted'
    <3>1. CASE i = n + 1
      BY <1>2, <1>4, <1>6, <3>1
    <3>2. CASE i \in 1..n
      <4>1. stores'[i].page = stores[i].page /\ stores[i].page <= mounted /\ mounted \in Nat
        BY <1>1, <1>3, <1>6, <3>2 DEF StoresInv, PageTypeOK
      <4>2. stores[i].page \in Nat
        <5>1. stores[i] \in StoreType
          BY <1>1, <3>2 DEF PageTypeOK
        <5> QED BY <5>1 DEF StoreType
      <4> QED BY <1>2, <4>1, <4>2
    <3> QED BY <1>1, <1>6, <3>1, <3>2
  <2>2. \A i \in 1..Len(stores') : stores'[i].phase = "ready" => stores'[i].closable
    BY <1>1, <1>3, <1>4, <1>6 DEF StoresInv
  <2>3. \A c \in compacting' : c.page <= mounted'
    BY <1>1, <1>2, <1>5 DEF StoresInv, PageTypeOK
  <2>4. active' # NoSession
    BY <1>5, SessionsAssumption
  <2>5. current' # 0 /\ stores'[current'] = new
    BY <1>1, <1>5, <1>6
  <2>6. shown' # 0 => stores'[shown'].phase = "ready"
    BY <1>1, <1>3, <1>6, <1>7 DEF StoresInv, PageTypeOK
  <2> QED BY <1>4, <1>5, <2>1, <2>2, <2>3, <2>4, <2>5, <2>6 DEF StoresInv
<1>10. ShownInv'
  <2>1. stores'[current'].phase # "ready"
    BY <1>4, <1>5, <1>6
  <2>2. active' \in fetching'
    BY DEF Pick
  <2>3. ASSUME ~hurried', NEW i \in 1..Len(stores'), i # current', stores'[i].page = mounted'
        PROVE  stores'[i].phase = "ready" /\ stores'[i].stream = NoSession
    <3>1. i \in 1..n /\ stores'[i] = cs[i] /\ stores[i].page = mounted'
      BY <1>1, <1>3, <1>5, <1>6, <2>3
    <3>2. active # NoSession /\ mounted' = mounted
      BY <1>1, <1>2, <3>1 DEF StoresInv, PageTypeOK, StoreType
    <3>3. ~hurried /\ ~Loading(i)
      BY <2>3, <3>1, <3>2 DEF Pick
    <3>4. stores[i] \in StoreType
      BY <1>1, <3>1 DEF PageTypeOK
    <3>5. stores[i].phase = "ready"
      BY <3>1, <3>2, <3>3, <3>4 DEF Loading, StoreType
    <3>6. CASE i = current
      BY <1>1, <1>3, <3>1, <3>5, <3>6 DEF StoresInv
    <3>7. CASE i # current
      BY <1>1, <1>3, <3>1, <3>2, <3>3, <3>5, <3>7 DEF ShownInv
    <3> QED BY <3>6, <3>7
  <2> QED BY <2>1, <2>2, <2>3 DEF ShownInv
<1> QED BY <1>8, <1>9, <1>10 DEF PageInv

LEMMA CloseSessionKeeps ==
  ASSUME PageInv, CloseSession
  PROVE  PageInv'
<1>1. PageTypeOK /\ StoresInv
  BY DEF PageInv
<1>2. /\ stores' \in Seq(StoreType) /\ Len(stores') = Len(stores)
      /\ \A j \in 1..Len(stores) : /\ stores'[j].page = stores[j].page
                                   /\ stores'[j].phase = stores[j].phase
                                   /\ stores'[j].closable = stores[j].closable
  BY <1>1, ClosedStores DEF CloseSession, PageTypeOK
<1>3. PageTypeOK'
  BY <1>1, <1>2 DEF PageTypeOK, CloseSession, AnySession
<1>4. StoresInv'
  BY <1>1, <1>2 DEF StoresInv, CloseSession
<1>5. ShownInv'
  BY DEF CloseSession, ShownInv
<1> QED BY <1>3, <1>4, <1>5 DEF PageInv

(* One store changes, in its place. *)
LEMMA Changed ==
  ASSUME NEW i \in 1..Len(stores), stores \in Seq(StoreType), NEW s \in StoreType,
         stores' = [stores EXCEPT ![i] = s]
  PROVE  /\ stores' \in Seq(StoreType) /\ Len(stores') = Len(stores) /\ stores'[i] = s
         /\ \A j \in 1..Len(stores) : j # i => stores'[j] = stores[j]
OBVIOUS

LEMMA MessagesKeeps ==
  ASSUME PageInv, NEW i \in 1..Len(stores), Messages(i)
  PROVE  PageInv'
<1>1. PageTypeOK /\ StoresInv /\ ShownInv
  BY DEF PageInv
<1>2. PICK m \in {stores[i].asked, NoSession} :
        stores' = [stores EXCEPT ![i].phase = "state", ![i].messages = m]
  BY DEF Messages
<1> DEFINE s == [stores[i] EXCEPT !.phase = "state", !.messages = m]
<1>3. stores[i] \in StoreType /\ stores' = [stores EXCEPT ![i] = s]
  <2>1. stores \in Seq(StoreType)
    BY <1>1 DEF PageTypeOK
  <2>2. stores \in [1..Len(stores) -> StoreType]
    BY <2>1
  <2> HIDE DEF s
  <2>3. stores[i] \in StoreType
    BY <2>2
  <2>4. stores' = [stores EXCEPT ![i] = [stores[i] EXCEPT !.phase = "state", !.messages = m]]
    BY <1>2, <2>2
  <2> QED BY <2>3, <2>4 DEF s
<1>4. /\ s \in StoreType /\ s.page = stores[i].page /\ s.asked = stores[i].asked
      /\ s.phase = "state" /\ s.messages = m /\ s.stream = stores[i].stream
  BY <1>2, <1>3 DEF StoreType, AnySession
<1> HIDE DEF s
<1>5. /\ stores' \in Seq(StoreType) /\ Len(stores') = Len(stores) /\ stores'[i] = s
      /\ \A j \in 1..Len(stores) : j # i => stores'[j] = stores[j]
  BY <1>1, <1>3, <1>4, Changed DEF PageTypeOK
<1>6. /\ UNCHANGED <<active, mounted, current, shown, compacting, fetching, todos, hurried>>
      /\ stores[i].phase = "messages"
  BY DEF Messages
<1>7. PageTypeOK'
  BY <1>1, <1>5, <1>6 DEF PageTypeOK
<1>8. StoresInv'
  BY <1>1, <1>2, <1>4, <1>5, <1>6 DEF StoresInv, PageTypeOK
<1>9. ShownInv'
  <2> SUFFICES ASSUME active # NoSession PROVE ShownInv'
    BY <1>6 DEF ShownInv
  <2>1. current \in 1..Len(stores) /\ (shown # 0 => shown \in 1..Len(stores) /\ shown # i)
    BY <1>1, <1>6 DEF StoresInv, PageTypeOK
  <2>2. stores'[current].phase = "ready" => shown # 0 /\ stores'[shown].stream = active
    BY <1>1, <1>4, <1>5, <2>1 DEF ShownInv
  <2>3. ~hurried /\ stores'[current].phase = "ready" => shown = current
    BY <1>1, <1>4, <1>5, <2>1 DEF ShownInv
  <2>4. ASSUME ~hurried, NEW j \in 1..Len(stores), j # current, stores'[j].page = mounted
        PROVE  stores'[j].phase = "ready" /\ stores'[j].stream = NoSession
    BY <1>1, <1>4, <1>5, <1>6, <2>4 DEF ShownInv
  <2> QED BY <1>1, <1>5, <1>6, <2>2, <2>3, <2>4 DEF ShownInv
<1> QED BY <1>7, <1>8, <1>9 DEF PageInv

LEMMA StateKeeps ==
  ASSUME PageInv, NEW i \in 1..Len(stores), State(i)
  PROVE  PageInv'
<1>1. PageTypeOK /\ StoresInv /\ ShownInv
  BY DEF PageInv
<1> DEFINE id == Identity(stores[i].born)
           s == [stores[i] EXCEPT !.phase = "ready", !.stream = id, !.closable = TRUE]
<1>2. stores[i] \in StoreType /\ stores' = [stores EXCEPT ![i] = s]
  <2>1. stores \in Seq(StoreType)
    BY <1>1 DEF PageTypeOK
  <2>2. stores' = [stores EXCEPT ![i].phase = "ready", ![i].stream = id, ![i].closable = TRUE]
    BY DEF State
  <2>3. stores \in [1..Len(stores) -> StoreType]
    BY <2>1
  <2> HIDE DEF id, s
  <2>4. stores[i] \in StoreType
    BY <2>3
  <2>5. stores' = [stores EXCEPT ![i] =
                     [stores[i] EXCEPT !.phase = "ready", !.stream = id, !.closable = TRUE]]
    BY <2>2, <2>3
  <2> QED BY <2>4, <2>5 DEF s
<1>3. id \in AnySession /\ (active # NoSession => id = active)
  BY <1>1, <1>2 DEF Identity, PageTypeOK, StoreType, AnySession
<1> HIDE DEF id
<1>4. /\ s \in StoreType /\ s.page = stores[i].page /\ s.asked = stores[i].asked
      /\ s.phase = "ready" /\ s.messages = stores[i].messages /\ s.stream = id /\ s.closable
  BY <1>2, <1>3 DEF StoreType
<1> HIDE DEF s
<1>5. /\ stores' \in Seq(StoreType) /\ Len(stores') = Len(stores) /\ stores'[i] = s
      /\ \A j \in 1..Len(stores) : j # i => stores'[j] = stores[j]
  BY <1>1, <1>2, <1>4, Changed DEF PageTypeOK
<1>6. /\ UNCHANGED <<active, mounted, current, compacting, fetching, todos, hurried>>
      /\ stores[i].phase = "state"
      /\ shown' = IF stores[i].page = mounted /\ active # NoSession THEN i ELSE shown
  BY DEF State
<1>7. PageTypeOK'
  BY <1>1, <1>5, <1>6 DEF PageTypeOK
<1>8. StoresInv'
  BY <1>1, <1>4, <1>5, <1>6 DEF StoresInv, PageTypeOK
<1>9. ShownInv'
  <2> SUFFICES ASSUME active # NoSession PROVE ShownInv'
    BY <1>6 DEF ShownInv
  <2>1. /\ current \in 1..Len(stores) /\ stores[current].page = mounted
        /\ shown # 0 => shown \in 1..Len(stores) /\ shown # i
    BY <1>1, <1>6 DEF StoresInv, PageTypeOK
  <2>2. stores'[current].phase = "ready" => shown' # 0 /\ stores'[shown'].stream = active
    <3>1. CASE stores[i].page = mounted
      BY <1>3, <1>4, <1>5, <1>6, <3>1
    <3>2. CASE stores[i].page # mounted
      BY <1>1, <1>5, <1>6, <2>1, <3>2 DEF ShownInv
    <3> QED BY <3>1, <3>2
  <2>3. ~hurried /\ stores[i].page = mounted => i = current
    BY <1>1, <1>6 DEF ShownInv
  <2>4. ~hurried /\ stores'[current].phase = "ready" => shown' = current
    <3>1. CASE stores[i].page = mounted
      BY <1>6, <2>3, <3>1
    <3>2. CASE stores[i].page # mounted
      BY <1>1, <1>5, <1>6, <2>1, <3>2 DEF ShownInv
    <3> QED BY <3>1, <3>2
  <2>5. ASSUME ~hurried, NEW j \in 1..Len(stores), j # current, stores'[j].page = mounted
        PROVE  stores'[j].phase = "ready" /\ stores'[j].stream = NoSession
    BY <1>1, <1>4, <1>5, <2>3, <2>5 DEF ShownInv
  <2> QED BY <1>1, <1>5, <1>6, <2>2, <2>4, <2>5 DEF ShownInv
<1> QED BY <1>7, <1>8, <1>9 DEF PageInv

LEMMA CompactedKeeps ==
  ASSUME PageInv, NEW c \in compacting, Compacted(c)
  PROVE  PageInv'
<1>1. PageTypeOK /\ StoresInv /\ ShownInv /\ c.of \in Sessions /\ c.page \in Nat /\ c.page <= mounted
  BY DEF PageInv, PageTypeOK, StoresInv
<1>2. UNCHANGED <<active, mounted, current, shown, fetching, todos>> /\ compacting' = compacting \ {c}
  BY DEF Compacted
<1>3. CASE UNCHANGED <<stores, hurried>>
  <2>1. PageTypeOK' /\ StoresInv'
    BY <1>1, <1>2, <1>3 DEF PageTypeOK, StoresInv
  <2>2. ShownInv'
    BY <1>1, <1>2, <1>3 DEF ShownInv
  <2> QED BY <2>1, <2>2 DEF PageInv
<1>4. CASE /\ stores' = Append(stores, [Store(c.of, Identity(c.of), c.page) EXCEPT !.heard = FALSE])
           /\ hurried' = TRUE
  <2> DEFINE s == [Store(c.of, Identity(c.of), c.page) EXCEPT !.heard = FALSE]
             n == Len(stores)
  <2>1. Identity(c.of) \in Sessions
    BY <1>1 DEF Identity, PageTypeOK, AnySession
  <2>2. s \in StoreType /\ s.page = c.page /\ s.phase = "messages"
    BY <1>1, <2>1 DEF Store, StoreType, AnySession
  <2>3. stores' = Append(stores, s) /\ n \in Nat
    BY <1>1, <1>4 DEF PageTypeOK
  <2> HIDE DEF s
  <2>4. /\ stores' \in Seq(StoreType) /\ Len(stores') = n + 1 /\ stores'[n + 1] = s
        /\ \A j \in 1..n : stores'[j] = stores[j]
    BY <1>1, <2>2, <2>3, Appended DEF PageTypeOK
  <2>5. PageTypeOK'
    BY <1>1, <1>2, <1>4, <2>3, <2>4 DEF PageTypeOK
  <2>6. StoresInv'
    BY <1>1, <1>2, <2>2, <2>3, <2>4 DEF StoresInv, PageTypeOK
  <2>7. ShownInv'
    BY <1>1, <1>2, <1>4, <2>3, <2>4 DEF ShownInv, StoresInv, PageTypeOK
  <2> QED BY <2>5, <2>6, <2>7 DEF PageInv
<1> QED BY <1>3, <1>4 DEF Compacted

LEMMA PageNextInv == PageInv /\ [PageNext]_pageVars => PageInv'
<1> SUFFICES ASSUME PageInv, [PageNext]_pageVars PROVE PageInv'
  OBVIOUS
<1>1. PageTypeOK /\ StoresInv /\ ShownInv
  BY DEF PageInv
<1>2. CASE CloseSession
  BY <1>2, CloseSessionKeeps
<1>3. CASE Compact
  <2>1. PageTypeOK' /\ StoresInv'
    BY <1>1, <1>3 DEF Compact, PageTypeOK, StoresInv, AnySession
  <2>2. ShownInv'
    BY <1>1, <1>3 DEF Compact, ShownInv
  <2> QED BY <2>1, <2>2 DEF PageInv
<1>4. ASSUME NEW s \in Sessions, Pick(s) PROVE PageInv'
  BY <1>4, PickKeeps
<1>5. ASSUME NEW s \in Sessions, Todos(s) PROVE PageInv'
  <2>1. PageTypeOK' /\ StoresInv'
    BY <1>1, <1>5 DEF Todos, PageTypeOK, StoresInv, AnySession
  <2>2. ShownInv'
    BY <1>1, <1>5 DEF Todos, ShownInv
  <2> QED BY <2>1, <2>2 DEF PageInv
<1>6. ASSUME NEW c \in compacting, Compacted(c) PROVE PageInv'
  BY <1>6, CompactedKeeps
<1>7. ASSUME NEW i \in 1..Len(stores), Messages(i) PROVE PageInv'
  BY <1>7, MessagesKeeps
<1>8. ASSUME NEW i \in 1..Len(stores), State(i) PROVE PageInv'
  BY <1>8, StateKeeps
<1>9. ASSUME NEW i \in 1..Len(stores), TodosUpdated(i) PROVE PageInv'
  <2>1. stores[i].born \in Sessions
    <3>1. stores[i] \in StoreType
      BY <1>1 DEF PageTypeOK
    <3> QED BY <3>1 DEF StoreType
  <2>2. PageTypeOK' /\ StoresInv'
    BY <1>1, <1>9, <2>1 DEF TodosUpdated, PageTypeOK, StoresInv
  <2>3. ShownInv'
    BY <1>1, <1>9 DEF TodosUpdated, ShownInv
  <2> QED BY <2>2, <2>3 DEF PageInv
<1>10. CASE UNCHANGED pageVars
  <2>1. PageTypeOK' /\ StoresInv'
    BY <1>1, <1>10 DEF pageVars, PageTypeOK, StoresInv
  <2>2. ShownInv'
    BY <1>1, <1>10 DEF pageVars, ShownInv
  <2> QED BY <2>1, <2>2 DEF PageInv
<1> QED BY <1>2, <1>3, <1>4, <1>5, <1>6, <1>7, <1>8, <1>9, <1>10 DEF PageNext

(***************************************************************************)
(* When nothing is under way, the store on the screen listens to the       *)
(* active session and the todos are that session's, whichever store was    *)
(* ready last; its messages are too, and the page has no other stream,     *)
(* when no store was made while another one was loading.                   *)
(***************************************************************************)
THEOREM ThePageFollows == PageSpec => []SettledPageFollowsTheSession
<1>1. PageInv => SettledPageFollowsTheSession
  <2> SUFFICES ASSUME PageInv, Settled PROVE SettledPageFollowsTheSession
    BY DEF SettledPageFollowsTheSession
  <2>1. PageTypeOK /\ StoresInv /\ ShownInv /\ active # NoSession
    BY DEF PageInv, Settled
  <2>2. /\ current \in 1..Len(stores) /\ stores[current].page = mounted
        /\ stores[current] \in StoreType
    BY <2>1 DEF StoresInv, PageTypeOK
  <2>3. stores[current].phase = "ready"
    BY <2>2 DEF Settled, Loading, StoreType
  <2>4. shown # 0 /\ stores[shown].stream = active /\ todos \in {active, NoSession}
    BY <2>1, <2>3 DEF ShownInv, Settled
  <2>5. ~hurried => /\ stores[shown].messages \in {active, NoSession}
                    /\ \A i \in Streams : stores[i].page = mounted => i = shown
    BY <2>1, <2>3 DEF ShownInv, StoresInv, Streams
  <2> QED BY <2>4, <2>5 DEF SettledPageFollowsTheSession
<1> QED BY <1>1, PageInitInv, PageNextInv, PTL DEF PageSpec

-----------------------------------------------------------------------------
(* The service worker *)
AllNames == {CacheName[s] : s \in DOMAIN CacheName}
InCharge == CacheName[worker]

Copies == [Paths -> Responses \cup {NoAnswer}]
CacheType == [name : AllNames, entries : Copies]
EventType == [phase : {"network", "matching"}, path : Paths, cache : AllNames, no : Nat]
CopyType == [no : Nat, name : AllNames, path : Paths, resp : Responses, open : BOOLEAN]

WorkerTypeOK ==
  /\ release \in Responses
  /\ activation \in [phase : {"none", "keys", "done"}]
                      \cup [phase : {"delete"}, names : SUBSET AllNames]
  /\ caches \in Seq(CacheType)
  /\ event \in [Requests -> EventType \cup {NoEvent}]
  /\ putting \subseteq CopyType
  /\ seen \in [Paths -> [resp : Responses, name : AllNames] \cup {NoAnswer}]
  /\ disturbed \subseteq Paths
  /\ late \in BOOLEAN /\ fetches \in Nat

(* Before a worker is installed there is nothing of it. *)
BeforeInstall ==
  IF activation.phase = "none"
  THEN /\ caches = <<>> /\ putting = {} /\ seen = [p \in Paths |-> NoAnswer]
       /\ event = [q \in Requests |-> NoEvent]
  ELSE worker \in DOMAIN CacheName

Distinct(cs) == \A i, j \in 1..Len(cs) : cs[i].name = cs[j].name => i = j

(* A cache of another name is still to be deleted, unless a handler of a worker
   that was replaced opened it since. *)
DeletionsInv ==
  /\ activation.phase = "delete" =>
       /\ InCharge \notin activation.names
       /\ late \/ Names \subseteq {InCharge} \cup activation.names
  /\ activation.phase = "done" => late \/ Names \subseteq {InCharge}

WorkerInv == WorkerTypeOK /\ BeforeInstall /\ Distinct(caches) /\ DeletionsInv

LEMMA WorkerInitInv == WorkerInit => WorkerInv
<1> SUFFICES ASSUME WorkerInit PROVE WorkerInv
  OBVIOUS
<1>1. 1 \in Responses
  BY ScriptsAssumption DEF Responses
<1>2. caches \in Seq(CacheType) /\ event \in [Requests -> EventType \cup {NoEvent}]
  BY DEF WorkerInit
<1>4. activation \in [phase : {"none", "keys", "done"}]
  BY DEF WorkerInit
<1>5. WorkerTypeOK
  BY <1>1, <1>2, <1>4 DEF WorkerInit, WorkerTypeOK
<1>3. BeforeInstall /\ Distinct(caches) /\ DeletionsInv
  BY DEF WorkerInit, BeforeInstall, Distinct, DeletionsInv
<1> QED BY <1>3, <1>5 DEF WorkerInv

LEMMA ScriptsHaveNames == \A i \in Responses : Scripts[i] \in DOMAIN CacheName
BY ScriptsAssumption DEF Responses

LEMMA NamesAreTyped ==
  ASSUME WorkerTypeOK
  PROVE  Names \subseteq AllNames
<1>1. \A i \in 1..Len(caches) : caches[i] \in CacheType
  BY DEF WorkerTypeOK
<1> QED BY <1>1 DEF Names, CacheType

(* Deleting a cache takes the one of that name and leaves the order of the others. *)
LEMMA TakenOut ==
  ASSUME WorkerTypeOK, Distinct(caches), NEW name
  PROVE  LET cs == CachesWithout(name)
         IN  /\ cs \in Seq(CacheType) /\ Distinct(cs)
             /\ \A j \in 1..Len(cs) : \E i \in 1..Len(caches) :
                  caches[i].name # name /\ cs[j] = caches[i]
             /\ \A i \in 1..Len(caches) : caches[i].name # name =>
                  \E j \in 1..Len(cs) : cs[j] = caches[i]
<1> DEFINE cs == CachesWithout(name)
           n == Len(caches)
<1>1. caches \in Seq(CacheType) /\ n \in Nat
  BY DEF WorkerTypeOK
<1>2. CASE name \notin Names
  <2>1. cs = caches
    BY <1>2 DEF CachesWithout
  <2> QED BY <1>1, <1>2, <2>1 DEF Names
<1>3. CASE name \in Names
  <2> DEFINE k == CHOOSE i \in 1..n : caches[i].name = name
  <2>1. k \in 1..n /\ caches[k].name = name
    BY <1>3 DEF Names
  <2>2. cs = SubSeq(caches, 1, k - 1) \o SubSeq(caches, k + 1, n)
    BY <1>3 DEF CachesWithout, RemoveAt
  <2> HIDE DEF k, cs
  <2>3. /\ SubSeq(caches, 1, k - 1) \in Seq(CacheType) /\ Len(SubSeq(caches, 1, k - 1)) = k - 1
        /\ \A j \in 1..(k - 1) : SubSeq(caches, 1, k - 1)[j] = caches[j]
    BY <1>1, <2>1
  <2>4. /\ SubSeq(caches, k + 1, n) \in Seq(CacheType) /\ Len(SubSeq(caches, k + 1, n)) = n - k
        /\ \A j \in 1..(n - k) : SubSeq(caches, k + 1, n)[j] = caches[k + j]
    BY <1>1, <2>1
  <2>5. /\ cs \in Seq(CacheType) /\ Len(cs) = n - 1
        /\ \A j \in 1..(n - 1) : cs[j] = IF j < k THEN caches[j] ELSE caches[j + 1]
    <3> DEFINE a == SubSeq(caches, 1, k - 1)
               b == SubSeq(caches, k + 1, n)
    <3>1. /\ a \in Seq(CacheType) /\ Len(a) = k - 1 /\ \A j \in 1..(k - 1) : a[j] = caches[j]
          /\ b \in Seq(CacheType) /\ Len(b) = n - k /\ \A j \in 1..(n - k) : b[j] = caches[k + j]
          /\ cs = a \o b
      BY <2>2, <2>3, <2>4
    <3> HIDE DEF a, b
    <3>a. Len(a) + Len(b) = n - 1
      BY <1>1, <2>1, <3>1
    <3>b. /\ a \o b \in Seq(CacheType) /\ Len(a \o b) = Len(a) + Len(b)
          /\ \A j \in 1..(Len(a) + Len(b)) : (a \o b)[j] = IF j <= Len(a) THEN a[j] ELSE b[j - Len(a)]
      BY <3>1, ConcatProperties
    <3>2. /\ cs \in Seq(CacheType) /\ Len(cs) = n - 1
          /\ \A j \in 1..(n - 1) : cs[j] = IF j <= k - 1 THEN a[j] ELSE b[j - (k - 1)]
      BY <3>1, <3>a, <3>b
    <3>3. ASSUME NEW j \in 1..(n - 1), ~(j < k) PROVE cs[j] = caches[j + 1]
      <4>1. j - (k - 1) \in 1..(n - k) /\ k + (j - (k - 1)) = j + 1 /\ ~(j <= k - 1)
        BY <1>1, <2>1, <3>3
      <4> QED BY <3>1, <3>2, <4>1
    <3>4. ASSUME NEW j \in 1..(n - 1), j < k PROVE cs[j] = caches[j]
      BY <1>1, <2>1, <3>1, <3>2, <3>4
    <3> QED BY <3>2, <3>3, <3>4
  <2>6. \A i \in 1..n : i # k => caches[i].name # name
    BY <2>1 DEF Distinct
  <2>7. ASSUME NEW j \in 1..Len(cs)
        PROVE  \E i \in 1..n : caches[i].name # name /\ cs[j] = caches[i]
    <3>1. CASE j < k
      <4>1. j \in 1..n /\ j # k
        BY <1>1, <2>1, <2>5, <3>1
      <4>2. cs[j] = caches[j]
        BY <1>1, <2>1, <2>5, <3>1, <4>1
      <4> QED BY <2>6, <4>1, <4>2
    <3>2. CASE ~(j < k)
      <4>1. j + 1 \in 1..n /\ j + 1 # k
        BY <1>1, <2>1, <2>5, <3>2
      <4> QED BY <2>5, <2>6, <3>2, <4>1
    <3> QED BY <3>1, <3>2
  <2>8. ASSUME NEW i \in 1..n, caches[i].name # name
        PROVE  \E j \in 1..Len(cs) : cs[j] = caches[i]
    <3>1. CASE i < k
      BY <1>1, <2>1, <2>5, <3>1
    <3>2. CASE ~(i < k)
      <4>1. i - 1 \in 1..Len(cs) /\ ~(i - 1 < k) /\ (i - 1) + 1 = i
        BY <1>1, <2>1, <2>5, <2>8, <3>2
      <4> QED BY <2>5, <4>1
    <3> QED BY <3>1, <3>2
  <2>9. Distinct(cs)
    <3> SUFFICES ASSUME NEW i \in 1..Len(cs), NEW j \in 1..Len(cs), cs[i].name = cs[j].name
                 PROVE  i = j
      BY DEF Distinct
    <3> DEFINE at(m) == IF m < k THEN m ELSE m + 1
    <3>1. at(i) \in 1..n /\ at(j) \in 1..n /\ cs[i] = caches[at(i)] /\ cs[j] = caches[at(j)]
      BY <1>1, <2>1, <2>5
    <3>2. at(i) = at(j)
      BY <3>1 DEF Distinct
    <3> QED BY <1>1, <2>1, <2>5, <3>2
  <2> QED BY <2>5, <2>7, <2>8, <2>9 DEF cs
<1> QED BY <1>2, <1>3

LEMMA Appending ==
  ASSUME WorkerTypeOK, Distinct(caches), NEW x \in CopyType, OpenCache(x)
  PROVE  /\ caches' \in Seq(CacheType) /\ Distinct(caches')
         /\ Len(caches) <= Len(caches')
         /\ \A i \in 1..Len(caches) : caches'[i] = caches[i]
         /\ \A i \in 1..Len(caches') : i \notin 1..Len(caches) =>
              caches'[i] = [name |-> x.name, entries |-> [p \in Paths |-> NoAnswer]]
         /\ Names' = Names \cup {x.name}
<1> DEFINE c == [name |-> x.name, entries |-> [p \in Paths |-> NoAnswer]]
           n == Len(caches)
<1>1. caches \in Seq(CacheType) /\ n \in Nat /\ c \in CacheType /\ c.name = x.name
  BY DEF WorkerTypeOK, CacheType, CopyType, Copies
<1>2. CASE x.name \in Names
  BY <1>1, <1>2 DEF OpenCache, Names
<1>3. CASE x.name \notin Names
  <2>1. caches' = Append(caches, c)
    BY <1>3 DEF OpenCache
  <2>2. \A i \in 1..n : caches[i].name # c.name
    BY <1>1, <1>3 DEF Names
  <2> HIDE DEF c
  <2>3. /\ caches' \in Seq(CacheType) /\ Len(caches') = n + 1 /\ caches'[n + 1] = c
        /\ \A i \in 1..n : caches'[i] = caches[i]
    BY <1>1, <2>1, Appended
  <2>4. Distinct(caches')
    BY <1>1, <2>2, <2>3 DEF Distinct
  <2>5. Names' = Names \cup {x.name}
    BY <1>1, <2>3 DEF Names
  <2> QED BY <1>1, <2>3, <2>4, <2>5 DEF c
<1> QED BY <1>2, <1>3

LEMMA PuttingIn ==
  ASSUME WorkerTypeOK, NEW x \in CopyType, PutCopy(x)
  PROVE  /\ caches' \in Seq(CacheType) /\ Len(caches') = Len(caches) /\ Names' = Names
         /\ \A i \in 1..Len(caches) :
              /\ caches'[i].name = caches[i].name
              /\ \A p \in Paths : caches'[i].entries[p] =
                   IF caches[i].name = x.name /\ p = x.path THEN x.resp ELSE caches[i].entries[p]
<1> DEFINE n == Len(caches)
           new(c) == IF c.name = x.name THEN [c EXCEPT !.entries[x.path] = x.resp] ELSE c
<1>1. caches \in Seq(CacheType) /\ n \in Nat /\ caches' = [i \in 1..n |-> new(caches[i])]
  BY DEF WorkerTypeOK, PutCopy
<1>2. ASSUME NEW c \in CacheType
      PROVE  /\ new(c) \in CacheType /\ new(c).name = c.name
             /\ \A p \in Paths : new(c).entries[p] =
                  IF c.name = x.name /\ p = x.path THEN x.resp ELSE c.entries[p]
  BY DEF CacheType, Copies, CopyType
<1> HIDE DEF new
<1>3. \A i \in 1..n : caches[i] \in CacheType
  BY <1>1
<1>4. caches' \in Seq(CacheType) /\ Len(caches') = n /\ \A i \in 1..n : caches'[i] = new(caches[i])
  BY <1>1, <1>2, <1>3
<1>5. Names' = Names
  BY <1>2, <1>3, <1>4 DEF Names
<1> QED BY <1>2, <1>3, <1>4, <1>5

LEMMA ActivationIsTyped ==
  ASSUME WorkerTypeOK
  PROVE  /\ activation.phase \in {"none", "keys", "delete", "done"}
         /\ activation.phase = "delete" =>
              activation \in [phase : {"delete"}, names : SUBSET AllNames]
BY DEF WorkerTypeOK

LEMMA EventIsTyped ==
  ASSUME WorkerTypeOK, NEW q \in Requests, event[q].phase # "none"
  PROVE  event[q] \in EventType
BY DEF WorkerTypeOK, NoEvent

LEMMA InstallKeeps == WorkerInv /\ Install => WorkerInv'
<1> SUFFICES ASSUME WorkerInv, Install PROVE WorkerInv'
  OBVIOUS
<1>1. WorkerTypeOK'
  BY DEF WorkerInv, WorkerTypeOK, Install
<1>2. activation'.phase = "keys" /\ worker' \in DOMAIN CacheName
  BY ScriptsHaveNames DEF Install, WorkerInv, WorkerTypeOK
<1> QED BY <1>1, <1>2 DEF WorkerInv, BeforeInstall, DeletionsInv, Install, Distinct

LEMMA ListCachesKeeps == WorkerInv /\ ListCaches => WorkerInv'
<1> SUFFICES ASSUME WorkerInv, ListCaches PROVE WorkerInv'
  OBVIOUS
<1>1. /\ activation' = [phase |-> "delete", names |-> Names \ {InCharge}]
      /\ UNCHANGED <<release, worker, caches, event, putting, seen, disturbed, late, fetches>>
      /\ activation.phase = "keys"
  BY DEF ListCaches, remembered, InCharge
<1>2. WorkerTypeOK'
  BY <1>1, NamesAreTyped DEF WorkerInv, WorkerTypeOK
<1>3. BeforeInstall'
  BY <1>1 DEF WorkerInv, BeforeInstall
<1>4. DeletionsInv'
  BY <1>1 DEF DeletionsInv, InCharge, Names
<1> QED BY <1>1, <1>2, <1>3, <1>4 DEF WorkerInv, Distinct

LEMMA DeleteCacheKeeps ==
  ASSUME WorkerInv, NEW name, DeleteCache(name)
  PROVE  WorkerInv'
<1>1. /\ activation.phase = "delete" /\ name \in activation.names
      /\ activation' = [activation EXCEPT !.names = @ \ {name}]
      /\ caches' = CachesWithout(name)
      /\ putting' \subseteq putting
      /\ UNCHANGED <<release, worker, event, seen, disturbed, late, fetches>>
  BY DEF DeleteCache, remembered
<1>2. activation \in [phase : {"delete"}, names : SUBSET AllNames]
  BY <1>1, ActivationIsTyped DEF WorkerInv
<1>3. /\ activation' \in [phase : {"delete"}, names : SUBSET AllNames]
      /\ activation'.names = activation.names \ {name} /\ activation'.phase = "delete"
  BY <1>1, <1>2
<1>4. /\ caches' \in Seq(CacheType) /\ Distinct(caches')
      /\ \A j \in 1..Len(caches') : \E i \in 1..Len(caches) :
           caches[i].name # name /\ caches'[j] = caches[i]
  BY <1>1, TakenOut DEF WorkerInv
<1>5. WorkerTypeOK'
  BY <1>1, <1>3, <1>4 DEF WorkerInv, WorkerTypeOK
<1>6. BeforeInstall'
  BY <1>1, <1>3 DEF WorkerInv, BeforeInstall
<1>7. Names' \subseteq Names \ {name}
  BY <1>4 DEF Names
<1>8. DeletionsInv'
  BY <1>1, <1>3, <1>7 DEF WorkerInv, DeletionsInv, InCharge
<1> QED BY <1>4, <1>5, <1>6, <1>8 DEF WorkerInv

LEMMA ClaimKeeps == WorkerInv /\ Claim => WorkerInv'
<1> SUFFICES ASSUME WorkerInv, Claim PROVE WorkerInv'
  OBVIOUS
<1>1. /\ activation.phase = "delete" /\ activation.names = {} /\ activation' = [phase |-> "done"]
      /\ UNCHANGED <<release, worker, caches, event, putting, seen, disturbed, late, fetches>>
  BY DEF Claim, remembered
<1>2. WorkerTypeOK'
  BY <1>1 DEF WorkerInv, WorkerTypeOK
<1>3. BeforeInstall'
  BY <1>1 DEF WorkerInv, BeforeInstall
<1>4. DeletionsInv'
  BY <1>1 DEF WorkerInv, DeletionsInv, InCharge, Names
<1> QED BY <1>1, <1>2, <1>3, <1>4 DEF WorkerInv, Distinct

(* Handlers of fetch events, apart from what they do to a cache. *)
LEMMA HandlersKeep ==
  ASSUME WorkerInv, NEW q \in Requests,
         \/ Handler(q)
         \/ \E p \in Paths : Fetch(q, p)
  PROVE  WorkerInv'
<1>1. UNCHANGED <<server, caches, late>>
  BY DEF Handler, NetworkAnswers, NetworkFails, MatchCaches, Fetch, remembered
<1>2. UNCHANGED <<release, worker, activation>>
  BY <1>1 DEF server
<1>3. activation.phase # "none"
  <2>1. CASE Handler(q)
    BY <2>1 DEF WorkerInv, BeforeInstall, Handler, NetworkAnswers, NetworkFails, MatchCaches, NoEvent
  <2>2. CASE \E p \in Paths : Fetch(q, p)
    BY <2>2 DEF Fetch
  <2> QED BY <2>1, <2>2
<1>4. WorkerTypeOK'
  <2>1. CASE NetworkAnswers(q)
    <3>1. event[q] \in EventType
      BY <2>1, EventIsTyped DEF WorkerInv, NetworkAnswers
    <3> DEFINE c == [no |-> event[q].no, name |-> event[q].cache, path |-> event[q].path,
                     resp |-> release, open |-> FALSE]
               a == [resp |-> release, name |-> event[q].cache]
    <3>2. c \in CopyType /\ a \in [resp : Responses, name : AllNames]
      BY <3>1 DEF WorkerInv, WorkerTypeOK, EventType, CopyType
    <3>3. /\ event' = [event EXCEPT ![q] = NoEvent] /\ putting' = putting \cup {c}
          /\ seen' = [seen EXCEPT ![event[q].path] = a]
          /\ UNCHANGED <<disturbed, fetches>>
      BY <2>1 DEF NetworkAnswers
    <3> HIDE DEF c, a
    <3> QED BY <1>1, <1>2, <3>2, <3>3 DEF WorkerInv, WorkerTypeOK
  <2>2. CASE NetworkFails(q)
    <3>1. event[q] \in EventType
      BY <2>2, EventIsTyped DEF WorkerInv, NetworkFails
    <3>2. [event[q] EXCEPT !.phase = "matching"] \in EventType
      BY <3>1 DEF EventType
    <3>3. event' = [event EXCEPT ![q] = [event[q] EXCEPT !.phase = "matching"]]
      BY <2>2 DEF NetworkFails, WorkerInv, WorkerTypeOK
    <3> QED BY <1>1, <1>2, <2>2, <3>2, <3>3 DEF WorkerInv, WorkerTypeOK, NetworkFails, remembered
  <2>3. CASE MatchCaches(q)
    BY <1>1, <1>2, <2>3 DEF WorkerInv, WorkerTypeOK, MatchCaches, remembered
  <2>4. ASSUME NEW p \in Paths, Fetch(q, p) PROVE WorkerTypeOK'
    <3> DEFINE e == [phase |-> "network", path |-> p, cache |-> CacheName[worker], no |-> fetches]
    <3>1. CacheName[worker] \in AllNames /\ fetches \in Nat
      BY <1>3 DEF WorkerInv, WorkerTypeOK, BeforeInstall, AllNames
    <3>2. e \in EventType
      BY <3>1 DEF EventType
    <3>3. event' = [event EXCEPT ![q] = e]
      BY <2>4 DEF Fetch
    <3> HIDE DEF e
    <3> QED BY <1>1, <1>2, <2>4, <3>1, <3>2, <3>3 DEF WorkerInv, WorkerTypeOK, Fetch
  <2> QED BY <2>1, <2>2, <2>3, <2>4 DEF Handler
<1>5. BeforeInstall' /\ DeletionsInv'
  BY <1>1, <1>2, <1>3 DEF WorkerInv, BeforeInstall, DeletionsInv, InCharge, Names
<1> QED BY <1>1, <1>4, <1>5 DEF WorkerInv, Distinct

LEMMA OpenCacheKeeps ==
  ASSUME WorkerInv, NEW x \in putting, OpenCache(x)
  PROVE  WorkerInv'
<1>1. x \in CopyType /\ activation.phase # "none"
  BY DEF WorkerInv, WorkerTypeOK, BeforeInstall
<1>2. /\ UNCHANGED <<release, worker, activation, event, seen, disturbed, fetches>>
      /\ putting' = (putting \ {x}) \cup {[x EXCEPT !.open = TRUE]}
      /\ late' = (late \/ x.name # InCharge)
  BY DEF OpenCache, server, InCharge
<1>3. /\ caches' \in Seq(CacheType) /\ Distinct(caches') /\ Names' = Names \cup {x.name}
  BY <1>1, Appending DEF WorkerInv
<1>4. [x EXCEPT !.open = TRUE] \in CopyType
  BY <1>1 DEF CopyType
<1>5. WorkerTypeOK'
  BY <1>2, <1>3, <1>4 DEF WorkerInv, WorkerTypeOK
<1>6. BeforeInstall'
  BY <1>1, <1>2 DEF WorkerInv, BeforeInstall
<1>7. DeletionsInv'
  BY <1>2, <1>3 DEF WorkerInv, DeletionsInv, InCharge
<1> QED BY <1>3, <1>5, <1>6, <1>7 DEF WorkerInv

LEMMA CopiesKeep ==
  ASSUME WorkerInv, NEW x \in putting, PutCopy(x) \/ PutFails(x)
  PROVE  WorkerInv'
<1>1. x \in CopyType /\ activation.phase # "none"
  BY DEF WorkerInv, WorkerTypeOK, BeforeInstall
<1>2. UNCHANGED <<release, worker, activation, event, seen, late, fetches>> /\ putting' \subseteq putting
  BY DEF PutCopy, PutFails, server
<1>3. disturbed' \subseteq Paths
  BY <1>1 DEF WorkerInv, WorkerTypeOK, CopyType, PutCopy, PutFails
<1>4. caches' \in Seq(CacheType) /\ Distinct(caches') /\ Names' = Names
  <2>1. CASE PutCopy(x)
    BY <1>1, <2>1, PuttingIn DEF WorkerInv, Distinct
  <2>2. CASE PutFails(x)
    BY <2>2 DEF WorkerInv, WorkerTypeOK, PutFails, Distinct, Names
  <2> QED BY <2>1, <2>2
<1>5. WorkerTypeOK'
  BY <1>2, <1>3, <1>4 DEF WorkerInv, WorkerTypeOK
<1>6. BeforeInstall' /\ DeletionsInv'
  BY <1>1, <1>2, <1>4 DEF WorkerInv, BeforeInstall, DeletionsInv, InCharge
<1> QED BY <1>4, <1>5, <1>6 DEF WorkerInv

LEMMA WorkerNextInv == WorkerInv /\ [WorkerNext]_workerVars => WorkerInv'
<1> SUFFICES ASSUME WorkerInv, [WorkerNext]_workerVars PROVE WorkerInv'
  OBVIOUS
<1>1. CASE Deploy
  <2>1. release' \in Responses
    BY <1>1, ScriptsAssumption DEF Deploy, WorkerInv, WorkerTypeOK, Responses
  <2>2. UNCHANGED <<worker, activation, caches, event, putting, seen, disturbed, late, fetches>>
    BY <1>1 DEF Deploy, remembered
  <2>3. WorkerTypeOK'
    BY <2>1, <2>2 DEF WorkerInv, WorkerTypeOK
  <2>4. BeforeInstall' /\ DeletionsInv' /\ Distinct(caches')
    BY <2>2 DEF WorkerInv, BeforeInstall, DeletionsInv, InCharge, Names
  <2> QED BY <2>3, <2>4 DEF WorkerInv
<1>2. CASE Install
  BY <1>2, InstallKeeps
<1>3. CASE ListCaches
  BY <1>3, ListCachesKeeps
<1>4. CASE Claim
  BY <1>4, ClaimKeeps
<1>5. ASSUME NEW name, DeleteCache(name) PROVE WorkerInv'
  BY <1>5, DeleteCacheKeeps
<1>6. ASSUME NEW q \in Requests, Handler(q) \/ \E p \in Paths : Fetch(q, p) PROVE WorkerInv'
  BY <1>6, HandlersKeep
<1>7. ASSUME NEW x \in putting, OpenCache(x) PROVE WorkerInv'
  BY <1>7, OpenCacheKeeps
<1>8. ASSUME NEW x \in putting, PutCopy(x) \/ PutFails(x) PROVE WorkerInv'
  BY <1>8, CopiesKeep
<1>9. CASE UNCHANGED workerVars
  <2>1. WorkerTypeOK'
    BY <1>9 DEF workerVars, WorkerInv, WorkerTypeOK
  <2>2. BeforeInstall' /\ DeletionsInv' /\ Distinct(caches')
    BY <1>9 DEF workerVars, WorkerInv, BeforeInstall, DeletionsInv, InCharge, Names
  <2> QED BY <2>1, <2>2 DEF WorkerInv
<1> QED BY <1>1, <1>2, <1>3, <1>4, <1>5, <1>6, <1>7, <1>8, <1>9
        DEF WorkerNext, Activation, Copying

(***************************************************************************)
(* When a worker has taken over, the caches of other names are gone, unless*)
(* a handler of a worker that was replaced has opened its own again.       *)
(***************************************************************************)
THEOREM OldOnesAreGone == WorkerSpec => []OldCachesAreGone
<1>1. WorkerInv => OldCachesAreGone
  BY DEF WorkerInv, DeletionsInv, OldCachesAreGone, InCharge
<1> QED BY <1>1, WorkerInitInv, WorkerNextInv, PTL DEF WorkerSpec

-----------------------------------------------------------------------------
(* What is found offline *)

(* The name of the cache is changed for good: releases with the same name
   follow one another. *)
NamesMoveOn ==
  \A i, j, k \in Responses :
    i <= j /\ j <= k /\ CacheName[Scripts[i]] = CacheName[Scripts[k]] =>
      CacheName[Scripts[j]] = CacheName[Scripts[i]]

Serves(q, p) == event[q].phase # "none" /\ event[q].path = p

(* The names of caches that handlers, copies and answers are for. *)
InUse ==
  {event[q].cache : q \in {r \in Requests : event[r].phase # "none"}}
    \cup {x.name : x \in putting}
    \cup {seen[p].name : p \in {r \in Paths : seen[r] # NoAnswer}}

(* They are names of the releases up to the one the worker is of. *)
OriginInv ==
  activation.phase # "none" =>
    \E i \in 1..release :
      worker = Scripts[i] /\ InUse \subseteq {CacheName[Scripts[j]] : j \in 1..i}

(* Of a path that is not disturbed one handler or copy at a time is under way. *)
OneAtATime ==
  \A p \in Paths \ disturbed :
    /\ \A q, r \in Requests : Serves(q, p) /\ Serves(r, p) => q = r
    /\ \A q \in Requests, x \in putting : Serves(q, p) => x.path # p
    /\ \A x, y \in putting : x.path = p /\ y.path = p => x = y

(* A copy on its way is what was seen last, and has its cache if it was opened. *)
CopiesOnTheirWay ==
  \A x \in putting :
    /\ x.open => x.name \in Names
    /\ x.path \notin disturbed => x.resp = seen[x.path].resp /\ x.name = seen[x.path].name

(* No cache but the worker's has a copy of the path. *)
EmptyElsewhere(cs, paths, names) ==
  \A i \in 1..Len(cs), p \in paths : cs[i].name \notin names => cs[i].entries[p] = NoAnswer

Clean == Paths \ disturbed

(* Until the old caches are deleted, nothing is found in the worker's that is
   shadowed by them: either they are empty, or the name is new. *)
ShadowsInv ==
  /\ activation.phase \in {"keys", "delete"} => EmptyElsewhere(caches, Clean, {InCharge}) \/ InCharge \notin InUse
  /\ activation.phase = "delete" => EmptyElsewhere(caches, Clean, {InCharge} \cup activation.names)
  /\ activation.phase = "done" => EmptyElsewhere(caches, Clean, {InCharge})

(* What was seen last is in the worker's cache, or on its way. *)
HasCopy(p) == \E i \in 1..Len(caches) : caches[i].name = InCharge /\ caches[i].entries[p] = seen[p].resp
OnItsWay(p) == \E x \in putting : x.path = p

KeptInv ==
  \A p \in Paths \ disturbed :
    seen[p] # NoAnswer /\ seen[p].name = InCharge => OnItsWay(p) \/ HasCopy(p)

CopiesInv == OriginInv /\ OneAtATime /\ CopiesOnTheirWay /\ ShadowsInv /\ KeptInv

LEMMA SomethingUnderWay ==
  ASSUME WorkerInv, \/ \E q \in Requests : event[q].phase # "none"
                    \/ putting # {}
  PROVE  activation.phase # "none"
BY DEF WorkerInv, BeforeInstall, NoEvent

LEMMA OriginStays ==
  ASSUME OriginInv, activation.phase # "none", worker' = worker, release' = release,
         InUse' \subseteq InUse \cup {InCharge}
  PROVE  OriginInv'
<1>1. PICK i \in 1..release :
        worker = Scripts[i] /\ InUse \subseteq {CacheName[Scripts[j]] : j \in 1..i}
  BY DEF OriginInv
<1>2. i \in 1..i
  OBVIOUS
<1>3. InUse' \subseteq {CacheName[Scripts[j]] : j \in 1..i}
  BY <1>1, <1>2 DEF InCharge
<1> QED BY <1>1, <1>3 DEF OriginInv

LEMMA ShadowsStay ==
  ASSUME ShadowsInv, UNCHANGED <<worker, activation>>,
         \/ InUse' \subseteq InUse
         \/ activation.phase = "done",
         \A names : EmptyElsewhere(caches, Clean, {InCharge} \cup names)
                      => EmptyElsewhere(caches', Clean', {InCharge} \cup names)
  PROVE  ShadowsInv'
<1>1. InCharge' = InCharge
  BY DEF InCharge
<1>2. {InCharge} \cup {} = {InCharge}
  OBVIOUS
<1>3. EmptyElsewhere(caches, Clean, {InCharge}) => EmptyElsewhere(caches', Clean', {InCharge})
  BY <1>2
<1>4. EmptyElsewhere(caches, Clean, {InCharge} \cup activation.names)
        => EmptyElsewhere(caches', Clean', {InCharge} \cup activation.names)
  OBVIOUS
<1> QED BY <1>1, <1>3, <1>4 DEF ShadowsInv

LEMMA CopiesAfterInstall ==
  ASSUME NamesMoveOn, WorkerInv, CopiesInv, Install
  PROVE  CopiesInv'
<1>1. /\ UNCHANGED <<release, caches, event, putting, seen, disturbed>>
      /\ worker' = Scripts[release] /\ activation' = [phase |-> "keys"]
      /\ activation.phase \in {"none", "done"}
  BY DEF Install
<1>2. InUse' = InUse /\ Names' = Names /\ release \in Responses /\ release \in 1..release
  BY <1>1 DEF InUse, Names, WorkerInv, WorkerTypeOK, Responses
<1>3. OneAtATime' /\ CopiesOnTheirWay'
  BY <1>1, <1>2 DEF CopiesInv, OneAtATime, CopiesOnTheirWay, Serves
<1>4. CASE activation.phase = "none"
  <2>1. InUse = {}
    BY <1>4 DEF WorkerInv, BeforeInstall, InUse, NoEvent
  <2>2. OriginInv' /\ ShadowsInv'
    BY <1>1, <1>2, <2>1 DEF OriginInv, ShadowsInv
  <2>3. KeptInv'
    BY <1>1, <1>4 DEF WorkerInv, BeforeInstall, KeptInv
  <2> QED BY <1>3, <2>2, <2>3 DEF CopiesInv
<1>5. CASE activation.phase = "done"
  <2>1. PICK i \in 1..release :
          worker = Scripts[i] /\ InUse \subseteq {CacheName[Scripts[j]] : j \in 1..i}
    BY <1>5 DEF CopiesInv, OriginInv
  <2>2. InUse \subseteq {CacheName[Scripts[j]] : j \in 1..release}
    <3>1. 1..i \subseteq 1..release
      BY <1>2, <2>1 DEF Responses
    <3> QED BY <2>1, <3>1
  <2>3. OriginInv'
    BY <1>1, <1>2, <2>2 DEF OriginInv
  <2>4. CASE InCharge' = InCharge
    <3>1. EmptyElsewhere(caches, Clean, {InCharge})
      BY <1>5 DEF CopiesInv, ShadowsInv
    <3>2. ShadowsInv'
      BY <1>1, <2>4, <3>1 DEF ShadowsInv, Clean
    <3>3. KeptInv'
      BY <1>1, <2>4 DEF CopiesInv, KeptInv, HasCopy, OnItsWay
    <3> QED BY <1>3, <2>3, <3>2, <3>3 DEF CopiesInv
  <2>5. CASE InCharge' # InCharge
    <3>1. InCharge' \notin InUse
      <4> SUFFICES ASSUME InCharge' \in InUse PROVE FALSE
        OBVIOUS
      <4>1. PICK j \in 1..i : InCharge' = CacheName[Scripts[j]]
        BY <2>1
      <4>2. InCharge' = CacheName[Scripts[release]] /\ InCharge = CacheName[Scripts[i]]
        BY <1>1, <2>1 DEF InCharge
      <4>3. j \in Responses /\ i \in Responses /\ j <= i /\ i <= release
        BY <1>2, <2>1 DEF Responses
      <4> QED BY <1>2, <2>5, <4>1, <4>2, <4>3 DEF NamesMoveOn
    <3>2. ShadowsInv'
      BY <1>1, <1>2, <3>1 DEF ShadowsInv
    <3>3. \A p \in Paths : seen[p] # NoAnswer => seen[p].name # InCharge'
      BY <3>1 DEF InUse
    <3>4. KeptInv'
      BY <1>1, <3>3 DEF KeptInv
    <3> QED BY <1>3, <2>3, <3>2, <3>4 DEF CopiesInv
  <2> QED BY <2>4, <2>5
<1> QED BY <1>1, <1>4, <1>5

LEMMA CopiesAfterDelete ==
  ASSUME WorkerInv, CopiesInv, NEW name, DeleteCache(name)
  PROVE  CopiesInv'
<1>1. /\ activation.phase = "delete" /\ name \in activation.names
      /\ activation' = [activation EXCEPT !.names = @ \ {name}]
      /\ caches' = CachesWithout(name)
      /\ putting' = {x \in putting : ~(x.open /\ x.name = name)}
      /\ UNCHANGED <<release, worker, event, seen, disturbed>>
  BY DEF DeleteCache, remembered
<1>2. activation'.names = activation.names \ {name} /\ activation'.phase = "delete"
  <2>1. activation \in [phase : {"delete"}, names : SUBSET AllNames]
    BY <1>1, ActivationIsTyped DEF WorkerInv
  <2> QED BY <1>1, <2>1
<1>3. InCharge' = InCharge /\ name # InCharge
  BY <1>1 DEF InCharge, WorkerInv, DeletionsInv
<1>4. /\ \A j \in 1..Len(caches') : \E i \in 1..Len(caches) :
           caches[i].name # name /\ caches'[j] = caches[i]
      /\ \A i \in 1..Len(caches) : caches[i].name # name =>
           \E j \in 1..Len(caches') : caches'[j] = caches[i]
  BY <1>1, TakenOut DEF WorkerInv
<1>5. InUse' \subseteq InUse
  BY <1>1 DEF InUse
<1>6. OriginInv'
  BY <1>1, <1>2, <1>5, OriginStays DEF CopiesInv
<1>7. OneAtATime'
  BY <1>1 DEF CopiesInv, OneAtATime, Serves
<1>8. CopiesOnTheirWay'
  <2>1. ASSUME NEW n \in Names, n # name
        PROVE  n \in Names'
    <3>1. PICK i \in 1..Len(caches) : caches[i].name = n
      BY <2>1 DEF Names
    <3>2. PICK j \in 1..Len(caches') : caches'[j] = caches[i]
      BY <1>4, <2>1, <3>1
    <3>3. caches'[j].name = n
      BY <3>1, <3>2
    <3> QED BY <3>3 DEF Names
  <2> QED BY <1>1, <2>1 DEF CopiesInv, CopiesOnTheirWay
<1>9. \A names : EmptyElsewhere(caches, Clean, names \cup {name})
                   => EmptyElsewhere(caches', Clean', names)
  BY <1>1, <1>4 DEF EmptyElsewhere, Clean
<1>10. ShadowsInv'
  <2>1. EmptyElsewhere(caches, Clean, {InCharge}) => EmptyElsewhere(caches, Clean, {InCharge} \cup {name})
    BY DEF EmptyElsewhere
  <2>2. ({InCharge} \cup activation'.names) \cup {name} = {InCharge} \cup activation.names
    BY <1>1, <1>2
  <2>3. EmptyElsewhere(caches, Clean, {InCharge}) => EmptyElsewhere(caches', Clean', {InCharge})
    BY <1>9, <2>1
  <2>4. EmptyElsewhere(caches, Clean, {InCharge} \cup activation.names)
          => EmptyElsewhere(caches', Clean', {InCharge} \cup activation'.names)
    BY <1>9, <2>2
  <2> QED BY <1>1, <1>2, <1>3, <1>5, <2>3, <2>4 DEF CopiesInv, ShadowsInv
<1>11. KeptInv'
  <2> SUFFICES ASSUME NEW p \in Paths, p \notin disturbed, seen[p] # NoAnswer,
                      seen[p].name = InCharge
               PROVE  OnItsWay(p)' \/ HasCopy(p)'
    BY <1>1, <1>3 DEF KeptInv
  <2>1. CASE OnItsWay(p)
    <3>1. PICK x \in putting : x.path = p
      BY <2>1 DEF OnItsWay
    <3>2. x.name # name
      BY <1>3, <3>1 DEF CopiesInv, CopiesOnTheirWay
    <3> QED BY <1>1, <3>1, <3>2 DEF OnItsWay
  <2>2. CASE HasCopy(p)
    <3>1. PICK i \in 1..Len(caches) : caches[i].name = InCharge /\ caches[i].entries[p] = seen[p].resp
      BY <2>2 DEF HasCopy
    <3>2. \E j \in 1..Len(caches') : caches'[j] = caches[i]
      BY <1>3, <1>4, <3>1
    <3> QED BY <1>1, <1>3, <3>1, <3>2 DEF HasCopy
  <2> QED BY <2>1, <2>2 DEF CopiesInv, KeptInv
<1> QED BY <1>6, <1>7, <1>8, <1>10, <1>11 DEF CopiesInv

(* What a step that neither fills nor adds a cache, nor a copy, leaves as it was. *)
LEMMA CachesUntouched ==
  ASSUME CopiesInv, UNCHANGED <<worker, release, activation, caches, seen>>,
         disturbed \subseteq disturbed'
  PROVE  /\ InCharge' = InCharge /\ Names' = Names /\ Clean' \subseteq Clean
         /\ \A p \in Clean' : HasCopy(p)' <=> HasCopy(p)
         /\ \A names : EmptyElsewhere(caches, Clean, {InCharge} \cup names)
                         => EmptyElsewhere(caches', Clean', {InCharge} \cup names)
<1>1. InCharge' = InCharge /\ Names' = Names /\ Clean' \subseteq Clean
  BY DEF InCharge, Names, Clean
<1>2. \A p \in Clean' : HasCopy(p)' <=> HasCopy(p)
  BY <1>1 DEF HasCopy
<1>3. \A names : EmptyElsewhere(caches, Clean, {InCharge} \cup names)
                   => EmptyElsewhere(caches', Clean', {InCharge} \cup names)
  BY <1>1 DEF EmptyElsewhere
<1> QED BY <1>1, <1>2, <1>3

LEMMA CopiesAfterListing ==
  ASSUME WorkerInv, CopiesInv, ListCaches
  PROVE  CopiesInv'
<1>1. /\ activation.phase = "keys"
      /\ activation' = [phase |-> "delete", names |-> Names \ {InCharge}]
      /\ UNCHANGED <<release, worker, caches, event, putting, seen, disturbed>>
  BY DEF ListCaches, remembered, InCharge
<1>2. InUse' = InUse /\ InCharge' = InCharge /\ Names' = Names /\ Clean' = Clean
  BY <1>1 DEF InUse, InCharge, Names, Clean
<1>3. OriginInv'
  BY <1>1, <1>2, OriginStays DEF CopiesInv
<1>4. OneAtATime' /\ CopiesOnTheirWay'
  BY <1>1, <1>2 DEF CopiesInv, OneAtATime, CopiesOnTheirWay, Serves
<1>5. EmptyElsewhere(caches, Clean, {InCharge} \cup (Names \ {InCharge}))
  BY DEF EmptyElsewhere, Names
<1>6. ShadowsInv'
  BY <1>1, <1>2, <1>5 DEF CopiesInv, ShadowsInv
<1>7. KeptInv'
  BY <1>1, <1>2 DEF CopiesInv, KeptInv, HasCopy, OnItsWay
<1> QED BY <1>3, <1>4, <1>6, <1>7 DEF CopiesInv

LEMMA CopiesAfterClaim ==
  ASSUME WorkerInv, CopiesInv, Claim
  PROVE  CopiesInv'
<1>1. /\ activation.phase = "delete" /\ activation.names = {}
      /\ activation' = [phase |-> "done"]
      /\ UNCHANGED <<release, worker, caches, event, putting, seen, disturbed>>
  BY DEF Claim, remembered
<1>2. InUse' = InUse /\ InCharge' = InCharge /\ Names' = Names /\ Clean' = Clean
  BY <1>1 DEF InUse, InCharge, Names, Clean
<1>3. OriginInv'
  BY <1>1, <1>2, OriginStays DEF CopiesInv
<1>4. OneAtATime' /\ CopiesOnTheirWay'
  BY <1>1, <1>2 DEF CopiesInv, OneAtATime, CopiesOnTheirWay, Serves
<1>5. {InCharge} \cup activation.names = {InCharge}
  BY <1>1
<1>6. ShadowsInv'
  BY <1>1, <1>2, <1>5 DEF CopiesInv, ShadowsInv
<1>7. KeptInv'
  BY <1>1, <1>2 DEF CopiesInv, KeptInv, HasCopy, OnItsWay
<1> QED BY <1>3, <1>4, <1>6, <1>7 DEF CopiesInv

LEMMA CopiesAfterFetch ==
  ASSUME WorkerInv, CopiesInv, NEW q \in Requests, NEW p \in Paths, Fetch(q, p)
  PROVE  CopiesInv'
<1> DEFINE e == [phase |-> "network", path |-> p, cache |-> InCharge, no |-> fetches]
<1>1. /\ event[q].phase = "none" /\ activation.phase = "done"
      /\ event' = [event EXCEPT ![q] = e]
      /\ disturbed' = IF Busy(p) THEN disturbed \cup {p} ELSE disturbed
      /\ UNCHANGED <<release, worker, activation, caches, putting, seen>>
  BY DEF Fetch, server, InCharge
<1>2. /\ event'[q] = e /\ \A r \in Requests : r # q => event'[r] = event[r]
      /\ e.path = p /\ e.cache = InCharge /\ e.phase # "none"
  BY <1>1 DEF WorkerInv, WorkerTypeOK
<1> HIDE DEF e
<1>3. InUse' \subseteq InUse \cup {InCharge}
  BY <1>1, <1>2 DEF InUse
<1>4. disturbed \subseteq disturbed'
  BY <1>1
<1>5. OriginInv'
  BY <1>1, <1>3, OriginStays DEF CopiesInv
<1>6. OneAtATime'
  <2>1. \A r \in Requests, s \in Paths : Serves(r, s)' <=> (Serves(r, s) \/ (r = q /\ s = p))
    BY <1>1, <1>2 DEF Serves
  <2>2. p \notin disturbed' => (\A r \in Requests : ~Serves(r, p)) /\ \A x \in putting : x.path # p
    BY <1>1 DEF Busy, Serves
  <2> QED BY <1>1, <1>4, <2>1, <2>2 DEF CopiesInv, OneAtATime
<1>7. CopiesOnTheirWay'
  BY <1>1, <1>4, CachesUntouched DEF CopiesInv, CopiesOnTheirWay
<1>8. ShadowsInv'
  BY <1>1, <1>4, CachesUntouched, ShadowsStay DEF CopiesInv
<1>9. KeptInv'
  BY <1>1, <1>4, CachesUntouched DEF CopiesInv, KeptInv, OnItsWay, Clean
<1> QED BY <1>5, <1>6, <1>7, <1>8, <1>9 DEF CopiesInv

LEMMA CopiesAfterAnswer ==
  ASSUME WorkerInv, CopiesInv, NEW q \in Requests, NetworkAnswers(q)
  PROVE  CopiesInv'
<1> DEFINE p == event[q].path
           c == [no |-> event[q].no, name |-> event[q].cache, path |-> p, resp |-> release,
                 open |-> FALSE]
           a == [resp |-> release, name |-> event[q].cache]
<1>1. /\ event[q].phase = "network" /\ event' = [event EXCEPT ![q] = NoEvent]
      /\ putting' = putting \cup {c} /\ seen' = [seen EXCEPT ![p] = a]
      /\ UNCHANGED <<release, worker, activation, caches, disturbed>>
  BY DEF NetworkAnswers, server
<1>2. event[q] \in EventType /\ p \in Paths /\ Serves(q, p)
  BY <1>1, EventIsTyped DEF WorkerInv, EventType, Serves
<1>3. /\ event'[q].phase = "none" /\ \A r \in Requests : r # q => event'[r] = event[r]
      /\ c.path = p /\ c.name = event[q].cache /\ c.resp = release /\ ~c.open
      /\ seen'[p] = a /\ \A s \in Paths : s # p => seen'[s] = seen[s]
      /\ a.resp = release /\ a.name = event[q].cache
  BY <1>1, <1>2 DEF WorkerInv, WorkerTypeOK, NoEvent
<1> HIDE DEF c, a
<1>4. event[q].cache \in InUse
  BY <1>1 DEF InUse
<1>5. InUse' \subseteq InUse
  BY <1>1, <1>3, <1>4 DEF InUse
<1>6. activation.phase # "none"
  BY <1>1, SomethingUnderWay
<1>7. OriginInv'
  BY <1>1, <1>5, <1>6, OriginStays DEF CopiesInv
<1>8. p \notin disturbed => \A x \in putting : x.path # p
  BY <1>2 DEF CopiesInv, OneAtATime
<1>9. OneAtATime'
  <2>1. \A r \in Requests, s \in Paths : Serves(r, s)' => Serves(r, s) /\ r # q
    BY <1>3 DEF Serves
  <2>2. \A r \in Requests : p \notin disturbed /\ r # q => ~Serves(r, p)
    BY <1>2 DEF CopiesInv, OneAtATime
  <2> HIDE DEF p
  <2>3. ASSUME NEW s \in Paths, s \notin disturbed, NEW x \in putting', NEW y \in putting',
               x.path = s, y.path = s
        PROVE  x = y
    BY <1>1, <1>3, <1>8, <2>3 DEF CopiesInv, OneAtATime
  <2>4. ASSUME NEW s \in Paths, s \notin disturbed, NEW r \in Requests, Serves(r, s)',
               NEW x \in putting'
        PROVE  x.path # s
    BY <1>1, <1>3, <2>1, <2>2, <2>4 DEF CopiesInv, OneAtATime
  <2> QED BY <1>1, <2>1, <2>3, <2>4 DEF CopiesInv, OneAtATime
<1>10. Names' = Names /\ InCharge' = InCharge
  BY <1>1 DEF Names, InCharge
<1>11. CopiesOnTheirWay'
  <2> HIDE DEF p
  <2>1. ASSUME NEW x \in putting
        PROVE  /\ x.open => x.name \in Names
               /\ x.path \notin disturbed => x.resp = seen'[x.path].resp /\ x.name = seen'[x.path].name
    <3>1. x.path \in Paths
      BY DEF WorkerInv, WorkerTypeOK, CopyType
    <3> QED BY <1>3, <1>8, <3>1 DEF CopiesInv, CopiesOnTheirWay
  <2> QED BY <1>1, <1>3, <1>10, <2>1 DEF CopiesOnTheirWay
<1>12. \A names : EmptyElsewhere(caches, Clean, {InCharge} \cup names)
                    => EmptyElsewhere(caches', Clean', {InCharge} \cup names)
  BY <1>1 DEF Clean
<1>13. ShadowsInv'
  BY <1>1, <1>5, <1>12, ShadowsStay DEF CopiesInv
<1>14. KeptInv'
  <2> HIDE DEF p
  <2>1. ASSUME NEW s \in Paths, s = p PROVE OnItsWay(s)'
    BY <1>1, <1>3, <2>1 DEF OnItsWay
  <2>2. ASSUME NEW s \in Paths, s \notin disturbed, s # p, seen'[s] # NoAnswer,
               seen'[s].name = InCharge
        PROVE  OnItsWay(s)' \/ HasCopy(s)'
    <3>1. OnItsWay(s) \/ HasCopy(s)
      BY <1>3, <2>2 DEF CopiesInv, KeptInv
    <3> QED BY <1>1, <1>3, <1>10, <2>2, <3>1 DEF OnItsWay, HasCopy
  <2> QED BY <1>1, <1>10, <2>1, <2>2 DEF KeptInv
<1> QED BY <1>7, <1>9, <1>11, <1>13, <1>14 DEF CopiesInv

LEMMA CopiesAfterFailure ==
  ASSUME WorkerInv, CopiesInv, NEW q \in Requests, NetworkFails(q) \/ MatchCaches(q)
  PROVE  CopiesInv'
<1>1. /\ event[q].phase # "none"
      /\ UNCHANGED <<release, worker, activation, caches, putting, seen, disturbed>>
  BY DEF NetworkFails, MatchCaches, server, remembered
<1>2. event[q] \in EventType
  BY <1>1, EventIsTyped DEF WorkerInv
<1>3. \A r \in Requests : event'[r].phase # "none" =>
        event[r].phase # "none" /\ event'[r].path = event[r].path /\ event'[r].cache = event[r].cache
  <2>1. CASE NetworkFails(q)
    BY <1>1, <1>2, <2>1 DEF NetworkFails, WorkerInv, WorkerTypeOK, EventType
  <2>2. CASE MatchCaches(q)
    BY <2>2 DEF MatchCaches, WorkerInv, WorkerTypeOK, NoEvent
  <2> QED BY <2>1, <2>2
<1>4. InUse' \subseteq InUse
  BY <1>1, <1>3 DEF InUse
<1>5. activation.phase # "none"
  BY <1>1, SomethingUnderWay
<1>6. OriginInv'
  BY <1>1, <1>4, <1>5, OriginStays DEF CopiesInv
<1>7. OneAtATime'
  BY <1>1, <1>3 DEF CopiesInv, OneAtATime, Serves
<1>8. CopiesOnTheirWay'
  BY <1>1, CachesUntouched DEF CopiesInv, CopiesOnTheirWay
<1>9. ShadowsInv'
  BY <1>1, <1>4, CachesUntouched, ShadowsStay DEF CopiesInv
<1>10. KeptInv'
  BY <1>1, CachesUntouched DEF CopiesInv, KeptInv, OnItsWay, Clean
<1> QED BY <1>6, <1>7, <1>8, <1>9, <1>10 DEF CopiesInv

LEMMA CopiesAfterOpen ==
  ASSUME WorkerInv, CopiesInv, NEW x \in putting, OpenCache(x)
  PROVE  CopiesInv'
<1> DEFINE y == [x EXCEPT !.open = TRUE]
<1>1. /\ putting' = (putting \ {x}) \cup {y}
      /\ UNCHANGED <<release, worker, activation, event, seen, disturbed>>
  BY DEF OpenCache, server
<1>2. x \in CopyType /\ activation.phase # "none"
  BY DEF WorkerInv, WorkerTypeOK, BeforeInstall
<1>3. y.path = x.path /\ y.name = x.name /\ y.resp = x.resp /\ y.open
  BY <1>2 DEF CopyType
<1> HIDE DEF y
<1>4. /\ Len(caches) <= Len(caches') /\ Len(caches) \in Nat /\ Len(caches') \in Nat
      /\ \A i \in 1..Len(caches) : caches'[i] = caches[i]
      /\ \A i \in 1..Len(caches') : i \notin 1..Len(caches) =>
           caches'[i] = [name |-> x.name, entries |-> [p \in Paths |-> NoAnswer]]
      /\ Names' = Names \cup {x.name}
  <2>1. caches \in Seq(CacheType) /\ caches' \in Seq(CacheType)
    BY <1>2, Appending DEF WorkerInv, WorkerTypeOK
  <2> QED BY <1>2, <2>1, Appending DEF WorkerInv
<1>5. InCharge' = InCharge /\ Clean' = Clean /\ 1..Len(caches) \subseteq 1..Len(caches')
  BY <1>1, <1>4 DEF InCharge, Clean
<1>6. InUse' \subseteq InUse
  BY <1>1, <1>3 DEF InUse
<1>7. OriginInv'
  BY <1>1, <1>2, <1>6, OriginStays DEF CopiesInv
<1>8. OneAtATime'
  <2>1. \A q, r \in Requests, p \in Paths : Serves(q, p)' <=> Serves(q, p)
    BY <1>1 DEF Serves
  <2> QED BY <1>1, <1>3, <2>1 DEF CopiesInv, OneAtATime
<1>9. CopiesOnTheirWay'
  BY <1>1, <1>3, <1>4 DEF CopiesInv, CopiesOnTheirWay
<1>10. \A names : EmptyElsewhere(caches, Clean, {InCharge} \cup names)
                    => EmptyElsewhere(caches', Clean', {InCharge} \cup names)
  <2>1. \A i \in 1..Len(caches'), p \in Clean :
          i \notin 1..Len(caches) => caches'[i].entries[p] = NoAnswer
    BY <1>4 DEF Clean
  <2> QED BY <1>4, <1>5, <2>1 DEF EmptyElsewhere
<1>11. ShadowsInv'
  BY <1>1, <1>6, <1>10, ShadowsStay DEF CopiesInv
<1>12. KeptInv'
  <2> SUFFICES ASSUME NEW p \in Paths, p \notin disturbed, seen[p] # NoAnswer,
                      seen[p].name = InCharge
               PROVE  OnItsWay(p)' \/ HasCopy(p)'
    BY <1>1, <1>5 DEF KeptInv
  <2>1. CASE OnItsWay(p)
    BY <1>1, <1>3, <2>1 DEF OnItsWay
  <2>2. CASE HasCopy(p)
    BY <1>1, <1>4, <1>5, <2>2 DEF HasCopy
  <2> QED BY <2>1, <2>2 DEF CopiesInv, KeptInv
<1> QED BY <1>7, <1>8, <1>9, <1>11, <1>12 DEF CopiesInv

LEMMA CopiesAfterPut ==
  ASSUME WorkerInv, CopiesInv, NEW x \in putting, PutCopy(x)
  PROVE  CopiesInv'
<1>1. /\ putting' = putting \ {x} /\ x.open
      /\ disturbed' = IF x.name # InCharge THEN disturbed \cup {x.path} ELSE disturbed
      /\ UNCHANGED <<release, worker, activation, event, seen>>
  BY DEF PutCopy, server, InCharge
<1>2. x \in CopyType /\ activation.phase # "none"
  BY DEF WorkerInv, WorkerTypeOK, BeforeInstall
<1>3. /\ Len(caches') = Len(caches) /\ Names' = Names
      /\ \A i \in 1..Len(caches) :
           /\ caches'[i].name = caches[i].name
           /\ \A p \in Paths : caches'[i].entries[p] =
                IF caches[i].name = x.name /\ p = x.path THEN x.resp ELSE caches[i].entries[p]
  BY <1>2, PuttingIn DEF WorkerInv
<1>4. InCharge' = InCharge /\ Clean' \subseteq Clean /\ (x.name # InCharge => x.path \notin Clean')
  BY <1>1 DEF InCharge, Clean
<1>5. InUse' \subseteq InUse
  BY <1>1 DEF InUse
<1>6. OriginInv'
  BY <1>1, <1>2, <1>5, OriginStays DEF CopiesInv
<1>7. OneAtATime'
  BY <1>1 DEF CopiesInv, OneAtATime, Serves
<1>8. CopiesOnTheirWay'
  BY <1>1, <1>3 DEF CopiesInv, CopiesOnTheirWay
<1>9. \A names : EmptyElsewhere(caches, Clean, {InCharge} \cup names)
                   => EmptyElsewhere(caches', Clean', {InCharge} \cup names)
  BY <1>3, <1>4 DEF EmptyElsewhere, Clean
<1>10. ShadowsInv'
  BY <1>1, <1>5, <1>9, ShadowsStay DEF CopiesInv
<1>11. KeptInv'
  <2> SUFFICES ASSUME NEW p \in Paths, p \notin disturbed', seen[p] # NoAnswer,
                      seen[p].name = InCharge
               PROVE  OnItsWay(p)' \/ HasCopy(p)'
    BY <1>1, <1>4 DEF KeptInv
  <2>1. p \notin disturbed
    BY <1>1
  <2>2. ASSUME x.path = p PROVE HasCopy(p)'
    <3>1. x.name = InCharge /\ x.resp = seen[p].resp /\ x.name \in Names
      BY <1>1, <2>1, <2>2 DEF CopiesInv, CopiesOnTheirWay
    <3>2. PICK i \in 1..Len(caches) : caches[i].name = InCharge
      BY <3>1 DEF Names
    <3> QED BY <1>1, <1>3, <1>4, <2>2, <3>1, <3>2 DEF HasCopy
  <2>3. ASSUME x.path # p, OnItsWay(p) PROVE OnItsWay(p)'
    BY <1>1, <2>3 DEF OnItsWay
  <2>4. ASSUME x.path # p, HasCopy(p) PROVE HasCopy(p)'
    BY <1>1, <1>3, <1>4, <2>4 DEF HasCopy
  <2> QED BY <2>1, <2>2, <2>3, <2>4 DEF CopiesInv, KeptInv
<1> QED BY <1>6, <1>7, <1>8, <1>10, <1>11 DEF CopiesInv

LEMMA CopiesAfterPutFails ==
  ASSUME WorkerInv, CopiesInv, NEW x \in putting, PutFails(x)
  PROVE  CopiesInv'
<1>1. /\ putting' = putting \ {x} /\ disturbed' = disturbed \cup {x.path}
      /\ UNCHANGED <<release, worker, activation, caches, event, seen>>
  BY DEF PutFails, server
<1>2. activation.phase # "none" /\ disturbed \subseteq disturbed'
  BY <1>1 DEF WorkerInv, BeforeInstall
<1>3. InUse' \subseteq InUse
  BY <1>1 DEF InUse
<1>4. OriginInv'
  BY <1>1, <1>2, <1>3, OriginStays DEF CopiesInv
<1>5. OneAtATime'
  BY <1>1 DEF CopiesInv, OneAtATime, Serves
<1>6. CopiesOnTheirWay'
  BY <1>1, <1>2, CachesUntouched DEF CopiesInv, CopiesOnTheirWay
<1>7. ShadowsInv'
  BY <1>1, <1>2, <1>3, CachesUntouched, ShadowsStay DEF CopiesInv
<1>8. KeptInv'
  BY <1>1, <1>2, CachesUntouched DEF CopiesInv, KeptInv, OnItsWay, Clean
<1> QED BY <1>4, <1>5, <1>6, <1>7, <1>8 DEF CopiesInv

LEMMA CopiesAfterDeploy ==
  ASSUME WorkerInv, CopiesInv, Deploy
  PROVE  CopiesInv'
<1>1. /\ release \in Nat /\ release' = release + 1
      /\ UNCHANGED <<worker, activation, caches, event, putting, seen, disturbed>>
  BY DEF Deploy, remembered, WorkerInv, WorkerTypeOK, Responses
<1>2. InUse' = InUse /\ InCharge' = InCharge /\ Names' = Names /\ Clean' = Clean
      /\ 1..release \subseteq 1..release'
  BY <1>1 DEF InUse, InCharge, Names, Clean
<1>3. OriginInv'
  BY <1>1, <1>2 DEF CopiesInv, OriginInv
<1>4. OneAtATime' /\ CopiesOnTheirWay'
  BY <1>1, <1>2 DEF CopiesInv, OneAtATime, CopiesOnTheirWay, Serves
<1>5. ShadowsInv'
  BY <1>1, <1>2 DEF CopiesInv, ShadowsInv
<1>6. KeptInv'
  BY <1>1, <1>2 DEF CopiesInv, KeptInv, HasCopy, OnItsWay
<1> QED BY <1>3, <1>4, <1>5, <1>6 DEF CopiesInv

LEMMA CopiesInit == WorkerInit => CopiesInv
<1> SUFFICES ASSUME WorkerInit PROVE CopiesInv
  OBVIOUS
<1>1. /\ activation.phase = "none" /\ putting = {}
      /\ \A q \in Requests : event[q].phase = "none"
      /\ \A p \in Paths : seen[p] = NoAnswer
  BY DEF WorkerInit, NoEvent
<1> QED BY <1>1 DEF CopiesInv, OriginInv, OneAtATime, CopiesOnTheirWay, ShadowsInv, KeptInv, Serves

LEMMA CopiesNext ==
  ASSUME NamesMoveOn, WorkerInv, CopiesInv, [WorkerNext]_workerVars
  PROVE  CopiesInv'
<1>1. CASE Deploy
  BY <1>1, CopiesAfterDeploy
<1>2. CASE Install
  BY <1>2, CopiesAfterInstall
<1>3. CASE ListCaches
  BY <1>3, CopiesAfterListing
<1>4. CASE Claim
  BY <1>4, CopiesAfterClaim
<1>5. ASSUME NEW name, DeleteCache(name) PROVE CopiesInv'
  BY <1>5, CopiesAfterDelete
<1>6. ASSUME NEW q \in Requests, NEW p \in Paths, Fetch(q, p) PROVE CopiesInv'
  BY <1>6, CopiesAfterFetch
<1>7. ASSUME NEW q \in Requests, Handler(q) PROVE CopiesInv'
  BY <1>7, CopiesAfterAnswer, CopiesAfterFailure DEF Handler
<1>8. ASSUME NEW x \in putting, OpenCache(x) PROVE CopiesInv'
  BY <1>8, CopiesAfterOpen
<1>9. ASSUME NEW x \in putting, PutCopy(x) PROVE CopiesInv'
  BY <1>9, CopiesAfterPut
<1>10. ASSUME NEW x \in putting, PutFails(x) PROVE CopiesInv'
  BY <1>10, CopiesAfterPutFails
<1>11. CASE UNCHANGED workerVars
  <2>1. UNCHANGED <<release, worker, activation, caches, event, putting, seen, disturbed>>
    BY <1>11 DEF workerVars
  <2>2. InUse' = InUse /\ InCharge' = InCharge /\ Names' = Names /\ Clean' = Clean
    BY <2>1 DEF InUse, InCharge, Names, Clean
  <2>3. OriginInv' /\ ShadowsInv'
    BY <2>1, <2>2 DEF CopiesInv, OriginInv, ShadowsInv
  <2>4. OneAtATime' /\ CopiesOnTheirWay'
    BY <2>1, <2>2 DEF CopiesInv, OneAtATime, CopiesOnTheirWay, Serves
  <2>5. KeptInv'
    BY <2>1, <2>2 DEF CopiesInv, KeptInv, HasCopy, OnItsWay
  <2> QED BY <2>3, <2>4, <2>5 DEF CopiesInv
<1> QED BY <1>1, <1>2, <1>3, <1>4, <1>5, <1>6, <1>7, <1>8, <1>9, <1>10, <1>11
        DEF WorkerNext, Activation, Copying

(* The copy found of a path is the one of the worker's cache when no other has one. *)
LEMMA FoundInOne ==
  ASSUME WorkerInv, NEW p \in Clean, EmptyElsewhere(caches, Clean, {InCharge}),
         NEW i \in 1..Len(caches), caches[i].name = InCharge, caches[i].entries[p] # NoAnswer
  PROVE  Stored(p) = caches[i].entries[p]
<1> DEFINE having == {j \in 1..Len(caches) : caches[j].entries[p] # NoAnswer}
<1>1. having = {i}
  BY DEF EmptyElsewhere, WorkerInv, Distinct
<1>2. i \in Int
  OBVIOUS
<1>3. Min({i}) = i
  BY <1>2 DEF Min
<1> QED BY <1>1, <1>3 DEF Stored

(***************************************************************************)
(* When a name, once given up, is not used again for a cache, the page     *)
(* finds offline what it last saw online, whatever the releases.           *)
(***************************************************************************)
THEOREM OfflineIsLastSeen ==
  ASSUME NamesMoveOn
  PROVE  WorkerSpec => []OfflineCopyIsLastSeen
<1>1. ASSUME WorkerInv, CopiesInv PROVE OfflineCopyIsLastSeen
  <2> SUFFICES ASSUME NEW p \in Paths \ disturbed, seen[p] # NoAnswer, seen[p].name = InCharge,
                      \A x \in putting : x.path # p
               PROVE  Stored(p) = seen[p].resp
    BY DEF OfflineCopyIsLastSeen, InCharge
  <2>1. PICK i \in 1..Len(caches) : caches[i].name = InCharge /\ caches[i].entries[p] = seen[p].resp
    BY <1>1 DEF CopiesInv, KeptInv, OnItsWay, HasCopy
  <2>2. seen[p].resp # NoAnswer /\ InCharge \in InUse /\ activation.phase # "none"
    BY <1>1, AnswerAssumption DEF WorkerInv, WorkerTypeOK, BeforeInstall, Responses, InUse
  <2>3. EmptyElsewhere(caches, Clean, {InCharge})
    BY <1>1, <2>2, ActivationIsTyped DEF CopiesInv, ShadowsInv, WorkerInv
  <2> QED BY <1>1, <2>1, <2>2, <2>3, FoundInOne DEF Clean
<1>2. WorkerInit => CopiesInv
  BY CopiesInit
<1>3. WorkerInv /\ CopiesInv /\ [WorkerNext]_workerVars => CopiesInv'
  BY CopiesNext
<1> QED BY <1>1, <1>2, <1>3, WorkerInitInv, WorkerNextInv, PTL DEF WorkerSpec

-----------------------------------------------------------------------------
(* Sequences put in order by counting *)

(* The members of S are listed each once, x at the place that counts those
   that come no later. *)
LEMMA ListedInOrder ==
  ASSUME NEW S, IsFiniteSet(S), NEW upto \in [S -> SUBSET S],
         \A x \in S : x \in upto[x],
         \A x, y \in S : \/ upto[x] \subseteq upto[y]
                         \/ upto[y] \subseteq upto[x],
         \A x, y \in S : upto[x] = upto[y] => x = y
  PROVE  /\ Cardinality(S) \in Nat
         /\ Listed(upto) \in [1..Cardinality(S) -> S]
         /\ \A n \in 1..Cardinality(S) : Cardinality(upto[Listed(upto)[n]]) = n
         /\ \A x \in S : /\ Cardinality(upto[x]) \in 1..Cardinality(S)
                         /\ Listed(upto)[Cardinality(upto[x])] = x
<1> DEFINE N == Cardinality(S)
           rank == [x \in S |-> Cardinality(upto[x])]
<1>1. N \in Nat /\ IsFiniteSet(1..N) /\ Cardinality(1..N) = N
  BY FS_CardinalityType, FS_Interval
<1>2. ASSUME NEW x \in S PROVE IsFiniteSet(upto[x]) /\ Cardinality(upto[x]) \in 1..N
  <2>1. IsFiniteSet(upto[x]) /\ Cardinality(upto[x]) <= N
    BY FS_Subset
  <2>2. Cardinality(upto[x]) \in Nat /\ Cardinality(upto[x]) # 0
    BY <2>1, FS_CardinalityType, FS_EmptySet
  <2> QED BY <1>1, <2>1, <2>2
<1>3. ASSUME NEW x \in S, NEW y \in S, Cardinality(upto[x]) = Cardinality(upto[y]) PROVE x = y
  <2>1. upto[x] = upto[y]
    BY <1>2, <1>3, FS_Subset
  <2> QED BY <2>1
<1>4. rank \in Injection(S, 1..N)
  BY <1>2, <1>3 DEF Injection, IsInjective
<1>5. rank \in Surjection(S, 1..N)
  BY <1>1, <1>4, FS_Injection
<1>6. ASSUME NEW n \in 1..N
      PROVE  Listed(upto)[n] \in S /\ Cardinality(upto[Listed(upto)[n]]) = n
  <2>1. \E x \in S : Cardinality(upto[x]) = n
    BY <1>5 DEF Surjection
  <2>2. Listed(upto)[n] = CHOOSE x \in S : Cardinality(upto[x]) = n
    BY DEF Listed
  <2> QED BY <2>1, <2>2
<1>7. Listed(upto) \in [1..N -> S]
  BY <1>6 DEF Listed
<1>8. ASSUME NEW x \in S PROVE Listed(upto)[Cardinality(upto[x])] = x
  BY <1>2, <1>3, <1>6
<1> QED BY <1>1, <1>2, <1>6, <1>7, <1>8

LEMMA AscendingOrder ==
  ASSUME NEW S \in SUBSET Nat, IsFiniteSet(S)
  PROVE  /\ Cardinality(S) \in Nat
         /\ Ascending(S) \in Seq(S) /\ Len(Ascending(S)) = Cardinality(S)
         /\ \A m, n \in 1..Cardinality(S) : m < n => Ascending(S)[m] < Ascending(S)[n]
         /\ \A n \in 1..Cardinality(S) : Cardinality({k \in S : k <= Ascending(S)[n]}) = n
         /\ \A x \in S : \E n \in 1..Cardinality(S) : Ascending(S)[n] = x
<1> DEFINE upto == [n \in S |-> {m \in S : m <= n}]
           N == Cardinality(S)
           a == Ascending(S)
<1>1. /\ upto \in [S -> SUBSET S] /\ \A x \in S : x \in upto[x]
      /\ \A x, y \in S : upto[x] \subseteq upto[y] \/ upto[y] \subseteq upto[x]
  <2>1. \A x \in S : x \in Nat
    OBVIOUS
  <2>2. upto \in [S -> SUBSET S]
    OBVIOUS
  <2>3. \A x \in S : upto[x] = {m \in S : m <= x}
    OBVIOUS
  <2> HIDE DEF upto
  <2>4. \A x \in S : x \in upto[x]
    BY <2>1, <2>3
  <2>5. ASSUME NEW x \in S, NEW y \in S PROVE upto[x] \subseteq upto[y] \/ upto[y] \subseteq upto[x]
    <3>1. CASE x <= y
      <4>1. \A m \in S : m <= x => m <= y
        BY <2>1, <3>1
      <4> QED BY <2>3, <4>1
    <3>2. CASE y <= x
      <4>1. \A m \in S : m <= y => m <= x
        BY <2>1, <3>2
      <4> QED BY <2>3, <4>1
    <3> QED BY <2>1, <3>1, <3>2
  <2> QED BY <2>2, <2>4, <2>5
<1>2. ASSUME NEW x \in S, NEW y \in S, upto[x] = upto[y] PROVE x = y
  <2>1. x \in upto[y] /\ y \in upto[x]
    BY <1>1, <1>2
  <2>2. x <= y /\ y <= x
    BY <2>1
  <2>3. x \in Nat /\ y \in Nat
    OBVIOUS
  <2> QED BY <2>2, <2>3
<1>3. a = [n \in 1..N |-> CHOOSE x \in S : Cardinality({m \in S : m <= x}) = n]
  BY DEF Ascending
<1>4. /\ N \in Nat /\ a \in [1..N -> S]
      /\ \A n \in 1..N : Cardinality(upto[a[n]]) = n
      /\ \A x \in S : Cardinality(upto[x]) \in 1..N /\ a[Cardinality(upto[x])] = x
  <2> DEFINE e == Listed(upto)
  <2> HIDE DEF upto
  <2>1. /\ N \in Nat
        /\ e \in [1..N -> S]
        /\ \A n \in 1..N : Cardinality(upto[e[n]]) = n
        /\ \A x \in S : Cardinality(upto[x]) \in 1..N /\ e[Cardinality(upto[x])] = x
    BY <1>1, <1>2, ListedInOrder
  <2> HIDE DEF e
  <2>2. \A x \in S : upto[x] = {m \in S : m <= x}
    BY DEF upto
  <2>3. ASSUME NEW n \in 1..N PROVE a[n] \in S /\ Cardinality(upto[a[n]]) = n
    <3>1. \E x \in S : Cardinality({m \in S : m <= x}) = n
      <4>1. e[n] \in S /\ Cardinality(upto[e[n]]) = n
        BY <2>1
      <4>2. Cardinality({m \in S : m <= e[n]}) = n
        BY <2>2, <4>1
      <4> QED BY <4>1, <4>2
    <3>2. a[n] = CHOOSE x \in S : Cardinality({m \in S : m <= x}) = n
      BY <1>3
    <3>3. a[n] \in S /\ Cardinality({m \in S : m <= a[n]}) = n
      BY <3>1, <3>2
    <3> QED BY <2>2, <3>3
  <2> HIDE DEF N, a
  <2>4. a \in [1..N -> S]
    BY <1>3, <2>3
  <2>5. ASSUME NEW x \in S PROVE Cardinality(upto[x]) \in 1..N /\ a[Cardinality(upto[x])] = x
    <3> DEFINE k == Cardinality(upto[x])
    <3>1. k \in 1..N /\ e[k] = x
      BY <2>1
    <3>2. a[k] \in S /\ Cardinality(upto[a[k]]) = k
      BY <2>3, <3>1
    <3>3. e[k] = a[k]
      BY <2>1, <3>2
    <3> QED BY <3>1, <3>3
  <2> QED BY <2>1, <2>3, <2>4, <2>5
<1> HIDE DEF upto, a
<1>5. a \in Seq(S) /\ Len(a) = N
  BY <1>4
<1>6. ASSUME NEW m \in 1..N, NEW n \in 1..N, m < n, ~(a[m] < a[n]) PROVE FALSE
  <2>0. a[m] \in S /\ a[n] \in S
    BY <1>4
  <2>1. upto[a[n]] \subseteq upto[a[m]]
    <3>1. a[m] \in Nat /\ a[n] \in Nat
      BY <2>0
    <3>2. a[n] <= a[m]
      BY <1>6, <3>1
    <3>3. ASSUME NEW k \in S, k <= a[n] PROVE k <= a[m]
      <4>1. k \in Nat
        OBVIOUS
      <4> QED BY <3>1, <3>2, <3>3, <4>1
    <3> QED BY <2>0, <3>3 DEF upto
  <2>2. IsFiniteSet(upto[a[m]])
    BY <1>1, <2>0, FS_Subset
  <2>3. Cardinality(upto[a[n]]) <= Cardinality(upto[a[m]])
    BY <2>1, <2>2, FS_Subset
  <2>4. n <= m
    BY <1>4, <2>3
  <2> QED BY <1>4, <1>6, <2>4
<1>7. \A n \in 1..N : upto[a[n]] = {k \in S : k <= a[n]}
  BY <1>4 DEF upto
<1> QED BY <1>4, <1>5, <1>6, <1>7 DEF a

(* A number beyond all others is the last one. *)
LEMMA AscendingGrows ==
  ASSUME NEW S \in SUBSET Nat, IsFiniteSet(S), NEW x \in Nat, \A y \in S : y < x
  PROVE  Ascending(S \cup {x}) = Append(Ascending(S), x)
<1> DEFINE T == S \cup {x}
           N == Cardinality(S)
           a == Ascending(S)
           b == Ascending(T)
<1>1. x \notin S /\ T \in SUBSET Nat
  OBVIOUS
<1>2. IsFiniteSet(T) /\ Cardinality(T) = N + 1 /\ N \in Nat
  BY <1>1, FS_AddElement, FS_CardinalityType
<1>3. /\ a \in Seq(S) /\ Len(a) = N
      /\ \A n \in 1..N : Cardinality({k \in S : k <= a[n]}) = n
      /\ \A m, n \in 1..N : m < n => a[m] < a[n]
  BY AscendingOrder
<1>4. /\ b \in Seq(T) /\ Len(b) = N + 1
      /\ \A n \in 1..(N + 1) : Cardinality({k \in T : k <= b[n]}) = n
      /\ \A y \in T : \E n \in 1..(N + 1) : b[n] = y
  BY <1>1, <1>2, AscendingOrder
<1> HIDE DEF a, b
<1>5. ASSUME NEW n \in 1..(N + 1) PROVE b[n] = x => n = N + 1
  <2> SUFFICES ASSUME b[n] = x PROVE n = N + 1
    OBVIOUS
  <2>1. {k \in T : k <= b[n]} = T
    <3>1. \A k \in T : k <= x
      OBVIOUS
    <3> QED BY <3>1
  <2> QED BY <1>2, <1>4, <2>1
<1>6. b[N + 1] = x
  BY <1>4, <1>5
<1>7. ASSUME NEW n \in 1..N PROVE b[n] = a[n]
  <2>1. n \in 1..(N + 1) /\ n # N + 1
    BY <1>2
  <2>2. b[n] \in S
    <3>1. b[n] \in T
      BY <1>4, <2>1
    <3>2. b[n] # x
      BY <1>5, <2>1
    <3> QED BY <3>1, <3>2
  <2>3. {k \in T : k <= b[n]} = {k \in S : k <= b[n]}
    <3>1. \A k \in S : k \in Nat
      OBVIOUS
    <3>2. b[n] \in Nat /\ b[n] < x
      BY <2>2, <3>1
    <3>3. ~(x <= b[n])
      BY <3>2
    <3> QED BY <3>3
  <2>4. a[n] \in S /\ Cardinality({k \in S : k <= a[n]}) = n
    BY <1>3
  <2>5. Cardinality({k \in S : k <= b[n]}) = n
    BY <1>4, <2>1, <2>3
  <2>6. {k \in S : k <= b[n]} = {k \in S : k <= a[n]}
    <3> DEFINE A == {k \in S : k <= a[n]}
               B == {k \in S : k <= b[n]}
    <3>1. IsFiniteSet(A) /\ IsFiniteSet(B)
      BY FS_Subset
    <3>2. A \subseteq B \/ B \subseteq A
      <4>1. a[n] \in Nat /\ b[n] \in Nat /\ \A k \in S : k \in Nat
        BY <2>2, <2>4
      <4> HIDE DEF N
      <4>2. CASE a[n] <= b[n]
        <5>1. \A k \in S : k <= a[n] => k <= b[n]
          BY <4>1, <4>2
        <5> QED BY <5>1
      <4>3. CASE b[n] <= a[n]
        <5>1. \A k \in S : k <= b[n] => k <= a[n]
          BY <4>1, <4>3
        <5> QED BY <5>1
      <4> QED BY <4>1, <4>2, <4>3
    <3>3. Cardinality(A) = Cardinality(B)
      BY <2>4, <2>5
    <3> HIDE DEF A, B
    <3>4. A = B
      BY <3>1, <3>2, <3>3, FS_Subset
    <3> QED BY <3>4 DEF A, B
  <2>7. a[n] \in Nat /\ b[n] \in Nat
    BY <2>2, <2>4
  <2>8. a[n] <= b[n] /\ b[n] <= a[n]
    BY <2>2, <2>4, <2>6, <2>7
  <2> QED BY <2>7, <2>8
<1>8. Append(a, x) \in Seq(T) /\ Len(Append(a, x)) = N + 1
  BY <1>2, <1>3
<1>9. \A n \in 1..(N + 1) : Append(a, x)[n] = b[n]
  <2> SUFFICES ASSUME NEW n \in 1..(N + 1) PROVE Append(a, x)[n] = b[n]
    OBVIOUS
  <2>1. CASE n = N + 1
    BY <1>2, <1>3, <1>6, <2>1
  <2>2. CASE n \in 1..N
    BY <1>3, <1>7, <2>2
  <2>3. n = N + 1 \/ n \in 1..N
    <3> HIDE DEF N
    <3> QED BY <1>2
  <2> QED BY <2>1, <2>2, <2>3
<1> QED BY <1>4, <1>8, <1>9, SeqEqual DEF a, b

(* What is picked of a sequence stands in it, in the same order. *)
LEMMA PickedInOrder ==
  ASSUME NEW X, NEW s \in Seq(X), NEW S, S \subseteq 1..Len(s)
  PROVE  /\ Picked(s, S) \in Seq(X) /\ Len(Picked(s, S)) = Cardinality(S)
         /\ Ascending(S) \in [1..Cardinality(S) -> S]
         /\ \A m, n \in 1..Cardinality(S) : m < n => Ascending(S)[m] < Ascending(S)[n]
         /\ \A x \in S : \E n \in 1..Cardinality(S) : Ascending(S)[n] = x
<1>1. Len(s) \in Nat /\ IsFiniteSet(1..Len(s))
  BY FS_Interval
<1>2. IsFiniteSet(S) /\ S \in SUBSET Nat
  <2>1. S \subseteq 1..Len(s)
    OBVIOUS
  <2>2. \A k \in 1..Len(s) : k \in Nat
    OBVIOUS
  <2> QED BY <1>1, <2>1, <2>2, FS_Subset
<1> DEFINE e == Ascending(S)
           N == Cardinality(S)
<1>3. /\ N \in Nat /\ e \in Seq(S) /\ Len(e) = N
      /\ \A m, n \in 1..N : m < n => e[m] < e[n]
      /\ \A x \in S : \E n \in 1..N : e[n] = x
  BY <1>2, AscendingOrder
<1> HIDE DEF e
<1>4. e \in [1..N -> S] /\ \A n \in 1..N : s[e[n]] \in X
  <2>1. e \in [1..N -> S]
    BY <1>3
  <2>2. ASSUME NEW n \in 1..N PROVE s[e[n]] \in X
    <3>1. e[n] \in 1..Len(s)
      BY <2>1
    <3> QED BY <3>1
  <2> QED BY <2>1, <2>2
<1>5. Picked(s, S) = [n \in 1..N |-> s[e[n]]]
  BY DEF Picked, e
<1>6. Picked(s, S) \in Seq(X) /\ Len(Picked(s, S)) = N
  BY <1>3, <1>4, <1>5
<1> QED BY <1>3, <1>4, <1>5, <1>6 DEF e

-----------------------------------------------------------------------------
(* JobLog: the lines of a tab *)

InOrder(s) == \A i, j \in 1..Len(s) : i < j => s[i] < s[j]
Outs == {"stdout", "stderr"}
OwnLines(out, name) == Ascending({i \in 1..Len(out) : name \in {"all", out[i]}})

(* A view of a tab: lines of its own, in order, behind the first so many of
   the tab, which are those not shown yet. *)
IsView(out, v, name) ==
  /\ v \in [lines : Seq(1..Len(out)), first : Nat, done : BOOLEAN]
  /\ InOrder(v.lines)
  /\ \A i \in 1..Len(v.lines) : name \in {"all", out[v.lines[i]]}
  /\ v.first <= Len(OwnLines(out, name))
  /\ \A j \in 1..v.first : \A i \in 1..Len(v.lines) : OwnLines(out, name)[j] < v.lines[i]

(* The lines on their way come after what a view shows, and after what it may
   load. *)
ComeAfter(out, es, v, name) ==
  \A k \in 1..Len(es) : es[k].event = "output" =>
    /\ \A i \in 1..Len(v.lines) : v.lines[i] < es[k].line
    /\ \A j \in 1..v.first : OwnLines(out, name)[j] < es[k].line

Event == [event : {"output", "completed", "error"}, of : TabNames, line : Nat]
AreEvents(out, es) ==
  /\ es \in Seq(Event)
  /\ \A k \in 1..Len(es) : es[k].event = "output" =>
       es[k].line \in 1..Len(out) /\ es[k].of = out[es[k].line]
  /\ \A k, n \in 1..Len(es) :
       k < n /\ es[k].event = "output" /\ es[n].event = "output" => es[k].line < es[n].line

LEMMA SeqWidens ==
  ASSUME NEW A, NEW B, A \subseteq B, NEW s \in Seq(A)
  PROVE  s \in Seq(B) /\ \A i \in 1..Len(s) : s[i] \in A
<1>1. Len(s) \in Nat /\ s \in [1..Len(s) -> A]
  OBVIOUS
<1>2. s \in [1..Len(s) -> B]
  BY <1>1
<1> QED BY <1>1, <1>2

LEMMA OwnLinesInOrder ==
  ASSUME NEW out \in Seq(Outs), NEW name \in TabNames
  PROVE  /\ OwnLines(out, name) \in Seq(1..Len(out)) /\ InOrder(OwnLines(out, name))
         /\ \A i \in 1..Len(OwnLines(out, name)) : name \in {"all", out[OwnLines(out, name)[i]]}
<1> DEFINE S == {i \in 1..Len(out) : name \in {"all", out[i]}}
<1>1. S \subseteq 1..Len(out) /\ \A k \in 1..Len(out) : k \in Nat
  OBVIOUS
<1>2. IsFiniteSet(S) /\ S \in SUBSET Nat
  BY <1>1, FS_Interval, FS_Subset
<1>3. \A i \in S : name \in {"all", out[i]}
  OBVIOUS
<1>4. OwnLines(out, name) = Ascending(S)
  BY DEF OwnLines
<1> HIDE DEF S
<1> DEFINE a == Ascending(S)
<1>5. a \in Seq(S) /\ InOrder(a)
  BY <1>2, AscendingOrder DEF InOrder
<1> HIDE DEF a
<1>6. a \in Seq(1..Len(out)) /\ \A i \in 1..Len(a) : a[i] \in S
  BY <1>1, <1>5, SeqWidens
<1> QED BY <1>3, <1>4, <1>5, <1>6 DEF a

(* What the job writes comes last in its tabs. *)
LEMMA OwnLinesGrow ==
  ASSUME NEW out \in Seq(Outs), NEW s \in Outs, NEW name \in TabNames
  PROVE  \/ OwnLines(Append(out, s), name) = OwnLines(out, name)
         \/ OwnLines(Append(out, s), name) = Append(OwnLines(out, name), Len(out) + 1)
<1> DEFINE S == {i \in 1..Len(out) : name \in {"all", out[i]}}
           T == {i \in 1..Len(Append(out, s)) : name \in {"all", Append(out, s)[i]}}
           x == Len(out) + 1
<1>1. /\ Len(out) \in Nat /\ Len(Append(out, s)) = x /\ Append(out, s)[x] = s
      /\ \A i \in 1..Len(out) : Append(out, s)[i] = out[i]
  OBVIOUS
<1>2. S \subseteq 1..Len(out) /\ \A k \in 1..Len(out) : k \in Nat
  OBVIOUS
<1>3. IsFiniteSet(S) /\ S \in SUBSET Nat /\ \A k \in S : k < x
  <2>1. IsFiniteSet(S)
    <3>1. IsFiniteSet(1..Len(out))
      BY <1>1, FS_Interval
    <3> QED BY <1>2, <3>1, FS_Subset
  <2>2. \A k \in 1..Len(out) : k < x
    BY <1>1
  <2> QED BY <1>2, <2>1, <2>2
<1>4. T = S \/ T = S \cup {x}
  <2>1. \A i : i \in 1..x <=> i \in 1..Len(out) \/ i = x
    BY <1>1
  <2>2. \A i : i \in T <=> i \in S \/ (i = x /\ name \in {"all", s})
    BY <1>1, <2>1
  <2> HIDE DEF T, S, x
  <2> QED BY <2>2
<1>5. Ascending(S \cup {x}) = Append(Ascending(S), x)
  <2> x \in Nat
    BY <1>1
  <2> HIDE DEF S, x
  <2> QED BY <1>3, AscendingGrows
<1> QED BY <1>4, <1>5 DEF OwnLines

(* A view stays one while the job writes. *)
LEMMA ViewsLast ==
  ASSUME NEW out \in Seq(Outs), NEW s \in Outs, NEW name \in TabNames, NEW v,
         IsView(out, v, name)
  PROVE  /\ IsView(Append(out, s), v, name)
         /\ \A j \in 1..v.first : OwnLines(Append(out, s), name)[j] = OwnLines(out, name)[j]
         /\ \A j \in 1..v.first : OwnLines(out, name)[j] \in 1..Len(out)
<1> DEFINE a == OwnLines(out, name)
           b == OwnLines(Append(out, s), name)
           o == Append(out, s)
<1>1. /\ Len(out) \in Nat /\ Len(o) = Len(out) + 1
      /\ \A i \in 1..Len(out) : i \in 1..Len(o) /\ o[i] = out[i]
  OBVIOUS
<1>2. a \in Seq(1..Len(out)) /\ (b = a \/ b = Append(a, Len(out) + 1))
  BY OwnLinesInOrder, OwnLinesGrow
<1> HIDE DEF a, b, o
<1>3. /\ v \in [lines : Seq(1..Len(out)), first : Nat, done : BOOLEAN]
      /\ InOrder(v.lines)
      /\ \A i \in 1..Len(v.lines) : name \in {"all", out[v.lines[i]]}
      /\ v.first <= Len(a)
      /\ \A j \in 1..v.first : \A i \in 1..Len(v.lines) : a[j] < v.lines[i]
  BY DEF IsView, a
<1>4. Len(a) <= Len(b) /\ \A j \in 1..Len(a) : b[j] = a[j] /\ a[j] \in 1..Len(out)
  BY <1>2
<1>5. \A j \in 1..v.first : j \in 1..Len(a)
  BY <1>2, <1>3
<1>6. v.lines \in Seq(1..Len(o)) /\ \A i \in 1..Len(v.lines) : v.lines[i] \in 1..Len(out)
  <2>1. v.lines \in Seq(1..Len(out))
    BY <1>3
  <2>2. 1..Len(out) \subseteq 1..Len(o)
    BY <1>1
  <2> QED BY <2>1, <2>2, SeqWidens
<1>7. /\ v \in [lines : Seq(1..Len(o)), first : Nat, done : BOOLEAN]
      /\ \A i \in 1..Len(v.lines) : name \in {"all", o[v.lines[i]]}
  BY <1>1, <1>3, <1>6
<1>8. v.first <= Len(b)
  BY <1>2, <1>3, <1>4
<1>9. \A j \in 1..v.first : \A i \in 1..Len(v.lines) : b[j] < v.lines[i]
  BY <1>3, <1>4, <1>5
<1>10. IsView(o, v, name)
  BY <1>3, <1>7, <1>8, <1>9 DEF IsView, o, b
<1> QED BY <1>4, <1>5, <1>10 DEF a, b, o

LEMMA AddedIsTyped ==
  ASSUME NEW A, NEW x \in A, NEW v \in [lines : Seq(A), first : Nat, done : BOOLEAN]
  PROVE  /\ Added(v, x) \in [lines : Seq(A), first : Nat, done : BOOLEAN]
         /\ Added(v, x).lines = Append(v.lines, x) /\ Added(v, x).first = v.first
BY DEF Added

(* A line that comes after a view makes a view with it. *)
LEMMA LineIsAdded ==
  ASSUME NEW out \in Seq(Outs), NEW name \in TabNames, NEW v, IsView(out, v, name),
         NEW line \in 1..Len(out), name \in {"all", out[line]},
         \A i \in 1..Len(v.lines) : v.lines[i] < line,
         \A j \in 1..v.first : OwnLines(out, name)[j] < line
  PROVE  IsView(out, Added(v, line), name)
<1> DEFINE w == Added(v, line)
<1>1. /\ v \in [lines : Seq(1..Len(out)), first : Nat, done : BOOLEAN]
      /\ InOrder(v.lines)
      /\ \A i \in 1..Len(v.lines) : name \in {"all", out[v.lines[i]]}
      /\ v.first <= Len(OwnLines(out, name))
      /\ \A j \in 1..v.first : \A i \in 1..Len(v.lines) : OwnLines(out, name)[j] < v.lines[i]
  BY DEF IsView
<1>2. w.lines = Append(v.lines, line) /\ w.first = v.first
  <2> DEFINE A == 1..Len(out)
  <2>1. v \in [lines : Seq(A), first : Nat, done : BOOLEAN] /\ line \in A
    BY <1>1
  <2> HIDE DEF A
  <2> QED BY <2>1, AddedIsTyped
<1>3. w \in [lines : Seq(1..Len(out)), first : Nat, done : BOOLEAN]
  BY <1>1, AddedIsTyped
<1> HIDE DEF w
<1>4. v.lines \in Seq(1..Len(out)) /\ Len(v.lines) \in Nat
  BY <1>1
<1>5. /\ Len(w.lines) = Len(v.lines) + 1 /\ w.lines[Len(v.lines) + 1] = line
      /\ \A i \in 1..Len(v.lines) : w.lines[i] = v.lines[i]
  BY <1>2, <1>4
<1>6. \A i \in 1..Len(w.lines) : i \in 1..Len(v.lines) \/ i = Len(v.lines) + 1
  BY <1>4, <1>5
<1>7. InOrder(w.lines)
  <2> SUFFICES ASSUME NEW i \in 1..Len(w.lines), NEW j \in 1..Len(w.lines), i < j
               PROVE  w.lines[i] < w.lines[j]
    BY DEF InOrder
  <2>1. i \in 1..Len(v.lines)
    BY <1>4, <1>5
  <2>2. CASE j \in 1..Len(v.lines)
    BY <1>1, <1>5, <2>1, <2>2 DEF InOrder
  <2>3. CASE j = Len(v.lines) + 1
    BY <1>5, <2>1, <2>3
  <2> QED BY <1>6, <2>2, <2>3
<1>8. \A i \in 1..Len(w.lines) : name \in {"all", out[w.lines[i]]}
  BY <1>1, <1>5, <1>6
<1>9. \A j \in 1..w.first : \A i \in 1..Len(w.lines) : OwnLines(out, name)[j] < w.lines[i]
  BY <1>1, <1>2, <1>5, <1>6
<1> QED BY <1>1, <1>2, <1>3, <1>7, <1>8, <1>9 DEF IsView, w

LEMMA WindowIsPart ==
  ASSUME NEW name \in TabNames, NEW from \in Nat, NEW to \in Nat, output \in Seq(Outs),
         from <= to, to <= Len(OwnLines(output, name))
  PROVE  /\ Window(name, from, to) \in Seq(1..Len(output)) /\ Len(Window(name, from, to)) = to - from
         /\ \A i \in 1..(to - from) :
              Window(name, from, to)[i] = OwnLines(output, name)[from + i]
<1> DEFINE a == OwnLines(output, name)
           A == 1..Len(output)
<1>1. a \in Seq(A)
  BY OwnLinesInOrder
<1>2. Window(name, from, to) = SubSeq(a, from + 1, IF to < Len(a) THEN to ELSE Len(a))
  BY DEF Window, Lines, OwnLines
<1>3. Window(name, from, to) = SubSeq(a, from + 1, to)
  <2>1. Len(a) \in Nat
    BY <1>1
  <2>2. (IF to < Len(a) THEN to ELSE Len(a)) = to
    BY <2>1
  <2> QED BY <1>2, <2>2
<1> HIDE DEF a, A
<1>4. /\ SubSeq(a, from + 1, to) \in Seq(A) /\ Len(SubSeq(a, from + 1, to)) = to - from
      /\ \A i \in 1..(to - from) : SubSeq(a, from + 1, to)[i] = a[from + i]
  <2>1. CASE from = to
    BY <1>1, <2>1, SubSeqProperties
  <2>2. CASE from < to
    BY <1>1, <2>2, SubSeqProperties DEF a
  <2> QED BY <2>1, <2>2
<1> QED BY <1>3, <1>4 DEF a, A

(* The last lines of a tab are a view, and so is none. *)
LEMMA SnapshotIsView ==
  ASSUME NEW name \in TabNames, output \in Seq(Outs), ended \in BOOLEAN, PageLines \in Nat
  PROVE  IsView(output, Snapshot(name), name) /\ IsView(output, Empty, name)
<1> DEFINE a == OwnLines(output, name)
           n == Len(a)
           from == IF n > PageLines THEN n - PageLines ELSE 0
           w == Window(name, from, n)
<1>1. a \in Seq(1..Len(output)) /\ InOrder(a) /\ \A i \in 1..n : name \in {"all", output[a[i]]}
  BY OwnLinesInOrder
<1>2. n \in Nat /\ from \in Nat /\ from <= n
  BY <1>1
<1>3. Snapshot(name) = [lines |-> w, first |-> from, done |-> ended]
  BY DEF Snapshot, Lines, OwnLines
<1> HIDE DEF a, n, from, w
<1>4. /\ w \in Seq(1..Len(output)) /\ Len(w) = n - from
      /\ \A i \in 1..(n - from) : w[i] = a[from + i]
  <2>1. n <= Len(OwnLines(output, name))
    BY <1>2 DEF n, a
  <2> QED BY <1>2, <2>1, WindowIsPart DEF w, a
<1>5. \A i \in 1..Len(w) : from + i \in 1..n /\ w[i] = a[from + i]
  <2>1. \A i \in 1..(n - from) : from + i \in 1..n
    BY <1>2
  <2> QED BY <1>4, <2>1
<1>6. InOrder(w) /\ \A i \in 1..Len(w) : name \in {"all", output[w[i]]}
  <2>1. \A i \in 1..Len(w) : name \in {"all", output[w[i]]}
    BY <1>1, <1>5
  <2>2. ASSUME NEW i \in 1..Len(w), NEW j \in 1..Len(w), i < j PROVE w[i] < w[j]
    <3>1. from + i < from + j /\ from + i \in 1..n /\ from + j \in 1..n
      BY <1>2, <1>4, <1>5, <2>2
    <3> QED BY <1>1, <1>5, <3>1 DEF InOrder, n
  <2> QED BY <2>1, <2>2 DEF InOrder
<1>7. \A j \in 1..from : \A i \in 1..Len(w) : a[j] < w[i]
  <2> SUFFICES ASSUME NEW j \in 1..from, NEW i \in 1..Len(w) PROVE a[j] < w[i]
    OBVIOUS
  <2>1. j < from + i /\ j \in 1..n /\ from + i \in 1..n
    BY <1>2, <1>4, <1>5
  <2> QED BY <1>1, <1>5, <2>1 DEF InOrder, n
<1>8. IsView(output, Snapshot(name), name)
  <2>1. [lines |-> w, first |-> from, done |-> ended] \in [lines : Seq(1..Len(output)), first : Nat, done : BOOLEAN]
    BY <1>2, <1>4
  <2> QED BY <1>2, <1>3, <1>6, <1>7, <2>1 DEF IsView, a, n
<1>9. IsView(output, Empty, name)
  BY <1>2 DEF IsView, Empty, InOrder, a, n
<1> QED BY <1>8, <1>9

LEMMA PutIsTyped ==
  ASSUME NEW A, NEW w \in Seq(A), NEW f \in Nat, NEW v \in [lines : Seq(A), first : Nat, done : BOOLEAN]
  PROVE  LET p == [v EXCEPT !.lines = w \o @, !.first = f]
         IN  /\ p \in [lines : Seq(A), first : Nat, done : BOOLEAN]
             /\ p.lines = w \o v.lines /\ p.first = f
<1> DEFINE x == w \o v.lines
<1>1. x \in Seq(A)
  <2>1. v.lines \in Seq(A)
    OBVIOUS
  <2> QED BY <2>1, ConcatProperties
<1> HIDE DEF x
<1>2. /\ [v EXCEPT !.lines = x, !.first = f] \in [lines : Seq(A), first : Nat, done : BOOLEAN]
      /\ [v EXCEPT !.lines = x, !.first = f].lines = x
      /\ [v EXCEPT !.lines = x, !.first = f].first = f
  BY <1>1
<1> QED BY <1>2 DEF x

Put(l) == [l.view EXCEPT !.lines = l.lines \o @, !.first = l.first]

(* The lines before a view, put before it, make a view. *)
LEMMA EarlierLines ==
  ASSUME NEW name \in TabNames, output \in Seq(Outs), NEW v, IsView(output, v, name),
         NEW from \in Nat, from <= v.first, NEW es, ComeAfter(output, es, v, name),
         NEW p \in [lines : Seq(1..Len(output)), first : Nat, done : BOOLEAN],
         p.lines = Window(name, from, v.first) \o v.lines, p.first = from
  PROVE  IsView(output, p, name) /\ ComeAfter(output, es, p, name)
<1> DEFINE a == OwnLines(output, name)
           w == Window(name, from, v.first)
           A == 1..Len(output)
           n == v.first - from
<1>1. /\ v \in [lines : Seq(A), first : Nat, done : BOOLEAN]
      /\ InOrder(v.lines)
      /\ \A i \in 1..Len(v.lines) : name \in {"all", output[v.lines[i]]}
      /\ v.first <= Len(a)
      /\ \A j \in 1..v.first : \A i \in 1..Len(v.lines) : a[j] < v.lines[i]
  BY DEF IsView
<1>2. v.first \in Nat /\ v.lines \in Seq(A) /\ n \in Nat /\ v.first = from + n
  <2>1. v.first \in Nat /\ v.lines \in Seq(A)
    BY <1>1
  <2> QED BY <2>1
<1>3. a \in Seq(A) /\ InOrder(a) /\ \A i \in 1..Len(a) : name \in {"all", output[a[i]]} /\ a[i] \in Nat
  <2>1. a \in Seq(A) /\ InOrder(a) /\ \A i \in 1..Len(a) : name \in {"all", output[a[i]]}
    BY OwnLinesInOrder
  <2>2. \A i \in 1..Len(a) : a[i] \in A
    BY <2>1, SeqWidens
  <2> QED BY <2>1, <2>2
<1>4. w \in Seq(A) /\ Len(w) = n /\ \A i \in 1..n : w[i] = a[from + i]
  BY <1>1, <1>2, WindowIsPart
<1> HIDE DEF a, w, A, n
<1>5. /\ p \in [lines : Seq(A), first : Nat, done : BOOLEAN]
      /\ p.lines = w \o v.lines /\ p.first = from
  BY DEF A, w
<1>6. /\ Len(p.lines) = n + Len(v.lines) /\ Len(v.lines) \in Nat
      /\ \A i \in 1..n : p.lines[i] = w[i]
      /\ \A i \in 1..Len(v.lines) : p.lines[n + i] = v.lines[i]
  <2> DEFINE l == v.lines
  <2>1. w \in Seq(A) /\ l \in Seq(A) /\ Len(w) = n /\ Len(l) \in Nat /\ p.lines = w \o l
    <3>1. w \in Seq(A) /\ Len(w) = n
      BY <1>4
    <3>2. l \in Seq(A)
      BY <1>2
    <3>3. p.lines = w \o l
      BY <1>5
    <3> HIDE DEF l
    <3> QED BY <3>1, <3>2, <3>3
  <2> HIDE DEF l
  <2>2. /\ Len(w \o l) = n + Len(l)
        /\ \A i \in 1..n : (w \o l)[i] = w[i]
        /\ \A i \in 1..Len(l) : (w \o l)[n + i] = l[i]
    <3>1. /\ Len(w \o l) = n + Len(l)
          /\ \A i \in 1..(n + Len(l)) : (w \o l)[i] = IF i <= n THEN w[i] ELSE l[i - n]
      BY <2>1, ConcatProperties
    <3>2. \A i \in 1..n : i \in 1..(n + Len(l)) /\ i <= n
      BY <1>2, <2>1
    <3>3. \A i \in 1..Len(l) : n + i \in 1..(n + Len(l)) /\ ~(n + i <= n) /\ (n + i) - n = i
      BY <1>2, <2>1
    <3> QED BY <3>1, <3>2, <3>3
  <2> QED BY <2>1, <2>2 DEF l
<1>7. ASSUME NEW i \in 1..Len(p.lines)
      PROVE  \/ i \in 1..n /\ from + i \in 1..v.first /\ from + i \in 1..Len(a) /\ p.lines[i] = a[from + i]
             \/ ~(i \in 1..n) /\ i - n \in 1..Len(v.lines) /\ p.lines[i] = v.lines[i - n]
  <2>1. CASE i \in 1..n
    <3>1. from + i \in 1..v.first
      BY <1>2, <2>1
    <3>2. Len(a) \in Nat
      BY <1>3
    <3>3. from + i \in 1..Len(a)
      BY <1>1, <1>2, <3>1, <3>2
    <3> QED BY <1>4, <1>6, <2>1, <3>1, <3>3
  <2>2. CASE ~(i \in 1..n)
    <3>1. i - n \in 1..Len(v.lines) /\ n + (i - n) = i
      <4>1. Len(p.lines) = n + Len(v.lines) /\ Len(v.lines) \in Nat /\ n \in Nat
        BY <1>2, <1>6
      <4>2. i \in 1..(n + Len(v.lines))
        BY <4>1
      <4> QED BY <2>2, <4>1, <4>2
    <3> QED BY <1>6, <2>2, <3>1
  <2> QED BY <2>1, <2>2
<1>8. InOrder(p.lines)
  <2> SUFFICES ASSUME NEW i \in 1..Len(p.lines), NEW j \in 1..Len(p.lines), i < j
               PROVE  p.lines[i] < p.lines[j]
    BY DEF InOrder
  <2>1. CASE i \in 1..n /\ j \in 1..n
    <3>1. from + i < from + j
      BY <1>2, <2>1
    <3> QED BY <1>3, <1>7, <2>1, <3>1 DEF InOrder
  <2>2. CASE i \in 1..n /\ ~(j \in 1..n)
    BY <1>1, <1>7, <2>2
  <2>3. CASE ~(i \in 1..n)
    <3>1. ~(j \in 1..n) /\ i - n < j - n
      BY <1>2, <2>3
    <3> QED BY <1>1, <1>7, <2>3, <3>1 DEF InOrder
  <2> QED BY <2>1, <2>2, <2>3
<1>9. \A i \in 1..Len(p.lines) : name \in {"all", output[p.lines[i]]}
  BY <1>1, <1>3, <1>7
<1>10. p.first <= Len(a)
  <2> Len(a) \in Nat
    BY <1>3
  <2> QED BY <1>1, <1>2, <1>5
<1>11. \A j \in 1..p.first : \A i \in 1..Len(p.lines) : a[j] < p.lines[i]
  <2> SUFFICES ASSUME NEW j \in 1..p.first, NEW i \in 1..Len(p.lines) PROVE a[j] < p.lines[i]
    OBVIOUS
  <2>1. j \in 1..v.first /\ Len(a) \in Nat
    BY <1>2, <1>3, <1>5
  <2>2. j \in 1..Len(a)
    BY <1>1, <1>2, <2>1
  <2>3. CASE i \in 1..n
    <3>1. j < from + i
      BY <1>2, <1>5, <2>3
    <3> QED BY <1>3, <1>7, <2>2, <2>3, <3>1 DEF InOrder
  <2>4. CASE ~(i \in 1..n)
    BY <1>1, <1>7, <2>1, <2>4
  <2> QED BY <2>3, <2>4
<1>12. IsView(output, p, name)
  BY <1>5, <1>8, <1>9, <1>10, <1>11 DEF IsView, a, A
<1>13. ComeAfter(output, es, p, name)
  <2> SUFFICES ASSUME NEW k \in 1..Len(es), es[k].event = "output"
               PROVE  /\ \A i \in 1..Len(p.lines) : p.lines[i] < es[k].line
                      /\ \A j \in 1..p.first : a[j] < es[k].line
    BY DEF ComeAfter, a
  <2>1. /\ \A i \in 1..Len(v.lines) : v.lines[i] < es[k].line
        /\ \A j \in 1..v.first : a[j] < es[k].line
    BY DEF ComeAfter, a
  <2>2. \A j \in 1..p.first : j \in 1..v.first
    BY <1>2, <1>5
  <2> QED BY <1>7, <2>1, <2>2
<1> QED BY <1>12, <1>13

LEMMA EarlierIsView ==
  ASSUME NEW name \in TabNames, output \in Seq(Outs), NEW v, IsView(output, v, name),
         NEW from \in Nat, from <= v.first, NEW es, ComeAfter(output, es, v, name),
         NEW l, l.view = v, l.first = from, l.lines = Window(name, from, v.first)
  PROVE  IsView(output, Put(l), name) /\ ComeAfter(output, es, Put(l), name)
<1> DEFINE A == 1..Len(output)
           w == l.lines
<1>1. v \in [lines : Seq(A), first : Nat, done : BOOLEAN] /\ v.first <= Len(OwnLines(output, name))
  BY DEF IsView
<1>2. v.first \in Nat
  BY <1>1
<1>3. w \in Seq(A)
  BY <1>1, <1>2, WindowIsPart
<1> HIDE DEF A
<1>4. PICK p : p = Put(l)
  OBVIOUS
<1>5. p = [v EXCEPT !.lines = w \o @, !.first = from]
  BY <1>4 DEF Put
<1> HIDE DEF w
<1>6. /\ p \in [lines : Seq(A), first : Nat, done : BOOLEAN]
      /\ p.lines = w \o v.lines /\ p.first = from
  BY <1>1, <1>3, <1>5, PutIsTyped
<1>7. IsView(output, p, name) /\ ComeAfter(output, es, p, name)
  BY <1>6, EarlierLines DEF A, w
<1> QED BY <1>4, <1>7

LEMMA EventsAfterWrite ==
  ASSUME NEW out \in Seq(Outs), NEW s \in Outs, NEW es, AreEvents(out, es)
  PROVE  /\ AreEvents(Append(out, s), es)
         /\ AreEvents(Append(out, s), Append(es, [event |-> "output", of |-> s, line |-> Len(out) + 1]))
<1> DEFINE o == Append(out, s)
           e == [event |-> "output", of |-> s, line |-> Len(out) + 1]
           fs == Append(es, e)
<1>1. /\ es \in Seq(Event)
      /\ \A k \in 1..Len(es) : es[k].event = "output" =>
           es[k].line \in 1..Len(out) /\ es[k].of = out[es[k].line]
      /\ \A k, n \in 1..Len(es) :
           k < n /\ es[k].event = "output" /\ es[n].event = "output" => es[k].line < es[n].line
  BY DEF AreEvents
<1>2. /\ Len(out) \in Nat /\ Len(o) = Len(out) + 1 /\ o[Len(out) + 1] = s
      /\ \A i \in 1..Len(out) : i \in 1..Len(o) /\ o[i] = out[i]
  OBVIOUS
<1>3. AreEvents(o, es)
  BY <1>1, <1>2 DEF AreEvents
<1>4. e \in Event
  BY <1>2 DEF Event, Outs, TabNames
<1>5. e.event = "output" /\ e.line = Len(out) + 1 /\ e.of = s
  OBVIOUS
<1> HIDE DEF e
<1>6. /\ fs \in Seq(Event) /\ Len(es) \in Nat /\ Len(fs) = Len(es) + 1 /\ fs[Len(es) + 1] = e
      /\ \A k \in 1..Len(es) : fs[k] = es[k]
  BY <1>1, <1>4
<1> HIDE DEF fs, o
<1>7. \A k \in 1..Len(fs) : k \in 1..Len(es) \/ k = Len(es) + 1
  BY <1>6
<1>8. \A k \in 1..Len(fs) : fs[k].event = "output" => fs[k].line \in 1..Len(o) /\ fs[k].of = o[fs[k].line]
  BY <1>1, <1>2, <1>5, <1>6, <1>7
<1>9. ASSUME NEW k \in 1..Len(fs), NEW n \in 1..Len(fs),
             k < n, fs[k].event = "output", fs[n].event = "output"
      PROVE  fs[k].line < fs[n].line
  <2>1. k \in 1..Len(es)
    BY <1>6, <1>9
  <2>2. CASE n \in 1..Len(es)
    BY <1>1, <1>6, <1>9, <2>1, <2>2
  <2>3. CASE n = Len(es) + 1
    BY <1>1, <1>2, <1>5, <1>6, <1>9, <2>1, <2>3
  <2> QED BY <1>7, <2>2, <2>3
<1> QED BY <1>3, <1>6, <1>8, <1>9 DEF AreEvents, fs, e, o

LEMMA ViewsAfterWrite ==
  ASSUME NEW out \in Seq(Outs), NEW s \in Outs, NEW es, AreEvents(out, es),
         NEW name \in TabNames, NEW v, IsView(out, v, name), ComeAfter(out, es, v, name)
  PROVE  /\ ComeAfter(Append(out, s), es, v, name)
         /\ ComeAfter(Append(out, s), Append(es, [event |-> "output", of |-> s, line |-> Len(out) + 1]), v, name)
<1> DEFINE o == Append(out, s)
           e == [event |-> "output", of |-> s, line |-> Len(out) + 1]
           fs == Append(es, e)
<1>1. /\ \A j \in 1..v.first : OwnLines(o, name)[j] = OwnLines(out, name)[j]
      /\ \A j \in 1..v.first : OwnLines(out, name)[j] \in 1..Len(out)
  BY ViewsLast
<1>2. ComeAfter(o, es, v, name)
  BY <1>1 DEF ComeAfter
<1>3. es \in Seq(Event) /\ Len(out) \in Nat
  BY DEF AreEvents
<1>4. e.line = Len(out) + 1
  OBVIOUS
<1> HIDE DEF e, o
<1>5. /\ Len(es) \in Nat /\ Len(fs) = Len(es) + 1 /\ fs[Len(es) + 1] = e
      /\ \A k \in 1..Len(es) : fs[k] = es[k]
  BY <1>3
<1> HIDE DEF fs
<1>6. \A i \in 1..Len(v.lines) : v.lines[i] < Len(out) + 1
  <2>1. v.lines \in Seq(1..Len(out))
    BY DEF IsView
  <2>2. \A i \in 1..Len(v.lines) : v.lines[i] \in 1..Len(out)
    BY <2>1, SeqWidens
  <2> QED BY <1>3, <2>2
<1>7. ComeAfter(o, fs, v, name)
  <2> SUFFICES ASSUME NEW k \in 1..Len(fs), fs[k].event = "output"
               PROVE  /\ \A i \in 1..Len(v.lines) : v.lines[i] < fs[k].line
                      /\ \A j \in 1..v.first : OwnLines(o, name)[j] < fs[k].line
    BY DEF ComeAfter
  <2>1. CASE k \in 1..Len(es)
    BY <1>2, <1>5, <2>1 DEF ComeAfter
  <2>2. CASE k = Len(es) + 1
    BY <1>1, <1>3, <1>4, <1>5, <1>6, <2>2
  <2> QED BY <1>5, <2>1, <2>2
<1> QED BY <1>2, <1>7 DEF fs, e, o

(* An event that is no line disturbs nothing. *)
LEMMA QuietEvent ==
  ASSUME NEW out \in Seq(Outs), NEW es, AreEvents(out, es), NEW e \in Event, e.event # "output"
  PROVE  /\ AreEvents(out, Append(es, e))
         /\ \A v : \A name \in TabNames : ComeAfter(out, es, v, name) => ComeAfter(out, Append(es, e), v, name)
<1> DEFINE fs == Append(es, e)
<1>1. es \in Seq(Event)
  BY DEF AreEvents
<1>2. /\ fs \in Seq(Event) /\ Len(es) \in Nat /\ Len(fs) = Len(es) + 1 /\ fs[Len(es) + 1] = e
      /\ \A k \in 1..Len(es) : fs[k] = es[k]
  BY <1>1
<1> HIDE DEF fs
<1>3. \A k \in 1..Len(fs) : fs[k].event = "output" => k \in 1..Len(es) /\ fs[k] = es[k]
  BY <1>2
<1>4. AreEvents(out, fs)
  BY <1>2, <1>3 DEF AreEvents
<1>5. ASSUME NEW v, NEW name \in TabNames, ComeAfter(out, es, v, name) PROVE ComeAfter(out, fs, v, name)
  BY <1>3, <1>5 DEF ComeAfter
<1> QED BY <1>4, <1>5 DEF fs

LEMMA EventsAfterFirst ==
  ASSUME NEW out \in Seq(Outs), NEW es, AreEvents(out, es), es # <<>>
  PROVE  /\ Head(es) \in Event
         /\ Head(es).event = "output" =>
              Head(es).line \in 1..Len(out) /\ Head(es).of = out[Head(es).line]
         /\ AreEvents(out, Tail(es))
         /\ \A v : \A name \in TabNames : ComeAfter(out, es, v, name) => ComeAfter(out, Tail(es), v, name)
         /\ Head(es).event = "output" =>
              \A k \in 1..Len(Tail(es)) : Tail(es)[k].event = "output" => Head(es).line < Tail(es)[k].line
<1> DEFINE fs == Tail(es)
<1>1. es \in Seq(Event)
  BY DEF AreEvents
<1>2. /\ fs \in Seq(Event) /\ Len(es) \in Nat /\ Len(es) > 0 /\ Len(fs) = Len(es) - 1
      /\ \A k \in 1..Len(fs) : fs[k] = es[k + 1]
      /\ Head(es) = es[1] /\ Head(es) \in Event
  BY <1>1, HeadTailProperties
<1> HIDE DEF fs
<1>3. \A k \in 1..Len(fs) : k + 1 \in 1..Len(es) /\ 1 < k + 1
  BY <1>2
<1>4. AreEvents(out, fs)
  <2>1. \A k, n \in 1..Len(fs) : k < n => k + 1 < n + 1
    BY <1>2
  <2> QED BY <1>2, <1>3, <2>1 DEF AreEvents
<1>5. ASSUME NEW v, NEW name \in TabNames, ComeAfter(out, es, v, name) PROVE ComeAfter(out, fs, v, name)
  BY <1>2, <1>3, <1>5 DEF ComeAfter
<1>6. 1 \in 1..Len(es)
  BY <1>2
<1> QED BY <1>2, <1>3, <1>4, <1>5, <1>6 DEF fs, AreEvents

Load(l) ==
  /\ l \in [no : Nat, got : Seq([lines : Seq(Nat), first : Nat, done : BOOLEAN])]
  /\ Len(l.got) <= 3
  /\ \A k \in 1..Len(l.got) : IsView(output, l.got[k], Tabs[k])

Fits(v, name) == IsView(output, v, name) /\ ComeAfter(output, events, v, name)

LogTypeInv ==
  /\ output \in Seq(Outs) /\ ended \in BOOLEAN /\ tab \in TabNames /\ clicks \in Nat
  /\ source \in BOOLEAN /\ listening \in BOOLEAN /\ tangled \in BOOLEAN

(* As long as no load has met another one: there is at most one, and while
   there is, nothing else is under way; all views, and those that earlier
   lines will make, fit the lines on their way. *)
UntangledInv ==
  /\ AreEvents(output, events)
  /\ ~source => ~listening /\ events = <<>>
  /\ \A l, m \in loads : l = m
  /\ \A l \in loads : Load(l)
  /\ loads # {} => ~source /\ views = NoViews /\ earlier = {}
  /\ views # NoViews =>
       views = [name \in TabNames |-> views[name]] /\ \A name \in TabNames : Fits(views[name], name)
  /\ \A l \in earlier : Fits(Put(l), tab)

LogInv == LogTypeInv /\ (~tangled => UntangledInv)

LEMMA LogInitInv == LogInit => LogInv
<1> SUFFICES ASSUME LogInit PROVE LogInv
  OBVIOUS
<1>1. LogTypeInv
  <2>1. <<>> \in Seq(Outs)
    OBVIOUS
  <2> QED BY <2>1 DEF LogInit, LogTypeInv, TabNames
<1>2. AreEvents(output, events)
  BY DEF LogInit, AreEvents
<1>3. ASSUME NEW l \in loads PROVE Load(l)
  <2>1. l = [no |-> 0, got |-> <<>>]
    BY DEF LogInit, NoViews
  <2>2. <<>> \in Seq([lines : Seq(Nat), first : Nat, done : BOOLEAN]) /\ Len(<<>>) = 0
    OBVIOUS
  <2> QED BY <2>1, <2>2 DEF Load
<1>4. UntangledInv
  BY <1>2, <1>3 DEF LogInit, UntangledInv
<1> QED BY <1>1, <1>4 DEF LogInv

LEMMA WriteKeeps ==
  ASSUME LogInv, NEW s \in Outs, Write(s) PROVE LogInv'
<1>1. LogTypeInv'
  BY DEF LogInv, LogTypeInv, Write, TabNames, Outs
<1> SUFFICES ASSUME ~tangled PROVE UntangledInv'
  BY <1>1 DEF LogInv, Write
<1>2. /\ output \in Seq(Outs) /\ output' = Append(output, s)
      /\ UNCHANGED <<listening, tab, views, source, loads, earlier, tangled>>
      /\ events' = events \/ (listening /\ events' = Append(events, [event |-> "output", of |-> s, line |-> Len(output) + 1]))
  BY DEF LogInv, LogTypeInv, Write
<1>3. UntangledInv
  BY DEF LogInv
<1>4. AreEvents(output, events)'
  BY <1>2, <1>3, EventsAfterWrite DEF UntangledInv
<1>5. ASSUME NEW v, NEW name \in TabNames, Fits(v, name)
      PROVE  IsView(output', v, name) /\ ComeAfter(output', events', v, name)
  BY <1>2, <1>3, <1>5, ViewsLast, ViewsAfterWrite DEF Fits, UntangledInv
<1>6. ASSUME NEW l \in loads PROVE Load(l)'
  <2>1. Load(l)
    BY <1>3 DEF UntangledInv
  <2>2. ASSUME NEW k \in 1..Len(l.got) PROVE IsView(output', l.got[k], Tabs[k])
    <3>1. Tabs[k] \in TabNames
      <4>1. k \in 1..3
        BY <2>1 DEF Load
      <4> QED BY <4>1 DEF Tabs, TabNames
    <3>2. IsView(output, l.got[k], Tabs[k])
      BY <2>1 DEF Load
    <3> QED BY <1>2, <3>1, <3>2, ViewsLast
  <2> QED BY <2>1, <2>2 DEF Load
<1>7. ASSUME views # NoViews, NEW name \in TabNames PROVE Fits(views[name], name)'
  <2>1. Fits(views[name], name)
    BY <1>3, <1>7 DEF UntangledInv
  <2>2. IsView(output', views[name], name) /\ ComeAfter(output', events', views[name], name)
    BY <1>5, <2>1
  <2> QED BY <1>2, <2>2 DEF Fits
<1>8. ASSUME NEW l \in earlier PROVE Fits(Put(l), tab)'
  <2>1. Fits(Put(l), tab) /\ tab \in TabNames
    BY <1>3 DEF UntangledInv, LogInv, LogTypeInv
  <2>2. IsView(output', Put(l), tab) /\ ComeAfter(output', events', Put(l), tab)
    BY <1>5, <2>1
  <2> QED BY <1>2, <2>2 DEF Fits, Put
<1> QED BY <1>2, <1>3, <1>4, <1>6, <1>7, <1>8 DEF UntangledInv, NoViews

(* The end of the job and of the connection. *)
LEMMA QuietEventsKeep ==
  ASSUME LogInv, NEW e \in Event, e.event # "output",
         events' = events \/ (listening /\ events' = Append(events, e)),
         ended' \in BOOLEAN, listening' \in {listening, FALSE}, clicks' \in Nat,
         UNCHANGED <<output, opened, tab, views, source, loads, earlier, tangled>>
  PROVE  LogInv'
<1>1. LogTypeInv'
  BY DEF LogInv, LogTypeInv
<1> SUFFICES ASSUME ~tangled PROVE UntangledInv'
  BY <1>1 DEF LogInv
<1>2. UntangledInv /\ output \in Seq(Outs) /\ tab \in TabNames
  BY DEF LogInv, LogTypeInv
<1>3. AreEvents(output, events)'
  BY <1>2, QuietEvent DEF UntangledInv
<1>4. ASSUME NEW v, NEW name \in TabNames, Fits(v, name)
      PROVE  IsView(output', v, name) /\ ComeAfter(output', events', v, name)
  BY <1>2, <1>4, QuietEvent DEF Fits, UntangledInv
<1>5. ASSUME NEW l \in loads PROVE Load(l)'
  BY <1>2 DEF UntangledInv, Load
<1>6. ASSUME views # NoViews, NEW name \in TabNames PROVE Fits(views[name], name)'
  BY <1>2, <1>4, <1>6 DEF UntangledInv, Fits
<1>7. ASSUME NEW l \in earlier PROVE Fits(Put(l), tab)'
  BY <1>2, <1>4 DEF UntangledInv, Fits, Put
<1>8. listening' => listening
  BY DEF LogInv, LogTypeInv
<1> QED BY <1>2, <1>3, <1>5, <1>6, <1>7, <1>8 DEF UntangledInv, NoViews

LEMMA DialogKeeps ==
  ASSUME LogInv, Open \/ Close \/ (\E name \in TabNames : SwitchTab(name))
  PROVE  LogInv'
<1>1. LogTypeInv'
  <2>1. LogTypeInv
    BY DEF LogInv
  <2>2. CASE Open
    <3>1. tangled' \in BOOLEAN
      <4>1. tangled' = (tangled \/ loads # {} \/ earlier # {} \/ source)
        BY <2>2 DEF Open
      <4> QED BY <4>1
    <3>2. clicks' \in Nat /\ tab' \in TabNames
      BY <2>1, <2>2 DEF LogTypeInv, Open, TabNames
    <3>3. UNCHANGED <<output, ended, listening, source>>
      BY <2>2 DEF Open, job
    <3> QED BY <2>1, <3>1, <3>2, <3>3 DEF LogTypeInv
  <2>3. CASE Close
    <3>1. UNCHANGED <<output, ended, tab, tangled>> /\ source' = FALSE /\ listening' = FALSE
      BY <2>3 DEF Close, job
    <3>2. clicks' \in Nat
      BY <2>1, <2>3 DEF LogTypeInv, Close
    <3> QED BY <2>1, <3>1, <3>2 DEF LogTypeInv
  <2>4. ASSUME NEW name \in TabNames, SwitchTab(name) PROVE LogTypeInv'
    BY <2>1, <2>4 DEF LogTypeInv, SwitchTab, job
  <2> QED BY <2>2, <2>3, <2>4
<1> SUFFICES ASSUME ~tangled' PROVE UntangledInv'
  BY <1>1 DEF LogInv
<1>2. ~tangled /\ UntangledInv /\ output' = output
  <2>1. tangled \in BOOLEAN /\ tangled' \in BOOLEAN
    BY <1>1 DEF LogInv, LogTypeInv
  <2>2. CASE Open
    BY <2>1, <2>2 DEF LogInv, Open, job
  <2>3. CASE Close
    BY <2>1, <2>3 DEF LogInv, Close, job
  <2>4. ASSUME NEW name \in TabNames, SwitchTab(name) PROVE ~tangled /\ UntangledInv /\ output' = output
    BY <2>1, <2>4 DEF LogInv, SwitchTab, job
  <2> QED BY <2>2, <2>3, <2>4
<1>3. CASE Open
  <2>1. loads = {} /\ earlier = {} /\ ~source
    BY <1>3 DEF Open, LogInv, LogTypeInv
  <2>2. loads' = {[no |-> clicks', got |-> <<>>]} /\ clicks' \in Nat
    BY <1>3, <2>1 DEF Open, NoViews, LogInv, LogTypeInv
  <2>3. ASSUME NEW l \in loads' PROVE Load(l)'
    <3>1. l = [no |-> clicks', got |-> <<>>]
      BY <2>2
    <3>2. <<>> \in Seq([lines : Seq(Nat), first : Nat, done : BOOLEAN]) /\ Len(<<>>) = 0
      OBVIOUS
    <3> QED BY <2>2, <3>1, <3>2 DEF Load
  <2> QED BY <1>2, <1>3, <2>1, <2>2, <2>3 DEF Open, UntangledInv, NoViews, job
<1>4. CASE Close
  <2>1. AreEvents(output, events)'
    BY <1>4 DEF Close, AreEvents
  <2>2. \A v : \A name \in TabNames : Fits(v, name) =>
           IsView(output', v, name) /\ ComeAfter(output', events', v, name)
    BY <1>2, <1>4 DEF Close, Fits, ComeAfter
  <2>3. ASSUME NEW l \in loads' PROVE Load(l)'
    BY <1>2, <1>4 DEF UntangledInv, Load, Close, job
  <2>4. ASSUME views # NoViews, NEW name \in TabNames PROVE Fits(views[name], name)'
    BY <1>2, <1>4, <2>2, <2>4 DEF UntangledInv, Fits, Close
  <2>5. ASSUME NEW l \in earlier PROVE Fits(Put(l), tab)'
    BY <1>2, <1>4, <2>2 DEF UntangledInv, Fits, Put, Close, LogInv, LogTypeInv
  <2> QED BY <1>2, <1>4, <2>1, <2>3, <2>4, <2>5 DEF Close, UntangledInv, NoViews, job
<1>5. ASSUME NEW name \in TabNames, SwitchTab(name) PROVE UntangledInv'
  <2>1. earlier = {}
    BY <1>5 DEF SwitchTab, LogInv, LogTypeInv
  <2>2. UNCHANGED <<output, events, views, source, listening, loads, earlier>>
    BY <1>5 DEF SwitchTab, job
  <2>3. ASSUME NEW l \in loads' PROVE Load(l)'
    BY <1>2, <2>2 DEF UntangledInv, Load
  <2> QED BY <1>2, <2>1, <2>2, <2>3 DEF UntangledInv, Fits, NoViews
<1> QED BY <1>3, <1>4, <1>5

LEMMA LoadIsTyped ==
  ASSUME NEW V, NEW v \in V, NEW l \in [no : Nat, got : Seq(V)]
  PROVE  LET m == [l EXCEPT !.got = Append(@, v)]
         IN  m \in [no : Nat, got : Seq(V)] /\ m.got = Append(l.got, v)
OBVIOUS

LEMMA LoadTabKeeps ==
  ASSUME LogInv, NEW l, LoadTab(l) PROVE LogInv'
<1> DEFINE V == [lines : Seq(Nat), first : Nat, done : BOOLEAN]
<1>1. LogTypeInv'
  BY DEF LogInv, LogTypeInv, LoadTab, job
<1> SUFFICES ASSUME ~tangled PROVE UntangledInv'
  BY <1>1 DEF LogInv, LoadTab
<1>2. UntangledInv /\ LogTypeInv
  BY DEF LogInv
<1>3. /\ l \in loads /\ Len(l.got) < 3
      /\ UNCHANGED <<output, ended, events, listening, tab, views, source, earlier>>
  BY DEF LoadTab, Tabs, job
<1>4. PICK v \in {Snapshot(Tabs[Len(l.got) + 1]), Empty} :
        loads' = (loads \ {l}) \cup {[l EXCEPT !.got = Append(@, v)]}
  BY DEF LoadTab
<1> DEFINE n == Len(l.got) + 1
<1>m. PICK m : m = [l EXCEPT !.got = Append(@, v)]
  OBVIOUS
<1>5. Load(l) /\ l \in [no : Nat, got : Seq(V)] /\ Len(l.got) \in Nat
  BY <1>2, <1>3 DEF UntangledInv, Load
<1>6. n \in 1..3 /\ Tabs[n] \in TabNames
  <2>1. n \in 1..3
    BY <1>3, <1>5
  <2> QED BY <2>1 DEF Tabs, TabNames
<1> HIDE DEF n
<1>7. IsView(output, v, Tabs[n])
  <2>1. IsView(output, Snapshot(Tabs[n]), Tabs[n]) /\ IsView(output, Empty, Tabs[n])
    BY <1>2, <1>6, SnapshotIsView, LogAssumption DEF LogTypeInv
  <2> QED BY <1>4, <2>1 DEF n
<1>8. v \in V
  <2>1. v \in [lines : Seq(1..Len(output)), first : Nat, done : BOOLEAN]
    BY <1>7 DEF IsView
  <2>2. 1..Len(output) \subseteq Nat
    BY <1>2 DEF LogTypeInv
  <2>3. v.lines \in Seq(Nat)
    BY <2>1, <2>2, SeqWidens
  <2> QED BY <2>1, <2>3
<1> HIDE DEF V
<1>9. m \in [no : Nat, got : Seq(V)] /\ m.got = Append(l.got, v)
  BY <1>5, <1>8, <1>m, LoadIsTyped
<1>10. Len(m.got) = n /\ m.got[n] = v /\ \A k \in 1..Len(l.got) : m.got[k] = l.got[k]
  BY <1>5, <1>8, <1>9 DEF n
<1>11. \A k \in 1..Len(m.got) : k \in 1..Len(l.got) \/ k = n
  BY <1>5, <1>10 DEF n
<1>12. ASSUME NEW k \in 1..Len(m.got) PROVE IsView(output, m.got[k], Tabs[k])
  BY <1>5, <1>7, <1>10, <1>11 DEF Load
<1>13. Load(m)'
  <2>1. Len(m.got) <= 3 /\ \A k \in 1..Len(m.got) : IsView(output', m.got[k], Tabs[k])
    BY <1>3, <1>6, <1>10, <1>12
  <2>2. m \in [no : Nat, got : Seq([lines : Seq(Nat), first : Nat, done : BOOLEAN])]
    BY <1>9 DEF V
  <2> QED BY <2>1, <2>2 DEF Load
<1>14. loads' = {m}
  BY <1>2, <1>3, <1>4, <1>m DEF UntangledInv
<1>15. loads # {}
  BY <1>3
<1> QED BY <1>2, <1>3, <1>13, <1>14, <1>15 DEF UntangledInv, Fits, NoViews

LEMMA ShowKeeps ==
  ASSUME LogInv, NEW l, Show(l) PROVE LogInv'
<1>1. LogTypeInv'
  BY DEF LogInv, LogTypeInv, Show, job
<1> SUFFICES ASSUME ~tangled PROVE UntangledInv'
  BY <1>1 DEF LogInv, Show
<1>2. UntangledInv /\ LogTypeInv
  BY DEF LogInv
<1>3. /\ l \in loads /\ Len(l.got) = 3
      /\ views' = [name \in TabNames |-> l.got[CHOOSE i \in 1..3 : Tabs[i] = name]]
      /\ source' = TRUE
      /\ UNCHANGED <<output, ended, events, tab, earlier>> /\ loads' = loads \ {l}
  BY DEF Show, Tabs, job
<1>4. events = <<>> /\ earlier = {} /\ loads' = {} /\ Load(l)
  BY <1>2, <1>3 DEF UntangledInv
<1>5. ASSUME NEW name \in TabNames PROVE IsView(output, views'[name], name)
  <2> DEFINE i == CHOOSE i \in 1..3 : Tabs[i] = name
  <2>1. \E k \in 1..3 : Tabs[k] = name
    BY DEF Tabs, TabNames
  <2>2. i \in 1..3 /\ Tabs[i] = name
    BY <2>1
  <2>3. views'[name] = l.got[i]
    BY <1>3
  <2> HIDE DEF i
  <2> QED BY <1>3, <1>4, <2>2, <2>3 DEF Load
<1>6. ASSUME NEW name \in TabNames PROVE Fits(views[name], name)'
  <2>1. ComeAfter(output, <<>>, views'[name], name)
    BY DEF ComeAfter
  <2> QED BY <1>3, <1>4, <1>5, <2>1 DEF Fits
<1>7. views' = [name \in TabNames |-> views'[name]]
  BY <1>3
<1>8. AreEvents(output, events)'
  BY <1>2, <1>3 DEF UntangledInv
<1> QED BY <1>3, <1>4, <1>6, <1>7, <1>8 DEF UntangledInv

LEMMA DoneIsView ==
  ASSUME NEW out, NEW es, NEW name, NEW v, IsView(out, v, name), ComeAfter(out, es, v, name)
  PROVE  /\ IsView(out, [v EXCEPT !.done = TRUE], name)
         /\ ComeAfter(out, es, [v EXCEPT !.done = TRUE], name)
<1> DEFINE A == 1..Len(out)
<1>1. PICK w : w = [v EXCEPT !.done = TRUE]
  OBVIOUS
<1>2. v \in [lines : Seq(A), first : Nat, done : BOOLEAN]
  BY DEF IsView
<1> HIDE DEF A
<1>3. w \in [lines : Seq(A), first : Nat, done : BOOLEAN] /\ w.lines = v.lines /\ w.first = v.first
  BY <1>1, <1>2
<1>4. IsView(out, w, name)
  BY <1>3 DEF IsView, A
<1>5. ComeAfter(out, es, w, name)
  BY <1>3 DEF ComeAfter
<1> QED BY <1>1, <1>4, <1>5

LEMMA AfterAdded ==
  ASSUME NEW out \in Seq(Outs), NEW es, NEW name \in TabNames, NEW v, IsView(out, v, name),
         NEW line \in 1..Len(out), ComeAfter(out, es, v, name),
         \A k \in 1..Len(es) : es[k].event = "output" => line < es[k].line
  PROVE  ComeAfter(out, es, Added(v, line), name)
<1> DEFINE A == 1..Len(out)
<1>1. v \in [lines : Seq(A), first : Nat, done : BOOLEAN] /\ line \in A
  BY DEF IsView
<1> HIDE DEF A
<1>2. PICK w : w = Added(v, line)
  OBVIOUS
<1>3. w.lines = Append(v.lines, line) /\ w.first = v.first
  BY <1>1, <1>2, AddedIsTyped
<1>4. v.lines \in Seq(A)
  BY <1>1
<1>5. \A i \in 1..Len(w.lines) : w.lines[i] = line \/ (i \in 1..Len(v.lines) /\ w.lines[i] = v.lines[i])
  BY <1>1, <1>3, <1>4
<1>6. ComeAfter(out, es, w, name)
  BY <1>3, <1>5 DEF ComeAfter
<1> QED BY <1>2, <1>6

LEMMA DeliverKeeps ==
  ASSUME LogInv, Deliver PROVE LogInv'
<1>1. LogTypeInv'
  BY DEF LogInv, LogTypeInv, Deliver, job
<1> SUFFICES ASSUME ~tangled PROVE UntangledInv'
  BY <1>1 DEF LogInv, Deliver
<1>2. UntangledInv /\ LogTypeInv
  BY DEF LogInv
<1>3. /\ events # <<>> /\ events' = Tail(events)
      /\ UNCHANGED <<output, listening, tab, source, loads, earlier>>
  BY DEF Deliver, job
<1> DEFINE e == Head(events)
<1>4. views' = CASE views = NoViews -> views
                 [] views # NoViews /\ e.event = "output" ->
                      [name \in TabNames |-> IF name \in {"all", e.of} THEN Added(views[name], e.line) ELSE views[name]]
                 [] OTHER -> Done(views)
  BY DEF Deliver
<1>5. /\ output \in Seq(Outs) /\ AreEvents(output, events)
      /\ loads = {} /\ source
  BY <1>2, <1>3 DEF UntangledInv, LogTypeInv
<1>6. /\ e \in Event
      /\ e.event = "output" => e.line \in 1..Len(output) /\ e.of = output[e.line]
      /\ AreEvents(output, Tail(events))
      /\ \A v : \A name \in TabNames : ComeAfter(output, events, v, name) => ComeAfter(output, Tail(events), v, name)
      /\ e.event = "output" =>
           \A k \in 1..Len(Tail(events)) : Tail(events)[k].event = "output" => e.line < Tail(events)[k].line
      /\ \A v : \A name \in TabNames : ComeAfter(output, events, v, name) /\ e.event = "output" =>
              /\ \A i \in 1..Len(v.lines) : v.lines[i] < e.line
              /\ \A j \in 1..v.first : OwnLines(output, name)[j] < e.line
  <2>1. 1 \in 1..Len(events) /\ e = events[1]
    <3>1. events \in Seq(Event)
      BY <1>5 DEF AreEvents
    <3> QED BY <1>3, <3>1
  <2>2. \A v : \A name \in TabNames : ComeAfter(output, events, v, name) /\ e.event = "output" =>
              /\ \A i \in 1..Len(v.lines) : v.lines[i] < e.line
              /\ \A j \in 1..v.first : OwnLines(output, name)[j] < e.line
    BY <2>1 DEF ComeAfter
  <2> QED BY <1>3, <1>5, <2>2, EventsAfterFirst
<1> HIDE DEF e
<1>7. ASSUME NEW l \in earlier PROVE Fits(Put(l), tab)'
  <2>1. Fits(Put(l), tab) /\ tab \in TabNames
    BY <1>2 DEF UntangledInv, LogTypeInv
  <2>2. IsView(output', Put(l), tab) /\ ComeAfter(output', events', Put(l), tab)
    BY <1>3, <1>6, <2>1 DEF Fits
  <2> QED BY <1>3, <2>2 DEF Fits, Put
<1>8. ASSUME views # NoViews
      PROVE  /\ views' = [name \in TabNames |-> views'[name]]
             /\ \A name \in TabNames : Fits(views[name], name)'
  <2>1. /\ views = [name \in TabNames |-> views[name]]
        /\ \A name \in TabNames : Fits(views[name], name)
    BY <1>2, <1>8 DEF UntangledInv
  <2>2. CASE e.event = "output"
    <3>1. views' = [name \in TabNames |-> IF name \in {"all", e.of} THEN Added(views[name], e.line) ELSE views[name]]
      BY <1>4, <1>8, <2>2
    <3>2. ASSUME NEW name \in TabNames PROVE Fits(views[name], name)'
      <4>1. PICK v : v = views[name]
        OBVIOUS
      <4>2. IsView(output, v, name) /\ ComeAfter(output, events, v, name)
        BY <2>1, <4>1 DEF Fits
      <4>3. CASE name \in {"all", e.of}
        <5>1. views'[name] = Added(v, e.line)
          BY <3>1, <4>1, <4>3
        <5>2. IsView(output, Added(v, e.line), name)
          BY <1>5, <1>6, <2>2, <4>2, <4>3, LineIsAdded
        <5>3. ComeAfter(output, Tail(events), Added(v, e.line), name)
          BY <1>6, <2>2, <4>2, <1>5, AfterAdded
        <5> QED BY <1>3, <5>1, <5>2, <5>3 DEF Fits
      <4>4. CASE name \notin {"all", e.of}
        <5>1. views'[name] = v
          BY <3>1, <4>1, <4>4
        <5>2. ComeAfter(output, Tail(events), v, name)
          BY <1>6, <4>2
        <5> QED BY <1>3, <4>2, <5>1, <5>2 DEF Fits
      <4> QED BY <4>3, <4>4
    <3> QED BY <3>1, <3>2
  <2>3. CASE e.event # "output"
    <3>1. views' = Done(views)
      BY <1>4, <1>8, <2>3
    <3>2. views' = [name \in TabNames |-> [views[name] EXCEPT !.done = TRUE]]
      BY <2>1, <3>1 DEF Done
    <3>3. ASSUME NEW name \in TabNames PROVE Fits(views[name], name)'
      <4>1. PICK v : v = views[name]
        OBVIOUS
      <4>2. IsView(output, v, name) /\ ComeAfter(output, Tail(events), v, name)
        BY <1>6, <2>1, <4>1 DEF Fits
      <4>3. views'[name] = [v EXCEPT !.done = TRUE]
        BY <3>2, <4>1
      <4> QED BY <1>3, <4>2, <4>3, DoneIsView DEF Fits
    <3> QED BY <3>2, <3>3
  <2> QED BY <2>2, <2>3
<1>9. views = NoViews => views' = NoViews
  BY <1>4
<1> QED BY <1>2, <1>3, <1>5, <1>6, <1>7, <1>8, <1>9 DEF UntangledInv, NoViews

LEMMA LoadEarlierKeeps ==
  ASSUME LogInv, LoadEarlier PROVE LogInv'
<1>1. LogTypeInv'
  BY DEF LogInv, LogTypeInv, LoadEarlier, job
<1> SUFFICES ASSUME ~tangled PROVE UntangledInv'
  BY <1>1 DEF LogInv, LoadEarlier
<1>2. UntangledInv /\ LogTypeInv
  BY DEF LogInv
<1>3. PICK v : v = views[tab]
  OBVIOUS
<1> DEFINE from == IF v.first > PageLines THEN v.first - PageLines ELSE 0
<1>4. /\ views # NoViews
      /\ UNCHANGED <<output, events, listening, tab, views, source, loads>>
      /\ earlier' = earlier \cup {[no |-> clicks', view |-> v, first |-> from, lines |-> Window(tab, from, v.first)]}
  BY <1>3 DEF LoadEarlier, job
<1>5. PICK l : l = [no |-> clicks', view |-> v, first |-> from, lines |-> Window(tab, from, v.first)]
  OBVIOUS
<1>6. IsView(output, v, tab) /\ ComeAfter(output, events, v, tab) /\ tab \in TabNames /\ output \in Seq(Outs)
  BY <1>2, <1>3, <1>4 DEF UntangledInv, Fits, LogTypeInv
<1>7. v.first \in Nat
  BY <1>6 DEF IsView
<1>8. from \in Nat /\ from <= v.first
  BY <1>7, LogAssumption
<1> HIDE DEF from
<1>9. l.view = v /\ l.first = from /\ l.lines = Window(tab, from, v.first)
  BY <1>5
<1>10. IsView(output, Put(l), tab) /\ ComeAfter(output, events, Put(l), tab)
  BY <1>6, <1>8, <1>9, EarlierIsView
<1>11. loads = {}
  BY <1>2, <1>4 DEF UntangledInv
<1>12. ASSUME NEW m \in earlier' PROVE Fits(Put(m), tab)'
  <2>1. Fits(Put(m), tab)
    BY <1>2, <1>4, <1>5, <1>10 DEF UntangledInv, Fits
  <2> QED BY <1>4, <2>1 DEF Fits, Put
<1>13. ASSUME NEW name \in TabNames PROVE Fits(views[name], name)'
  BY <1>2, <1>4 DEF Fits, UntangledInv
<1> QED BY <1>2, <1>4, <1>11, <1>12, <1>13 DEF UntangledInv, NoViews

LEMMA EarlierKeeps ==
  ASSUME LogInv, NEW l, ShowEarlier(l) \/ EarlierFails(l) PROVE LogInv'
<1>1. LogTypeInv'
  BY DEF LogInv, LogTypeInv, ShowEarlier, EarlierFails, job
<1> SUFFICES ASSUME ~tangled PROVE UntangledInv'
  BY <1>1 DEF LogInv, ShowEarlier, EarlierFails
<1>2. UntangledInv /\ LogTypeInv
  BY DEF LogInv
<1>3. /\ l \in earlier /\ earlier' = earlier \ {l}
      /\ UNCHANGED <<output, events, listening, tab, source, loads>>
      /\ \/ views' = views
         \/ views # NoViews /\ views' = [views EXCEPT ![tab] = Put(l)]
  BY DEF ShowEarlier, EarlierFails, job, Put
<1>4. loads = {}
  BY <1>2, <1>3 DEF UntangledInv
<1>5. ASSUME NEW m \in earlier' PROVE Fits(Put(m), tab)'
  <2>1. Fits(Put(m), tab)
    BY <1>2, <1>3 DEF UntangledInv
  <2> QED BY <1>3, <2>1 DEF Fits, Put
<1>6. PICK p : p = Put(l)
  OBVIOUS
<1>7. IsView(output, p, tab) /\ ComeAfter(output, events, p, tab)
  BY <1>2, <1>3, <1>6 DEF UntangledInv, Fits
<1>8. ASSUME views' # NoViews
      PROVE  /\ views' = [name \in TabNames |-> views'[name]]
             /\ \A name \in TabNames : IsView(output, views'[name], name) /\ ComeAfter(output, events, views'[name], name)
  <2>1. /\ views = [name \in TabNames |-> views[name]]
        /\ \A name \in TabNames : IsView(output, views[name], name) /\ ComeAfter(output, events, views[name], name)
    BY <1>2, <1>3, <1>8 DEF UntangledInv, Fits
  <2>2. CASE views' = views
    BY <2>1, <2>2
  <2>3. CASE views' = [views EXCEPT ![tab] = p]
    <3>1. views' = [name \in TabNames |-> IF name = tab THEN p ELSE views[name]]
      BY <2>1, <2>3
    <3> QED BY <1>7, <2>1, <3>1
  <2> QED BY <1>3, <1>6, <2>2, <2>3
<1>9. ASSUME views' # NoViews
      PROVE  \A name \in TabNames : Fits(views[name], name)'
  BY <1>3, <1>8, <1>9 DEF Fits
<1> QED BY <1>2, <1>3, <1>4, <1>5, <1>8, <1>9 DEF UntangledInv, NoViews

LEMMA LogNextInv == LogInv /\ [LogNext]_logVars => LogInv'
<1> SUFFICES ASSUME LogInv, [LogNext]_logVars PROVE LogInv'
  OBVIOUS
<1>1. ASSUME NEW s \in {"stdout", "stderr"}, Write(s) PROVE LogInv'
  BY <1>1, WriteKeeps DEF Outs
<1>2. CASE End
  <2> DEFINE e == [event |-> "completed", of |-> "all", line |-> 0]
  <2>1. e \in Event /\ e.event # "output"
    BY DEF Event, TabNames
  <2>2. /\ events' = events \/ (listening /\ events' = Append(events, e))
        /\ ended' \in BOOLEAN /\ listening' = listening /\ clicks' \in Nat
        /\ UNCHANGED <<output, opened, tab, views, source, loads, earlier, tangled>>
    BY <1>2 DEF End, LogInv, LogTypeInv
  <2> HIDE DEF e
  <2> QED BY <2>1, <2>2, QuietEventsKeep
<1>3. CASE BreakOff \/ Cut
  <2> DEFINE e == [event |-> "error", of |-> "all", line |-> 0]
  <2>1. e \in Event /\ e.event # "output"
    BY DEF Event, TabNames
  <2>2. /\ listening /\ events' = Append(events, e)
        /\ ended' \in BOOLEAN /\ listening' = FALSE /\ clicks' \in Nat
        /\ UNCHANGED <<output, opened, tab, views, source, loads, earlier, tangled>>
    BY <1>3 DEF BreakOff, Cut, LogInv, LogTypeInv, job
  <2> HIDE DEF e
  <2> QED BY <2>1, <2>2, QuietEventsKeep
<1>4. CASE Open \/ Close \/ (\E name \in TabNames : SwitchTab(name))
  BY <1>4, DialogKeeps
<1>5. CASE LoadingTabs
  BY <1>5, LoadTabKeeps, ShowKeeps DEF LoadingTabs
<1>6. CASE Deliver
  BY <1>6, DeliverKeeps
<1>7. CASE LoadEarlier
  BY <1>7, LoadEarlierKeeps
<1>8. CASE \E l \in earlier : ShowEarlier(l) \/ EarlierFails(l)
  BY <1>8, EarlierKeeps
<1>9. CASE UNCHANGED logVars
  <2>1. UNCHANGED <<output, ended, listening, events, tab, views, source, loads, earlier, clicks, tangled>>
    BY <1>9 DEF logVars
  <2>2. UntangledInv => UntangledInv'
    BY <2>1 DEF UntangledInv, AreEvents, Load, Fits, Put, NoViews
  <2>3. LogTypeInv => LogTypeInv'
    BY <2>1 DEF LogTypeInv
  <2> QED BY <2>1, <2>2, <2>3 DEF LogInv
<1>10. CASE Relisten
  <2>1. /\ UNCHANGED <<output, ended, events, tab, views, source, loads, earlier, clicks, tangled>>
        /\ source /\ listening' = TRUE
    BY <1>10 DEF Relisten, job
  <2>2. UntangledInv => UntangledInv'
    BY <2>1 DEF UntangledInv, AreEvents, Load, Fits, Put, NoViews
  <2>3. LogTypeInv => LogTypeInv'
    BY <2>1 DEF LogTypeInv
  <2> QED BY <2>1, <2>2, <2>3 DEF LogInv
<1> QED BY <1>10, <1>1, <1>2, <1>3, <1>4, <1>5, <1>6, <1>7, <1>8, <1>9 DEF LogNext

(* A tab shows lines of its own, each once and in order, whatever is loaded,
   streamed and loaded before while the dialog is used. *)
THEOREM LinesStayInOrder == LogSpec => []LinesAreOrdered
<1>1. LogInv => LinesAreOrdered
  <2> SUFFICES ASSUME LogInv, views # NoViews, ~tangled, NEW name \in TabNames
               PROVE  LET lines == views[name].lines
                      IN  /\ \A i \in 1..Len(lines) : name \in {"all", output[lines[i]]}
                          /\ \A i, j \in 1..Len(lines) : i < j => lines[i] < lines[j]
    BY DEF LinesAreOrdered
  <2>1. IsView(output, views[name], name)
    BY DEF LogInv, UntangledInv, Fits
  <2> QED BY <2>1 DEF IsView, InOrder
<1> QED BY <1>1, LogInitInv, LogNextInv, PTL DEF LogSpec

-----------------------------------------------------------------------------
(* ChatSession: lists, whatever they hold *)

Members(s) == {s[i] : i \in 1..Len(s)}
IsList(s) == s \in Seq(Members(s))

LEMMA ListsOf ==
  ASSUME NEW S, NEW s \in Seq(S)
  PROVE  IsList(s) /\ Len(s) \in Nat /\ \A i \in 1..Len(s) : s[i] \in S
<1>1. Len(s) \in Nat /\ s \in [1..Len(s) -> S]
  OBVIOUS
<1> DEFINE M == Members(s)
<1>2. \A i \in 1..Len(s) : s[i] \in M
  BY DEF Members
<1> HIDE DEF M
<1>3. s \in [1..Len(s) -> M]
  BY <1>1, <1>2
<1>4. s \in Seq(M)
  BY <1>1, <1>3
<1> QED BY <1>1, <1>4 DEF IsList, M

LEMMA ListHas ==
  ASSUME NEW s, IsList(s)
  PROVE  Len(s) \in Nat /\ \A i \in 1..Len(s) : s[i] \in Members(s)
BY ListsOf DEF IsList

LEMMA ListOfFunction ==
  ASSUME NEW n \in Nat, NEW f, f = [i \in 1..n |-> f[i]]
  PROVE  IsList(f) /\ Len(f) = n
<1> DEFINE M == {f[i] : i \in 1..n}
<1>1. \A i \in 1..n : f[i] \in M
  OBVIOUS
<1> HIDE DEF M
<1>2. f \in [1..n -> M]
  BY <1>1
<1>3. f \in Seq(M) /\ Len(f) = n
  BY <1>2
<1> QED BY <1>3, ListsOf

LEMMA ListAppend ==
  ASSUME NEW s, IsList(s), NEW x
  PROVE  /\ IsList(Append(s, x)) /\ Len(Append(s, x)) = Len(s) + 1
         /\ Append(s, x)[Len(s) + 1] = x
         /\ \A i \in 1..Len(s) : Append(s, x)[i] = s[i]
<1> DEFINE M == Members(s) \cup {x}
<1>1. Members(s) \subseteq M /\ x \in M
  OBVIOUS
<1> HIDE DEF M
<1>2. s \in Seq(M)
  BY <1>1, SeqWidens DEF IsList
<1>3. /\ Append(s, x) \in Seq(M) /\ Len(Append(s, x)) = Len(s) + 1
      /\ Append(s, x)[Len(s) + 1] = x
      /\ \A i \in 1..Len(s) : Append(s, x)[i] = s[i]
  BY <1>1, <1>2
<1> QED BY <1>3, ListsOf

LEMMA ListConcat ==
  ASSUME NEW s, IsList(s), NEW u, IsList(u)
  PROVE  /\ IsList(s \o u) /\ Len(s \o u) = Len(s) + Len(u)
         /\ \A i \in 1..Len(s) : (s \o u)[i] = s[i]
         /\ \A i \in 1..Len(u) : (s \o u)[Len(s) + i] = u[i]
         /\ \A i \in 1..Len(s \o u) : \/ i \in 1..Len(s)
                                      \/ i - Len(s) \in 1..Len(u) /\ Len(s) + (i - Len(s)) = i
<1> DEFINE M == Members(s) \cup Members(u)
           m == Len(s)
           n == Len(u)
<1>1. Members(s) \subseteq M /\ Members(u) \subseteq M
  OBVIOUS
<1> HIDE DEF M
<1>2. s \in Seq(M) /\ u \in Seq(M)
  BY <1>1, SeqWidens DEF IsList
<1>3. m \in Nat /\ n \in Nat
  BY <1>2
<1>4. /\ s \o u \in Seq(M) /\ Len(s \o u) = m + n
      /\ \A i \in 1..(m + n) : (s \o u)[i] = IF i <= m THEN s[i] ELSE u[i - m]
  BY <1>2, ConcatProperties
<1> HIDE DEF m, n
<1>5. \A i \in 1..m : i \in 1..(m + n) /\ i <= m
  BY <1>3
<1>6. \A i \in 1..n : m + i \in 1..(m + n) /\ ~(m + i <= m) /\ (m + i) - m = i
  BY <1>3
<1>7. \A i \in 1..(m + n) : i \in 1..m \/ (i - m \in 1..n /\ m + (i - m) = i)
  BY <1>3
<1>8. IsList(s \o u)
  BY <1>4, ListsOf
<1> QED BY <1>4, <1>5, <1>6, <1>7, <1>8 DEF m, n

LEMMA ListPicked ==
  ASSUME NEW s, IsList(s), NEW S, S \subseteq 1..Len(s)
  PROVE  /\ IsList(Picked(s, S)) /\ Len(Picked(s, S)) = Cardinality(S)
         /\ Cardinality(S) \in Nat
         /\ Ascending(S) \in [1..Cardinality(S) -> S]
         /\ \A n \in 1..Cardinality(S) : Picked(s, S)[n] = s[Ascending(S)[n]]
         /\ \A m, n \in 1..Cardinality(S) : m < n => Ascending(S)[m] < Ascending(S)[n]
         /\ \A x \in S : \E n \in 1..Cardinality(S) : Ascending(S)[n] = x
<1> DEFINE M == Members(s)
<1>1. s \in Seq(M)
  BY DEF IsList
<1> HIDE DEF M
<1>2. Picked(s, S) \in Seq(M)
  BY <1>1, PickedInOrder
<1>3. IsList(Picked(s, S)) /\ Len(Picked(s, S)) \in Nat
  BY <1>2, ListsOf
<1>4. /\ Len(Picked(s, S)) = Cardinality(S)
      /\ Ascending(S) \in [1..Cardinality(S) -> S]
      /\ \A m, n \in 1..Cardinality(S) : m < n => Ascending(S)[m] < Ascending(S)[n]
      /\ \A x \in S : \E n \in 1..Cardinality(S) : Ascending(S)[n] = x
  <2>1. Len(Picked(s, S)) = Cardinality(S)
    BY <1>1, PickedInOrder
  <2>2. Ascending(S) \in [1..Cardinality(S) -> S]
    BY <1>1, PickedInOrder
  <2>3. \A m, n \in 1..Cardinality(S) : m < n => Ascending(S)[m] < Ascending(S)[n]
    BY <1>1, PickedInOrder
  <2>4. \A x \in S : \E n \in 1..Cardinality(S) : Ascending(S)[n] = x
    <3>1. S \subseteq Nat /\ IsFiniteSet(S)
      <4>1. Len(s) \in Nat /\ IsFiniteSet(1..Len(s))
        BY <1>1, FS_Interval
      <4>2. \A k \in 1..Len(s) : k \in Nat
        BY <4>1
      <4> QED BY <4>1, <4>2, FS_Subset
    <3> QED BY <3>1, AscendingOrder
  <2> QED BY <2>1, <2>2, <2>3, <2>4
<1>5. \A n \in 1..Cardinality(S) : Picked(s, S)[n] = s[Ascending(S)[n]]
  BY DEF Picked
<1> QED BY <1>3, <1>4, <1>5

LEMMA ListSubSeq ==
  ASSUME NEW s, IsList(s), NEW k \in Nat, k <= Len(s)
  PROVE  /\ IsList(SubSeq(s, k + 1, Len(s))) /\ Len(SubSeq(s, k + 1, Len(s))) = Len(s) - k
         /\ \A i \in 1..(Len(s) - k) : k + i \in 1..Len(s) /\ SubSeq(s, k + 1, Len(s))[i] = s[k + i]
<1> DEFINE M == Members(s)
           n == Len(s)
<1>1. s \in Seq(M) /\ n \in Nat
  BY ListHas DEF IsList
<1> HIDE DEF M
<1>2. /\ SubSeq(s, k + 1, n) \in Seq(M) /\ Len(SubSeq(s, k + 1, n)) = n - k
      /\ \A i \in 1..(n - k) : SubSeq(s, k + 1, n)[i] = s[k + i]
  <2>1. CASE k = n
    BY <1>1, <2>1, SubSeqProperties
  <2>2. CASE k < n
    BY <1>1, <2>2, SubSeqProperties
  <2> QED BY <1>1, <2>1, <2>2
<1>3. \A i \in 1..(n - k) : k + i \in 1..n
  BY <1>1
<1>4. IsList(SubSeq(s, k + 1, n))
  BY <1>2, ListsOf
<1> QED BY <1>2, <1>3, <1>4

-----------------------------------------------------------------------------
(* Messages *)

Ids == [by : {"page", "agent"}, no : Nat]
IsMessage(m) == m = [id |-> m.id, role |-> m.role, status |-> m.status, seq |-> m.seq, parts |-> m.parts]

LEMMA MessageIsOne ==
  ASSUME NEW i, NEW r, NEW s, NEW q, NEW p
  PROVE  LET m == Message(i, r, s, q, p)
         IN  IsMessage(m) /\ m.id = i /\ m.role = r /\ m.status = s /\ m.seq = q /\ m.parts = p
BY DEF IsMessage, Message

LEMMA PartsChange ==
  ASSUME NEW m, IsMessage(m), NEW x, NEW n, n = [m EXCEPT !.parts = x]
  PROVE  IsMessage(n) /\ n.id = m.id /\ n.status = m.status /\ n.seq = m.seq
<1>1. PICK i, r, s, q, p : m = [id |-> i, role |-> r, status |-> s, seq |-> q, parts |-> p]
  BY DEF IsMessage
<1>2. n = [id |-> i, role |-> r, status |-> s, seq |-> q, parts |-> x]
  BY <1>1
<1> QED BY <1>1, <1>2 DEF IsMessage

LEMMA StatusChanges ==
  ASSUME NEW m, IsMessage(m), NEW x, NEW n, n = [m EXCEPT !.status = x]
  PROVE  IsMessage(n) /\ n.id = m.id /\ n.status = x /\ n.seq = m.seq
<1>1. PICK i, r, s, q, p : m = [id |-> i, role |-> r, status |-> s, seq |-> q, parts |-> p]
  BY DEF IsMessage
<1>2. n = [id |-> i, role |-> r, status |-> x, seq |-> q, parts |-> p]
  BY <1>1
<1> QED BY <1>1, <1>2 DEF IsMessage

(* A message of the page or of the agent, made before now. *)
IsKnown(m, mk, lc) ==
  /\ IsMessage(m) /\ m.id \in Ids /\ m.seq \in Nat
  /\ m.id.by = "page" => m.id.no <= lc
  /\ m.id.by = "agent" => m.id.no <= mk
  /\ m.status = "pending" => m.id.by = "page"

Shown(ms, mk, lc) ==
  /\ IsList(ms)
  /\ \A i \in 1..Len(ms) : IsKnown(ms[i], mk, lc)
  /\ \A i, j \in 1..Len(ms) : ms[i].id = ms[j].id => i = j
  /\ \A i, j \in 1..Len(ms) : ms[i].status = "pending" /\ ms[j].status = "pending" => i = j

(* What the agent has: each message under its own number, in order. *)
Kept(r, mk) ==
  /\ IsList(r)
  /\ \A i \in 1..Len(r) : /\ IsMessage(r[i]) /\ r[i].seq \in Nat /\ r[i].seq <= mk
                          /\ r[i].id = [by |-> "agent", no |-> r[i].seq] /\ r[i].status = "complete"
  /\ \A i, j \in 1..Len(r) : i < j => r[i].seq < r[j].seq

LEMMA KnownLater ==
  ASSUME NEW m, NEW mk \in Nat, NEW lc \in Nat, NEW mk2 \in Nat, NEW lc2 \in Nat, mk <= mk2, lc <= lc2,
         IsKnown(m, mk, lc)
  PROVE  IsKnown(m, mk2, lc2)
<1>1. m.id.no \in Nat
  BY DEF IsKnown, Ids
<1> QED BY <1>1 DEF IsKnown

LEMMA ShownLater ==
  ASSUME NEW ms, NEW mk \in Nat, NEW lc \in Nat, NEW mk2 \in Nat, NEW lc2 \in Nat, mk <= mk2, lc <= lc2,
         Shown(ms, mk, lc)
  PROVE  Shown(ms, mk2, lc2)
BY KnownLater DEF Shown

LEMMA KeptLater ==
  ASSUME NEW r, NEW mk \in Nat, NEW mk2 \in Nat, mk <= mk2, Kept(r, mk)
  PROVE  Kept(r, mk2)
BY DEF Kept

(* Messages with other words and another status, but for those that wait. *)
LEMMA ShownReworded ==
  ASSUME NEW mk \in Nat, NEW lc \in Nat, NEW ms, Shown(ms, mk, lc), NEW ns,
         ns = [i \in 1..Len(ms) |-> ns[i]],
         \A i \in 1..Len(ms) : /\ IsMessage(ns[i]) /\ ns[i].id = ms[i].id /\ ns[i].seq = ms[i].seq
                               /\ ns[i].status = "pending" => ms[i].status = "pending"
  PROVE  Shown(ns, mk, lc) /\ Len(ns) = Len(ms)
<1>1. IsList(ns) /\ Len(ns) = Len(ms)
  BY ListOfFunction, ListHas DEF Shown
<1>2. \A i \in 1..Len(ms) : IsKnown(ns[i], mk, lc)
  BY DEF Shown, IsKnown
<1> QED BY <1>1, <1>2 DEF Shown

LEMMA ShownPicked ==
  ASSUME NEW mk \in Nat, NEW lc \in Nat, NEW ms, Shown(ms, mk, lc), NEW S, S \subseteq 1..Len(ms)
  PROVE  Shown(Picked(ms, S), mk, lc)
<1> DEFINE ns == Picked(ms, S)
           N == Cardinality(S)
           e == Ascending(S)
<1>1. IsList(ms)
  BY DEF Shown
<1>2. /\ e \in [1..N -> S]
      /\ \A n \in 1..N : ns[n] = ms[e[n]]
      /\ \A m, n \in 1..N : m < n => e[m] < e[n]
  <2>1. \A n \in 1..N : ns[n] = ms[e[n]]
    BY DEF Picked
  <2> QED BY <1>1, <2>1, ListPicked
<1>3. IsList(ns) /\ Len(ns) = N /\ N \in Nat
  BY <1>1, ListPicked
<1> HIDE DEF ns, N, e
<1>4. \A n \in 1..N : e[n] \in 1..Len(ms)
  BY <1>2
<1>5. \A m, n \in 1..N : e[m] = e[n] => m = n
  <2> SUFFICES ASSUME NEW m \in 1..N, NEW n \in 1..N, e[m] = e[n], m # n PROVE FALSE
    OBVIOUS
  <2>1. m < n \/ n < m
    BY <1>3
  <2>2. e[m] < e[n] \/ e[n] < e[m]
    BY <1>2, <2>1
  <2>3. e[m] \in 1..Len(ms) /\ Len(ms) \in Nat
    BY <1>1, <1>4, ListHas
  <2> QED BY <2>2, <2>3
<1>6. \A n \in 1..N : IsKnown(ns[n], mk, lc)
  BY <1>2, <1>4 DEF Shown
<1>7. \A m, n \in 1..N : ns[m].id = ns[n].id => m = n
  BY <1>2, <1>4, <1>5 DEF Shown
<1>8. \A m, n \in 1..N : ns[m].status = "pending" /\ ns[n].status = "pending" => m = n
  BY <1>2, <1>4, <1>5 DEF Shown
<1>9. Shown(ns, mk, lc)
  BY <1>3, <1>6, <1>7, <1>8 DEF Shown
<1> QED BY <1>9 DEF ns

LEMMA ShownAppend ==
  ASSUME NEW mk \in Nat, NEW lc \in Nat, NEW ms, Shown(ms, mk, lc), NEW m, IsKnown(m, mk, lc),
         \A i \in 1..Len(ms) : ms[i].id # m.id,
         m.status = "pending" => \A i \in 1..Len(ms) : ms[i].status # "pending"
  PROVE  Shown(Append(ms, m), mk, lc)
<1> DEFINE ns == Append(ms, m)
           N == Len(ms)
<1>1. /\ IsList(ns) /\ Len(ns) = N + 1 /\ ns[N + 1] = m /\ N \in Nat
      /\ \A i \in 1..N : ns[i] = ms[i]
  BY ListAppend, ListHas DEF Shown
<1> HIDE DEF ns
<1>2. \A i \in 1..Len(ns) : i \in 1..N \/ i = N + 1
  BY <1>1
<1>3. \A i \in 1..Len(ns) : IsKnown(ns[i], mk, lc)
  BY <1>1, <1>2 DEF Shown
<1>4. ASSUME NEW i \in 1..Len(ns), NEW j \in 1..Len(ns), ns[i].id = ns[j].id PROVE i = j
  <2>1. CASE i \in 1..N /\ j \in 1..N
    BY <1>1, <1>4, <2>1 DEF Shown
  <2>2. CASE i = N + 1 \/ j = N + 1
    BY <1>1, <1>2, <1>4, <2>2
  <2> QED BY <1>2, <2>1, <2>2
<1>5. ASSUME NEW i \in 1..Len(ns), NEW j \in 1..Len(ns), ns[i].status = "pending", ns[j].status = "pending"
      PROVE  i = j
  <2>1. CASE i \in 1..N /\ j \in 1..N
    BY <1>1, <1>5, <2>1 DEF Shown
  <2>2. CASE i = N + 1 \/ j = N + 1
    BY <1>1, <1>2, <1>5, <2>2
  <2> QED BY <1>2, <2>1, <2>2
<1> QED BY <1>1, <1>3, <1>4, <1>5 DEF Shown, ns

LEMMA ShownConcat ==
  ASSUME NEW mk \in Nat, NEW lc \in Nat, NEW ms, Shown(ms, mk, lc), NEW ns, Shown(ns, mk, lc),
         \A i \in 1..Len(ms) : \A j \in 1..Len(ns) : ms[i].id # ns[j].id,
         \/ \A i \in 1..Len(ms) : ms[i].status # "pending"
         \/ \A i \in 1..Len(ns) : ns[i].status # "pending"
  PROVE  Shown(ms \o ns, mk, lc)
<1> DEFINE us == ms \o ns
           M == Len(ms)
           N == Len(ns)
<1>1. /\ IsList(us) /\ M \in Nat /\ N \in Nat
      /\ \A i \in 1..M : us[i] = ms[i]
      /\ \A i \in 1..N : us[M + i] = ns[i]
      /\ \A i \in 1..Len(us) : i \in 1..M \/ (i - M \in 1..N /\ M + (i - M) = i)
  BY ListConcat, ListHas DEF Shown
<1> HIDE DEF us
<1>2. ASSUME NEW i \in 1..Len(us)
      PROVE  \/ i \in 1..M /\ us[i] = ms[i]
             \/ i - M \in 1..N /\ us[i] = ns[i - M]
  BY <1>1
<1> HIDE DEF M, N
<1>3. ASSUME NEW i \in 1..Len(us) PROVE IsKnown(us[i], mk, lc)
  BY <1>2 DEF Shown, M, N
<1>4. ASSUME NEW i \in 1..Len(us), NEW j \in 1..Len(us), us[i].id = us[j].id PROVE i = j
  <2>1. CASE i \in 1..M /\ us[i] = ms[i] /\ j \in 1..M /\ us[j] = ms[j]
    BY <1>4, <2>1 DEF Shown, M
  <2>2. CASE i - M \in 1..N /\ us[i] = ns[i - M] /\ j - M \in 1..N /\ us[j] = ns[j - M]
    <3>1. i - M = j - M
      BY <1>4, <2>2 DEF Shown, N
    <3> QED BY <1>1, <3>1
  <2>3. CASE i \in 1..M /\ us[i] = ms[i] /\ j - M \in 1..N /\ us[j] = ns[j - M]
    BY <1>4, <2>3 DEF M, N
  <2>4. CASE j \in 1..M /\ us[j] = ms[j] /\ i - M \in 1..N /\ us[i] = ns[i - M]
    BY <1>4, <2>4 DEF M, N
  <2> QED BY <1>2, <2>1, <2>2, <2>3, <2>4
<1>5. ASSUME NEW i \in 1..Len(us), NEW j \in 1..Len(us), us[i].status = "pending", us[j].status = "pending"
      PROVE  i = j
  <2>1. CASE i \in 1..M /\ us[i] = ms[i] /\ j \in 1..M /\ us[j] = ms[j]
    BY <1>5, <2>1 DEF Shown, M
  <2>2. CASE i - M \in 1..N /\ us[i] = ns[i - M] /\ j - M \in 1..N /\ us[j] = ns[j - M]
    <3>1. i - M = j - M
      BY <1>5, <2>2 DEF Shown, N
    <3> QED BY <1>1, <3>1
  <2>3. CASE i \in 1..M /\ us[i] = ms[i] /\ j - M \in 1..N /\ us[j] = ns[j - M]
    BY <1>5, <2>3 DEF M, N
  <2>4. CASE j \in 1..M /\ us[j] = ms[j] /\ i - M \in 1..N /\ us[i] = ns[i - M]
    BY <1>5, <2>4 DEF M, N
  <2> QED BY <1>2, <2>1, <2>2, <2>3, <2>4
<1> QED BY <1>1, <1>3, <1>4, <1>5 DEF Shown, us

LEMMA KeptIsShown ==
  ASSUME NEW mk \in Nat, NEW lc \in Nat, NEW r, Kept(r, mk)
  PROVE  /\ Shown(r, mk, lc)
         /\ \A i \in 1..Len(r) : r[i].id.by = "agent" /\ r[i].id.no = r[i].seq /\ r[i].status # "pending"
<1>1. Len(r) \in Nat
  BY ListHas DEF Kept
<1>2. ASSUME NEW i \in 1..Len(r)
      PROVE  /\ r[i].id \in Ids /\ r[i].id.by = "agent" /\ r[i].id.no = r[i].seq
             /\ r[i].status # "pending" /\ IsMessage(r[i]) /\ r[i].seq \in Nat /\ r[i].seq <= mk
  <2>1. /\ IsMessage(r[i]) /\ r[i].seq \in Nat /\ r[i].seq <= mk
        /\ r[i].id = [by |-> "agent", no |-> r[i].seq] /\ r[i].status = "complete"
    BY DEF Kept
  <2>2. r[i].id \in Ids /\ r[i].id.by = "agent" /\ r[i].id.no = r[i].seq
    BY <2>1 DEF Ids
  <2> QED BY <2>1, <2>2
<1>3. \A i \in 1..Len(r) : IsKnown(r[i], mk, lc)
  BY <1>2 DEF IsKnown
<1>4. ASSUME NEW i \in 1..Len(r), NEW j \in 1..Len(r), r[i].id = r[j].id PROVE i = j
  <2>1. r[i].seq = r[j].seq /\ r[i].seq \in Nat
    BY <1>2, <1>4
  <2>2. CASE i < j
    BY <2>1, <2>2 DEF Kept
  <2>3. CASE j < i
    BY <2>1, <2>3 DEF Kept
  <2> QED BY <1>1, <2>2, <2>3
<1> QED BY <1>2, <1>3, <1>4 DEF Shown, Kept

LEMMA KeptPicked ==
  ASSUME NEW mk \in Nat, NEW r, Kept(r, mk), NEW S, S \subseteq 1..Len(r)
  PROVE  /\ Kept(Picked(r, S), mk)
         /\ \A n \in 1..Len(Picked(r, S)) : Picked(r, S)[n] \in {r[k] : k \in S}
<1> DEFINE ns == Picked(r, S)
           N == Cardinality(S)
           e == Ascending(S)
<1>1. IsList(r)
  BY DEF Kept
<1>2. /\ e \in [1..N -> S]
      /\ \A n \in 1..N : ns[n] = r[e[n]]
      /\ \A m, n \in 1..N : m < n => e[m] < e[n]
  <2>1. \A n \in 1..N : ns[n] = r[e[n]]
    BY DEF Picked
  <2> QED BY <1>1, <2>1, ListPicked
<1>3. IsList(ns) /\ Len(ns) = N /\ N \in Nat
  BY <1>1, ListPicked
<1> HIDE DEF ns, N, e
<1>4. \A n \in 1..N : e[n] \in 1..Len(r) /\ e[n] \in S
  BY <1>2
<1>5. Kept(ns, mk)
  <2>1. \A i \in 1..N : /\ IsMessage(ns[i]) /\ ns[i].seq \in Nat /\ ns[i].seq <= mk
                         /\ ns[i].id = [by |-> "agent", no |-> ns[i].seq] /\ ns[i].status = "complete"
    BY <1>2, <1>4 DEF Kept
  <2>2. ASSUME NEW i \in 1..N, NEW j \in 1..N, i < j PROVE ns[i].seq < ns[j].seq
    <3>1. e[i] < e[j] /\ e[i] \in 1..Len(r) /\ e[j] \in 1..Len(r)
      BY <1>2, <1>4, <2>2
    <3> QED BY <1>2, <3>1 DEF Kept
  <2> QED BY <1>3, <2>1, <2>2 DEF Kept
<1> QED BY <1>2, <1>3, <1>4, <1>5 DEF ns

LEMMA KeptAppend ==
  ASSUME NEW mk \in Nat, NEW r, Kept(r, mk), NEW role, NEW parts
  PROVE  Kept(Append(r, Remote(mk + 1, role, parts)), mk + 1)
<1> DEFINE m == Remote(mk + 1, role, parts)
           ns == Append(r, m)
           N == Len(r)
<1>1. /\ IsMessage(m) /\ m.seq = mk + 1 /\ m.id = [by |-> "agent", no |-> mk + 1]
      /\ m.status = "complete"
  BY MessageIsOne DEF Remote
<1> HIDE DEF m
<1>2. /\ IsList(ns) /\ Len(ns) = N + 1 /\ ns[N + 1] = m /\ N \in Nat
      /\ \A i \in 1..N : ns[i] = r[i]
  BY ListAppend, ListHas DEF Kept
<1> HIDE DEF ns
<1>3. \A i \in 1..Len(ns) : i \in 1..N \/ i = N + 1
  BY <1>2
<1>4. ASSUME NEW i \in 1..Len(ns)
      PROVE  /\ IsMessage(ns[i]) /\ ns[i].seq \in Nat /\ ns[i].seq <= mk + 1
             /\ ns[i].id = [by |-> "agent", no |-> ns[i].seq] /\ ns[i].status = "complete"
  <2>1. CASE i \in 1..N
    BY <1>2, <2>1 DEF Kept
  <2>2. CASE i = N + 1
    BY <1>1, <1>2, <2>2
  <2> QED BY <1>3, <2>1, <2>2
<1>5. ASSUME NEW i \in 1..Len(ns), NEW j \in 1..Len(ns), i < j PROVE ns[i].seq < ns[j].seq
  <2>1. i \in 1..N
    BY <1>2, <1>5
  <2>2. CASE j \in 1..N
    BY <1>2, <1>5, <2>1, <2>2 DEF Kept
  <2>3. CASE j = N + 1
    <3>1. r[i].seq \in Nat /\ r[i].seq <= mk
      BY <2>1 DEF Kept
    <3> QED BY <1>1, <1>2, <2>1, <2>3, <3>1
  <2> QED BY <1>3, <2>2, <2>3
<1> QED BY <1>2, <1>4, <1>5 DEF Kept, ns, m

LEMMA PageIsKept ==
  ASSUME NEW mk \in Nat, Kept(history, mk), NEW before
  PROVE  /\ Kept(Page(before), mk)
         /\ before \in Ids =>
              \A n \in 1..Len(Page(before)) : before.by = "agent" /\ Page(before)[n].seq < before.no
<1> DEFINE S == {k \in 1..Len(history) : \/ before = None
                 \/ \E i \in 1..Len(history) : history[i].id = before /\ history[k].seq < history[i].seq}
           older == Picked(history, S)
           n == Len(older)
           k == IF n > PageSize THEN n - PageSize ELSE 0
           p == SubSeq(older, k + 1, n)
<1>1. Page(before) = p
  BY DEF Page
<1>2. S \subseteq 1..Len(history)
  OBVIOUS
<1>3. /\ Kept(older, mk)
      /\ \A m \in 1..n : \E i \in S : older[m] = history[i]
  <2> HIDE DEF S
  <2>1. Kept(Picked(history, S), mk)
    BY <1>2, KeptPicked
  <2>2. \A m \in 1..Len(Picked(history, S)) : \E i \in S : Picked(history, S)[m] = history[i]
    <3>1. \A m \in 1..Len(Picked(history, S)) : Picked(history, S)[m] \in {history[i] : i \in S}
      BY <1>2, KeptPicked
    <3> QED BY <3>1
  <2> QED BY <2>1, <2>2
<1>4. before \in Ids => \A i \in S : before.by = "agent" /\ history[i].seq < before.no
  <2> SUFFICES ASSUME before \in Ids, NEW i \in S PROVE before.by = "agent" /\ history[i].seq < before.no
    OBVIOUS
  <2>1. before # None
    BY ChatAssumption DEF Ids
  <2>2. PICK j \in 1..Len(history) : history[j].id = before /\ history[i].seq < history[j].seq
    BY <2>1
  <2>3. history[j].id = [by |-> "agent", no |-> history[j].seq]
    BY DEF Kept
  <2> QED BY <2>2, <2>3
<1> HIDE DEF S, older
<1>5. IsList(older) /\ n \in Nat
  BY <1>3, ListHas DEF Kept
<1>6. k \in Nat /\ k <= n
  BY <1>5, ChatAssumption
<1> HIDE DEF k
<1>7. /\ IsList(p) /\ Len(p) = n - k
      /\ \A i \in 1..(n - k) : k + i \in 1..n /\ p[i] = older[k + i]
  BY <1>5, <1>6, ListSubSeq
<1> HIDE DEF p, n
<1>8. \A i \in 1..Len(p) : \E m \in 1..n : p[i] = older[m]
  BY <1>7
<1>9. ASSUME NEW i \in 1..Len(p), NEW j \in 1..Len(p), i < j PROVE p[i].seq < p[j].seq
  <2>1. k + i \in 1..n /\ k + j \in 1..n /\ p[i] = older[k + i] /\ p[j] = older[k + j]
    BY <1>7
  <2>2. k + i < k + j
    BY <1>5, <1>6, <1>7, <1>9
  <2> QED BY <1>3, <2>1, <2>2 DEF Kept, n
<1>10. Kept(p, mk)
  <2>1. ASSUME NEW i \in 1..Len(p)
        PROVE  /\ IsMessage(p[i]) /\ p[i].seq \in Nat /\ p[i].seq <= mk
               /\ p[i].id = [by |-> "agent", no |-> p[i].seq] /\ p[i].status = "complete"
    BY <1>3, <1>8 DEF Kept, n
  <2> QED BY <1>7, <1>9, <2>1 DEF Kept
<1>11. before \in Ids => \A i \in 1..Len(p) : before.by = "agent" /\ p[i].seq < before.no
  BY <1>3, <1>4, <1>8
<1> QED BY <1>1, <1>10, <1>11 DEF p, k, n

(* The messages as they are displayed are those of the store. *)
LEMMA DisplayedIsShown ==
  ASSUME NEW mk \in Nat, NEW lc \in Nat, Shown(t, mk, lc)
  PROVE  /\ Shown(Displayed, mk, lc)
         /\ \A n \in 1..Len(Displayed) : \E i \in 1..Len(t) : Displayed[n] = t[i]
<1> DEFINE S == 1..Len(t)
           upto == [i \in S |-> {j \in S : \/ t[j].seq < t[i].seq
                                           \/ (t[j].seq = t[i].seq /\ j <= i)}]
           e == Listed(upto)
           d == Displayed
<1>1. IsFiniteSet(S) /\ Cardinality(S) = Len(t) /\ Len(t) \in Nat /\ IsList(t)
  BY FS_Interval, ListHas DEF Shown
<1>2. d = [n \in S |-> t[e[n]]]
  BY DEF Displayed
<1>3. \A i \in S : t[i].seq \in Nat /\ i \in Nat
  BY DEF Shown, IsKnown
<1>4. \A i, j \in S : j \in upto[i] <=> (t[j].seq < t[i].seq \/ (t[j].seq = t[i].seq /\ j <= i))
  OBVIOUS
<1>5. upto \in [S -> SUBSET S]
  OBVIOUS
<1> HIDE DEF S, upto
<1>6. \A i \in S : i \in upto[i]
  BY <1>3, <1>4
<1>7. ASSUME NEW i \in S, NEW j \in S PROVE upto[i] \subseteq upto[j] \/ upto[j] \subseteq upto[i]
  <2>1. CASE t[i].seq < t[j].seq \/ (t[i].seq = t[j].seq /\ i <= j)
    <3>1. \A k \in S : k \in upto[i] => k \in upto[j]
      BY <1>3, <1>4, <2>1
    <3>2. \A k \in upto[i] : k \in S
      BY <1>5
    <3> QED BY <3>1, <3>2
  <2>2. CASE t[j].seq < t[i].seq \/ (t[i].seq = t[j].seq /\ j <= i)
    <3>1. \A k \in S : k \in upto[j] => k \in upto[i]
      BY <1>3, <1>4, <2>2
    <3>2. \A k \in upto[j] : k \in S
      BY <1>5
    <3> QED BY <3>1, <3>2
  <2> QED BY <1>3, <2>1, <2>2
<1>8. ASSUME NEW i \in S, NEW j \in S, upto[i] = upto[j] PROVE i = j
  <2>1. i \in upto[j] /\ j \in upto[i]
    BY <1>6, <1>8
  <2> QED BY <1>3, <1>4, <2>1
<1>9. /\ e \in [S -> S]
      /\ \A n \in S : Cardinality(upto[e[n]]) = n
  <2>1. /\ e \in [1..Cardinality(S) -> S]
        /\ \A n \in 1..Cardinality(S) : Cardinality(upto[e[n]]) = n
    BY <1>1, <1>5, <1>6, <1>7, <1>8, ListedInOrder
  <2> QED BY <1>1, <2>1 DEF S
<1> HIDE DEF e, d
<1>10. IsList(d) /\ Len(d) = Len(t) /\ \A n \in S : d[n] = t[e[n]] /\ e[n] \in S
  <2>1. d = [n \in 1..Len(t) |-> d[n]]
    BY <1>2 DEF S
  <2> QED BY <1>1, <1>2, <1>9, <2>1, ListOfFunction
<1>11. \A m, n \in S : e[m] = e[n] => m = n
  BY <1>9
<1>12. ASSUME NEW n \in S PROVE IsKnown(d[n], mk, lc)
  BY <1>10 DEF Shown, S
<1>13. ASSUME NEW m \in S, NEW n \in S, d[m].id = d[n].id PROVE m = n
  <2>1. t[e[m]].id = t[e[n]].id /\ e[m] \in S /\ e[n] \in S
    BY <1>10, <1>13
  <2>2. e[m] = e[n]
    BY <2>1 DEF Shown, S
  <2> QED BY <1>11, <2>2
<1>14. ASSUME NEW m \in S, NEW n \in S, d[m].status = "pending", d[n].status = "pending" PROVE m = n
  <2>1. t[e[m]].status = "pending" /\ t[e[n]].status = "pending" /\ e[m] \in S /\ e[n] \in S
    BY <1>10, <1>14
  <2>2. e[m] = e[n]
    BY <2>1 DEF Shown, S
  <2> QED BY <1>11, <2>2
<1>15. Shown(d, mk, lc)
  BY <1>10, <1>12, <1>13, <1>14 DEF Shown, S
<1> QED BY <1>10, <1>15 DEF d, S

(* What is shown again of messages shown before: the first of them. *)
LEMMA ShownCut ==
  ASSUME NEW mk \in Nat, NEW lc \in Nat, NEW ms, Shown(ms, mk, lc), NEW n \in Nat, n <= Len(ms), NEW ns,
         ns = [i \in 1..n |-> ns[i]],
         \A i \in 1..n : /\ IsMessage(ns[i]) /\ ns[i].id = ms[i].id /\ ns[i].seq = ms[i].seq
                         /\ ns[i].status = "pending" => ms[i].status = "pending"
  PROVE  Shown(ns, mk, lc)
<1>1. IsList(ns) /\ Len(ns) = n /\ Len(ms) \in Nat
  BY ListOfFunction, ListHas DEF Shown
<1>2. \A i \in 1..n : i \in 1..Len(ms)
  BY <1>1
<1>3. \A i \in 1..n : IsKnown(ns[i], mk, lc)
  BY <1>2 DEF Shown, IsKnown
<1> QED BY <1>1, <1>2, <1>3 DEF Shown

-----------------------------------------------------------------------------
(* The invariant of the store *)

Waits(ms) == \E i \in 1..Len(ms) : ms[i].status = "pending"
Loads == {"init", "more", "reload"}

(* A request and its reply: pages are of what the agent has, a prompt is
   answered with an id of the agent, and a revert remembers what was shown. *)
IsCall(c, mk, lc) ==
  /\ c = [op |-> c.op, no |-> c.no, arg |-> c.arg, phase |-> c.phase, reply |-> c.reply]
  /\ c.phase \in {"sent", "ok", "failed"}
  /\ c.op \in {"init", "reload"} => c.arg = None
  /\ c.op = "more" => c.arg \in Ids /\ (c.arg.by = "agent" => c.arg.no <= mk)
  /\ c.op \in Loads /\ c.phase = "ok" => Kept(c.reply, mk)
  /\ c.op = "prompt" /\ c.phase = "ok" => c.reply \in Ids /\ c.reply.by = "agent" /\ c.reply.no <= mk
  /\ c.op \in {"interrupt", "undo"} => Shown(c.arg.shown, mk, lc)

(* The id p is new to the page, and to the pages on their way. *)
IsNew(p, cs, ms) ==
  /\ \A i \in 1..Len(ms) : ms[i].id.by = "agent" => ms[i].id.no < p
  /\ \A d \in cs : d.op = "more" => /\ d.arg.by = "agent" => d.arg.no < p
                                    /\ d.phase = "ok" => \A i \in 1..Len(d.reply) : d.reply[i].seq < p

(* There is one prompt, a message waits for it, and its id is new. *)
PromptInv(cs, ms) ==
  /\ \A c, d \in cs : c.op = "prompt" /\ d.op = "prompt" => c = d
  /\ \A c \in cs : c.op = "prompt" => Waits(ms)
  /\ \A c \in cs : c.op = "prompt" /\ c.phase = "ok" => IsNew(c.reply.no, cs, ms)

(* The stream writes to a message of the page that does not wait. *)
CurInv(cu, ms, lc) ==
  cu # None => /\ cu \in Ids /\ cu.by = "page" /\ cu.no <= lc
               /\ \A i \in 1..Len(ms) : ms[i].status = "pending" => ms[i].id # cu

StoreInv(h, ms, cs, cu, mk, lc) ==
  /\ mk \in Nat /\ lc \in Nat
  /\ Kept(h, mk) /\ Shown(ms, mk, lc)
  /\ \A c \in cs : IsCall(c, mk, lc)
  /\ PromptInv(cs, ms) /\ CurInv(cu, ms, lc)

ChatInv == confused \in BOOLEAN /\ (~confused => StoreInv(history, t, calls, cur, made, local))

LEMMA CallLater ==
  ASSUME NEW mk \in Nat, NEW lc \in Nat, NEW mk2 \in Nat, NEW lc2 \in Nat, mk <= mk2, lc <= lc2,
         NEW c, IsCall(c, mk, lc)
  PROVE  IsCall(c, mk2, lc2)
<1>1. c.op = "more" => (c.arg.by = "agent" => c.arg.no <= mk2)
  BY DEF IsCall, Ids
<1>2. c.op \in Loads /\ c.phase = "ok" => Kept(c.reply, mk2)
  BY KeptLater DEF IsCall
<1>3. c.op = "prompt" /\ c.phase = "ok" => c.reply.no <= mk2
  BY DEF IsCall, Ids
<1>4. c.op \in {"interrupt", "undo"} => Shown(c.arg.shown, mk2, lc2)
  BY ShownLater DEF IsCall
<1> QED BY <1>1, <1>2, <1>3, <1>4 DEF IsCall

LEMMA RequestIsCall ==
  ASSUME NEW op, NEW no, NEW arg
  PROVE  LET c == Request(op, no, arg)
         IN  /\ c = [op |-> c.op, no |-> c.no, arg |-> c.arg, phase |-> c.phase, reply |-> c.reply]
             /\ c.op = op /\ c.arg = arg /\ c.phase = "sent"
BY DEF Request

LEMMA AnswerIsCall ==
  ASSUME NEW c, c = [op |-> c.op, no |-> c.no, arg |-> c.arg, phase |-> c.phase, reply |-> c.reply],
         NEW phase, NEW reply, NEW d, d = [c EXCEPT !.phase = phase, !.reply = reply]
  PROVE  /\ d = [op |-> d.op, no |-> d.no, arg |-> d.arg, phase |-> d.phase, reply |-> d.reply]
         /\ d.op = c.op /\ d.arg = c.arg /\ d.phase = phase /\ d.reply = reply
<1>1. PICK o, n, a, p, r : c = [op |-> o, no |-> n, arg |-> a, phase |-> p, reply |-> r]
  OBVIOUS
<1>2. d = [op |-> o, no |-> n, arg |-> a, phase |-> phase, reply |-> reply]
  BY <1>1
<1> QED BY <1>1, <1>2

(* Nothing of the agent is new among the messages, and what waited waits. *)
Covers(ns, ms) ==
  /\ \A i \in 1..Len(ns) : ns[i].id.by = "agent" => \E j \in 1..Len(ms) : ms[j].id = ns[i].id
  /\ Waits(ms) => Waits(ns)

LEMMA PromptKeeps ==
  ASSUME NEW cs, NEW ms, PromptInv(cs, ms), NEW ds, NEW ns, Covers(ns, ms),
         \A d \in ds : d \in cs \/ d.op \notin {"prompt", "more"}
  PROVE  PromptInv(ds, ns)
<1>1. \A c, d \in ds : c.op = "prompt" /\ d.op = "prompt" => c = d
  BY DEF PromptInv
<1>2. \A c \in ds : c.op = "prompt" => Waits(ns)
  BY DEF PromptInv, Covers
<1>3. ASSUME NEW c \in ds, c.op = "prompt", c.phase = "ok" PROVE IsNew(c.reply.no, ds, ns)
  <2>1. IsNew(c.reply.no, cs, ms)
    BY <1>3 DEF PromptInv
  <2>2. ASSUME NEW i \in 1..Len(ns), ns[i].id.by = "agent" PROVE ns[i].id.no < c.reply.no
    <3>1. PICK j \in 1..Len(ms) : ms[j].id = ns[i].id
      BY <2>2 DEF Covers
    <3>2. ms[j].id.by = "agent" => ms[j].id.no < c.reply.no
      BY <2>1 DEF IsNew
    <3> QED BY <2>2, <3>1, <3>2
  <2>3. ASSUME NEW d \in ds, d.op = "more"
        PROVE  /\ d.arg.by = "agent" => d.arg.no < c.reply.no
               /\ d.phase = "ok" => \A i \in 1..Len(d.reply) : d.reply[i].seq < c.reply.no
    <3>1. d \in cs
      BY <2>3
    <3> QED BY <2>1, <2>3, <3>1 DEF IsNew
  <2> QED BY <2>2, <2>3 DEF IsNew
<1> QED BY <1>1, <1>2, <1>3 DEF PromptInv

(* Messages with other words: nothing changes that matters. *)
Reword(ns, ms) ==
  /\ ns = [i \in 1..Len(ms) |-> ns[i]]
  /\ \A i \in 1..Len(ms) : /\ IsMessage(ns[i]) /\ ns[i].id = ms[i].id /\ ns[i].seq = ms[i].seq
                           /\ ns[i].status = "pending" <=> ms[i].status = "pending"

LEMMA RewordKeeps ==
  ASSUME NEW mk \in Nat, NEW lc \in Nat, NEW ms, Shown(ms, mk, lc), NEW ns, Reword(ns, ms)
  PROVE  /\ Shown(ns, mk, lc) /\ Len(ns) = Len(ms) /\ Covers(ns, ms)
         /\ \A cu : CurInv(cu, ms, lc) => CurInv(cu, ns, lc)
<1>1. Shown(ns, mk, lc)
  BY ShownReworded DEF Reword
<1>2. Len(ns) = Len(ms)
  BY ListOfFunction, ListHas DEF Reword, Shown
<1>3. Covers(ns, ms)
  BY <1>2 DEF Covers, Reword, Waits
<1>4. \A cu : CurInv(cu, ms, lc) => CurInv(cu, ns, lc)
  BY <1>2 DEF CurInv, Reword
<1> QED BY <1>1, <1>2, <1>3, <1>4

(* Messages with one of the page behind them that does not wait. *)
LEMMA AppendKeeps ==
  ASSUME NEW mk \in Nat, NEW lc \in Nat, NEW ms, Shown(ms, mk, lc), NEW m, IsMessage(m),
         m.id = [by |-> "page", no |-> lc + 1], m.status # "pending", m.seq \in Nat
  PROVE  /\ Shown(Append(ms, m), mk, lc + 1) /\ Covers(Append(ms, m), ms)
         /\ CurInv(m.id, Append(ms, m), lc + 1)
         /\ \A cu : CurInv(cu, ms, lc) => CurInv(cu, Append(ms, m), lc + 1)
<1> DEFINE ns == Append(ms, m)
           N == Len(ms)
<1>1. m.id \in Ids /\ m.id.by = "page" /\ m.id.no = lc + 1
  BY DEF Ids
<1>2. IsKnown(m, mk, lc + 1)
  BY <1>1 DEF IsKnown
<1>3. \A i \in 1..N : ms[i].id # m.id
  BY <1>1 DEF Shown, IsKnown
<1>4. Shown(ms, mk, lc + 1)
  BY ShownLater
<1>5. Shown(ns, mk, lc + 1)
  BY <1>2, <1>3, <1>4, ShownAppend
<1>6. /\ Len(ns) = N + 1 /\ ns[N + 1] = m /\ N \in Nat
      /\ \A i \in 1..N : ns[i] = ms[i]
  BY ListAppend, ListHas DEF Shown
<1> HIDE DEF ns
<1>7. \A i \in 1..Len(ns) : i \in 1..N \/ i = N + 1
  BY <1>6
<1>8. \A i \in 1..N : i \in 1..Len(ns)
  BY <1>6
<1>9. Covers(ns, ms)
  BY <1>1, <1>6, <1>7, <1>8 DEF Covers, Waits
<1>10. CurInv(m.id, ns, lc + 1)
  <2>1. \A i \in 1..Len(ns) : ns[i].status = "pending" => ns[i].id # m.id
    BY <1>3, <1>6, <1>7
  <2> QED BY <1>1, <2>1 DEF CurInv
<1>11. ASSUME NEW cu, CurInv(cu, ms, lc) PROVE CurInv(cu, ns, lc + 1)
  <2> SUFFICES ASSUME cu # None
               PROVE  /\ cu \in Ids /\ cu.by = "page" /\ cu.no <= lc + 1
                      /\ \A i \in 1..Len(ns) : ns[i].status = "pending" => ns[i].id # cu
    BY DEF CurInv
  <2>1. cu \in Ids /\ cu.by = "page" /\ cu.no <= lc /\ cu.no \in Nat
    BY <1>11 DEF CurInv, Ids
  <2>2. \A i \in 1..N : ms[i].status = "pending" => ms[i].id # cu
    BY <1>11 DEF CurInv
  <2> QED BY <1>6, <1>7, <2>1, <2>2
<1> QED BY <1>5, <1>9, <1>10, <1>11 DEF ns

LEMMA PickedKeeps ==
  ASSUME NEW mk \in Nat, NEW lc \in Nat, NEW ms, Shown(ms, mk, lc), NEW S, S \subseteq 1..Len(ms),
         \A i \in 1..Len(ms) : ms[i].status = "pending" => i \in S
  PROVE  /\ Shown(Picked(ms, S), mk, lc) /\ Covers(Picked(ms, S), ms)
         /\ \A cu : CurInv(cu, ms, lc) => CurInv(cu, Picked(ms, S), lc)
<1> DEFINE ns == Picked(ms, S)
           N == Cardinality(S)
           e == Ascending(S)
<1>1. IsList(ms)
  BY DEF Shown
<1>2. /\ Len(ns) = N /\ e \in [1..N -> S]
      /\ \A x \in S : \E n \in 1..N : e[n] = x
  BY <1>1, ListPicked
<1>3. \A n \in 1..N : ns[n] = ms[e[n]]
  BY DEF Picked
<1>4. Shown(ns, mk, lc)
  BY ShownPicked
<1> HIDE DEF ns, N, e
<1>5. \A n \in 1..N : e[n] \in 1..Len(ms)
  BY <1>2
<1>6. Covers(ns, ms)
  <2>1. ASSUME Waits(ms) PROVE Waits(ns)
    <3>1. PICK i \in 1..Len(ms) : ms[i].status = "pending"
      BY <2>1 DEF Waits
    <3>2. PICK n \in 1..N : e[n] = i
      BY <1>2, <3>1
    <3> QED BY <1>2, <1>3, <3>1, <3>2 DEF Waits
  <2> QED BY <1>2, <1>3, <1>5, <2>1 DEF Covers
<1>7. \A cu : CurInv(cu, ms, lc) => CurInv(cu, ns, lc)
  BY <1>2, <1>3, <1>5 DEF CurInv
<1> QED BY <1>4, <1>6, <1>7 DEF ns

LEMMA StoreKeeps ==
  ASSUME NEW h, NEW ms, NEW cs, NEW cu, NEW mk, NEW lc, StoreInv(h, ms, cs, cu, mk, lc),
         NEW ns, NEW ds, NEW du, NEW ld \in Nat, lc <= ld,
         Shown(ns, mk, ld), Covers(ns, ms), CurInv(du, ns, ld),
         \A d \in ds : d \in cs \/ (d.op \notin {"prompt", "more"} /\ IsCall(d, mk, ld))
  PROVE  StoreInv(h, ns, ds, du, mk, ld)
<1>1. mk \in Nat /\ lc \in Nat /\ Kept(h, mk) /\ PromptInv(cs, ms)
  BY DEF StoreInv
<1>2. \A d \in cs : IsCall(d, mk, ld)
  BY <1>1, CallLater DEF StoreInv
<1>3. PromptInv(ds, ns)
  BY <1>1, PromptKeeps
<1> QED BY <1>1, <1>2, <1>3 DEF StoreInv

LEMMA AgentKeeps ==
  ASSUME NEW h, NEW ms, NEW cs, NEW cu, NEW mk, NEW lc, StoreInv(h, ms, cs, cu, mk, lc),
         NEW g, NEW mk2 \in Nat, mk <= mk2, Kept(g, mk2)
  PROVE  StoreInv(g, ms, cs, cu, mk2, lc)
<1>1. mk \in Nat /\ lc \in Nat
  BY DEF StoreInv
<1>2. Shown(ms, mk2, lc)
  BY <1>1, ShownLater DEF StoreInv
<1>3. \A d \in cs : IsCall(d, mk2, lc)
  BY <1>1, CallLater DEF StoreInv
<1> QED BY <1>1, <1>2, <1>3 DEF StoreInv

LEMMA EmitKeepsStore == ChatInv /\ Emit => ChatInv'
<1> SUFFICES ASSUME ChatInv, Emit PROVE ChatInv'
  OBVIOUS
<1>1. UNCHANGED <<t, cur, local, calls, confused>>
  BY DEF Emit, view, ghosts
<1> SUFFICES ASSUME ~confused PROVE StoreInv(history', t, calls, cur, made', local)
  BY <1>1 DEF ChatInv
<1>2. StoreInv(history, t, calls, cur, made, local) /\ made \in Nat
  BY DEF ChatInv, StoreInv
<1>3. CASE Ends(Head(turn))
  <2>1. made' = made + 1
    BY <1>3 DEF Emit
  <2>2. history' = Append(history, Remote(made + 1, "assistant", <<Part("all", "text", said, "")>>))
    BY <1>3 DEF Emit
  <2>3. Kept(history', made + 1)
    BY <1>2, <2>2, KeptAppend DEF StoreInv
  <2> QED BY <1>2, <2>1, <2>3, AgentKeeps
<1>4. CASE ~Ends(Head(turn))
  <2>1. made' \in Nat /\ made <= made' /\ history' = history
    <3>1. history' = history /\ (made' = made \/ made' = made + 1)
      BY <1>4 DEF Emit
    <3> QED BY <1>2, <3>1
  <2>2. Kept(history, made')
    BY <1>2, <2>1, KeptLater DEF StoreInv
  <2> QED BY <1>2, <2>1, <2>2, AgentKeeps
<1> QED BY <1>3, <1>4

(* What the agent does on a request, and its answer. *)
LEMMA ServeKeepsStore ==
  ASSUME ChatInv, NEW c \in calls, Serve(c) PROVE ChatInv'
<1>1. /\ UNCHANGED <<t, cur, local, confused>> /\ c.phase = "sent"
  BY DEF Serve, view, ghosts
<1> SUFFICES ASSUME ~confused PROVE StoreInv(history', t, calls', cur, made', local)
  BY <1>1 DEF ChatInv
<1>2. StoreInv(history, t, calls, cur, made, local) /\ made \in Nat /\ local \in Nat
  BY DEF ChatInv, StoreInv
<1>3. IsCall(c, made, local) /\ PromptInv(calls, t)
  BY <1>2 DEF StoreInv
<1>4. ASSUME NEW phase \in {"ok", "failed"}, NEW reply, Answer(c, phase, reply), c.op \notin {"prompt", "more"},
             c.op \in {"init", "reload"} /\ phase = "ok" => Kept(reply, made)
      PROVE  StoreInv(history, t, calls', cur, made, local)
  <2>1. PICK d : d = [c EXCEPT !.phase = phase, !.reply = reply]
    OBVIOUS
  <2>2. calls' = (calls \ {c}) \cup {d}
    BY <1>4, <2>1 DEF Answer
  <2>3. /\ d = [op |-> d.op, no |-> d.no, arg |-> d.arg, phase |-> d.phase, reply |-> d.reply]
        /\ d.op = c.op /\ d.arg = c.arg /\ d.phase = phase /\ d.reply = reply
    BY <1>3, <2>1, AnswerIsCall DEF IsCall
  <2>4. IsCall(d, made, local)
    BY <1>3, <1>4, <2>3 DEF IsCall, Loads
  <2>5. Covers(t, t) /\ Shown(t, made, local) /\ CurInv(cur, t, local)
    BY <1>2 DEF Covers, StoreInv
  <2>6. \A e \in calls' : e \in calls \/ (e.op \notin {"prompt", "more"} /\ IsCall(e, made, local))
    BY <1>4, <2>2, <2>3, <2>4
  <2> QED BY <1>2, <2>5, <2>6, StoreKeeps
<1>5. CASE c.op \in {"init", "reload"} /\ Answer(c, "ok", Page(c.arg)) /\ UNCHANGED agent
  <2>1. Kept(Page(c.arg), made)
    BY <1>2, PageIsKept DEF StoreInv
  <2> QED BY <1>4, <1>5, <2>1 DEF agent
<1>6. CASE c.op = "more" /\ Answer(c, "ok", Page(c.arg)) /\ UNCHANGED agent
  <2>1. PICK d : d = [c EXCEPT !.phase = "ok", !.reply = Page(c.arg)]
    OBVIOUS
  <2>2. calls' = (calls \ {c}) \cup {d}
    BY <1>6, <2>1 DEF Answer
  <2>3. /\ d = [op |-> d.op, no |-> d.no, arg |-> d.arg, phase |-> d.phase, reply |-> d.reply]
        /\ d.op = "more" /\ d.arg = c.arg /\ d.phase = "ok" /\ d.reply = Page(c.arg)
    BY <1>3, <1>6, <2>1, AnswerIsCall DEF IsCall
  <2>4. c.arg \in Ids /\ (c.arg.by = "agent" => c.arg.no <= made)
    BY <1>3, <1>6 DEF IsCall
  <2>5. /\ Kept(Page(c.arg), made)
        /\ \A n \in 1..Len(Page(c.arg)) : c.arg.by = "agent" /\ Page(c.arg)[n].seq < c.arg.no
    BY <1>2, <2>4, PageIsKept DEF StoreInv
  <2>6. IsCall(d, made, local)
    BY <1>3, <1>6, <2>3, <2>4, <2>5 DEF IsCall, Loads
  <2>7. ASSUME NEW e \in calls', e.op = "prompt" PROVE e \in calls /\ (e.phase = "ok" => IsNew(e.reply.no, calls', t))
    <3>1. e \in calls
      BY <2>2, <2>3, <2>7
    <3>2. ASSUME e.phase = "ok" PROVE IsNew(e.reply.no, calls', t)
      <4>1. IsNew(e.reply.no, calls, t)
        BY <1>3, <2>7, <3>1, <3>2 DEF PromptInv
      <4>2. e.reply.no \in Nat
        BY <1>2, <2>7, <3>1, <3>2 DEF StoreInv, IsCall, Ids
      <4>3. c.arg.by = "agent" => c.arg.no < e.reply.no
        BY <1>6, <4>1 DEF IsNew
      <4>4. \A n \in 1..Len(d.reply) : d.reply[n].seq < e.reply.no
        <5> SUFFICES ASSUME NEW n \in 1..Len(Page(c.arg)) PROVE Page(c.arg)[n].seq < e.reply.no
          BY <2>3
        <5>1. Page(c.arg)[n].seq \in Nat
          BY <2>5 DEF Kept
        <5>2. Page(c.arg)[n].seq < c.arg.no /\ c.arg.no < e.reply.no /\ c.arg.no \in Nat
          BY <2>4, <2>5, <4>3 DEF Ids
        <5> QED BY <4>2, <5>1, <5>2
      <4> QED BY <2>2, <2>3, <4>1, <4>3, <4>4 DEF IsNew
    <3> QED BY <3>1, <3>2
  <2>8. PromptInv(calls', t)
    BY <1>3, <2>7 DEF PromptInv
  <2>9. \A e \in calls' : IsCall(e, made, local)
    BY <1>2, <2>2, <2>6 DEF StoreInv
  <2> QED BY <1>2, <1>6, <2>8, <2>9 DEF StoreInv, agent
<1>7. CASE c.op = "state" /\ Answer(c, "ok", IF Working THEN "busy" ELSE "idle") /\ UNCHANGED agent
  <2>1. PICK r : r = IF Working THEN "busy" ELSE "idle"
    OBVIOUS
  <2>2. Answer(c, "ok", r)
    BY <1>7, <2>1
  <2> QED BY <1>4, <1>7, <2>2 DEF agent
<1>8. CASE /\ c.op = "prompt" /\ made' = made + 1
           /\ LET m == Remote(made + 1, "user", <<>>)
              IN  history' = Append(history, m) /\ Answer(c, "ok", m.id)
  <2> DEFINE p == [by |-> "agent", no |-> made + 1]
  <2>1. Remote(made + 1, "user", <<>>).id = p
    BY MessageIsOne DEF Remote
  <2>2. p \in Ids /\ p.by = "agent" /\ p.no = made + 1
    BY <1>2 DEF Ids
  <2> HIDE DEF p
  <2>3. Kept(history', made + 1)
    BY <1>2, <1>8, KeptAppend DEF StoreInv
  <2>4. StoreInv(history', t, calls, cur, made + 1, local)
    BY <1>2, <2>3, AgentKeeps
  <2>5. PICK d : d = [c EXCEPT !.phase = "ok", !.reply = p]
    OBVIOUS
  <2>6. calls' = (calls \ {c}) \cup {d}
    BY <1>8, <2>1, <2>5 DEF Answer
  <2>7. /\ d = [op |-> d.op, no |-> d.no, arg |-> d.arg, phase |-> d.phase, reply |-> d.reply]
        /\ d.op = "prompt" /\ d.arg = c.arg /\ d.phase = "ok" /\ d.reply = p
    BY <1>3, <1>8, <2>5, AnswerIsCall DEF IsCall
  <2>8. IsCall(d, made + 1, local)
    BY <1>2, <2>2, <2>7 DEF IsCall, Loads
  <2>9. IsNew(made + 1, calls', t)
    <3>1. \A i \in 1..Len(t) : t[i].id.by = "agent" => t[i].id.no < made + 1
      BY <1>2 DEF StoreInv, Shown, IsKnown, Ids
    <3>2. ASSUME NEW e \in calls', e.op = "more"
          PROVE  /\ e.arg.by = "agent" => e.arg.no < made + 1
                 /\ e.phase = "ok" => \A i \in 1..Len(e.reply) : e.reply[i].seq < made + 1
      <4>1. IsCall(e, made, local)
        BY <1>2, <2>6, <2>7, <3>2 DEF StoreInv
      <4>2. e.arg.by = "agent" => e.arg.no < made + 1
        BY <1>2, <3>2, <4>1 DEF IsCall, Ids
      <4>3. e.phase = "ok" => \A i \in 1..Len(e.reply) : e.reply[i].seq < made + 1
        <5> SUFFICES ASSUME e.phase = "ok", NEW i \in 1..Len(e.reply) PROVE e.reply[i].seq < made + 1
          OBVIOUS
        <5>1. Kept(e.reply, made)
          BY <3>2, <4>1 DEF IsCall, Loads
        <5>2. e.reply[i].seq \in Nat /\ e.reply[i].seq <= made
          BY <5>1 DEF Kept
        <5> QED BY <1>2, <5>2
      <4> QED BY <4>2, <4>3
    <3> QED BY <3>1, <3>2 DEF IsNew
  <2>10. \A e \in calls' : e.op = "prompt" => e = d
    BY <1>3, <1>8, <2>6 DEF PromptInv
  <2>11. Waits(t)
    BY <1>3, <1>8 DEF PromptInv
  <2>12. PromptInv(calls', t)
    BY <2>2, <2>7, <2>9, <2>10, <2>11 DEF PromptInv
  <2>13. \A e \in calls' : IsCall(e, made + 1, local)
    BY <2>4, <2>6, <2>8 DEF StoreInv
  <2> QED BY <1>8, <2>4, <2>12, <2>13 DEF StoreInv
<1>9. CASE c.op \in {"abort", "interrupt"} /\ Answer(c, "ok", None) /\ UNCHANGED <<history, said, made>>
  BY <1>4, <1>9
<1>10. CASE /\ c.op = "undo" /\ Answer(c, "ok", None) /\ UNCHANGED <<turn, said, made>>
            /\ history' = Picked(history, {k \in 1..Len(history) : \A i \in 1..Len(history) :
                                  history[i].id = c.arg.id => history[k].seq < history[i].seq})
  <2>1. StoreInv(history, t, calls', cur, made, local)
    BY <1>4, <1>10
  <2>2. Kept(history', made)
    <3> DEFINE S == {k \in 1..Len(history) : \A i \in 1..Len(history) :
                                  history[i].id = c.arg.id => history[k].seq < history[i].seq}
    <3>1. S \subseteq 1..Len(history)
      OBVIOUS
    <3>2. history' = Picked(history, S)
      BY <1>10
    <3> HIDE DEF S
    <3> QED BY <1>2, <3>1, <3>2, KeptPicked DEF StoreInv
  <2>3. StoreInv(history', t, calls', cur, made, local)
    BY <2>1, <2>2 DEF StoreInv
  <2> QED BY <1>10, <2>3
<1>11. CASE Answer(c, "failed", None) /\ UNCHANGED agent
  <2>1. CASE c.op \notin {"prompt", "more"}
    BY <1>4, <1>11, <2>1 DEF agent
  <2>2. CASE c.op \in {"prompt", "more"}
    <3>1. PICK d : d = [c EXCEPT !.phase = "failed", !.reply = None]
      OBVIOUS
    <3>2. calls' = (calls \ {c}) \cup {d}
      BY <1>11, <3>1 DEF Answer
    <3>3. /\ d = [op |-> d.op, no |-> d.no, arg |-> d.arg, phase |-> d.phase, reply |-> d.reply]
          /\ d.op = c.op /\ d.arg = c.arg /\ d.phase = "failed"
      BY <1>3, <3>1, AnswerIsCall DEF IsCall
    <3>4. IsCall(d, made, local)
      BY <1>3, <3>3 DEF IsCall, Loads
    <3>5. \A e \in calls' : IsCall(e, made, local)
      BY <1>2, <3>2, <3>4 DEF StoreInv
    <3>6. \A e, f \in calls' : e.op = "prompt" /\ f.op = "prompt" => e = f
      BY <1>3, <3>2, <3>3 DEF PromptInv
    <3>7. \A e \in calls' : e.op = "prompt" => Waits(t)
      BY <1>3, <3>2, <3>3 DEF PromptInv
    <3>8. ASSUME NEW e \in calls', e.op = "prompt", e.phase = "ok" PROVE IsNew(e.reply.no, calls', t)
      <4>1. e \in calls
        BY <3>2, <3>3, <3>8
      <4>2. IsNew(e.reply.no, calls, t)
        BY <1>3, <3>8, <4>1 DEF PromptInv
      <4>3. \A f \in calls' : f \in calls \/ (f = d /\ f.op = c.op /\ f.arg = c.arg /\ f.phase = "failed")
        BY <3>2, <3>3
      <4> QED BY <4>2, <4>3 DEF IsNew
    <3>9. PromptInv(calls', t)
      BY <3>6, <3>7, <3>8 DEF PromptInv
    <3> QED BY <1>2, <1>11, <3>5, <3>9 DEF StoreInv, agent
  <2> QED BY <2>1, <2>2
<1> QED BY <1>5, <1>6, <1>7, <1>8, <1>9, <1>10, <1>11 DEF Serve

(* Messages in which some have other parts, or other words. *)
NewParts(m, x) == [m EXCEPT !.parts = x]

LEMMA NewPartsKeep ==
  ASSUME NEW m, IsMessage(m), NEW x
  PROVE  /\ IsMessage(NewParts(m, x)) /\ NewParts(m, x).id = m.id
         /\ NewParts(m, x).status = m.status /\ NewParts(m, x).seq = m.seq
<1>1. PICK n : n = [m EXCEPT !.parts = x]
  OBVIOUS
<1>2. IsMessage(n) /\ n.id = m.id /\ n.status = m.status /\ n.seq = m.seq
  BY <1>1, PartsChange
<1> QED BY <1>1, <1>2 DEF NewParts

(* The message as it was, or with other parts. *)
Touched(n, m) == n = m \/ \E x : n = NewParts(m, x)

LEMMA TouchedKeep ==
  ASSUME NEW m, IsMessage(m), NEW n, Touched(n, m)
  PROVE  IsMessage(n) /\ n.id = m.id /\ n.status = m.status /\ n.seq = m.seq
BY NewPartsKeep DEF Touched

LEMMA AddPartTouches ==
  ASSUME NEW m, NEW part PROVE Touched(AddPart(m, part), m)
<1>1. AddPart(m, part) = m \/ AddPart(m, part) = NewParts(m, Append(m.parts, part))
  BY Zenon DEF AddPart, NewParts
<1> QED BY <1>1 DEF Touched

LEMMA AddToolTouches ==
  ASSUME NEW m, NEW id PROVE Touched(AddTool(m, id), m)
<1>1. \E x : AddTool(m, id) = NewParts(m, x)
  BY Zenon DEF AddTool, NewParts
<1> QED BY <1>1 DEF Touched

LEMMA FlushedWords ==
  ASSUME NEW mk, NEW lc, Shown(t, mk, lc) PROVE Reword(Flushed(t), t)
<1> DEFINE u == [i \in 1..Len(t) |-> IF t[i].id = cur THEN NewParts(t[i], AllAdded(t[i].parts)) ELSE t[i]]
<1>1. Flushed(t) = u
  BY DEF Flushed, With, NewParts
<1>2. \A i \in 1..Len(t) : u[i] = t[i] \/ u[i] = NewParts(t[i], AllAdded(t[i].parts))
  OBVIOUS
<1>3. u = [i \in 1..Len(t) |-> u[i]]
  OBVIOUS
<1> HIDE DEF u
<1>4. ASSUME NEW i \in 1..Len(t)
      PROVE  /\ IsMessage(u[i]) /\ u[i].id = t[i].id /\ u[i].seq = t[i].seq
             /\ u[i].status = "pending" <=> t[i].status = "pending"
  <2>1. IsMessage(t[i])
    BY DEF Shown, IsKnown
  <2>2. CASE u[i] = t[i]
    BY <2>1, <2>2
  <2>3. CASE u[i] = NewParts(t[i], AllAdded(t[i].parts))
    BY <2>1, <2>3, NewPartsKeep
  <2> QED BY <1>2, <2>2, <2>3
<1> QED BY <1>1, <1>3, <1>4 DEF Reword

(* What a handler of the stream may do to the store. *)
StreamStep ==
  \/ Reword(t', t) /\ cur' \in {cur, None} /\ local' = local
  \/ /\ local' = local + 1
     /\ \E m, ns : /\ IsMessage(m) /\ m.id = [by |-> "page", no |-> local + 1]
                   /\ m.status # "pending" /\ m.seq \in Nat
                   /\ Shown(ns, made, local) /\ Covers(ns, t)
                   /\ t' = Append(ns, m)
                   /\ cur' = m.id \/ cur' = None

LEMMA StreamStepKeeps ==
  ASSUME StoreInv(history, t, calls, cur, made, local), StreamStep,
         NEW ds, \A d \in ds : d \in calls \/ (d.op \notin {"prompt", "more"} /\ IsCall(d, made, local'))
  PROVE  StoreInv(history, t', ds, cur', made, local')
<1>1. made \in Nat /\ local \in Nat /\ Shown(t, made, local) /\ CurInv(cur, t, local)
  BY DEF StoreInv
<1>2. CASE Reword(t', t) /\ cur' \in {cur, None} /\ local' = local
  <2>1. Shown(t', made, local) /\ Covers(t', t) /\ CurInv(cur, t', local)
    BY <1>1, <1>2, RewordKeeps
  <2>2. CurInv(cur', t', local)
    BY <1>2, <2>1 DEF CurInv
  <2> QED BY <1>1, <1>2, <2>1, <2>2, StoreKeeps
<1>3. ASSUME local' = local + 1, NEW m, NEW ns,
             IsMessage(m), m.id = [by |-> "page", no |-> local + 1], m.status # "pending", m.seq \in Nat,
             Shown(ns, made, local), Covers(ns, t), t' = Append(ns, m), cur' = m.id \/ cur' = None
      PROVE  StoreInv(history, t', ds, cur', made, local')
  <2>1. /\ Shown(t', made, local + 1) /\ Covers(t', ns)
        /\ CurInv(m.id, t', local + 1)
    BY <1>1, <1>3, AppendKeeps
  <2>2. Covers(t', t)
    BY <1>3, <2>1 DEF Covers
  <2>3. CurInv(cur', t', local + 1)
    BY <1>3, <2>1 DEF CurInv
  <2>4. local' \in Nat /\ local <= local'
    BY <1>1, <1>3
  <2> QED BY <1>1, <1>3, <2>1, <2>2, <2>3, <2>4, StoreKeeps
<1> QED BY <1>2, <1>3 DEF StreamStep

LEMMA LocalIsMessage ==
  ASSUME NEW n \in Nat, NEW role, NEW status
  PROVE  /\ IsMessage(Local(n, role, status)) /\ Local(n, role, status).id = [by |-> "page", no |-> n]
         /\ Local(n, role, status).status = status /\ Local(n, role, status).seq \in Nat
<1>1. LocalSeq + n \in Nat
  BY DEF LocalSeq
<1> QED BY <1>1, MessageIsOne DEF Local

(* Another message, which is made like m. *)
LEMMA NewMessageStep ==
  ASSUME StoreInv(history, t, calls, cur, made, local), NEW m, IsMessage(m),
         m.id = Local(local + 1, "assistant", "streaming").id, m.status = "streaming", m.seq \in Nat,
         t' = Append(t, m), cur' = Local(local + 1, "assistant", "streaming").id, local' = local + 1
  PROVE  StreamStep
<1>1. local + 1 \in Nat /\ Shown(t, made, local) /\ Covers(t, t)
  BY DEF StoreInv, Covers
<1>2. m.id = [by |-> "page", no |-> local + 1] /\ cur' = m.id
  BY <1>1, LocalIsMessage
<1>3. m.status # "pending"
  OBVIOUS
<1> QED BY <1>1, <1>2, <1>3 DEF StreamStep

LEMMA WordsStep ==
  ASSUME NEW mk, NEW lc, Shown(t, mk, lc), NEW g,
         t' = [i \in 1..Len(t) |-> g[i]],
         \A i \in 1..Len(t) : /\ IsMessage(g[i]) /\ g[i].id = t[i].id /\ g[i].seq = t[i].seq
                              /\ g[i].status = "pending" <=> t[i].status = "pending",
         cur' \in {cur, None}, local' = local
  PROVE  StreamStep
<1>1. t' = [i \in 1..Len(t) |-> t'[i]] /\ \A i \in 1..Len(t) : t'[i] = g[i]
  OBVIOUS
<1>2. Reword(t', t)
  BY <1>1 DEF Reword
<1> QED BY <1>2 DEF StreamStep

LEMMA EnsureStep ==
  ASSUME StoreInv(history, t, calls, cur, made, local), NEW e,
         StepStart(e) \/ TextStart(e) \/ TextDelta(e) \/ ToolCall(e)
  PROVE  StreamStep
<1> DEFINE l == Local(local + 1, "assistant", "streaming")
<1>1. Shown(t, made, local) /\ local + 1 \in Nat /\ \A i \in 1..Len(t) : IsMessage(t[i])
  BY DEF StoreInv, Shown, IsKnown
<1>2. IsMessage(l) /\ l.status = "streaming" /\ l.seq \in Nat
  <2>1. PICK n \in Nat : n = local + 1
    BY <1>1
  <2> HIDE DEF l
  <2>2. l = Local(n, "assistant", "streaming")
    BY <2>1 DEF l
  <2>3. IsMessage(Local(n, "assistant", "streaming")) /\ Local(n, "assistant", "streaming").seq \in Nat
    BY LocalIsMessage
  <2>4. Local(n, "assistant", "streaming").status = "streaming"
    BY DEF Local, Message
  <2> QED BY <2>2, <2>3, <2>4
<1>3. ASSUME NEW g, t' = [i \in 1..Len(t) |-> g[i]], cur' = cur, local' = local,
             \A i \in 1..Len(t) : Touched(g[i], t[i])
      PROVE  StreamStep
  <2>1. ASSUME NEW i \in 1..Len(t)
        PROVE  /\ IsMessage(g[i]) /\ g[i].id = t[i].id /\ g[i].seq = t[i].seq
               /\ g[i].status = "pending" <=> t[i].status = "pending"
    BY <1>1, <1>3, TouchedKeep
  <2> QED BY <1>1, <1>3, <2>1, WordsStep
<1>4. ASSUME NEW m, Touched(m, l),
             t' = Append(t, m), cur' = l.id, local' = local + 1
      PROVE  StreamStep
  <2>1. IsMessage(m) /\ m.id = l.id /\ m.status = "streaming" /\ m.seq \in Nat
    BY <1>2, <1>4, TouchedKeep
  <2> HIDE DEF l
  <2>2. m.id = Local(local + 1, "assistant", "streaming").id /\ cur' = Local(local + 1, "assistant", "streaming").id
    BY <1>4, <2>1 DEF l
  <2> QED BY <1>4, <2>1, <2>2, NewMessageStep
<1>5. CASE StepStart(e)
  <2>1. t' = Append(t, l) /\ cur' = l.id /\ local' = local + 1
    BY <1>5 DEF StepStart, Ensure
  <2> QED BY <1>4, <2>1 DEF Touched
<1>6. CASE TextDelta(e)
  <2>1. \/ t' = [i \in 1..Len(t) |-> IF t[i].id = cur THEN t[i] ELSE t[i]] /\ cur' = cur /\ local' = local
        \/ t' = Append(t, l) /\ cur' = l.id /\ local' = local + 1
    BY <1>6 DEF TextDelta, Ensure, With
  <2>2. CASE t' = [i \in 1..Len(t) |-> IF t[i].id = cur THEN t[i] ELSE t[i]] /\ cur' = cur /\ local' = local
    <3>1. t' = [i \in 1..Len(t) |-> t[i]]
      BY <2>2
    <3> QED BY <1>3, <2>2, <3>1 DEF Touched
  <2> QED BY <1>4, <2>1, <2>2 DEF Touched
<1>7. ASSUME NEW f, \A i \in 1..Len(t) : Touched(f[i], t[i]), cur' = cur, local' = local,
             t' = [i \in 1..Len(t) |-> IF t[i].id = cur THEN f[i] ELSE t[i]]
      PROVE  StreamStep
  <2>1. PICK g : g = [i \in 1..Len(t) |-> IF t[i].id = cur THEN f[i] ELSE t[i]]
    OBVIOUS
  <2>2. t' = [i \in 1..Len(t) |-> g[i]]
    BY <1>7, <2>1
  <2>3. \A i \in 1..Len(t) : g[i] = t[i] \/ g[i] = f[i]
    BY <2>1
  <2>4. \A i \in 1..Len(t) : Touched(g[i], t[i])
    BY <1>7, <2>3 DEF Touched
  <2> QED BY <1>3, <1>7, <2>2, <2>4
<1>8. CASE TextStart(e)
  <2> DEFINE part == Part(e.part, "text", <<>>, "")
  <2> HIDE DEF part
  <2>1. PICK f : f = [i \in 1..Len(t) |-> AddPart(t[i], part)]
    OBVIOUS
  <2>2. \A i \in 1..Len(t) : Touched(f[i], t[i])
    BY <2>1, AddPartTouches
  <2>3. \/ /\ t' = [i \in 1..Len(t) |-> IF t[i].id = cur THEN f[i] ELSE t[i]]
           /\ cur' = cur /\ local' = local
        \/ t' = Append(t, AddPart(l, part)) /\ cur' = l.id /\ local' = local + 1
    BY <1>8, <2>1 DEF TextStart, Ensure, With, part
  <2> QED BY <1>4, <1>7, <2>2, <2>3, AddPartTouches
<1>9. CASE ToolCall(e)
  <2>1. PICK f : f = [i \in 1..Len(t) |-> AddTool(t[i], e.part)]
    OBVIOUS
  <2>2. \A i \in 1..Len(t) : Touched(f[i], t[i])
    BY <2>1, AddToolTouches
  <2>3. \/ /\ t' = [i \in 1..Len(t) |-> IF t[i].id = cur THEN f[i] ELSE t[i]]
           /\ cur' = cur /\ local' = local
        \/ t' = Append(t, AddTool(l, e.part)) /\ cur' = l.id /\ local' = local + 1
    BY <1>9, <2>1 DEF ToolCall, Ensure, With
  <2> QED BY <1>4, <1>7, <2>2, <2>3, AddToolTouches
<1> QED BY <1>5, <1>6, <1>8, <1>9

LEMMA ToolResultStep ==
  ASSUME StoreInv(history, t, calls, cur, made, local), NEW e, ToolResult(e) PROVE StreamStep
<1>1. Shown(t, made, local) /\ \A i \in 1..Len(t) : IsMessage(t[i])
  BY DEF StoreInv, Shown, IsKnown
<1> DEFINE new(m) == [k \in 1..Len(m.parts) |->
             IF m.parts[k].id = e.part THEN [m.parts[k] EXCEPT !.kind = "tool", !.state = "complete"] ELSE m.parts[k]]
<1>2. t' = [i \in 1..Len(t) |-> IF t[i].id = cur THEN NewParts(t[i], new(t[i])) ELSE t[i]]
  BY DEF ToolResult, With, NewParts
<1>3. cur' = cur /\ local' = local
  BY DEF ToolResult
<1> HIDE DEF new
<1>4. PICK g : g = [i \in 1..Len(t) |-> IF t[i].id = cur THEN NewParts(t[i], new(t[i])) ELSE t[i]]
  OBVIOUS
<1>5. t' = [i \in 1..Len(t) |-> g[i]]
  BY <1>2, <1>4
<1>6. \A i \in 1..Len(t) : g[i] = t[i] \/ g[i] = NewParts(t[i], new(t[i]))
  BY <1>4
<1>7. ASSUME NEW i \in 1..Len(t)
      PROVE  /\ IsMessage(g[i]) /\ g[i].id = t[i].id /\ g[i].seq = t[i].seq
             /\ g[i].status = "pending" <=> t[i].status = "pending"
  BY <1>1, <1>6, NewPartsKeep
<1> QED BY <1>1, <1>3, <1>5, <1>7, WordsStep

NewStatus(m, x) == [m EXCEPT !.status = x]

LEMMA NewStatusKeeps ==
  ASSUME NEW m, IsMessage(m), NEW x
  PROVE  /\ IsMessage(NewStatus(m, x)) /\ NewStatus(m, x).id = m.id
         /\ NewStatus(m, x).status = x /\ NewStatus(m, x).seq = m.seq
<1>1. PICK n : n = [m EXCEPT !.status = x]
  OBVIOUS
<1>2. IsMessage(n) /\ n.id = m.id /\ n.status = x /\ n.seq = m.seq
  BY <1>1, StatusChanges
<1> QED BY <1>1, <1>2 DEF NewStatus

LEMMA FinishStep ==
  ASSUME StoreInv(history, t, calls, cur, made, local), Finish, local' = local PROVE StreamStep
<1>1. Shown(t, made, local) /\ CurInv(cur, t, local) /\ \A i \in 1..Len(t) : t[i].id \in Ids
  BY DEF StoreInv, Shown, IsKnown
<1>2. PICK u : u = Flushed(t)
  OBVIOUS
<1>3. Reword(u, t) /\ Len(u) = Len(t)
  BY <1>1, <1>2, FlushedWords, RewordKeeps, StoreInv(history, t, calls, cur, made, local) DEF StoreInv
<1>4. t' = [i \in 1..Len(u) |-> IF u[i].id = cur THEN NewStatus(u[i], "complete") ELSE u[i]]
  BY <1>2 DEF Finish, With, NewStatus
<1>5. cur' = None
  BY DEF Finish
<1>6. PICK g : g = [i \in 1..Len(u) |-> IF u[i].id = cur THEN NewStatus(u[i], "complete") ELSE u[i]]
  OBVIOUS
<1>7. t' = [i \in 1..Len(t) |-> g[i]]
  BY <1>3, <1>4, <1>6
<1>8. \A i \in 1..Len(t) : IF u[i].id = cur THEN g[i] = NewStatus(u[i], "complete") ELSE g[i] = u[i]
  BY <1>3, <1>6
<1>9. ASSUME NEW i \in 1..Len(t)
      PROVE  /\ IsMessage(g[i]) /\ g[i].id = t[i].id /\ g[i].seq = t[i].seq
             /\ g[i].status = "pending" <=> t[i].status = "pending"
  <2>1. /\ IsMessage(u[i]) /\ u[i].id = t[i].id /\ u[i].seq = t[i].seq
        /\ u[i].status = "pending" <=> t[i].status = "pending"
    BY <1>3 DEF Reword
  <2>2. CASE u[i].id # cur
    BY <1>8, <2>1, <2>2
  <2>3. CASE u[i].id = cur
    <3>1. cur # None
      BY <1>1, <2>1, <2>3, ChatAssumption DEF Ids
    <3>2. t[i].status # "pending"
      BY <1>1, <2>1, <2>3, <3>1 DEF CurInv
    <3> QED BY <1>8, <2>1, <2>3, <3>2, NewStatusKeeps
  <2> QED BY <2>2, <2>3
<1> QED BY <1>1, <1>5, <1>7, <1>9, WordsStep

LEMMA FailStep ==
  ASSUME StoreInv(history, t, calls, cur, made, local), Fail PROVE StreamStep
<1> DEFINE S == {i \in 1..Len(t) : t[i].status # "streaming"}
           m == Local(local + 1, "error", "error")
           ns == Picked(t, S)
<1>1. t' = Append(ns, m) /\ local' = local + 1 /\ cur' = None
  BY DEF Fail, Without
<1>2. Shown(t, made, local) /\ made \in Nat /\ local \in Nat /\ local + 1 \in Nat
  BY DEF StoreInv
<1>3. S \subseteq 1..Len(t) /\ \A i \in 1..Len(t) : t[i].status = "pending" => i \in S
  OBVIOUS
<1> HIDE DEF S
<1>4. Shown(ns, made, local) /\ Covers(ns, t)
  BY <1>2, <1>3, PickedKeeps
<1>5. IsMessage(m) /\ m.id = [by |-> "page", no |-> local + 1] /\ m.status # "pending" /\ m.seq \in Nat
  BY <1>2, LocalIsMessage
<1> HIDE DEF m, ns
<1> QED BY <1>1, <1>4, <1>5 DEF StreamStep

LEMMA ReceiveKeepsStore == ChatInv /\ (Receive \/ Frame) => ChatInv'
<1> SUFFICES ASSUME ChatInv, Receive \/ Frame PROVE ChatInv'
  OBVIOUS
<1>1. UNCHANGED <<calls, history, made, confused>>
  BY DEF Receive, Frame, agent, ghosts, StepStart, TextStart, TextDelta, ToolCall, ToolResult, TurnComplete, Status, Error
<1> SUFFICES ASSUME ~confused PROVE StoreInv(history, t', calls, cur', made, local')
  BY <1>1 DEF ChatInv
<1>2. StoreInv(history, t, calls, cur, made, local)
  BY DEF ChatInv
<1>3. StreamStep
  <2>1. CASE Frame
    <3>1. Reword(Flushed(t), t)
      BY <1>2, FlushedWords DEF StoreInv
    <3> QED BY <2>1, <3>1 DEF Frame, StreamStep
  <2>2. CASE Receive
    <3> DEFINE e == Head(wire)
    <3>1. CASE StepStart(e) \/ TextStart(e) \/ TextDelta(e) \/ ToolCall(e)
      <4> HIDE DEF e
      <4> QED BY <1>2, <3>1, EnsureStep
    <3>2. CASE ToolResult(e)
      <4> HIDE DEF e
      <4> QED BY <1>2, <3>2, ToolResultStep
    <3>3. CASE TurnComplete(e)
      BY <1>2, <3>3, FinishStep DEF TurnComplete
    <3>4. CASE Status(e)
      <4>1. UNCHANGED <<t, cur, local>>
        BY <3>4 DEF Status
      <4>2. t = [i \in 1..Len(t) |-> t[i]]
        BY <1>2, ListHas DEF StoreInv, Shown, IsList
      <4>3. Reword(t, t)
        BY <1>2, <4>2 DEF Reword, StoreInv, Shown, IsKnown
      <4> QED BY <4>1, <4>3 DEF StreamStep
    <3>5. CASE Error(e)
      BY <1>2, <3>5, FailStep DEF Error
    <3> QED BY <2>2, <3>1, <3>2, <3>3, <3>4, <3>5 DEF Receive
  <2> QED BY <2>1, <2>2
<1> QED BY <1>2, <1>3, StreamStepKeeps

(* Nobody waits for an id: the messages may be any. *)
LEMMA QuietKeeps ==
  ASSUME NEW h, NEW ms, NEW cs, NEW cu, NEW mk, NEW lc, StoreInv(h, ms, cs, cu, mk, lc),
         NEW ns, NEW ds, NEW du, NEW ld \in Nat, lc <= ld,
         Shown(ns, mk, ld), CurInv(du, ns, ld),
         \A d \in ds : d.op # "prompt" /\ (d \in cs \/ IsCall(d, mk, ld))
  PROVE  StoreInv(h, ns, ds, du, mk, ld)
<1>1. mk \in Nat /\ lc \in Nat /\ Kept(h, mk)
  BY DEF StoreInv
<1>2. \A d \in cs : IsCall(d, mk, ld)
  BY <1>1, CallLater DEF StoreInv
<1>3. PromptInv(ds, ns)
  BY DEF PromptInv
<1> QED BY <1>1, <1>2, <1>3 DEF StoreInv

LEMMA SameStore ==
  ASSUME StoreInv(history, t, calls, cur, made, local),
         NEW ds, \A d \in ds : d \in calls \/ (d.op \notin {"prompt", "more"} /\ IsCall(d, made, local))
  PROVE  StoreInv(history, t, ds, cur, made, local)
<1>1. Shown(t, made, local) /\ CurInv(cur, t, local) /\ local \in Nat /\ local <= local /\ Covers(t, t)
  BY DEF StoreInv, Covers
<1> QED BY <1>1, StoreKeeps

LEMMA PlainRequest ==
  ASSUME NEW op \in {"state", "reload", "abort"}, NEW no, NEW mk, NEW lc
  PROVE  LET d == Request(op, no, None) IN d.op = op /\ IsCall(d, mk, lc)
<1> DEFINE d == Request(op, no, None)
<1>1. /\ d = [op |-> d.op, no |-> d.no, arg |-> d.arg, phase |-> d.phase, reply |-> d.reply]
      /\ d.op = op /\ d.arg = None /\ d.phase = "sent"
  BY RequestIsCall
<1> HIDE DEF d
<1>2. IsCall(d, mk, lc)
  BY <1>1 DEF IsCall
<1> QED BY <1>1, <1>2 DEF d

LEMMA PickedAre ==
  ASSUME NEW s, IsList(s), NEW S, S \subseteq 1..Len(s)
  PROVE  \A n \in 1..Len(Picked(s, S)) : Picked(s, S)[n] \in {s[k] : k \in S}
<1> DEFINE ns == Picked(s, S)
           N == Cardinality(S)
           e == Ascending(S)
<1>1. e \in [1..N -> S] /\ Len(ns) = N
  BY ListPicked
<1>2. \A n \in 1..N : ns[n] = s[e[n]]
  BY DEF Picked
<1> HIDE DEF ns, N, e
<1>3. \A n \in 1..N : e[n] \in S
  BY <1>1
<1> QED BY <1>1, <1>2, <1>3 DEF ns

(* What was loaded takes the place of messages none of which waits. *)
LEMMA RebuildKeeps ==
  ASSUME StoreInv(history, t, calls, cur, made, local), ~confused',
         NEW c \in calls, Replied(c), c.op \in {"init", "reload"}, Rebuild(c),
         NEW ds, \A d \in ds : d \in calls \/ (d.op \notin {"prompt", "more"} /\ IsCall(d, made, local))
  PROVE  StoreInv(history, t', ds, cur, made, local)
<1>1. made \in Nat /\ local \in Nat /\ local <= local /\ Shown(t, made, local) /\ CurInv(cur, t, local)
  BY DEF StoreInv
<1>2. CASE c.phase = "failed"
  <2>1. t' = t
    BY <1>2 DEF Rebuild
  <2> QED BY <2>1, SameStore
<1>3. CASE c.phase # "failed"
  <2> DEFINE S == {i \in 1..Len(t) : t[i].status = "pending"}
             ns == Picked(t, S)
             r == c.reply
  <2>1. t' = ns \o r /\ ~Waits(t)
    BY <1>3 DEF Rebuild, Waits
  <2>2. Kept(r, made)
    BY <1>3 DEF StoreInv, IsCall, Loads, Replied
  <2>3. S = {}
    BY <2>1 DEF Waits
  <2>4. Shown(ns, made, local)
    BY <1>1, ShownPicked
  <2>5. Len(ns) = 0
    <3>1. Cardinality(S) = 0
      BY <2>3, FS_EmptySet
    <3>2. IsList(t) /\ S \subseteq 1..Len(t)
      BY <1>1 DEF Shown
    <3> HIDE DEF S
    <3> QED BY <3>1, <3>2, ListPicked
  <2> HIDE DEF S, ns, r
  <2>6. Shown(r, made, local) /\ \A i \in 1..Len(r) : r[i].status # "pending"
    BY <1>1, <2>2, KeptIsShown
  <2>7. Shown(t', made, local)
    BY <1>1, <2>1, <2>4, <2>5, <2>6, ShownConcat
  <2>8. \A i \in 1..Len(t') : t'[i].status # "pending"
    <3>1. IsList(ns) /\ IsList(r) /\ Len(r) \in Nat
      BY <2>4, <2>6, ListHas DEF Shown
    <3>2. \A i \in 1..Len(t') : i - Len(ns) \in 1..Len(r) /\ Len(ns) + (i - Len(ns)) = i
      BY <2>1, <2>5, <3>1, ListConcat
    <3>3. \A i \in 1..Len(r) : t'[Len(ns) + i] = r[i]
      BY <2>1, <3>1, ListConcat
    <3> QED BY <2>6, <3>2, <3>3
  <2>9. CurInv(cur, t', local)
    BY <1>1, <2>8 DEF CurInv
  <2>10. \A d \in ds : d.op # "prompt" /\ (d \in calls \/ IsCall(d, made, local))
    <3>1. \A d \in calls : d.op # "prompt"
      BY <2>1 DEF StoreInv, PromptInv
    <3> QED BY <3>1
  <2> QED BY <1>1, <2>7, <2>9, <2>10, QuietKeeps
<1> QED BY <1>2, <1>3

LEMMA HandleInitKeeps ==
  ASSUME StoreInv(history, t, calls, cur, made, local), ~confused', NEW c \in calls, HandleInit(c)
  PROVE  StoreInv(history', t', calls', cur', made', local')
<1>1. UNCHANGED <<history, made, cur, local>> /\ calls' = (calls \ {c}) \cup {Request("state", c.no, None)}
  BY DEF HandleInit, agent
<1> DEFINE d == Request("state", c.no, None)
<1>2. d.op = "state" /\ IsCall(d, made, local)
  BY PlainRequest
<1> HIDE DEF d
<1>3. \A e \in calls' : e \in calls \/ (e.op \notin {"prompt", "more"} /\ IsCall(e, made, local))
  BY <1>1, <1>2 DEF d
<1>4. Replied(c) /\ c.op \in {"init", "reload"} /\ Rebuild(c)
  BY DEF HandleInit
<1>5. StoreInv(history, t', calls', cur, made, local)
  BY <1>3, <1>4, RebuildKeeps
<1> QED BY <1>1, <1>5

LEMMA HandleReloadKeeps ==
  ASSUME StoreInv(history, t, calls, cur, made, local), ~confused', NEW c \in calls, HandleReload(c)
  PROVE  StoreInv(history', t', calls', cur', made', local')
<1>1. UNCHANGED <<history, made, cur, local>> /\ calls' = calls \ {c}
  BY DEF HandleReload, agent
<1>2. Replied(c) /\ c.op \in {"init", "reload"} /\ Rebuild(c)
  BY DEF HandleReload
<1>3. StoreInv(history, t', calls', cur, made, local)
  BY <1>1, <1>2, RebuildKeeps
<1> QED BY <1>1, <1>3

LEMMA HandleStateKeeps ==
  ASSUME StoreInv(history, t, calls, cur, made, local), NEW c \in calls, HandleState(c)
  PROVE  StoreInv(history', t', calls', cur', made', local')
<1>1. UNCHANGED <<history, made>> /\ calls' = calls \ {c}
  BY DEF HandleState, agent
<1>2. CASE c.reply = "busy"
  <2> DEFINE m == Streaming(local + 1)
  <2>1. local' = local + 1 /\ t' = Append(t, m) /\ cur' = m.id
    BY <1>2 DEF HandleState
  <2>2. m = Local(local + 1, "assistant", "streaming")
    BY DEF Streaming
  <2>3. local + 1 \in Nat
    BY DEF StoreInv
  <2> HIDE DEF m
  <2>4. IsMessage(m) /\ m.seq \in Nat
    BY <2>2, <2>3, LocalIsMessage
  <2>5. m.status = "streaming"
    BY <2>2 DEF Local, Message
  <2>6. m.id = Local(local + 1, "assistant", "streaming").id /\ cur' = Local(local + 1, "assistant", "streaming").id
    BY <2>1, <2>2
  <2>7. StreamStep
    BY <2>1, <2>4, <2>5, <2>6, NewMessageStep
  <2> QED BY <1>1, <2>7, StreamStepKeeps
<1>3. CASE c.reply # "busy"
  <2>1. UNCHANGED <<local, t, cur>>
    BY <1>3 DEF HandleState
  <2> QED BY <1>1, <2>1, SameStore
<1> QED BY <1>2, <1>3

LEMMA HandleAbortKeeps ==
  ASSUME StoreInv(history, t, calls, cur, made, local), NEW c \in calls, HandleAbort(c)
  PROVE  StoreInv(history', t', calls', cur', made', local')
<1>1. UNCHANGED <<history, made>> /\ calls' = calls \ {c}
  BY DEF HandleAbort, agent
<1>2. StreamStep
  BY FinishStep DEF HandleAbort
<1> QED BY <1>1, <1>2, StreamStepKeeps

LEMMA HandleInterruptKeeps ==
  ASSUME StoreInv(history, t, calls, cur, made, local), NEW c \in calls, HandleInterrupt(c)
  PROVE  StoreInv(history', t', calls', cur', made', local')
<1> DEFINE d == Request("undo", c.no, c.arg)
<1>1. UNCHANGED <<history, made, t, cur, local>> /\ calls' = (calls \ {c}) \cup {d} /\ c.op = "interrupt"
  BY DEF HandleInterrupt, agent, view
<1>2. /\ d = [op |-> d.op, no |-> d.no, arg |-> d.arg, phase |-> d.phase, reply |-> d.reply]
      /\ d.op = "undo" /\ d.arg = c.arg /\ d.phase = "sent"
  BY RequestIsCall
<1> HIDE DEF d
<1>3. Shown(c.arg.shown, made, local)
  BY <1>1 DEF StoreInv, IsCall
<1>4. IsCall(d, made, local)
  BY <1>2, <1>3 DEF IsCall
<1>5. \A e \in calls' : e \in calls \/ (e.op \notin {"prompt", "more"} /\ IsCall(e, made, local))
  BY <1>1, <1>2, <1>4
<1> QED BY <1>1, <1>5, SameStore

LEMMA HandleMoreKeeps ==
  ASSUME StoreInv(history, t, calls, cur, made, local), NEW c \in calls, HandleMore(c)
  PROVE  StoreInv(history', t', calls', cur', made', local')
<1>1. UNCHANGED <<history, made, cur, local>> /\ calls' = calls \ {c} /\ c.op = "more" /\ c.phase # "sent"
  BY DEF HandleMore, agent, Replied
<1>2. made \in Nat /\ local \in Nat /\ Shown(t, made, local) /\ CurInv(cur, t, local) /\ PromptInv(calls, t)
  BY DEF StoreInv
<1>3. CASE c.phase = "failed"
  <2>1. t' = t
    BY <1>3 DEF HandleMore
  <2> QED BY <1>1, <2>1, SameStore
<1>4. CASE c.phase # "failed"
  <2> DEFINE r == c.reply
             S == {i \in 1..Len(r) : ~Has(t, r[i].id)}
             ns == Picked(r, S)
             N == Len(ns)
  <2>1. t' = ns \o t
    BY <1>4 DEF HandleMore
  <2>2. c.phase = "ok"
    BY <1>1, <1>4 DEF StoreInv, IsCall
  <2>3. Kept(r, made)
    BY <1>1, <2>2 DEF StoreInv, IsCall, Loads
  <2>4. S \subseteq 1..Len(r) /\ \A k \in S : \A j \in 1..Len(t) : t[j].id # r[k].id
    BY DEF Has
  <2> HIDE DEF S, r
  <2>5. Kept(ns, made) /\ \A n \in 1..N : ns[n] \in {r[k] : k \in S}
    BY <1>2, <2>3, <2>4, KeptPicked
  <2> HIDE DEF ns
  <2>6. /\ Shown(ns, made, local)
        /\ \A i \in 1..N : ns[i].id.by = "agent" /\ ns[i].id.no = ns[i].seq /\ ns[i].status # "pending"
    BY <1>2, <2>5, KeptIsShown
  <2>7. \A i \in 1..N : \A j \in 1..Len(t) : ns[i].id # t[j].id
    BY <2>4, <2>5
  <2>8. Shown(t', made, local)
    BY <1>2, <2>1, <2>6, <2>7, ShownConcat
  <2>9. /\ N \in Nat /\ Len(t) \in Nat /\ Len(t') = N + Len(t)
        /\ \A i \in 1..N : t'[i] = ns[i]
        /\ \A i \in 1..Len(t) : t'[N + i] = t[i]
        /\ \A i \in 1..Len(t') : i \in 1..N \/ (i - N \in 1..Len(t) /\ N + (i - N) = i)
    <3>1. IsList(ns) /\ IsList(t)
      BY <1>2, <2>6 DEF Shown
    <3>2. N \in Nat /\ Len(t) \in Nat
      BY <3>1, ListHas
    <3> QED BY <2>1, <3>1, <3>2, ListConcat
  <2> HIDE DEF N
  <2>10. ASSUME NEW i \in 1..Len(t')
         PROVE  \/ i \in 1..N /\ t'[i] = ns[i]
                \/ \E j \in 1..Len(t) : t'[i] = t[j]
    BY <2>9
  <2>11. CurInv(cur, t', local)
    <3>1. \A i \in 1..Len(t') : t'[i].status = "pending" => \E j \in 1..Len(t) : t'[i] = t[j]
      BY <2>6, <2>10
    <3> QED BY <1>2, <3>1 DEF CurInv
  <2>12. PromptInv(calls', t')
    <3>1. Waits(t) => Waits(t')
      <4> SUFFICES ASSUME NEW i \in 1..Len(t), t[i].status = "pending" PROVE Waits(t')
        BY DEF Waits
      <4>1. N + i \in 1..Len(t') /\ t'[N + i].status = "pending"
        BY <2>9
      <4> QED BY <4>1 DEF Waits
    <3>2. ASSUME NEW d \in calls', d.op = "prompt", d.phase = "ok" PROVE IsNew(d.reply.no, calls', t')
      <4>1. IsNew(d.reply.no, calls, t)
        BY <1>1, <1>2, <3>2 DEF PromptInv
      <4>2. \A i \in 1..Len(r) : r[i].seq < d.reply.no
        BY <1>1, <2>2, <4>1 DEF IsNew, r
      <4>3. ASSUME NEW i \in 1..N PROVE ns[i].id.no < d.reply.no
        <5>1. PICK k \in S : ns[i] = r[k]
          BY <2>5
        <5>2. r[k].seq < d.reply.no
          BY <2>4, <4>2, <5>1
        <5>3. ns[i].id.no = ns[i].seq
          BY <2>6
        <5> QED BY <5>1, <5>2, <5>3
      <4>4. ASSUME NEW i \in 1..Len(t'), t'[i].id.by = "agent" PROVE t'[i].id.no < d.reply.no
        <5>1. CASE i \in 1..N /\ t'[i] = ns[i]
          BY <4>3, <5>1
        <5>2. CASE \E j \in 1..Len(t) : t'[i] = t[j]
          BY <4>1, <4>4, <5>2 DEF IsNew
        <5> QED BY <2>10, <5>1, <5>2
      <4> QED BY <1>1, <4>1, <4>4 DEF IsNew
    <3> QED BY <1>1, <1>2, <3>1, <3>2 DEF PromptInv
  <2> QED BY <1>1, <2>8, <2>11, <2>12 DEF StoreInv
<1> QED BY <1>3, <1>4

NewIdStatus(m, x, y) == [m EXCEPT !.id = x, !.status = y]

LEMMA NewIdStatusKeeps ==
  ASSUME NEW m, IsMessage(m), NEW x, NEW y
  PROVE  /\ IsMessage(NewIdStatus(m, x, y)) /\ NewIdStatus(m, x, y).id = x
         /\ NewIdStatus(m, x, y).seq = m.seq
         /\ y # "pending" => NewIdStatus(m, x, y).status # "pending"
<1>1. PICK n : n = [m EXCEPT !.id = x, !.status = y]
  OBVIOUS
<1>2. IsMessage(n) /\ n.id = x /\ n.status = y /\ n.seq = m.seq
  <2>1. PICK i, r, s, q, p : m = [id |-> i, role |-> r, status |-> s, seq |-> q, parts |-> p]
    BY DEF IsMessage
  <2>2. n = [id |-> x, role |-> r, status |-> y, seq |-> q, parts |-> p]
    BY <1>1, <2>1
  <2> QED BY <2>1, <2>2 DEF IsMessage
<1> QED BY <1>1, <1>2 DEF NewIdStatus

LEMMA HandlePromptKeeps ==
  ASSUME StoreInv(history, t, calls, cur, made, local), NEW c \in calls, HandlePrompt(c)
  PROVE  StoreInv(history', t', calls', cur', made', local')
<1>1. UNCHANGED <<history, made>> /\ calls' = calls \ {c} /\ c.op = "prompt" /\ c.phase # "sent"
  BY DEF HandlePrompt, agent, Replied
<1>2. CASE c.phase = "failed"
  <2>1. StreamStep
    BY <1>2, FailStep DEF HandlePrompt
  <2> QED BY <1>1, <2>1, StreamStepKeeps
<1>3. CASE c.phase # "failed"
  <2> DEFINE p == c.reply
  <2>1. made \in Nat /\ local \in Nat /\ local <= local /\ Shown(t, made, local) /\ CurInv(cur, t, local) /\ PromptInv(calls, t)
    BY DEF StoreInv
  <2>2. c.phase = "ok" /\ IsCall(c, made, local)
    BY <1>1, <1>3 DEF StoreInv, IsCall
  <2>3. p \in Ids /\ p.by = "agent" /\ p.no <= made /\ p.no \in Nat
    BY <1>1, <2>2 DEF IsCall, Ids
  <2>4. \A i \in 1..Len(t) : t[i].id.by = "agent" => t[i].id.no < p.no
    BY <1>1, <2>1, <2>2 DEF PromptInv, IsNew
  <2>5. \A i \in 1..Len(t) : t[i].id # p
    BY <2>3, <2>4
  <2>6. cur' = cur /\ local' = local
    BY <1>3 DEF HandlePrompt
  <2>7. t' = [i \in 1..Len(t) |-> IF t[i].status = "pending" THEN NewIdStatus(t[i], p, "complete") ELSE t[i]]
    BY <1>3 DEF HandlePrompt, NewIdStatus
  <2> HIDE DEF p
  <2>8. PICK g : g = [i \in 1..Len(t) |-> IF t[i].status = "pending" THEN NewIdStatus(t[i], p, "complete") ELSE t[i]]
    OBVIOUS
  <2>9. t' = g /\ g = [i \in 1..Len(t) |-> g[i]]
    BY <2>7, <2>8
  <2>10. \A i \in 1..Len(t) : IF t[i].status = "pending" THEN g[i] = NewIdStatus(t[i], p, "complete") ELSE g[i] = t[i]
    BY <2>8
  <2>11. ASSUME NEW i \in 1..Len(t)
         PROVE  /\ IsKnown(g[i], made, local) /\ g[i].status # "pending"
                /\ IF t[i].status = "pending" THEN g[i].id = p ELSE g[i].id = t[i].id
    <3>1. IsKnown(t[i], made, local)
      BY <2>1 DEF Shown
    <3>2. CASE t[i].status = "pending"
      <4>1. /\ IsMessage(g[i]) /\ g[i].id = p /\ g[i].seq = t[i].seq
            /\ g[i].status # "pending"
        BY <2>10, <3>1, <3>2, NewIdStatusKeeps DEF IsKnown
      <4>2. g[i].seq \in Nat
        BY <3>1, <4>1 DEF IsKnown
      <4>3. IsKnown(g[i], made, local)
        BY <2>3, <4>1, <4>2 DEF IsKnown
      <4> QED BY <3>2, <4>1, <4>3
    <3>3. CASE t[i].status # "pending"
      BY <2>10, <3>1, <3>3
    <3> QED BY <3>2, <3>3
  <2>12. IsList(g) /\ Len(g) = Len(t)
    BY <2>1, <2>9, ListOfFunction, ListHas DEF Shown
  <2>13. ASSUME NEW i \in 1..Len(t), NEW j \in 1..Len(t), g[i].id = g[j].id PROVE i = j
    <3>1. CASE t[i].status = "pending" /\ t[j].status = "pending"
      BY <2>1, <3>1 DEF Shown
    <3>2. CASE t[i].status # "pending" /\ t[j].status # "pending"
      BY <2>1, <2>11, <2>13, <3>2 DEF Shown
    <3>3. CASE t[i].status = "pending" /\ t[j].status # "pending"
      BY <2>5, <2>11, <2>13, <3>3
    <3>4. CASE t[i].status # "pending" /\ t[j].status = "pending"
      BY <2>5, <2>11, <2>13, <3>4
    <3> QED BY <3>1, <3>2, <3>3, <3>4
  <2>14. Shown(g, made, local)
    BY <2>11, <2>12, <2>13 DEF Shown
  <2>15. CurInv(cur, g, local)
    BY <2>1, <2>11, <2>12 DEF CurInv
  <2>16. \A d \in calls' : d.op # "prompt" /\ (d \in calls \/ IsCall(d, made, local))
    BY <1>1, <2>1 DEF PromptInv
  <2>17. StoreInv(history, g, calls', cur, made, local)
    BY <2>1, <2>14, <2>15, <2>16, QuietKeeps
  <2> QED BY <1>1, <2>6, <2>9, <2>17
<1> QED BY <1>2, <1>3

LEMMA HandleUndoKeeps ==
  ASSUME StoreInv(history, t, calls, cur, made, local), ~confused', NEW c \in calls, HandleUndo(c)
  PROVE  StoreInv(history', t', calls', cur', made', local')
<1> DEFINE kept == c.arg.shown
           before == {i \in 1..Len(kept) : \A j \in 1..i : kept[j].id # c.arg.id}
           n == Cardinality(before)
           d == Request("reload", c.no, None)
<1>1. /\ UNCHANGED <<history, made, local>> /\ cur' = None /\ c.op = "undo"
      /\ calls' = (calls \ {c}) \cup {d}
      /\ \A e \in calls : e.op # "prompt"
  BY DEF HandleUndo, agent
<1>2. t' = [i \in 1..n |-> IF kept[i].status = "streaming" THEN NewStatus(kept[i], "complete") ELSE kept[i]]
  BY DEF HandleUndo, NewStatus
<1>3. made \in Nat /\ local \in Nat /\ local <= local
  BY DEF StoreInv
<1>4. Shown(kept, made, local)
  BY <1>1 DEF StoreInv, IsCall
<1>5. d.op = "reload" /\ IsCall(d, made, local)
  BY PlainRequest
<1>6. n \in Nat /\ n <= Len(kept)
  <2>1. Len(kept) \in Nat
    BY <1>4, ListHas DEF Shown
  <2>2. IsFiniteSet(1..Len(kept)) /\ Cardinality(1..Len(kept)) = Len(kept)
    BY <2>1, FS_Interval
  <2>3. before \subseteq 1..Len(kept)
    OBVIOUS
  <2> HIDE DEF before, kept
  <2>4. IsFiniteSet(before) /\ Cardinality(before) <= Cardinality(1..Len(kept))
    BY <2>2, <2>3, FS_Subset
  <2>5. Cardinality(before) \in Nat
    BY <2>4, FS_CardinalityType
  <2> QED BY <2>2, <2>4, <2>5
<1> HIDE DEF kept, n, d
<1>7. PICK g : g = [i \in 1..n |-> IF kept[i].status = "streaming" THEN NewStatus(kept[i], "complete") ELSE kept[i]]
  OBVIOUS
<1>8. t' = g /\ g = [i \in 1..n |-> g[i]]
  BY <1>2, <1>7
<1>9. \A i \in 1..n : g[i] = kept[i] \/ g[i] = NewStatus(kept[i], "complete")
  BY <1>7
<1>10. ASSUME NEW i \in 1..n
       PROVE  /\ IsMessage(g[i]) /\ g[i].id = kept[i].id /\ g[i].seq = kept[i].seq
              /\ g[i].status = "pending" => kept[i].status = "pending"
  <2>1. i \in 1..Len(kept)
    <3>1. Len(kept) \in Nat
      BY <1>4, ListHas DEF Shown
    <3> QED BY <1>6, <3>1
  <2>2. IsMessage(kept[i])
    BY <1>4, <2>1 DEF Shown, IsKnown
  <2> QED BY <1>9, <2>2, NewStatusKeeps
<1>11. Shown(g, made, local)
  BY <1>3, <1>4, <1>6, <1>8, <1>10, ShownCut
<1>12. CurInv(None, g, local)
  BY DEF CurInv
<1>13. \A e \in calls' : e.op # "prompt" /\ (e \in calls \/ IsCall(e, made, local))
  BY <1>1, <1>5
<1>14. StoreInv(history, g, calls', None, made, local)
  BY <1>3, <1>11, <1>12, <1>13, QuietKeeps
<1> QED BY <1>1, <1>8, <1>14

(* A reply changes the store as the invariant wants it. *)
LEMMA ReplyKeepsStore ==
  ASSUME ChatInv, NEW c \in calls, Reply(c) PROVE ChatInv'
<1>1. confused' \in BOOLEAN /\ (~confused' => ~confused)
  BY DEF ChatInv, Reply, HandleInit, HandleState, HandleReload, HandleMore, HandlePrompt, HandleAbort,
         HandleInterrupt, HandleUndo, Rebuild, ghosts
<1> SUFFICES ASSUME ~confused' PROVE StoreInv(history', t', calls', cur', made', local')
  BY <1>1 DEF ChatInv
<1>2. StoreInv(history, t, calls, cur, made, local)
  BY <1>1 DEF ChatInv
<1> QED BY <1>2, HandleInitKeeps, HandleStateKeeps, HandleReloadKeeps, HandleMoreKeeps, HandlePromptKeeps,
           HandleAbortKeeps, HandleInterruptKeeps, HandleUndoKeeps DEF Reply

LEMMA TwoAppended ==
  ASSUME NEW s, IsList(s), NEW a, NEW b
  PROVE  s \o <<a, b>> = Append(Append(s, a), b)
<1> DEFINE M == Members(s) \cup {a, b}
<1>1. Members(s) \subseteq M /\ a \in M /\ b \in M
  OBVIOUS
<1> HIDE DEF M
<1>2. s \in Seq(M)
  BY <1>1, SeqWidens DEF IsList
<1> QED BY <1>1, <1>2

(* A prompt: nobody waits but the message that is sent. *)
LEMMA SendKeeps ==
  ASSUME StoreInv(history, t, calls, cur, made, local), ~confused', Send
  PROVE  StoreInv(history', t', calls', cur', made', local')
<1> DEFINE S == {i \in 1..Len(t) : t[i].status # "streaming"}
           ns == Picked(t, S)
           u == Local(local + 1, "user", "pending")
           m == Streaming(local + 2)
           us == Append(ns, u)
           d == Request("prompt", ops', None)
<1>1. /\ UNCHANGED <<history, made>> /\ t' = ns \o <<u, m>> /\ cur' = m.id /\ local' = local + 2
      /\ calls' = calls \cup {d} /\ ~Waits(t)
  BY DEF Send, agent, Without, Waits
<1>2. made \in Nat /\ local \in Nat /\ Shown(t, made, local) /\ PromptInv(calls, t)
  BY DEF StoreInv
<1>3. PICK p \in Nat : p = local + 1
  BY <1>2
<1>4. p \in Nat /\ p = local + 1 /\ local <= p /\ p + 1 = local + 2 /\ p + 1 \in Nat /\ p <= p + 1
  BY <1>2, <1>3
<1>5. IsMessage(u) /\ u.id = [by |-> "page", no |-> p] /\ u.seq \in Nat /\ u.status = "pending"
  <2>1. u = Local(p, "user", "pending")
    BY <1>4
  <2>2. u.status = "pending"
    BY DEF Local, Message
  <2> HIDE DEF u
  <2> QED BY <1>4, <2>1, <2>2, LocalIsMessage
<1>6. IsMessage(m) /\ m.id = [by |-> "page", no |-> p + 1] /\ m.seq \in Nat /\ m.status = "streaming"
  <2>1. m = Local(p + 1, "assistant", "streaming")
    BY <1>4 DEF Streaming
  <2>2. m.status = "streaming"
    BY DEF Streaming, Local, Message
  <2> HIDE DEF m
  <2> QED BY <1>4, <2>1, <2>2, LocalIsMessage
<1>7. /\ d = [op |-> d.op, no |-> d.no, arg |-> d.arg, phase |-> d.phase, reply |-> d.reply]
      /\ d.op = "prompt" /\ d.phase = "sent"
  BY RequestIsCall
<1> HIDE DEF u, m, d
<1>8. S \subseteq 1..Len(t) /\ IsList(t)
  BY <1>2 DEF Shown
<1> HIDE DEF S
<1>9. /\ Shown(ns, made, local)
      /\ \A n \in 1..Len(ns) : ns[n] \in {t[k] : k \in S}
  BY <1>2, <1>8, ShownPicked, PickedAre
<1>10. \A n \in 1..Len(ns) : ns[n].status # "pending"
  BY <1>1, <1>8, <1>9 DEF Waits
<1> HIDE DEF ns
<1>11. t' = Append(us, m)
  BY <1>1, <1>9, TwoAppended DEF Shown
<1>12. Shown(us, made, p)
  <2>1. Shown(ns, made, p)
    BY <1>2, <1>4, <1>9, ShownLater
  <2>2. u.id \in Ids /\ u.id.by = "page" /\ u.id.no = p
    BY <1>4, <1>5 DEF Ids
  <2>3. IsKnown(u, made, p)
    BY <1>4, <1>5, <2>2 DEF IsKnown
  <2>4. \A i \in 1..Len(ns) : ns[i].id # u.id
    BY <1>2, <1>4, <1>9, <2>2 DEF Shown, IsKnown
  <2> QED BY <1>2, <1>4, <1>10, <2>1, <2>3, <2>4, ShownAppend
<1>13. Waits(us)
  <2>1. Len(us) = Len(ns) + 1 /\ us[Len(ns) + 1] = u /\ Len(ns) \in Nat
    BY <1>9, ListAppend, ListHas DEF Shown
  <2>2. Len(ns) + 1 \in 1..Len(us)
    BY <2>1
  <2> QED BY <1>5, <2>1, <2>2 DEF Waits
<1> HIDE DEF us
<1>14. Shown(t', made, p + 1) /\ Covers(t', us) /\ CurInv(m.id, t', p + 1)
  BY <1>2, <1>4, <1>6, <1>11, <1>12, AppendKeeps
<1>15. \A c \in calls : c.op # "prompt"
  BY <1>1, <1>2 DEF PromptInv
<1>16. PromptInv(calls', t')
  BY <1>1, <1>7, <1>13, <1>14, <1>15 DEF PromptInv, Covers
<1>17. \A c \in calls' : IsCall(c, made, p + 1)
  <2>1. IsCall(d, made, p + 1)
    BY <1>7 DEF IsCall
  <2>2. \A c \in calls : IsCall(c, made, p + 1)
    BY <1>2, <1>4, CallLater DEF StoreInv
  <2> QED BY <1>1, <2>1, <2>2
<1>18. StoreInv(history, t', calls', m.id, made, p + 1)
  BY <1>2, <1>4, <1>14, <1>16, <1>17 DEF StoreInv
<1> QED BY <1>1, <1>4, <1>18

LEMMA LoadMoreKeeps ==
  ASSUME StoreInv(history, t, calls, cur, made, local), LoadMore
  PROVE  StoreInv(history', t', calls', cur', made', local')
<1>1. UNCHANGED <<history, made, t, cur, local>>
  BY DEF LoadMore, agent
<1>2. PICK n \in 1..Len(Displayed) : calls' = calls \cup {Request("more", ops', Displayed[n].id)}
  BY DEF LoadMore
<1> DEFINE a == Displayed[n].id
           d == Request("more", ops', a)
<1>3. made \in Nat /\ local \in Nat /\ Shown(t, made, local) /\ PromptInv(calls, t)
  BY DEF StoreInv
<1>4. Shown(Displayed, made, local) /\ \E i \in 1..Len(t) : Displayed[n] = t[i]
  BY <1>3, DisplayedIsShown
<1>5. a \in Ids /\ (a.by = "agent" => a.no <= made)
  BY <1>4 DEF Shown, IsKnown
<1>6. PICK i \in 1..Len(t) : a = t[i].id
  BY <1>4
<1> HIDE DEF a
<1>7. /\ d = [op |-> d.op, no |-> d.no, arg |-> d.arg, phase |-> d.phase, reply |-> d.reply]
      /\ d.op = "more" /\ d.arg = a /\ d.phase = "sent"
  BY RequestIsCall
<1>8. calls' = calls \cup {d}
  BY <1>2 DEF a
<1> HIDE DEF d
<1>9. IsCall(d, made, local)
  BY <1>5, <1>7 DEF IsCall
<1>10. \A c \in calls' : IsCall(c, made, local)
  BY <1>8, <1>9 DEF StoreInv
<1>11. ASSUME NEW c \in calls', c.op = "prompt"
       PROVE  c \in calls /\ (c.phase = "ok" => IsNew(c.reply.no, calls', t))
  <2>1. c \in calls
    BY <1>7, <1>8, <1>11
  <2>2. ASSUME c.phase = "ok" PROVE IsNew(c.reply.no, calls', t)
    <3>1. IsNew(c.reply.no, calls, t)
      BY <1>3, <1>11, <2>1, <2>2 DEF PromptInv
    <3>2. a.by = "agent" => a.no < c.reply.no
      BY <1>6, <3>1 DEF IsNew
    <3> QED BY <1>7, <1>8, <3>1, <3>2 DEF IsNew
  <2> QED BY <2>1, <2>2
<1>12. PromptInv(calls', t)
  BY <1>3, <1>11 DEF PromptInv
<1> QED BY <1>1, <1>10, <1>12 DEF StoreInv

LEMMA AbortKeeps ==
  ASSUME StoreInv(history, t, calls, cur, made, local), Abort
  PROVE  StoreInv(history', t', calls', cur', made', local')
<1> DEFINE d == Request("abort", ops', None)
<1>1. UNCHANGED <<history, made, t, cur, local>> /\ calls' = calls \cup {d}
  BY DEF Abort, agent, view
<1>2. d.op = "abort" /\ IsCall(d, made, local)
  BY PlainRequest
<1> HIDE DEF d
<1>3. \A e \in calls' : e \in calls \/ (e.op \notin {"prompt", "more"} /\ IsCall(e, made, local))
  BY <1>1, <1>2
<1> QED BY <1>1, <1>3, SameStore

LEMMA RevertKeeps ==
  ASSUME StoreInv(history, t, calls, cur, made, local), NEW id, Revert(id)
  PROVE  StoreInv(history', t', calls', cur', made', local')
<1>1. PICK op \in {"interrupt", "undo"} : op = IF sending THEN "interrupt" ELSE "undo"
  OBVIOUS
<1> DEFINE a == [id |-> id, shown |-> Displayed]
           d == Request(op, ops', a)
<1>2. UNCHANGED <<history, made, t, cur, local>> /\ calls' = calls \cup {d}
  BY <1>1 DEF Revert, agent, view
<1>3. Shown(a.shown, made, local)
  BY DisplayedIsShown DEF StoreInv
<1>4. /\ d = [op |-> d.op, no |-> d.no, arg |-> d.arg, phase |-> d.phase, reply |-> d.reply]
      /\ d.op = op /\ d.arg = a /\ d.phase = "sent"
  BY RequestIsCall
<1> HIDE DEF a, d
<1>5. d.op \in {"interrupt", "undo"} /\ IsCall(d, made, local)
  BY <1>1, <1>3, <1>4 DEF IsCall
<1>6. \A e \in calls' : e \in calls \/ (e.op \notin {"prompt", "more"} /\ IsCall(e, made, local))
  BY <1>2, <1>5
<1> QED BY <1>2, <1>6, SameStore

LEMMA UserKeepsStore == ChatInv /\ User => ChatInv'
<1> SUFFICES ASSUME ChatInv, User PROVE ChatInv'
  OBVIOUS
<1>1. confused' \in BOOLEAN /\ (~confused' => ~confused)
  BY DEF ChatInv, User, Send, LoadMore, Abort, Revert, ghosts
<1> SUFFICES ASSUME ~confused' PROVE StoreInv(history', t', calls', cur', made', local')
  BY <1>1 DEF ChatInv
<1>2. StoreInv(history, t, calls, cur, made, local)
  BY <1>1 DEF ChatInv
<1> QED BY <1>2, SendKeeps, LoadMoreKeeps, AbortKeeps, RevertKeeps DEF User

-----------------------------------------------------------------------------
(* The theorem *)

LEMMA ChatInitStore == ChatInit => ChatInv
<1> SUFFICES ASSUME ChatInit PROVE StoreInv(history, t, calls, cur, made, local)
  BY DEF ChatInit, ChatInv
<1>1. t = <<>> /\ cur = None /\ local = 0 /\ calls = {Request("init", 0, None)} /\ made = Past
  BY DEF ChatInit
<1>2. made \in Nat /\ local \in Nat
  BY <1>1, ChatAssumption
<1>3. Kept(history, made)
  <2> DEFINE r == [i \in 1..Past |-> Remote(i, "user", <<>>)]
  <2>1. history = r
    BY DEF ChatInit
  <2>2. \A i \in 1..Past : r[i] = Remote(i, "user", <<>>)
    OBVIOUS
  <2>3. r = [i \in 1..Past |-> r[i]]
    OBVIOUS
  <2> HIDE DEF r
  <2>4. IsList(r) /\ Len(r) = Past
    BY <2>3, ListOfFunction, ChatAssumption
  <2>5. ASSUME NEW i \in 1..Past
        PROVE  /\ IsMessage(r[i]) /\ r[i].seq = i /\ r[i].status = "complete"
               /\ r[i].id = [by |-> "agent", no |-> r[i].seq]
    <3>1. r[i] = Message([by |-> "agent", no |-> i], "user", "complete", i, <<>>)
      BY <2>2 DEF Remote
    <3>2. r[i] = [id |-> [by |-> "agent", no |-> i], role |-> "user", status |-> "complete",
                  seq |-> i, parts |-> <<>>]
      BY <3>1 DEF Message
    <3> QED BY <3>2 DEF IsMessage
  <2>6. \A i \in 1..Past : i \in Nat /\ i <= Past
    BY ChatAssumption
  <2> QED BY <1>1, <2>1, <2>4, <2>5, <2>6 DEF Kept
<1>4. Shown(t, made, local)
  <2>1. Len(t) = 0 /\ t \in Seq({})
    BY <1>1
  <2>2. IsList(t)
    BY <2>1, ListsOf
  <2> QED BY <2>1, <2>2 DEF Shown
<1> DEFINE d == Request("init", 0, None)
<1>5. /\ d = [op |-> d.op, no |-> d.no, arg |-> d.arg, phase |-> d.phase, reply |-> d.reply]
      /\ d.op = "init" /\ d.arg = None /\ d.phase = "sent"
  BY RequestIsCall
<1> HIDE DEF d
<1>6. calls = {d}
  BY <1>1 DEF d
<1>7. IsCall(d, made, local)
  BY <1>5 DEF IsCall
<1>8. PromptInv(calls, t)
  BY <1>5, <1>6 DEF PromptInv
<1>9. CurInv(cur, t, local)
  BY <1>1 DEF CurInv
<1> QED BY <1>2, <1>3, <1>4, <1>6, <1>7, <1>8, <1>9 DEF StoreInv

LEMMA ChatNextStore == ChatInv /\ [ChatNext]_chatVars => ChatInv'
<1> SUFFICES ASSUME ChatInv, [ChatNext]_chatVars PROVE ChatInv'
  OBVIOUS
<1>1. CASE Break \/ Reconnect \/ UNCHANGED chatVars
  <2>1. UNCHANGED <<history, t, calls, cur, made, local, confused>>
    BY <1>1 DEF Break, Reconnect, chatVars, view, agent, ghosts
  <2> QED BY <2>1 DEF ChatInv
<1>2. ASSUME NEW c \in calls, Serve(c) \/ Reply(c) PROVE ChatInv'
  BY <1>2, ServeKeepsStore, ReplyKeepsStore
<1> QED BY <1>1, <1>2, EmitKeepsStore, ReceiveKeepsStore, UserKeepsStore DEF ChatNext

(* No two messages of a chat session have one id, however the replies, the
   stream and the user come in each other's way: unless a prompt was sent,
   reloaded over or taken back while it waited for its id. *)
THEOREM IdsStayUnique == ChatSpec => []IdsAreUnique
<1>1. ChatInv => IdsAreUnique
  BY DEF ChatInv, StoreInv, Shown, IdsAreUnique
<1> QED BY <1>1, ChatInitStore, ChatNextStore, PTL DEF ChatSpec
=============================================================================
