---------------------------- MODULE ChatSession ----------------------------
(***************************************************************************)
(* The store behind a chat session in the web front end (function Qy of    *)
(* the bundle): the messages of one session as the page shows them, fed by *)
(* paged loads, by the reply to a prompt and by the events of the stream.  *)
(* Deltas are collected and put into the message in the next frame.  Every *)
(* handler of an event, of a reply or of the user is one step; replies and *)
(* the stream overtake each other.                                         *)
(*                                                                         *)
(* The agent behind /api/v1/sessions is external: a prompt starts a turn,  *)
(* whose events go to an open stream in order and to nobody otherwise.  A  *)
(* piece of text is the number under which the agent said it.  Reasoning   *)
(* is text under another part id and is not told apart.                    *)
(***************************************************************************)
EXTENDS Listing, SequencesExt

CONSTANTS Turns,     \* what the agent may say in a turn: sequences of events
          Running,   \* what may be left of a turn when the page opens
          Past,      \* number of messages of the session when the page opens
          PageSize,  \* messages per load
          None,      \* no message, no argument, no reply
          MaxWire,   \* bound on the events under way
          MaxOps     \* bound on what the user does and on broken connections

(* A page has a size, and what stands for nothing is no message's id. *)
ASSUME ChatAssumption ==
  PageSize \in Nat /\ Past \in Nat /\ None \notin [by : {"page", "agent"}, no : Nat]

LocalSeq == 1000   \* what the page makes itself is shown behind what was loaded

VARIABLES t,        \* the messages of the store
          sending,  \* whether the agent is believed to work
          loading, hasMore,
          stream,   \* "closed", "open", or "broken" while the browser reconnects
          cur,      \* id of the message the stream writes to, or None
          buffer,   \* deltas that wait for the next frame: [part, piece]
          calls,    \* requests of the page, on their way to or from the agent
          local,    \* ids the page has made
          ops,
          history,  \* the agent's messages
          turn,     \* events the running turn has still to emit
          said,     \* pieces of the running turn
          made,     \* ids the agent has made
          wire,     \* events on their way to the page
          got,      \* pieces received since the messages were last rebuilt
          torn,     \* whether a message was begun while deltas waited for a frame
          missed,   \* whether the end of a turn was never sent to the page
          confused  \* whether a prompt met another one, a reload or an undo

view == <<t, sending, loading, hasMore, cur, buffer, local>>
agent == <<history, turn, said, made>>
net == <<stream, wire>>
ghosts == <<got, torn, confused>>
chatVars == <<view, calls, ops, agent, net, ghosts, missed>>

Message(id, role, status, seq, parts) ==
  [id |-> id, role |-> role, status |-> status, seq |-> seq, parts |-> parts]
Local(n, role, status) ==
  Message([by |-> "page", no |-> n], role, status, LocalSeq + n, <<>>)
Remote(n, role, parts) ==
  Message([by |-> "agent", no |-> n], role, "complete", n, parts)
Part(id, kind, text, state) == [id |-> id, kind |-> kind, text |-> text, state |-> state]

(* The messages as they are shown: by their number, in the order of the store
   where it is the same. *)
Displayed ==
  LET upto == [i \in 1..Len(t) |-> {j \in 1..Len(t) : \/ t[j].seq < t[i].seq
                                                     \/ (t[j].seq = t[i].seq /\ j <= i)}]
  IN  [n \in 1..Len(t) |-> t[Listed(upto)[n]]]
Has(ms, id) == \E i \in 1..Len(ms) : ms[i].id = id
Without(ms, status) == Picked(ms, {i \in 1..Len(ms) : ms[i].status # status})
With(ms, id, F(_)) == [i \in 1..Len(ms) |-> IF ms[i].id = id THEN F(ms[i]) ELSE ms[i]]

Request(op, no, arg) == [op |-> op, no |-> no, arg |-> arg, phase |-> "sent", reply |-> None]

ChatInit ==
  /\ t = <<>> /\ sending = FALSE /\ loading = TRUE /\ hasMore = FALSE
  /\ stream = "closed" /\ cur = None /\ buffer = <<>>
  /\ local = 0 /\ ops = 0
  /\ calls = {Request("init", 0, None)}
  /\ history = [i \in 1..Past |-> Remote(i, "user", <<>>)]
  /\ turn \in Running \cup {<<>>}
  /\ said = <<>> /\ made = Past /\ wire = <<>>
  /\ got = <<>> /\ torn = FALSE /\ missed = FALSE /\ confused = FALSE

-----------------------------------------------------------------------------
(* The agent and the stream *)
Working == turn # <<>>
Ends(e) == e.event \in {"turn-complete", "error"}

(* The next event of the turn.  Text is numbered as it is said; with the last
   event the turn becomes a message. *)
Emit ==
  /\ Working /\ Len(wire) < MaxWire /\ turn' = Tail(turn)
  /\ LET e == Head(turn)
         piece == IF e.event = "delta" THEN <<made + 1>> ELSE <<>>
     IN  /\ wire' = IF stream = "open" THEN Append(wire, [e EXCEPT !.piece = piece]) ELSE wire
         /\ made' = IF Ends(e) \/ piece # <<>> THEN made + 1 ELSE made
         /\ said' = IF Ends(e) THEN <<>> ELSE said \o piece
         /\ history' = IF Ends(e)
              THEN Append(history, Remote(made + 1, "assistant", <<Part("all", "text", said, "")>>))
              ELSE history
         /\ missed' = (missed \/ (Ends(e) /\ stream # "open"))
  /\ UNCHANGED <<view, calls, ops, stream, ghosts>>

(* The connection breaks, with what is on it; the browser makes a new one. *)
Break ==
  /\ stream = "open" /\ ops < MaxOps /\ ops' = ops + 1
  /\ stream' = "broken" /\ wire' = <<>>
  /\ missed' = (missed \/ \E i \in 1..Len(wire) : Ends(wire[i]))
  /\ UNCHANGED <<view, calls, agent, ghosts>>

Reconnect ==
  /\ stream = "broken" /\ stream' = "open"
  /\ UNCHANGED <<view, calls, ops, agent, wire, ghosts, missed>>

Answer(c, phase, reply) ==
  calls' = (calls \ {c}) \cup {[c EXCEPT !.phase = phase, !.reply = reply]}

(* The last messages older than the one named, all of them if none is. *)
Page(before) ==
  LET older == Picked(history, {k \in 1..Len(history) : \/ before = None
                 \/ \E i \in 1..Len(history) : history[i].id = before /\ history[k].seq < history[i].seq})
      n == Len(older)
  IN  SubSeq(older, (IF n > PageSize THEN n - PageSize ELSE 0) + 1, n)

(* A request arrives at the agent and is answered, or fails. *)
Serve(c) ==
  /\ c \in calls /\ c.phase = "sent"
  /\ \/ /\ c.op \in {"init", "more", "reload"}
        /\ Answer(c, "ok", Page(c.arg))
        /\ UNCHANGED agent
     \/ /\ c.op = "state" /\ Answer(c, "ok", IF Working THEN "busy" ELSE "idle")
        /\ UNCHANGED agent
     \/ /\ c.op = "prompt" /\ ~Working
        /\ made' = made + 1 /\ turn' \in Turns
        /\ LET m == Remote(made + 1, "user", <<>>)
           IN  history' = Append(history, m) /\ Answer(c, "ok", m.id)
        /\ UNCHANGED said
     \/ /\ c.op \in {"abort", "interrupt"}
        /\ turn' = IF Working THEN <<[event |-> "turn-complete", part |-> "", piece |-> <<>>]>> ELSE <<>>
        /\ Answer(c, "ok", None)
        /\ UNCHANGED <<history, said, made>>
     \/ /\ c.op = "undo"
        /\ history' = Picked(history, {k \in 1..Len(history) : \A i \in 1..Len(history) :
                                  history[i].id = c.arg.id => history[k].seq < history[i].seq})
        /\ Answer(c, "ok", None)
        /\ UNCHANGED <<turn, said, made>>
     \/ Answer(c, "failed", None) /\ UNCHANGED agent
  /\ UNCHANGED <<view, ops, net, ghosts, missed>>

-----------------------------------------------------------------------------
(* The events of the stream *)
AddPiece(parts, d) ==
  IF \E k \in 1..Len(parts) : parts[k].id = d.part
  THEN [k \in 1..Len(parts) |-> IF parts[k].id = d.part THEN [parts[k] EXCEPT !.text = Append(@, d.piece)]
                                ELSE parts[k]]
  ELSE Append(parts, Part(d.part, "text", <<d.piece>>, ""))

(* h: the waiting deltas go into the current message, if there is one. *)
AllAdded(parts) == FoldLeft(AddPiece, parts, buffer)
Flushed(ms) == With(ms, cur, LAMBDA m : [m EXCEPT !.parts = AllAdded(@)])

Frame ==
  /\ buffer # <<>> /\ buffer' = <<>>
  /\ t' = Flushed(t)
  /\ UNCHANGED <<sending, loading, hasMore, cur, local, calls, ops, agent, net, ghosts, missed>>

(* _: the message the stream writes to; a new one if there is none, or if one
   is asked for.  Then Change is done to it. *)
Ensure(anew, Change(_)) ==
  IF ~anew /\ Has(t, cur)
  THEN t' = With(t, cur, Change) /\ UNCHANGED <<cur, local, torn>>
  ELSE LET m == Local(local + 1, "assistant", "streaming")
       IN  /\ t' = Append(t, Change(m)) /\ cur' = m.id /\ local' = local + 1
           /\ torn' = (torn \/ buffer # <<>>)

AddPart(m, part) ==
  IF \E k \in 1..Len(m.parts) : m.parts[k].id = part.id THEN m
  ELSE [m EXCEPT !.parts = Append(@, part)]

(* y: a part of that name that is there already becomes the tool's. *)
AddTool(m, id) ==
  [m EXCEPT !.parts =
     IF \E k \in 1..Len(@) : @[k].id = id
     THEN [k \in 1..Len(@) |-> IF @[k].id = id THEN [@[k] EXCEPT !.kind = "tool", !.state = "running"] ELSE @[k]]
     ELSE Append(@, Part(id, "tool", <<>>, "running"))]

HasTool == \E i \in 1..Len(t) : t[i].id = cur /\ \E k \in 1..Len(t[i].parts) : t[i].parts[k].kind = "tool"

StepStart(e) ==
  /\ e.event = "step-start"
  /\ Ensure(TRUE, LAMBDA m : m)
  /\ UNCHANGED <<sending, buffer, got, confused>>

TextStart(e) ==
  /\ e.event = "text-start"
  /\ Ensure(HasTool, LAMBDA m : AddPart(m, Part(e.part, "text", <<>>, "")))
  /\ UNCHANGED <<sending, buffer, got, confused>>

TextDelta(e) ==
  /\ e.event = "delta"
  /\ Ensure(FALSE, LAMBDA m : m)
  /\ buffer' = Append(buffer, [part |-> e.part, piece |-> e.piece[1]])
  /\ got' = got \o e.piece
  /\ UNCHANGED <<sending, confused>>

ToolCall(e) ==
  /\ e.event = "tool-call"
  /\ Ensure(FALSE, LAMBDA m : AddTool(m, e.part))
  /\ UNCHANGED <<sending, buffer, got, confused>>

(* b: a result is looked for in the current message only; the part is a tool's then. *)
ToolResult(e) ==
  /\ e.event = "tool-result"
  /\ t' = With(t, cur, LAMBDA m : [m EXCEPT !.parts = [k \in 1..Len(@) |->
             IF @[k].id = e.part THEN [@[k] EXCEPT !.kind = "tool", !.state = "complete"] ELSE @[k]]])
  /\ UNCHANGED <<sending, cur, local, buffer, ghosts>>

(* Faulty: nothing is flushed before the message is closed. *)
FaultyFinish ==
  /\ t' = With(t, cur, LAMBDA m : [m EXCEPT !.status = "complete"])
  /\ buffer' = buffer /\ cur' = None /\ sending' = FALSE

(* Faulty: without a current message there is nothing to finish. *)
FaultyEarlyFinish ==
  /\ t' = With(Flushed(t), cur, LAMBDA m : [m EXCEPT !.status = "complete"])
  /\ buffer' = <<>> /\ cur' = None /\ sending' = (sending /\ cur = None)

(* x: what waits is put in place and the current message is complete.  The
   messages of earlier steps are left as they are. *)
Finish ==
  /\ t' = With(Flushed(t), cur, LAMBDA m : [m EXCEPT !.status = "complete"])
  /\ buffer' = <<>> /\ cur' = None /\ sending' = FALSE

(* S: an error message takes the place of everything that is streaming.  The
   frame is not cancelled: what waits is shown if a message comes before it. *)
Fail ==
  /\ t' = Append(Without(t, "streaming"), Local(local + 1, "error", "error"))
  /\ local' = local + 1 /\ cur' = None /\ sending' = FALSE
  /\ got' = <<>>

TurnComplete(e) ==
  /\ e.event = "turn-complete" /\ Finish
  /\ UNCHANGED <<local, ghosts>>

Status(e) ==
  /\ e.event = "busy" /\ sending' = TRUE
  /\ UNCHANGED <<t, cur, local, buffer, ghosts>>

Error(e) ==
  /\ e.event = "error" /\ Fail
  /\ UNCHANGED <<buffer, torn, confused>>

Receive ==
  /\ wire # <<>> /\ wire' = Tail(wire)
  /\ LET e == Head(wire)
     IN  \/ StepStart(e) \/ TextStart(e) \/ TextDelta(e) \/ ToolCall(e) \/ ToolResult(e)
         \/ TurnComplete(e) \/ Status(e) \/ Error(e)
  /\ UNCHANGED <<loading, hasMore, calls, ops, agent, stream, missed>>

-----------------------------------------------------------------------------
(* The replies *)
Replied(c) == c \in calls /\ c.phase # "sent"
Streaming(n) == Local(n, "assistant", "streaming")
AllLoaded(c) == c.phase = "ok" => Len(c.reply) < PageSize

(* w, first page: what is pending stays, the rest is what was loaded. *)
Rebuild(c) ==
  /\ loading' = FALSE
  /\ IF c.phase = "failed" THEN UNCHANGED <<t, hasMore, got, confused>>
     ELSE /\ t' = Picked(t, {i \in 1..Len(t) : t[i].status = "pending"}) \o c.reply
          /\ hasMore' = ~AllLoaded(c)
          /\ got' = <<>>
          /\ confused' = (confused \/ \E i \in 1..Len(t) : t[i].status = "pending")

(* init: the first page, then the state of the session, then the stream. *)
HandleInit(c) ==
  /\ Replied(c) /\ c.op = "init" /\ Rebuild(c)
  /\ calls' = (calls \ {c}) \cup {Request("state", c.no, None)}
  /\ UNCHANGED <<sending, cur, buffer, local, ops, agent, net, torn, missed>>

HandleState(c) ==
  /\ Replied(c) /\ c.op = "state" /\ calls' = calls \ {c}
  /\ IF c.reply = "busy"
     THEN /\ sending' = TRUE /\ local' = local + 1
          /\ t' = Append(t, Streaming(local + 1)) /\ cur' = Streaming(local + 1).id
     ELSE UNCHANGED <<sending, local, t, cur>>
  /\ stream' = "open"
  /\ UNCHANGED <<loading, hasMore, buffer, ops, agent, wire, ghosts, missed>>

HandleReload(c) ==
  /\ Replied(c) /\ c.op = "reload" /\ calls' = calls \ {c} /\ Rebuild(c)
  /\ UNCHANGED <<sending, cur, buffer, local, ops, agent, net, torn, missed>>

(* Faulty: what is already there is not taken out of the page. *)
FaultyHandleMore(c) ==
  /\ Replied(c) /\ c.op = "more" /\ calls' = calls \ {c} /\ loading' = FALSE
  /\ IF c.phase = "failed" THEN UNCHANGED <<t, hasMore>>
     ELSE t' = c.reply \o t /\ hasMore' = ~AllLoaded(c)
  /\ UNCHANGED <<sending, cur, buffer, local, ops, agent, net, ghosts, missed>>

(* w, an earlier page: before the rest, without what is already there. *)
HandleMore(c) ==
  /\ Replied(c) /\ c.op = "more" /\ calls' = calls \ {c} /\ loading' = FALSE
  /\ IF c.phase = "failed" THEN UNCHANGED <<t, hasMore>>
     ELSE /\ t' = Picked(c.reply, {i \in 1..Len(c.reply) : ~Has(t, c.reply[i].id)}) \o t
          /\ hasMore' = ~AllLoaded(c)
  /\ UNCHANGED <<sending, cur, buffer, local, ops, agent, net, ghosts, missed>>

(* The prompt has its id: every pending message of the user gets it. *)
HandlePrompt(c) ==
  /\ Replied(c) /\ c.op = "prompt" /\ calls' = calls \ {c}
  /\ IF c.phase = "failed" THEN Fail /\ UNCHANGED <<torn, confused>>
     ELSE /\ t' = [i \in 1..Len(t) |-> IF t[i].status = "pending"
                                      THEN [t[i] EXCEPT !.id = c.reply, !.status = "complete"] ELSE t[i]]
          /\ UNCHANGED <<sending, cur, local, ghosts>>
  /\ UNCHANGED <<loading, hasMore, buffer, ops, agent, net, missed>>

HandleAbort(c) ==
  /\ Replied(c) /\ c.op = "abort" /\ calls' = calls \ {c} /\ Finish
  /\ UNCHANGED <<loading, hasMore, local, ops, agent, net, ghosts, missed>>

HandleInterrupt(c) ==
  /\ Replied(c) /\ c.op = "interrupt"
  /\ calls' = (calls \ {c}) \cup {Request("undo", c.no, c.arg)}
  /\ UNCHANGED <<view, ops, agent, net, ghosts, missed>>

(* The undo is done, or failed: back to what was shown before the message when
   the user asked, and a reload that nobody waits for. *)
HandleUndo(c) ==
  /\ Replied(c) /\ c.op = "undo"
  /\ calls' = (calls \ {c}) \cup {Request("reload", c.no, None)}
  /\ LET shown == c.arg.shown
         before == {i \in 1..Len(shown) : \A j \in 1..i : shown[j].id # c.arg.id}
     IN  t' = [i \in 1..Cardinality(before) |-> IF shown[i].status = "streaming"
                                THEN [shown[i] EXCEPT !.status = "complete"] ELSE shown[i]]
  /\ cur' = None /\ sending' = FALSE /\ loading' = TRUE /\ got' = <<>>
  /\ confused' = (confused \/ \E d \in calls : d.op = "prompt")
  /\ UNCHANGED <<hasMore, buffer, local, ops, agent, net, torn, missed>>

Reply(c) ==
  \/ HandleInit(c) \/ HandleState(c) \/ HandleReload(c) \/ HandleMore(c)
  \/ HandlePrompt(c) \/ HandleAbort(c) \/ HandleInterrupt(c) \/ HandleUndo(c)

-----------------------------------------------------------------------------
(* The user, once the store is shown *)
Asks == stream # "closed" /\ ops < MaxOps /\ ops' = ops + 1

Send ==
  /\ Asks /\ ~sending
  /\ t' = Without(t, "streaming") \o <<Local(local + 1, "user", "pending"), Streaming(local + 2)>>
  /\ cur' = Streaming(local + 2).id /\ local' = local + 2 /\ sending' = TRUE
  /\ calls' = calls \cup {Request("prompt", ops', None)}
  /\ got' = <<>>
  /\ confused' = (confused \/ \E i \in 1..Len(t) : t[i].status = "pending")
  /\ UNCHANGED <<loading, hasMore, buffer, agent, net, torn, missed>>

LoadMore ==
  /\ Asks /\ hasMore /\ ~loading /\ loading' = TRUE
  /\ LET shown == Displayed
     IN  \E n \in 1..Len(shown) :
           /\ shown[n].status = "complete"
           /\ \A k \in 1..Len(shown) : shown[k].status = "complete" => n <= k
           /\ calls' = calls \cup {Request("more", ops', shown[n].id)}
  /\ UNCHANGED <<t, sending, hasMore, cur, buffer, local, agent, net, ghosts, missed>>

Abort ==
  /\ Asks /\ sending
  /\ calls' = calls \cup {Request("abort", ops', None)}
  /\ UNCHANGED <<view, agent, net, ghosts, missed>>

Revert(id) ==
  /\ Asks
  /\ calls' = calls \cup {Request(IF sending THEN "interrupt" ELSE "undo", ops',
                                 [id |-> id, shown |-> Displayed])}
  /\ UNCHANGED <<view, agent, net, ghosts, missed>>

User == Send \/ LoadMore \/ Abort \/ \E i \in 1..Len(t) : t[i].role = "user" /\ Revert(t[i].id)

-----------------------------------------------------------------------------
ChatNext ==
  \/ Emit \/ Break \/ Reconnect
  \/ \E c \in calls : Serve(c) \/ Reply(c)
  \/ Receive \/ Frame
  \/ User

(* Requests are answered, events delivered and frames drawn; a connection may
   hold and the user may do nothing. *)
ChatFairness ==
  /\ WF_chatVars(Emit) /\ WF_chatVars(Reconnect) /\ WF_chatVars(Receive) /\ WF_chatVars(Frame)
  /\ WF_chatVars(\E c \in calls : Serve(c) \/ Reply(c))

ChatSpec == ChatInit /\ [][ChatNext]_chatVars /\ ChatFairness

-----------------------------------------------------------------------------
Pieces(m) == FoldLeft(LAMBDA acc, part : acc \o part.text, <<>>, m.parts)
Streamed == FoldLeft(LAMBDA acc, m : IF m.id.by = "page" THEN acc \o Pieces(m) ELSE acc, <<>>, Displayed)
Waiting == [i \in 1..Len(buffer) |-> buffer[i].piece]

(* What the agent was heard to say since the messages were last rebuilt (by a
   prompt, an error, a revert or a reload) is on the page or waits for the next
   frame, each piece once; and in the order in which it was said, unless a
   message was begun while earlier pieces waited. *)
ChunksAreKept ==
  LET kept == SelectSeq(Streamed \o Waiting, LAMBDA n : \E i \in 1..Len(got) : got[i] = n)
  IN  IF torn THEN SortSeq(kept, <) = got ELSE kept = got

(* No two messages have one id, which the page's keyed list relies on: unless
   a prompt was sent while an earlier one was pending, or the messages were
   reloaded or taken back under it. *)
IdsAreUnique ==
  ~confused => \A i, j \in 1..Len(t) : t[i].id = t[j].id => i = j

(* A page that believes the agent works hears of the end of the turn, unless
   that was said before the stream was opened or while it was broken. *)
TurnsAreSeenToEnd == (sending /\ ~missed) ~> (~sending \/ missed)
=============================================================================
