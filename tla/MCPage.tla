------------------------------- MODULE MCPage -------------------------------
(* Model-checking instance of what the browser runs of the web front end, apart
   from the streams (MCChat): the service worker, the page of a chat, the text
   of its messages, the replies of the server and the view of a change.  Each
   has its own state and no step of one changes another's: a behaviour is one of
   one part, and the others stay as they begin. *)
EXTENDS ServiceWorker, ChatPage, TLC

VARIABLES part, source,
  engine, reply, outcome,
  diff, rows, tokens, ready, loads, count

replyVars == <<engine, reply, outcome>>
diffVars == <<diff, rows, tokens, ready, loads, count>>
vars == <<part, workerVars, pageVars, source, replyVars, diffVars>>

(* Three releases; the last one renames the cache. *)
Releases == <<"s1", "s2", "s3">>
TwoNames == [s \in {"s1", "s2", "s3"} |-> IF s = "s3" THEN "v2" ELSE "v1"]

(* The sessions are interchangeable, in the page of a chat and nowhere else. *)
SessionSymmetry == Permutations(Sessions)

(* Lines that nest, and the others. *)
Nesting == {<<>>, <<"text">>, <<"tab", "text">>, <<"underline">>, <<"gt", "text">>,
            <<"gt", "gt", "text">>, <<"gt", "dash", "text">>, <<"dash", "text">>, <<"dash", "gt", "text">>}
Lines == Nesting \cup {<<"hash">>, <<"tab", "tab", "text">>, <<"rule">>, <<"fence">>, <<"tag">>, <<"label">>,
                       <<"delimiter">>, <<"gt", "fence">>, <<"dash", "fence">>}
Text == INSTANCE Markdown WITH Forms <- Lines, Core <- Nesting, MaxLines <- 3

(* Two fields, the first of any type in up to two wrappers; and every combination
   of values for them, with a field more or less. *)
Plain == [wraps |-> <<>>, base |-> "text"]
Wraps == {<<>>} \cup {<<w>> : w \in {"optional", "nullable", "default"}}
           \cup {<<w, x>> : w, x \in {"optional", "nullable", "default"}}
Types == {[wraps |-> w, base |-> b] : w \in Wraps, b \in {"text", "unknown"}}
           \cup {[wraps |-> w, base |-> "object", open |-> FALSE,
                   fields |-> <<[key |-> "name", type |-> t]>>] :
                    w \in Wraps, t \in {Plain, [Plain EXCEPT !.wraps = <<"optional", "nullable">>]}}
Second(open) == [Plain EXCEPT !.wraps = IF open THEN <<"optional">> ELSE <<>>]
PageSchemas == {[fields |-> <<[key |-> "a", type |-> t], [key |-> "b", type |-> Second(o)]>>, open |-> o] :
                  t \in Types, o \in BOOLEAN}
Is(what) == [is |-> what]
Object(of) == [is |-> "object", of |-> of]
Values == {Is("null"), Is("text"), Is("number"), Object([k \in {} |-> Is("null")])}
            \cup {Object([name |-> v]) : v \in {Is("null"), Is("text")}}
PageBodies ==
  {Object([k \in ks |-> IF k = "a" THEN v ELSE IF k = "b" THEN w ELSE Is("text")]) :
     ks \in SUBSET {"a", "b", "c"}, v \in Values, w \in {Is("text"), Is("null")}}
Reply == INSTANCE ReplySchema WITH Schemas <- PageSchemas, Bodies <- PageBodies

(* Small files, among them the ones with lines that look like headers, and a
   longer one with room for two hunks. *)
Files(lines, n) == UNION {[1..k -> lines] : k \in 0..n}
Pairs(olds, news) == {[old |-> o, new |-> n] : o \in olds, n \in news}
Openings == Pairs(Files({"a", "b"}, 4), Files({"a", "b"}, 4))
              \cup Pairs(Files({"a", "--", "++"}, 2), Files({"a", "--", "++"}, 2))
              \cup Pairs({<<"a", "b", "a", "a", "b", "a">>}, Files({"a", "b"}, 6))
Others == Pairs({<<>>, <<"a">>, <<"b">>}, {<<"a">>, <<"b", "a">>})
View == INSTANCE DiffView WITH
  Sql <- {"--"}, Inc <- {"++"}, Context <- 1, First <- Openings, Further <- Others, MaxShown <- 2,
  shown <- diff

Init ==
  /\ part \in {"worker", "page", "text", "reply", "diff"}
  /\ WorkerInit /\ PageInit /\ Text!Init /\ Reply!Init /\ View!Init
  /\ part # "reply" => engine = "compiled"

WorkerStep == part = "worker" /\ WorkerNext /\ UNCHANGED <<part, pageVars, source, replyVars, diffVars>>
PageStep == part = "page" /\ PageNext /\ UNCHANGED <<part, workerVars, source, replyVars, diffVars>>
TextStep == part = "text" /\ Text!Next /\ UNCHANGED <<part, workerVars, pageVars, replyVars, diffVars>>
ReplyStep == part = "reply" /\ Reply!Next /\ UNCHANGED <<part, workerVars, pageVars, source, diffVars>>
DiffStep == part = "diff" /\ View!Next /\ UNCHANGED <<part, workerVars, pageVars, source, replyVars>>

Next == WorkerStep \/ PageStep \/ TextStep \/ ReplyStep \/ DiffStep

Spec == Init /\ [][Next]_vars

-----------------------------------------------------------------------------
(* The properties of the modules, explained where they are defined. *)
TextIsShown == Text!TextIsShown
EarlierBlocksStay == Text!EarlierBlocksStay
RepliesAreChecked == Reply!RepliesAreChecked
RowsAreLinesOfTheFiles == View!RowsAreLinesOfTheFiles
=============================================================================
