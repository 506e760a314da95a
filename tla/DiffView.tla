------------------------------ MODULE DiffView ------------------------------
(***************************************************************************)
(* A changed file from its two versions to the rows on the screen: the     *)
(* edit script, the hunks and the text of revision/diff_content.go, and    *)
(* the parser and the viewer of the web front end, which has the lines     *)
(* highlighted in the background and finds each row's line by counting.    *)
(*                                                                         *)
(* The front end gets its diffs from a service outside the repository: it  *)
(* is taken to write what RenderUnified writes, and a line that names the  *)
(* file before that.                                                       *)
(*                                                                         *)
(* A line of a file is a model value.  Sql and Inc are those that begin    *)
(* with "-- " and "++ ": with the mark of a removed or an added line in    *)
(* front of them they look like the header of a file.                      *)
(***************************************************************************)
EXTENDS Integers, Sequences, SequencesExt, FiniteSetsExt

CONSTANTS Sql, Inc,
          Context,   \* lines of context around a change (3)
          First,     \* the comparisons the viewer may open with: [old, new]
          Further,   \* those it may go on to
          MaxShown   \* bound on the comparisons shown

VARIABLES shown,     \* the comparison on the screen, or NoFiles
          rows,      \* what the viewer made of its text
          tokens,    \* the highlighted lines: [old, new]
          ready,     \* whether the rows are drawn, with these tokens
          loads,     \* highlighting under way: [rows, cancelled]
          count

vars == <<shown, rows, tokens, ready, loads, count>>

-----------------------------------------------------------------------------
(* lcsOps: the edit script, from the lengths of the common subsequences *)
Op(kind, old, new) == [kind |-> kind, old |-> old, new |-> new]

Lcs(old, new) ==
  LET dp[i \in 0..Len(old), j \in 0..Len(new)] ==
        IF i = 0 \/ j = 0 THEN 0
        ELSE IF old[i] = new[j] THEN dp[i - 1, j - 1] + 1
        ELSE Max({dp[i - 1, j], dp[i, j - 1]})
  IN  dp

(* An operation names the lines it consumes, 0 for none. *)
Ops(old, new) ==
  LET dp == Lcs(old, new)
      back[i \in 0..Len(old), j \in 0..Len(new)] ==
        CASE i > 0 /\ j > 0 /\ old[i] = new[j] -> Append(back[i - 1, j - 1], Op("keep", i, j))
          [] i > 0 /\ j > 0 /\ old[i] # new[j] ->
               IF dp[i - 1, j] >= dp[i, j - 1] THEN Append(back[i - 1, j], Op("del", i, 0))
               ELSE Append(back[i, j - 1], Op("add", 0, j))
          [] i > 0 /\ j = 0 -> Append(back[i - 1, 0], Op("del", i, 0))
          [] i = 0 /\ j > 0 -> Append(back[0, j - 1], Op("add", 0, j))
          [] OTHER -> <<>>
  IN  back[Len(old), Len(new)]

(* Where a hunk says it begins: a line that is kept sets both numbers, as long
   as there is none for the old file. *)
Starts(ops) ==
  LET Step(s, op) ==
        CASE op.kind = "keep" -> IF s.old < 0 THEN [old |-> op.old, new |-> op.new] ELSE s
          [] op.kind = "del" -> IF s.old < 0 THEN [s EXCEPT !.old = op.old] ELSE s
          [] op.kind = "add" -> IF s.new < 0 THEN [s EXCEPT !.new = op.new] ELSE s
      s == FoldLeft(Step, [old |-> -1, new |-> -1], ops)
  IN  [old |-> IF s.old < 0 THEN 1 ELSE s.old, new |-> IF s.new < 0 THEN 1 ELSE s.new]

(* buildHunks: changes no more than twice the context apart are one hunk. *)
Hunks(ops) ==
  LET changes == {i \in 1..Len(ops) : ops[i].kind # "keep"}
      near(i, j) == i < j /\ j - i <= 2 * Context
      firsts == SetToSortSeq({j \in changes : ~\E i \in changes : near(i, j)}, LAMBDA i, j : i < j)
      last(i) == Min({j \in changes : j >= i /\ ~\E k \in changes : near(j, k)})
      Hunk(i) == LET lines == SubSeq(ops, Max({i - Context, 1}), Min({last(i) + Context, Len(ops)}))
                 IN  [start |-> Starts(lines), ops |-> lines]
  IN  [n \in 1..Len(firsts) |-> Hunk(firsts[n])]

(* RenderUnified: the text, as its lines; a hunk begins with its numbers. *)
Rendered(files) ==
  LET Line(op) ==
        CASE op.kind = "keep" -> [mark |-> " ", line |-> files.old[op.old]]
          [] op.kind = "del" -> [mark |-> "-", line |-> files.old[op.old]]
          [] op.kind = "add" -> [mark |-> "+", line |-> files.new[op.new]]
      hunks == Hunks(Ops(files.old, files.new))
      Text(hunk) == <<[mark |-> "@@", start |-> hunk.start]>>
                      \o [i \in 1..Len(hunk.ops) |-> Line(hunk.ops[i])]
  IN  FlattenSeq([n \in 1..Len(hunks) |-> Text(hunks[n])])

-----------------------------------------------------------------------------
(* JM: the viewer's parser.  A row counts the rows of its hunk before it. *)
Header(l) == \/ l.mark = "-" /\ l.line \in Sql
             \/ l.mark = "+" /\ l.line \in Inc

NoFiles == [old |-> <<>>, new |-> <<>>]
End == "end"
Row(type, old, new, line) == [type |-> type, old |-> old, new |-> new, line |-> line]
NotOfType(s, type) == Len(SelectSeq(s, LAMBDA row : row.type # type))

Parse(text) ==
  LET Next1(hunk, l) ==
        LET old == hunk.start.old + NotOfType(hunk.rows, "added")
            new == hunk.start.new + NotOfType(hunk.rows, "removed")
        IN  [hunk EXCEPT !.rows = Append(@,
              CASE l.mark = "-" -> Row("removed", old, 0, l.line)
                [] l.mark = "+" -> Row("added", 0, new, l.line)
                [] OTHER -> Row("context", old, new, l.line))]
      Step(hunks, l) ==
        CASE l.mark = "@@" -> Append(hunks, [start |-> l.start, rows |-> <<>>])
          [] l.mark # "@@" /\ Header(l) -> hunks
          [] OTHER -> Front(hunks) \o <<Next1(Last(hunks), l)>>
      hunks == FoldLeft(Step, <<>>, IF text = <<>> THEN <<>> ELSE Append(text, [mark |-> "", line |-> End]))
  IN  FlattenSeq([n \in 1..Len(hunks) |-> hunks[n].rows])

(* The lines of a side of all the hunks, as they go to the highlighter. *)
Side(rs, without) ==
  LET side == SelectSeq(rs, LAMBDA row : row.type # without)
  IN  [i \in 1..Len(side) |-> side[i].line]
Highlighted(rs) == [old |-> Side(rs, "added"), new |-> Side(rs, "removed")]
NoTokens == [old |-> <<>>, new |-> <<>>]

-----------------------------------------------------------------------------
Init ==
  /\ shown = NoFiles /\ rows = <<>>
  /\ tokens = NoTokens /\ ready = FALSE
  /\ loads = <<>> /\ count = 0

(* The viewer gets another text.  What the effect does when the text changes:
   the highlighting under way is cancelled, and the next one begins. *)
Show(files) ==
  LET new == Parse(Rendered(files))
      cancelled == [i \in 1..Len(loads) |-> [loads[i] EXCEPT !.cancelled = TRUE]]
  IN  /\ count < MaxShown /\ count' = count + 1
      /\ files # shown
      /\ shown' = files /\ rows' = new
      /\ ready' = FALSE
      /\ tokens' = IF new = <<>> THEN NoTokens ELSE tokens
      /\ loads' = IF new = <<>> THEN cancelled
                  ELSE Append(cancelled, [rows |-> new, cancelled |-> FALSE, done |-> FALSE])

(* Faulty: what comes late is taken. *)
FaultyHighlight(i) ==
  /\ ~loads[i].done
  /\ loads' = [loads EXCEPT ![i].done = TRUE]
  /\ tokens' = Highlighted(loads[i].rows) /\ ready' = TRUE
  /\ UNCHANGED <<shown, rows, count>>

(* The highlighter is done with a text, of now or of before. *)
Highlight(i) ==
  /\ ~loads[i].done
  /\ loads' = [loads EXCEPT ![i].done = TRUE]
  /\ IF loads[i].cancelled THEN UNCHANGED <<tokens, ready>>
     ELSE tokens' = Highlighted(loads[i].rows) /\ ready' = TRUE
  /\ UNCHANGED <<shown, rows, count>>

Next ==
  \/ \E files \in IF count = 0 THEN First ELSE Further : Show(files)
  \/ \E i \in 1..Len(loads) : Highlight(i)

Spec == Init /\ [][Next]_vars

-----------------------------------------------------------------------------
(* What the viewer draws in a row: both halves count the rows before it. *)
Nothing == "nothing"
At(s, i) == IF i <= Len(s) THEN s[i] ELSE Nothing
Before(i, type) == NotOfType(SubSeq(rows, 1, i - 1), type) + 1
OldHalf(i) == IF rows[i].type = "added" THEN Nothing ELSE At(tokens.old, Before(i, "added"))
NewHalf(i) == IF rows[i].type = "removed" THEN Nothing ELSE At(tokens.new, Before(i, "removed"))

(* Above the first line that is kept there are only removed or only added lines:
   such a hunk says a wrong line of the new file. *)
OneSidedTop(files) ==
  LET ops == Ops(files.old, files.new)
      kept == {i \in 1..Len(ops) : ops[i].kind = "keep"}
      top == IF kept = {} THEN {} ELSE {ops[i].kind : i \in 1..(Min(kept) - 1)}
  IN  Cardinality(top) = 1

(* A removed or added line looks like a header: it is not shown, nor counted. *)
Mistaken(files) ==
  \E op \in ToSet(Ops(files.old, files.new)) :
    \/ op.kind = "del" /\ files.old[op.old] \in Sql
    \/ op.kind = "add" /\ files.new[op.new] \in Inc

(* The last newline of the text makes a row that is no line of a file. *)
Lines == {i \in 1..Len(rows) : rows[i].line # End}
Of(type) == {i \in Lines : rows[i].type = type}
Without(text, numbers) ==
  LET left == SetToSortSeq((1..Len(text)) \ numbers, LAMBDA i, j : i < j)
  IN  [i \in 1..Len(left) |-> text[left[i]]]

(* However fast the user goes from one comparison to another, a row that is
   drawn shows under its number the line that the file has there: of the old
   file on the left, of the new one on the right; and the old file without the
   removed lines is the new one without the added lines. *)
RowsAreLinesOfTheFiles ==
  ready /\ ~Mistaken(shown) =>
    /\ \A i \in Lines \ Of("added") : OldHalf(i) = At(shown.old, rows[i].old)
    /\ ~OneSidedTop(shown) =>
         /\ \A i \in Lines \ Of("removed") : NewHalf(i) = At(shown.new, rows[i].new)
         /\ Without(shown.old, {rows[i].old : i \in Of("removed")})
              = Without(shown.new, {rows[i].new : i \in Of("added")})
=============================================================================
