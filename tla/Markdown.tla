------------------------------ MODULE Markdown ------------------------------
(***************************************************************************)
(* How the web front end shows the text of a message: the block lexer and  *)
(* the renderer of marked, which the bundle contains, and the component    *)
(* that calls them on the whole text whenever a piece has arrived.         *)
(*                                                                         *)
(* A line is its atoms and its place in the text: "tab" is two spaces,     *)
(* "gt" and "dash" the marks of a quote and of an item, and the last atom  *)
(* stands for plain text or for how another line begins.  A string is the  *)
(* sequence of its lines, as split at the newlines: a blank line at the    *)
(* end is a newline, and so is one at the beginning.                       *)
(*                                                                         *)
(* Left out: what is inside a line (emphasis, links, entities), numbered   *)
(* and task lists, columns, loose lists (a matter of layout), items whose  *)
(* text is indented, and a piece that ends within a line.  A label is      *)
(* defined once.                                                           *)
(***************************************************************************)
EXTENDS Naturals, Sequences, SequencesExt

CONSTANTS Forms,     \* the lines that may arrive, as atoms
          Core,      \* those of which a text may have one more
          MaxLines   \* bound on the lines of a text

VARIABLES source     \* the text that has arrived

Line(atoms, no) == [atoms |-> atoms, no |-> no]
NoLine == Line(<<>>, 0)
Blank(l) == l.atoms = <<>>

(* How many lines from the first on have P, by their number. *)
Lead(s, P(_)) ==
  IF \A i \in 1..Len(s) : P(i) THEN Len(s)
  ELSE (CHOOSE i \in 1..Len(s) : ~P(i) /\ \A j \in 1..(i - 1) : P(j)) - 1
From(s, i) == SubSeq(s, i, Len(s))
Last0(s, P(_)) == Len(s) - Lead(Reverse(s), LAMBDA i : ~P(Reverse(s)[i]))

Spaces(l) == Lead(l.atoms, LAMBDA i : l.atoms[i] = "tab")
Indent(l) == 2 * Spaces(l)
Outdent(l, d) == IF Indent(l) >= d THEN [l EXCEPT !.atoms = From(@, d \div 2 + 1)] ELSE l
Mark(l) == IF Spaces(l) = Len(l.atoms) THEN "" ELSE l.atoms[Spaces(l) + 1]

(* A line that begins with one of the marks after at most n spaces. *)
Begins(l, marks, n) == Mark(l) \in marks /\ Indent(l) <= n
Inside(l) == [l EXCEPT !.atoms = From(@, Spaces(l) + 2)]

Token(type, raw, text, kids) == [type |-> type, raw |-> raw, text |-> text, kids |-> kids]

(* e.substring(raw.length): raw is a beginning of e, with a newline more where
   a list in a quote was lexed again, which costs the newline that follows. *)
Rest(e, raw) ==
  LET Solid(l) == ~Blank(l)
      solid(s) == Len(SelectSeq(s, Solid))
      last == CHOOSE k \in 0..Len(e) : solid(SubSeq(e, 1, k)) = solid(raw) /\ (k > 0 => Solid(e[k]))
      newlines == Len(raw) - last
  IN  IF newlines = 0 THEN <<NoLine>> \o From(e, last + 1)
      ELSE IF last + newlines > Len(e) THEN <<NoLine>>
      ELSE From(e, last + newlines)

(* MM: more than one newline at the end is not part of a block. *)
Trimmed(s) ==
  LET n == Last0(s, LAMBDA l : ~Blank(l))
  IN  IF Len(s) - n <= 1 THEN s ELSE SubSeq(s, 1, n)

(* What a match that runs to the next line takes with it: that newline. *)
Through(e, n) == SubSeq(e, 1, n) \o (IF n < Len(e) THEN <<NoLine>> ELSE <<>>)

-----------------------------------------------------------------------------
(* The blocks without blocks inside, in the order in which they are tried *)
Space(e) ==
  LET n == Lead(e, LAMBDA i : Blank(e[i]))
  IN  IF n = 0 THEN {} ELSE {Token("space", Through(e, n), <<>>, <<>>)}

Code(e) ==
  LET raw == Trimmed(Through(e, Lead(e, LAMBDA i : Blank(e[i]) \/ Indent(e[i]) >= 4)))
  IN  IF Indent(e[1]) < 4 THEN {} ELSE {Token("code", raw, raw, <<>>)}

(* Faulty: a fence that is not closed is no fence. *)
FaultyFences(e) ==
  LET n == 1 + Lead(Tail(e), LAMBDA i : ~Begins(e[i + 1], {"fence"}, 3))
  IN  IF ~Begins(e[1], {"fence"}, 3) \/ n = Len(e) THEN {}
      ELSE {Token("code", SubSeq(e, 1, n + 1), SubSeq(e, 2, n), <<>>)}

(* Up to the fence that closes it, or to the end. *)
Fences(e) ==
  LET n == 1 + Lead(Tail(e), LAMBDA i : ~Begins(e[i + 1], {"fence"}, 3))
      raw == IF n < Len(e) THEN SubSeq(e, 1, n + 1) ELSE e
  IN  IF ~Begins(e[1], {"fence"}, 3) THEN {} ELSE {Token("code", raw, SubSeq(e, 2, n), <<>>)}

OneLine(type, mark, e) == IF Begins(e[1], {mark}, 3) THEN {Token(type, <<e[1]>>, <<e[1]>>, <<>>)} ELSE {}

(* Up to a blank line. *)
Html(e) ==
  LET n == Lead(e, LAMBDA i : ~Blank(e[i]))
      blanks == Lead(From(e, n + 1), LAMBDA i : Blank(e[n + i]))
      raw == Trimmed(Through(e, n + blanks))
  IN  IF Begins(e[1], {"tag"}, 3) THEN {Token("html", raw, raw, <<>>)} ELSE {}

Begun(l, marks) == Begins(l, marks, 3) \/ Begins(l, {"tag"}, 0)
Delimiter(l) == Begins(l, {"delimiter"}, 3)
Underline(l) == Begins(l, {"underline"}, 3)

Table(e) ==
  LET rows == Lead(From(e, 3), LAMBDA i : LET l == e[i + 2]
                IN  ~Blank(l) /\ Indent(l) < 4 /\ ~Begun(l, {"rule", "hash", "gt", "fence", "dash"}))
  IN  IF Len(e) >= 2 /\ Delimiter(e[2])
      THEN {Token("table", SubSeq(e, 1, 2 + rows), <<e[1]>> \o SubSeq(e, 3, 2 + rows), <<>>)}
      ELSE {}

Heading2(e) ==
  LET n == Lead(e, LAMBDA i : /\ ~Blank(e[i]) /\ (i = 1 \/ ~Underline(e[i])) /\ Indent(e[i]) < 4
                              /\ ~Begins(e[i], {"dash", "fence", "gt", "hash", "tag", "delimiter"}, 3))
  IN  IF n >= 1 /\ n < Len(e) /\ Underline(e[n + 1])
      THEN {Token("heading", SubSeq(e, 1, n + 1), SubSeq(e, 1, n), <<>>)}
      ELSE {}

Paragraph(e) ==
  LET n == 1 + Lead(Tail(e), LAMBDA i : LET l == e[i + 1]
                 IN  /\ ~Blank(l) /\ ~Begun(l, {"rule", "hash", "gt", "fence", "dash"})
                     /\ ~(i + 2 <= Len(e) /\ Delimiter(e[i + 2])))
      raw == SubSeq(e, 1, n)
  IN  {Token("paragraph", raw, raw, <<>>)}

Text(e) == {Token("text", <<e[1]>>, <<e[1]>>, <<>>)}

-----------------------------------------------------------------------------
(* Lists *)
(* Whether line i belongs to the item that e begins with, line i - 1 does. *)
InItem(e, i) ==
  LET d == Indent(e[1]) + 2
      lim == IF d > 4 THEN 3 ELSE d - 1
      before == IF i = 2 THEN Inside(e[1]) ELSE Outdent(e[i - 1], d)
      Opens(l) == Begins(l, {"fence", "hash", "rule"}, lim)
  IN  /\ ~Begins(e[i], {"fence", "hash", "tag", "gt", "dash", "rule"}, lim)
      /\ \/ Blank(e[i]) \/ Indent(e[i]) >= d
         \/ ~(Blank(e[i - 1]) \/ Indent(before) >= 4 \/ Opens(before))

RECURSIVE Items(_)
Items(e) ==
  IF e = <<>> \/ ~Begins(e[1], {"dash"}, 3) THEN <<>>
  ELSE LET n == 1 + Lead(Tail(e), LAMBDA i : InItem(e, i + 1))
           text == <<Inside(e[1])>> \o [i \in 1..(n - 1) |-> Outdent(e[i + 1], Indent(e[1]) + 2)]
       IN  <<[raw |-> SubSeq(e, 1, n), text |-> text]>> \o Items(From(e, n + 1))

WithoutEnd(s) == SubSeq(s, 1, Last0(s, LAMBDA l : ~Blank(l)))

(* Lines of a paragraph go on after a quote without its mark. *)
Lazy(l) == ~Blank(l) /\ ~Begun(l, {"rule", "hash", "gt", "fence", "dash"})
Quoted(l) == Begins(l, {"gt"}, 3)
Unquoted(l) == IF Quoted(l) THEN Inside(l) ELSE l
(* What would underline a heading does not, without the mark. *)
Shifted(s) == [i \in 1..Len(s) |->
  IF i > 1 /\ Underline(s[i]) THEN [s[i] EXCEPT !.atoms = <<"tab", "tab", "underline">>] ELSE Unquoted(s[i])]

-----------------------------------------------------------------------------
(* blockTokens, with the tokens so far; top: whether paragraphs are looked for;
   clipped: whether the first paragraph goes on with the last one. *)
RECURSIVE Blocks(_, _, _, _), Onto(_, _, _, _, _), QuoteFrom(_, _, _), QuoteOn(_, _, _)

ListOf(items) ==
  LET raw == FoldLeft(LAMBDA acc, item : acc \o item.raw, <<>>, items)
      Item(i) == IF i = Len(items) THEN WithoutEnd(items[i].text) ELSE items[i].text
  IN  Token("list", WithoutEnd(raw), <<>>,
            [i \in 1..Len(items) |-> Token("item", items[i].raw, <<>>, Blocks(Item(i), <<>>, FALSE, FALSE))])
ListToken(e) == ListOf(Items(e))

QuoteToken(e) == QuoteFrom(SubSeq(e, 1, Lead(e, LAMBDA i : i = 1 \/ Quoted(e[i]) \/ Lazy(e[i]))), <<>>, <<>>)

(* The lines up to the last of the next quoted ones are lexed together; *)
QuoteFrom(e, raw, toks) ==
  LET plain == Lead(e, LAMBDA i : ~Quoted(e[i]))
      n == plain + Lead(From(e, plain + 1), LAMBDA i : Quoted(e[plain + i]))
  IN  QuoteOn(Blocks(Shifted(SubSeq(e, 1, n)), toks, TRUE, TRUE), raw \o SubSeq(e, 1, n), From(e, n + 1))

(* what follows them goes on with the quote or list they end with. *)
QuoteOn(inner, raw, rest) ==
  LET last == Last(inner)
      lines == last.raw \o rest
      InList(more) == QuoteFrom(Rest(lines, more.raw), raw \o From(more.raw, Len(last.raw) + 1),
                                Front(inner) \o <<more>>)
  IN  CASE rest = <<>> \/ last.type = "code" -> Token("blockquote", raw, <<>>, inner)
        [] rest # <<>> /\ last.type = "blockquote" ->
             Token("blockquote", raw \o rest, <<>>,
                   Append(Front(inner), QuoteToken(last.raw \o [i \in 1..Len(rest) |-> Unquoted(rest[i])])))
        [] rest # <<>> /\ last.type = "list" -> InList(ListToken(lines))
        [] OTHER -> QuoteFrom(rest, raw, inner)

Quote(e) == IF Quoted(e[1]) THEN {QuoteToken(e)} ELSE {}
List(e) == IF Begins(e[1], {"dash"}, 3) THEN {ListToken(e)} ELSE {}

(* The first of the tokenizers that takes something. *)
FirstOf(tried) == CHOOSE token \in tried[Lead(tried, LAMBDA i : tried[i] = {}) + 1] : TRUE
First(e, top) ==
  FirstOf(<<Space(e), Code(e), Fences(e), OneLine("heading", "hash", e), OneLine("hr", "rule", e),
            Quote(e), List(e), Html(e), OneLine("def", "label", e), Table(e), Heading2(e),
            IF top THEN Paragraph(e) ELSE {}, Text(e)>>)

(* A token that goes on with the last one: a single newline with anything,
   code and definitions with a paragraph or a text, a text with a text. *)
GoesOn(token, toks, clipped) ==
  /\ toks # <<>>
  /\ \/ token.type = "space" /\ Len(token.raw) = 2
     \/ token.type \in {"code", "def"} /\ Last(toks).type \in {"paragraph", "text"} /\ (token.type = "code" => Indent(token.raw[1]) >= 4)
     \/ token.type = "text" /\ Last(toks).type = "text"
     \/ token.type = "paragraph" /\ clipped /\ Last(toks).type = "paragraph"

(* Faulty: what is joined is taken from the source but not shown. *)
FaultyJoined(last, token) ==
  [last EXCEPT !.raw = IF Blank(Last(@)) THEN Front(@) \o token.raw ELSE @ \o token.raw]

(* The raw of the two with the newline between them, and the text of both. *)
Joined(last, token) ==
  [last EXCEPT !.raw = IF Blank(Last(@)) THEN Front(@) \o token.raw
                       ELSE IF token.type = "space" THEN Append(@, NoLine) ELSE @ \o token.raw,
               !.text = @ \o token.text]

Onto(token, e, toks, top, clipped) ==
  Blocks(Rest(e, token.raw),
         IF GoesOn(token, toks, clipped) THEN Append(Front(toks), Joined(Last(toks), token))
         ELSE Append(toks, token),
         top \/ token.type = "list", clipped /\ token.type # "paragraph")
Blocks(e, toks, top, clipped) ==
  IF \A i \in 1..Len(e) : i = 1 /\ Blank(e[i]) THEN toks
  ELSE Onto(First(e, top), e, toks, top, clipped)

-----------------------------------------------------------------------------
(* The renderer: the lines of the text that are on the page, in order. *)
RECURSIVE Rendered(_)
Rendered(toks) ==
  FoldLeft(LAMBDA acc, token : acc \o
             CASE token.type \in {"space", "hr", "def"} -> <<>>
               [] token.type \in {"blockquote", "list", "item"} -> Rendered(token.kids)
               [] OTHER -> SelectSeq(token.text, LAMBDA l : ~Blank(l)), <<>>, toks)

Parsed(s) == Blocks(s, <<>>, TRUE, FALSE)

Init == source = <<>>

(* A line arrives, and the text is parsed and rendered anew. *)
Arrive(form) ==
  /\ \/ Len(source) < MaxLines
     \/ Len(source) = MaxLines /\ \A l \in Range(Append(source, Line(form, 0))) : l.atoms \in Core
  /\ source' = Append(source, Line(form, Len(source) + 1))

Next == \E form \in Forms : Arrive(form)
Spec == Init /\ [][Next]_source

-----------------------------------------------------------------------------
Plain(lines) ==
  LET texts == SelectSeq(lines, LAMBDA l : Last(l.atoms) = "text")
  IN  [i \in 1..Len(texts) |-> texts[i].no]

(* A quote in a quote whose paragraph goes on without marks, and after that a
   quoted line that begins a block: the quote takes that line for its own, and
   the quote inside has no place for it. *)
Overreached(s) ==
  \E i, j, k \in 1..Len(s) :
    /\ i < j /\ j < k
    /\ Quoted(s[i]) /\ Quoted(Inside(s[i]))
    /\ Lazy(s[j])
    /\ Quoted(s[k]) /\ ~Lazy(Inside(s[k])) /\ ~Quoted(Inside(s[k]))

(* Whatever the blocks and however they are nested, every line of plain text is
   shown once and in its place (unless a quote has overreached). *)
TextIsShown ==
  \/ Overreached(source)
  \/ Plain(Rendered(Parsed(source))) = Plain(SelectSeq(source, LAMBDA l : ~Blank(l)))

Outline(token) == [type |-> token.type, shown |-> Plain(Rendered(<<token>>))]
Settled(s) ==
  LET blocks == SelectSeq(Parsed(s), LAMBDA token : token.type # "space")
  IN  IF blocks = <<>> THEN <<>> ELSE [i \in 1..(Len(blocks) - 1) |-> Outline(blocks[i])]

(* While more of a message arrives, the blocks before the last one stay as they
   are (unless what has come underlines a rule: the rule and the paragraph above
   it become a heading). *)
EarlierBlocksStay ==
  [][IsStrictPrefix(source, source') =>
       \/ IsPrefix(Settled(source), Settled(source'))
       \/ Underline(Last(source')) /\ source # <<>> /\ Mark(Last(source)) = "rule"]_source
=============================================================================
