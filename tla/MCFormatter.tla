----------------------------- MODULE MCFormatter -----------------------------
(* Formatter on small files: every file of one or two lines out of the kinds *)
(* of lines below, and some longer ones, under options that differ from the  *)
(* defaults in one or two places.                                            *)
EXTENDS Formatter

T(k, w, n) == [k |-> k, w |-> w, n |-> n]
Sym(k) == T(k, 0, 1)
Id(w) == T("id", w, 1)
Num(w) == T("int", w, 1)
Cm(w) == T("cm", w, 4)

(* The line number p: later lines have smaller keys, so that there is        *)
(* something to sort, and the values of an array are in descending order too.*)
Key(p) == <<Id(30 - p), Ws(1), Eq, Ws(1)>>
V(p, i) == <<Num(100 + 10 * p - i)>>
Array(p, sep, end) == <<Sym("open")>> \o V(p, 1) \o <<Comma>> \o sep \o V(p, 2) \o end \o <<Sym("close")>>
Inline(p, sep, v) ==
  <<Sym("lbrace")>> \o sep \o <<Id(9), Ws(1), Eq, Ws(1)>> \o v \o <<Comma>> \o sep
    \o <<Id(8), Ws(1), Eq, Ws(1)>> \o V(p, 4) \o sep \o <<Sym("rbrace")>>
Note(p) == <<Ws(1), Cm(200 + p)>>
NL == <<Nl(1)>>
Line(p) ==
  [entry    |-> Key(p) \o V(p, 1),
   dotted   |-> <<Id(20), Ws(1), Sym("dot"), Id(30 - p), Eq>> \o V(p, 1),
   beside   |-> Key(p) \o V(p, 1) \o Note(p),
   array    |-> Key(p) \o Array(p, <<>>, <<>>),
   arrayCm  |-> Key(p) \o Array(p, Note(p) \o NL, NL) \o Note(p + 10),
   arrayNl  |-> Key(p) \o Array(p, <<Nl(2), Ws(1), Nl(2)>>, <<Ws(1)>> \o NL),
   table    |-> Key(p) \o Inline(p, <<Ws(1)>>, V(p, 1)),
   tableNl  |-> Key(p) \o Inline(p, NL, V(p, 1)),
   tableIn  |-> Key(p) \o Inline(p, <<>>, Array(p, Note(p) \o NL, <<>>)),
   tableCm  |-> Key(p) \o Inline(p, Note(p) \o NL, Array(p, <<>>, NL)),
   nested   |-> Key(p) \o <<Sym("open"), Sym("open")>> \o V(p, 1) \o <<Sym("close"), Comma>>
                  \o Inline(p, <<>>, Array(p, <<>>, <<>>)) \o NL \o <<Sym("close")>>,
   empty    |-> Key(p) \o <<Sym("lbrace"), Ws(2), Sym("rbrace")>>,
   header   |-> <<Sym("open"), Id(5), Ws(1), Sym("close")>>,
   subtable |-> <<Ws(2), Sym("open"), Id(5), Sym("dot"), Id(6 + p), Sym("close")>> \o Note(p),
   tables   |-> <<Sym("open"), Sym("open"), Id(30 - p), Sym("close"), Sym("close")>>,
   comment  |-> <<Ws(1), Cm(200 + p)>>,
   version  |-> <<Cm(900 + p)>>,
   blank    |-> <<Nl(3)>>,
   spaces   |-> <<Ws(1), Nl(1), Ws(2)>>,
   bad      |-> <<Id(30 - p), Ws(1), Id(40)>>]
Lines == [p \in 1..5 |-> Line(p)]
LineKinds == DOMAIN Lines[1]

File(kinds) == Relexed(FlattenSeq([p \in DOMAIN kinds |-> Lines[p][kinds[p]] \o NL]))

Lists(kinds, n) == [1..n -> kinds]
FewKinds == {"comment", "entry", "beside", "header", "blank", "spaces", "arrayCm"}
SoundFiles ==
  {File(kinds) : kinds \in UNION {Lists(LineKinds \ {"bad"}, n) : n \in 0..2}
                             \cup Lists(FewKinds, 3)}
BrokenFiles == {File(kinds) : kinds \in {l \in Lists({"entry", "bad", "header", "blank"}, 3) : \E p \in 1..3 : l[p] = "bad"}}
MCFiles == SoundFiles \cup BrokenFiles

With(o, rules) == [options |-> o @@ Default, rules |-> rules, force |-> FALSE]
Rule(keys, o) == [keys |-> keys, options |-> o]
Sort == [reorder_keys |-> TRUE, reorder_arrays |-> TRUE, reorder_inline_tables |-> TRUE]
Narrow == [column_width |-> 9]
Open == [array_auto_collapse |-> FALSE, inline_table_auto_collapse |-> FALSE]
Changes ==
  {Narrow @@ Sort, [toml_version |-> "1.0"] @@ Narrow, [toml_version |-> "1.1"] @@ Narrow,
   [toml_version |-> "1.1"] @@ Open, Open,
   [compact_arrays |-> FALSE, compact_inline_tables |-> TRUE, compact_entries |-> TRUE] @@ Sort,
   [align_entries |-> TRUE, align_single_comments |-> FALSE],
   [align_comments |-> FALSE, indent_tables |-> TRUE, indent_entries |-> TRUE],
   [toml_version |-> "1.1", array_trailing_comma |-> FALSE,
    inline_table_trailing_comma |-> FALSE] @@ Narrow,
   [array_auto_expand |-> FALSE, allowed_blank_lines |-> 0, trailing_newline |-> FALSE] @@ Narrow}
Rules ==
  {<<Rule(<<5>>, Sort @@ [indent_entries |-> TRUE])>>,
   <<Rule(<<29>>, [inline_table_expand |-> TRUE] @@ Open), Rule(<<5, 28>>, Narrow)>>}
MCSettings ==
  {With(o, <<>>) : o \in {<<>>} \cup Changes} \cup {With(<<>>, r) : r \in Rules}
    \cup {With([toml_version |-> "1.0"], <<Rule(<<29>>, Open)>>)}
    \cup {[With(<<>>, <<>>) EXCEPT !.force = TRUE]}

-----------------------------------------------------------------------------
Ended == result # "none"
Valid == original.errors = {} /\ result # "syntax errors"

(* What taplo fmt wrote is parsed without errors and left alone by           *)
(* taplo fmt --check: formatting twice is formatting once.                   *)
FormatIsStable == Ended /\ Valid => result = "formatted"

(* Formatting changes spaces, line breaks and commas, and with an option     *)
(* that sorts the order inside a group: each entry keeps its comments and    *)
(* stays in its group, between the same headers, comments and blank lines.   *)
(* What has an error is skipped, and nothing moves past it (--force), unless *)
(* the entries or comments right above it are still held back.               *)
WordsIn(node, text) == {text[t].w : t \in Tokens(node)} \ {0}
Groups(tree, text) ==
  LET apart == settings.options.allowed_blank_lines > 0
      into(acc, kind, words) ==
        IF kind = "ENTRY" /\ acc.groups # <<>> /\ Last(acc.groups).kind = kind
             /\ ~(apart /\ acc.breaks > 1)
        THEN [acc EXCEPT !.breaks = 0, !.groups[Len(acc.groups)].members = @ \cup {words}]
        ELSE [acc EXCEPT !.breaks = 0, !.groups =
                Append(@, [kind |-> kind, members |-> {words}])]
  IN Fold(LAMBDA acc, c :
            CASE c.kind = "WHITESPACE" -> acc
              [] c.kind = "NEWLINE" -> [acc EXCEPT !.breaks = @ + text[c.tok].n]
              [] OTHER -> into(acc, c.kind, WordsIn(c, text)),
          [groups |-> <<>>, breaks |-> 0], tree.kids).groups
Significant(text) == SelectSeq(text, LAMBDA t : t.k \notin {"ws", "nl", "comma"})
Sorting(s) == \E o \in {s.options} \cup {s.rules[i].options : i \in DOMAIN s.rules} :
                \E k \in DOMAIN Sort \cap DOMAIN o : o[k]
HeldBack ==
  LET kids == original.tree.kids
      broken == {i \in DOMAIN kids : ErrorAt(RangeOf(Tokens(kids[i])), original.errors)}
      between(i, j) == {kids[k] : k \in i + 1..j - 1}
  IN \E i, j \in DOMAIN kids :
       /\ i < j /\ j \in broken /\ i \notin broken /\ kids[i].kind \in {"ENTRY", "COMMENT"}
       /\ \A c \in between(i, j) :
            c.kind = "WHITESPACE" \/ (c.kind = "NEWLINE" /\ original.text[c.tok].n = 1)
NothingMoves ==
  /\ Ended /\ Valid =>
       /\ Groups(original.tree, original.text) = Groups(Root, file)
       /\ Sorting(settings) \/ Significant(file) = Significant(original.text)
  /\ Ended /\ original.errors # {} /\ ~HeldBack =>
       Significant(file) = Significant(original.text)

(* A document that targets TOML 1.0 gets no inline table of several lines,   *)
(* but for those that lay out a comment of their own.                        *)
RECURSIVE InlineTables(_)
InlineTables(node) ==
  UNION {InlineTables(node.kids[i]) : i \in DOMAIN node.kids}
    \cup (IF node.kind = "INLINE_TABLE" THEN {node} ELSE {})
NeverTooNew ==
  Ended /\ Valid /\ formatter.context.version = "1.0" =>
    \A t \in InlineTables(Root) : OwnKid(t, "NEWLINE") => OwnsComment(t)

=============================================================================
