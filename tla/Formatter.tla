------------------------------ MODULE Formatter ------------------------------
(***************************************************************************)
(* taplo fmt on one file (crates/taplo-cli/src/commands/format.rs) and the  *)
(* formatter under it (crates/taplo/src/formatter/): the file is parsed,    *)
(* refused if it has errors and --force was not given, formatted, and       *)
(* written back; then taplo fmt --check formats what was written and        *)
(* compares.  Parsing is Parser, step by step; the loop of format_root is   *)
(* one action for each arm of its match, and everything below it            *)
(* (format_entry, format_collection, format_rows, ...) an operator from     *)
(* syntax to text.                                                          *)
(*                                                                         *)
(* Text is a sequence of tokens [k, w, n]: the class of Parser, the word it *)
(* stands for (a number, so that words can be sorted; 0 if it is not one),  *)
(* and its width, or the number of line breaks of a "nl".                   *)
(***************************************************************************)
EXTENDS Naturals, Sequences, SequencesExt, FiniteSetsExt, TLC

CONSTANTS Files,       \* the files taplo fmt is run on, as sequences of tokens
          Settings     \* what it is run with: [options, rules, force]

VARIABLES file,                  \* the text of the file
          settings,
          checking,              \* FALSE: taplo fmt, TRUE: taplo fmt --check
          parser, calls, not_newline, entry_started, done,     \* as in Parser
          syntax,                \* the syntax tree, when the file is parsed
          formatter,             \* the locals of format_root, or None
          result,                \* how the command ended
          original               \* history: the text and tree at the beginning

parsing == <<parser, calls, not_newline, entry_started, done, syntax>>
vars == <<file, settings, checking, parsing, formatter, result, original>>

Classes == [i \in DOMAIN file |-> file[i].k]
P == INSTANCE Parser WITH Texts <- {}, text <- Classes, whole <- ~FALSE

None == [child |-> 0]
Leafless == [kind |-> "ROOT", tok |-> 0, kids |-> <<>>]

Ws(n) == [k |-> "ws", w |-> 0, n |-> n]
Nl(n) == [k |-> "nl", w |-> 0, n |-> n]
Eq    == [k |-> "eq", w |-> 0, n |-> 1]
Comma == [k |-> "comma", w |-> 0, n |-> 1]

EndsWith(tokens, class) == tokens # <<>> /\ Last(tokens).k = class
Words(tokens) == [i \in DOMAIN tokens |-> tokens[i].w]
\* A sequence whose items TLC evaluates once, and FoldLeft in linear time.
Evaluated(seq) == SubSeq(seq, 1, Len(seq))
Fold(op(_, _), base, seq) ==
  LET acc[i \in 0..Len(seq)] == IF i = 0 THEN base ELSE op(acc[i - 1], seq[i])
  IN acc[Len(seq)]
Width(tokens) == Fold(LAMBDA n, t : n + t.n, 0, tokens)
Broken(tokens) == \E i \in DOMAIN tokens : tokens[i].k = "nl"

-----------------------------------------------------------------------------
(* Options, scopes and the version (formatter/mod.rs, formatter/version.rs) *)

\* crlf and indent_string are left out: they are the same everywhere.
Default ==
  [align_entries |-> FALSE, align_comments |-> TRUE,
   align_single_comments |-> TRUE, array_trailing_comma |-> TRUE,
   array_auto_expand |-> TRUE, inline_table_expand |-> TRUE,
   inline_table_auto_collapse |-> TRUE, inline_table_trailing_comma |-> TRUE,
   array_auto_collapse |-> TRUE, compact_arrays |-> TRUE,
   compact_inline_tables |-> FALSE, compact_entries |-> FALSE,
   column_width |-> 80, indent_tables |-> FALSE, indent_entries |-> FALSE,
   trailing_newline |-> TRUE, reorder_keys |-> FALSE, reorder_arrays |-> FALSE,
   reorder_inline_tables |-> FALSE, allowed_blank_lines |-> 2,
   toml_version |-> "auto"]

IndentWidth == 2

Newlines(o, count) == <<Nl(Min({count, o.allowed_blank_lines + 1}))>>
ShouldAlignComments(o, count) ==
  (count # 1 \/ o.align_single_comments) /\ o.align_comments
Indent(context) == <<Ws(IndentWidth * context.indent_level)>>

Clamp(o, version) ==
  IF version = "1.0"
  THEN [o EXCEPT !.inline_table_expand = FALSE, !.inline_table_auto_collapse = TRUE]
  ELSE o

\* Options::update: what an OptionsIncomplete leaves out stays.
Updated(o, incomplete) == incomplete @@ o

RECURSIVE Tokens(_), Has(_, _), OwnsComment(_), MultilineInline(_)
Tokens(node) == UNION {Tokens(node.kids[i]) : i \in DOMAIN node.kids}
                  \cup ({node.tok} \ {0})
Has(node, kind) ==
  \E i \in DOMAIN node.kids : node.kids[i].kind = kind \/ Has(node.kids[i], kind)
OwnKid(node, kind) == \E i \in DOMAIN node.kids : node.kids[i].kind = kind

\* Comments of a nested array or inline table do not count.
OwnsComment(node) ==
  \E i \in DOMAIN node.kids :
    LET c == node.kids[i]
    IN c.kind = "COMMENT" \/ (c.kind \notin {"ARRAY", "INLINE_TABLE"} /\ OwnsComment(c))

MultilineInline(node) ==
  \/ node.kind = "INLINE_TABLE" /\ OwnKid(node, "NEWLINE")
  \/ \E i \in DOMAIN node.kids : MultilineInline(node.kids[i])

\* Text ranges are ranges of token numbers.
RangeOf(toks) == IF toks = {} THEN <<1, 0>> ELSE <<Min(toks), Max(toks)>>
ContainsRange(outer, inner) == outer[1] <= inner[1] /\ inner[2] <= outer[2]

\* Mutant: a scope can opt out of the version.
UpdateOptionsOnly(o, range, context) ==
  Fold(LAMBDA acc, scope :
         IF ContainsRange(scope.range, range) THEN Updated(acc, scope.options) ELSE acc,
       o, context.scopes)

UpdateOptions(o, range, context) ==
  Clamp(Fold(LAMBDA acc, scope :
                 IF ContainsRange(scope.range, range) THEN Updated(acc, scope.options)
                 ELSE acc, o, context.scopes),
        context.version)

\* overlaps() holds of ranges that touch; an error inside a token (of an
\* escape, or a control character) does not reach its ends.
ErrorAt(range, errors) ==
  \E e \in errors :
    LET margin == IF e.range[2] = "token" THEN 1 ELSE 0
    IN e.range[1] \in (range[1] - margin)..(range[2] + margin)

\* The words of the directives #:toml-version 1.0 and 1.1 as comments.
Directive == [w \in {901, 902} |-> IF w = 901 THEN "1.0" ELSE "1.1"]

ResolveVersion(root, configured) ==
  LET top(i) == \A j \in 1..i : root.kids[j].kids = <<>>
      directives == {i \in DOMAIN root.kids : /\ top(i)
                       /\ root.kids[i].kind = "COMMENT"
                       /\ file[root.kids[i].tok].w \in DOMAIN Directive}
  IN IF directives # {} THEN Directive[file[root.kids[Min(directives)].tok].w]
     ELSE IF configured # "auto" THEN configured
     ELSE IF MultilineInline(root) THEN "1.1" ELSE "1.0"

-----------------------------------------------------------------------------
(* Rows *)

\* The widest of the items from..to of the rows.
WidestOf(rows, from, to) ==
  Max({Width(FlattenSeq(SubSeq(rows[r], from, to))) : r \in DOMAIN rows})

\* format_rows: the items first..last of the rows are padded to the same
\* width, unless one of them has line breaks; the items behind number
\* separated are preceded by a space.  The first padding covers all items
\* up to first.
FormatRows(first, last, separated, rows) ==
  LET can_align == \A r \in DOMAIN rows : \A i \in DOMAIN rows[r] : ~Broken(rows[r][i])
      padding(row, i) ==
        LET from == IF i = first THEN 1 ELSE i
        IN <<Ws(WidestOf(rows, from, i) - WidestOf(<<row>>, from, i))>>
      item(row, i) ==
        (IF i > separated THEN <<Ws(1)>> ELSE <<>>) \o row[i] \o
        (IF can_align /\ i \in first..last /\ i < Len(row) THEN padding(row, i) ELSE <<>>)
  IN FlattenSeq([r \in DOMAIN rows |->
       (IF r = 1 THEN <<>> ELSE <<Nl(1)>>) \o
       FlattenSeq([i \in DOMAIN rows[r] |-> item(rows[r], i)])])

\* The order of strings: that of the first characters of their tokens.
Char(t) ==
  CASE t.k = "nl" -> 0 [] t.k = "ws" -> 1 [] t.k = "cm" -> 2 [] t.k = "comma" -> 3
    [] t.k = "dot" -> 4 [] t.k = "int" -> 5 + t.w [] t.k = "eq" -> 1000
    [] t.k = "open" -> 1001 [] t.k = "close" -> 1002 [] t.k = "id" -> 1003 + t.w
    [] t.k = "lbrace" -> 2000 [] OTHER -> 2001
Chars(tokens) == Evaluated([i \in DOMAIN tokens |-> Char(tokens[i])])

Before(a, b) ==
  \E i \in 1..Len(b) :
    /\ \A j \in 1..(i - 1) : j <= Len(a) /\ a[j] = b[j]
    /\ i > Len(a) \/ a[i] < b[i]

\* A stable sort.
Sorted(items, Key(_)) ==
  Fold(LAMBDA acc, x :
             LET n == Cardinality({i \in DOMAIN acc : ~Before(Key(x), Key(acc[i]))})
             IN SubSeq(acc, 1, n) \o <<x>> \o SubSeq(acc, n + 1, Len(acc)),
           <<>>, items)

-----------------------------------------------------------------------------
(* Keys, values, entries *)

Text(toks) == Evaluated([i \in DOMAIN toks |-> file[toks[i].tok]])

\* Idents and periods without the spaces between them.
FormatKey(node) ==
  Text(SelectSeq(node.kids, LAMBDA c : c.kind \notin {"WHITESPACE", "NEWLINE"}))

OfKind(node, kinds) == SelectSeq(node.kids, LAMBDA c : c.kind \in kinds)

\* The count of the line breaks at kid i, or of those which it is the last
\* token of: lines with nothing but spaces come as separate tokens.
DanglingNewlines(node, i) ==
  /\ i + 2 <= Len(node.kids)
  /\ node.kids[i + 1].kind = "WHITESPACE"
  /\ node.kids[i + 2].kind = "NEWLINE"

RECURSIVE FormatValue(_, _, _), FormatEntry(_, _, _), FormatCollection(_, _, _)

FormatValue(node, o, context) ==
  LET scoped == UpdateOptions(o, RangeOf(Tokens(node)), context)
      collections == OfKind(node, {"ARRAY", "INLINE_TABLE"})
  IN [value |-> IF collections # <<>>
                THEN FormatCollection(collections[1], scoped, context)
                ELSE Text(SelectSeq(node.kids, LAMBDA c :
                       c.kind \notin {"NEWLINE", "WHITESPACE", "COMMENT"})),
      comment |-> Text(OfKind(node, {"COMMENT"}))]

EntryOf(node, value) ==
  [syntax |-> node, key |-> FormatKey(OfKind(node, {"KEY"})[1]),
   value |-> value.value,
   comment |-> value.comment \o Text(OfKind(node, {"COMMENT"}))]

FormatEntry(node, o, context) ==
  EntryOf(node, FormatValue(OfKind(node, {"VALUE"})[1], o, context))

EntryText(e, o) ==
  e.key \o (IF o.compact_entries THEN <<Eq>> ELSE <<Ws(1), Eq, Ws(1)>>) \o e.value

(***************************************************************************)
(* Arrays and inline tables, one kid after the other.  Values are held back *)
(* in a group, so that they can be sorted and their comments aligned.       *)
(***************************************************************************)
HasComments(node, context) ==
  IF node.kind = "INLINE_TABLE" /\ context.version = "1.0"
  THEN OwnsComment(node) ELSE Has(node, "COMMENT")

Collection(node, o, context) ==
  LET table == node.kind = "INLINE_TABLE"
      force == context.force_multiline /\ (~table \/ o.inline_table_expand)
      has_comments == HasComments(node, context)
      has_newlines == IF table THEN OwnKid(node, "NEWLINE") ELSE Has(node, "NEWLINE")
      auto_collapse == IF table THEN o.inline_table_auto_collapse ELSE o.array_auto_collapse
      multiline == /\ has_newlines \/ has_comments \/ force
                   /\ has_comments \/ ~auto_collapse \/ force
  IN [table |-> table, node |-> node, multiline |-> multiline,
      empty |-> table /\ OfKind(node, {"ENTRY", "VALUE"}) = <<>> /\ ~has_comments,
      opening |-> IF table THEN "lbrace" ELSE "open",
      closing |-> IF table THEN "rbrace" ELSE "close",
      trailing_comma |-> multiline /\ (IF table THEN o.inline_table_trailing_comma
                                       ELSE o.array_trailing_comma),
      compact |-> IF table THEN o.compact_inline_tables ELSE o.compact_arrays,
      reorder |-> IF table THEN o.reorder_inline_tables ELSE o.reorder_arrays,
      count |-> Len(OfKind(node, {"ENTRY", "VALUE"})),
      outer |-> [context EXCEPT !.force_multiline = force],
      inner |-> [context EXCEPT !.force_multiline = force,
                                !.indent_level = IF multiline THEN @ + 1 ELSE @]]

\* The values in their new order; the commas stay where they are.
Reordered(values, order) ==
  Evaluated([i \in DOMAIN order |->
    [order[i] EXCEPT !.value = @ \o (IF values[i].comma THEN <<Comma>> ELSE <<>>)]])

ValuesText(values, c, o) ==
  IF ~c.multiline
  THEN FlattenSeq([i \in DOMAIN values |->
         (IF i = 1 THEN <<>> ELSE <<Ws(1)>>) \o values[i].value])
  ELSE LET comments == Cardinality({i \in DOMAIN values : values[i].comment # <<>>})
           row(v) == <<Indent(c.inner), v.value>> \o
                     (IF v.comment = <<>> THEN <<>> ELSE <<v.comment>>)
       IN FormatRows(1, IF ShouldAlignComments(o, comments) THEN 9 ELSE 0, 2,
                     Evaluated([i \in DOMAIN values |-> row(values[i])]))

AddValues(s, c, o) ==
  [s EXCEPT !.values = <<>>,
     !.formatted = s.formatted \o
       ValuesText(Reordered(s.values,
                            IF c.reorder THEN Sorted(s.values, LAMBDA v : Chars(v.value))
                            ELSE s.values), c, o)]

\* A value or an entry is held back.
Item(e, o) == [value |-> EntryText(e, o), comment |-> e.comment]
HoldBack(s, item, c) ==
  [s EXCEPT !.formatted = @ \o (IF c.multiline /\ EndsWith(@, c.opening)
                                THEN <<Nl(1)>> ELSE <<>>),
            !.values = Append(@, [value |-> item.value, comment |-> item.comment,
              comma |-> s.index < c.count - 1 \/ c.trailing_comma]),
            !.skip = @ + 1, !.index = @ + 1]

Close(s, kid, c) ==
  [s EXCEPT !.formatted = @ \o
     (IF c.multiline
      THEN (IF EndsWith(@, "nl") THEN <<>> ELSE <<Nl(1)>>) \o Indent(c.outer)
      ELSE IF c.compact THEN <<>> ELSE <<Ws(1)>>) \o <<file[kid.tok]>>]

BreakLines(s, breaks, o) ==
  [s EXCEPT !.dangling = 0,
     !.formatted = @ \o Newlines(o, Max({breaks, s.skip}) - s.skip)]

CommentUnder(s, kid, c) ==
  [s EXCEPT !.formatted = @ \o
     (IF EndsWith(@, c.opening) THEN <<Ws(1)>> ELSE Indent(c.inner)) \o <<file[kid.tok]>>]

CollectionKid(s, i, c, o) ==
  LET kid == c.node.kids[i]
      breaks == file[kid.tok].n + s.dangling
      before == SelectSeq(SubSeq(c.node.kids, 1, i - 1), LAMBDA x : x.kind # "WHITESPACE")
      newline_before == before # <<>> /\ Last(before).kind = "NEWLINE"
      beside == ~newline_before /\ s.values # <<>> /\ Last(s.values).comment = <<>>
      below(f) == IF s.values = <<>> THEN f
                  ELSE [f EXCEPT !.formatted = Append(@, Nl(1)), !.skip = 0]
  IN CASE kid.kind \in {"VALUE", "ENTRY"} ->
            HoldBack(s, IF c.table THEN Item(FormatEntry(kid, o, c.inner), o)
                        ELSE FormatValue(kid, o, c.inner), c)
       [] kid.kind \in {"BRACKET_START", "BRACE_START"} ->
            [s EXCEPT !.formatted = Append(@, file[kid.tok]) \o
                        (IF ~c.compact /\ ~c.multiline THEN <<Ws(1)>> ELSE <<>>)]
       [] kid.kind \in {"BRACKET_END", "BRACE_END"} -> Close(AddValues(s, c, o), kid, c)
       [] kid.kind = "NEWLINE" /\ c.multiline ->
            IF DanglingNewlines(c.node, i) THEN [s EXCEPT !.dangling = breaks]
            ELSE BreakLines(IF breaks > 1 THEN [AddValues(s, c, o) EXCEPT !.skip = 0] ELSE s,
                            breaks, o)
       [] kid.kind = "COMMENT" ->
            IF beside
            THEN [s EXCEPT !.values[Len(s.values)].comment = <<file[kid.tok]>>]
            ELSE CommentUnder(below(AddValues(s, c, o)), kid, c)
       [] OTHER -> s

CollectionText(node, c, o) ==
  IF c.empty THEN <<[k |-> "lbrace", w |-> 0, n |-> 1], [k |-> "rbrace", w |-> 0, n |-> 1]>>
  ELSE Fold(LAMBDA acc, i : CollectionKid(acc, i, c, o),
            [formatted |-> <<>>, values |-> <<>>, skip |-> 0, dangling |-> 0, index |-> 0],
            [i \in DOMAIN node.kids |-> i]).formatted
FormatCollection(node, o, context) == CollectionText(node, Collection(node, o, context), o)

-----------------------------------------------------------------------------
(* The groups that format_root holds back *)

\* The widths of the lines of a value.
LineWidths(value) ==
  Fold(LAMBDA acc, t : IF t.k = "nl" THEN Append(acc, 0)
                           ELSE [acc EXCEPT ![Len(acc)] = @ + t.n], <<0>>, value)

\* Whether a line of the entry is too long; the key counts for the first
\* line, the comment for the last.
TooLong(e, o, context) ==
  LET widths == LineWidths(e.value)
      key == IndentWidth * context.indent_level + Width(e.key)
               + (IF o.compact_entries THEN 1 ELSE 3)
      comment == IF e.comment = <<>> THEN 0 ELSE Width(e.comment) + 1
  IN \E i \in DOMAIN widths :
       widths[i] + (IF i = 1 THEN key ELSE 0) + (IF i = Len(widths) THEN comment ELSE 0)
         > o.column_width

Rewritten(e, value) ==
  [e EXCEPT !.value = value.value,
            !.comment = IF value.comment # <<>> THEN value.comment ELSE @]

Expanded(e, o, context) ==
  IF o.array_auto_expand /\ TooLong(e, o, context)
  THEN Rewritten(e, FormatValue(OfKind(e.syntax, {"VALUE"})[1], o,
                                [context EXCEPT !.force_multiline = TRUE]))
  ELSE e

EntryRow(e, context) ==
  <<Indent(context), e.key, <<Eq>>, e.value>> \o
  (IF e.comment = <<>> THEN <<>> ELSE <<e.comment>>)

EntryRows(order, o, context) ==
  Evaluated([i \in DOMAIN order |-> EntryRow(Expanded(order[i], o, context), context)])

\* The comments are aligned with the entries or on their own.
AlignRows(rows, o) ==
  LET comments == Cardinality({i \in DOMAIN rows : Len(rows[i]) = 5})
  IN FormatRows(IF o.align_entries THEN 1 ELSE 4,
                IF ShouldAlignComments(o, comments) THEN 9
                ELSE IF o.align_entries THEN 3 ELSE 0,
                IF o.compact_entries THEN 4 ELSE 2, rows)

\* add_entries: the group is sorted, expanded and aligned with the options
\* of its last entry.
AddEntries(f) ==
  LET order == IF f.scoped.reorder_keys
               THEN Sorted(f.entry_group,
                           LAMBDA e : Chars(SelectSeq(e.key, LAMBDA t : t.k # "dot")))
               ELSE f.entry_group
  IN [f EXCEPT !.entry_group = <<>>,
        !.formatted = f.formatted \o AlignRows(EntryRows(order, f.scoped, f.context), f.scoped)]

AddComments(f, context) ==
  [f EXCEPT !.comment_group = <<>>,
     !.formatted = @ \o FlattenSeq([i \in DOMAIN f.comment_group |->
        (IF i = 1 THEN <<>> ELSE <<Nl(1)>>) \o Indent(context) \o <<f.comment_group[i]>>])]

\* What follows is on a line of its own, whatever line breaks the group had.
EndLine(f) == [f EXCEPT !.formatted = Append(@, Nl(1)), !.skip_newlines = 0]
EntriesAbove(f) == IF f.entry_group = <<>> THEN f ELSE EndLine(AddEntries(f))
CommentsAbove(f, context) ==
  IF f.comment_group = <<>> THEN f ELSE EndLine(AddComments(f, context))

\* table_indent_level: one more than the last header that is a strict prefix.
TableIndentLevel(history, key, default_indent) ==
  LET above == {i \in DOMAIN history : IsStrictPrefix(history[i].key, key)}
  IN IF above = {} THEN default_indent ELSE history[Max(above)].indent + 1

FormatTableHeader(node) ==
  LET part(c) == CASE c.kind \in {"WHITESPACE", "NEWLINE", "COMMENT"} -> <<>>
                   [] c.kind = "KEY" -> FormatKey(c)
                   [] OTHER -> <<file[c.tok]>>
  IN FlattenSeq([i \in DOMAIN node.kids |-> part(node.kids[i])])

KeyWords(node) == Words(SelectSeq(FormatKey(node), LAMBDA t : t.k # "dot"))

-----------------------------------------------------------------------------
(* Scopes: the keys of a rule, as the text ranges of what they stand for *)

Root == syntax

\* GreenNodeBuilder::finish, of what the builder was told.
Grown(events) ==
  LET Onto(nodes, kid) == [nodes EXCEPT ![Len(nodes)].kids = Append(@, kid)]
  IN Fold(LAMBDA nodes, e :
            IF e.event = "finish" /\ Len(nodes) > 1 THEN Onto(Front(nodes), Last(nodes))
            ELSE LET node == [kind |-> e.kind, tok |-> e.tok, kids |-> <<>>]
                 IN CASE e.event = "start" -> Append(nodes, node)
                      [] e.event = "token" -> Onto(nodes, node)
                      [] OTHER -> nodes,
          <<>>, events)[1]

\* The header that child i of the root is under, 0 if there is none.
HeaderOf(i) ==
  Max({0} \cup {j \in 1..i : Root.kids[j].kind \in {"TABLE_HEADER", "TABLE_ARRAY_HEADER"}})
TablePath(j) == IF j = 0 THEN <<>> ELSE KeyWords(OfKind(Root.kids[j], {"KEY"})[1])

\* The syntax of the DOM node of a value: not the comment behind a scalar.
ValueTokens(entry) ==
  UNION {Tokens(c) : c \in {x \in ToSet(OfKind(entry, {"VALUE"})[1].kids) :
                              x.kind \notin {"WHITESPACE", "COMMENT"}}}
KeyTokens(entry) == Tokens(OfKind(entry, {"KEY"})[1])

\* Node::text_ranges of the nodes that find_all_matches finds: a table is its
\* header with the keys and values in it and in the tables below it.
ScopeRanges(keys) ==
  LET entries == {i \in DOMAIN Root.kids : Root.kids[i].kind = "ENTRY"}
      path(i) == TablePath(HeaderOf(i)) \o KeyWords(OfKind(Root.kids[i], {"KEY"})[1])
      headers == {j \in DOMAIN Root.kids : HeaderOf(j) = j /\ j # 0}
      below == {i \in entries : HeaderOf(i) # 0 /\ IsPrefix(keys, TablePath(HeaderOf(i)))}
      subtables == {j \in headers : IsPrefix(keys, TablePath(j))}
  IN {RangeOf(UNION ({KeyTokens(Root.kids[i]) \cup ValueTokens(Root.kids[i]) : i \in below}
                     \cup {Tokens(Root.kids[j]) : j \in subtables})) :
        h \in {j \in headers : TablePath(j) = keys}}
     \cup {RangeOf(ValueTokens(Root.kids[i])) : i \in {x \in entries : path(x) = keys}}

ScopesOf(rules) ==
  FlattenSeq([r \in DOMAIN rules |->
    LET ranges == SetToSeq(ScopeRanges(rules[r].keys))
    IN [i \in DOMAIN ranges |-> [range |-> ranges[i], options |-> rules[r].options]]])

-----------------------------------------------------------------------------
(* taplo fmt *)

Unparsed == P!Start(P!New(Classes, FALSE), "ROOT")

Init ==
  /\ file \in Files
  /\ settings = None
  /\ checking = FALSE
  /\ parser = Unparsed /\ calls = <<>> /\ syntax = Leafless
  /\ not_newline = FALSE /\ entry_started = FALSE /\ done = FALSE
  /\ formatter = None
  /\ result = "none"
  /\ original = [text |-> file, tree |-> Leafless, errors |-> {}]

\* What format_options read before is first looked at when the file is parsed.
Parse ==
  /\ ~done
  /\ UNCHANGED <<file, checking, formatter, result, original>>
  /\ P!Next
  /\ syntax' = IF done' THEN Grown(parser'.builder) ELSE syntax
  /\ settings' \in IF done' /\ settings = None THEN Settings ELSE {settings}

\* Errors are printed; without --force the file is left alone.
Refuse ==
  /\ done /\ formatter = None /\ result = "none"
  /\ parser.errors # {} /\ ~settings.force
  /\ result' = "syntax errors"
  /\ UNCHANGED <<file, settings, checking, parsing, formatter, original>>

\* format_with_path_scopes up to format_root's loop.
StartFormat ==
  /\ done /\ formatter = None /\ result = "none"
  /\ parser.errors = {} \/ settings.force
  /\ LET version == ResolveVersion(Root, settings.options.toml_version)
         o == Clamp(settings.options, version)
     IN formatter' =
          [child |-> 1, formatted |-> <<>>, entry_group |-> <<>>, skip_newlines |-> 0,
           comment_group |-> <<>>, history |-> <<>>, dangling |-> 0,
           options |-> o, scoped |-> o,
           context |-> [indent_level |-> 0, force_multiline |-> FALSE,
                        scopes |-> ScopesOf(settings.rules), version |-> version]]
  /\ original' = IF checking THEN original ELSE [original EXCEPT !.tree = Root, !.errors = parser.errors]
  /\ UNCHANGED <<file, settings, checking, parsing, result>>

\* The loop's condition, and what every arm leaves alone.
Child == Root.kids[formatter.child]
ChildRange == RangeOf(Tokens(Child))
Formatting(kinds) ==
  /\ formatter # None /\ result = "none"
  /\ formatter.child <= Len(Root.kids)
  /\ Child.kind \in kinds
  /\ UNCHANGED <<file, settings, checking, parsing, result, original>>
Skipped == ErrorAt(ChildRange, parser.errors)
Then(f) == formatter' = [f EXCEPT !.child = @ + 1]

\* A child that touches an error is copied, ahead of the groups.
CopyErrors ==
  /\ Formatting(ToSet(P!Kinds)) /\ Skipped
  /\ Then([formatter EXCEPT !.formatted =
             @ \o SubSeq(file, ChildRange[1], ChildRange[2])])

HeaderLevel(f, o, key) ==
  IF o.indent_tables
  THEN TableIndentLevel(f.history, key, IF o.indent_entries THEN 1 ELSE 0)
  ELSE IF o.indent_entries /\ f.context.indent_level = 0 THEN 1 ELSE f.context.indent_level

Under(f, o, key, level) ==
  [f EXCEPT !.scoped = o, !.context.indent_level = level,
            !.history = Append(@, [key |-> key, indent |-> level])]

WriteHeader(f, node, comment, context) ==
  [f EXCEPT !.formatted = @ \o
     (IF f.scoped.indent_tables THEN Indent(context) ELSE <<>>) \o FormatTableHeader(node) \o
     (IF comment = <<>> THEN <<>> ELSE <<Ws(1)>> \o comment)]

\* The header is indented less than its entries.
Header(f, o, key, level) ==
  LET context == [f.context EXCEPT !.indent_level =
                    IF o.indent_entries THEN Max({level, 1}) - 1 ELSE level]
  IN WriteHeader(CommentsAbove(Under(EntriesAbove(f), o, key, level), context),
                 Child, Text(OfKind(Child, {"COMMENT"})), context)

TableHeader ==
  /\ Formatting({"TABLE_HEADER", "TABLE_ARRAY_HEADER"}) /\ ~Skipped
  /\ LET o == UpdateOptions(formatter.options, ChildRange, formatter.context)
         key == KeyWords(OfKind(Child, {"KEY"})[1])
     IN Then(Header(formatter, o, key, HeaderLevel(formatter, o, key)))

HoldBackEntry(f, e) ==
  [f EXCEPT !.entry_group = Append(@, e), !.skip_newlines = @ + 1]

Entry ==
  /\ Formatting({"ENTRY"}) /\ ~Skipped
  /\ LET o == UpdateOptions(formatter.options, ChildRange, formatter.context)
     IN Then(HoldBackEntry(CommentsAbove([formatter EXCEPT !.scoped = o], formatter.context),
                           FormatEntry(Child, o, formatter.context)))

Flushed(f) == AddEntries(AddComments(f, f.context))
Break(f, breaks) ==
  [f EXCEPT !.dangling = 0,
     !.formatted = @ \o Newlines(f.scoped, Max({breaks, f.skip_newlines}) - f.skip_newlines)]

\* Mutant: the groups are written, but their line breaks still count.
NewlineKeepsSkipping ==
  /\ Formatting({"NEWLINE"}) /\ ~Skipped
  /\ LET breaks == file[Child.tok].n + formatter.dangling
     IN Then(IF DanglingNewlines(Root, formatter.child)
             THEN [formatter EXCEPT !.dangling = breaks]
             ELSE Break(IF breaks > 1 THEN Flushed(formatter) ELSE formatter, breaks))

Newline ==
  /\ Formatting({"NEWLINE"}) /\ ~Skipped
  /\ LET breaks == file[Child.tok].n + formatter.dangling
     IN Then(IF DanglingNewlines(Root, formatter.child)
             THEN [formatter EXCEPT !.dangling = breaks]
             ELSE Break(IF breaks > 1
                        THEN [Flushed(formatter) EXCEPT !.skip_newlines = 0]
                        ELSE formatter, breaks))

HoldBackComment(f) ==
  [f EXCEPT !.comment_group = Append(@, file[Child.tok]), !.skip_newlines = @ + 1]

\* Mutant: the entries above are still held back.
CommentKeepsEntries ==
  /\ Formatting({"COMMENT"}) /\ ~Skipped
  /\ Then(HoldBackComment(formatter))

Comment ==
  /\ Formatting({"COMMENT"}) /\ ~Skipped
  /\ Then(HoldBackComment(EntriesAbove(formatter)))

Whitespace ==
  /\ Formatting({"WHITESPACE"}) /\ ~Skipped
  /\ Then(formatter)

\* trim_end, and the newline at the end of the file.
Trimmed(tokens, o) ==
  LET kept == {i \in DOMAIN tokens : tokens[i].k \notin {"ws", "nl"}}
  IN SubSeq(tokens, 1, Max({0} \cup kept)) \o
     (IF o.trailing_newline THEN <<Nl(1)>> ELSE <<>>)

\* The tokens of a text, as a lexer finds them: spaces and line breaks are
\* one token each, and a comment takes the rest of its line.
Relexed(tokens) ==
  Fold(LAMBDA acc, t :
             IF t.n = 0 \/ (EndsWith(acc, "cm") /\ t.k # "nl") THEN acc
             ELSE IF t.k \in {"ws", "nl"} /\ EndsWith(acc, t.k)
             THEN [acc EXCEPT ![Len(acc)].n = @ + t.n]
             ELSE Append(acc, t), <<>>, tokens)

Output == Relexed(Trimmed(Flushed(formatter).formatted, formatter.options))

AtEnd == formatter # None /\ result = "none" /\ formatter.child > Len(Root.kids)

\* write_file; the command has ended, and taplo fmt --check is run.
Write ==
  /\ AtEnd /\ ~checking
  /\ file' = Output
  /\ checking' = TRUE
  /\ parser' = Unparsed' /\ calls' = <<>> /\ syntax' = Leafless
  /\ not_newline' = FALSE /\ entry_started' = FALSE /\ done' = FALSE
  /\ formatter' = None
  /\ UNCHANGED <<settings, result, original>>

Check ==
  /\ AtEnd /\ checking
  /\ result' = IF Output = file THEN "formatted" ELSE "not formatted"
  /\ UNCHANGED <<file, settings, checking, parsing, formatter, original>>

Next == Parse \/ Refuse \/ StartFormat \/ CopyErrors \/ TableHeader \/ Entry
          \/ Newline \/ Comment \/ Whitespace \/ Write \/ Check

Spec == Init /\ [][Next]_vars /\ WF_vars(Next)
=============================================================================
