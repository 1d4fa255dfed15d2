------------------------------- MODULE Parser -------------------------------
(***************************************************************************)
(* The parser of TOML text (crates/taplo/src/parser/mod.rs): a hand-written *)
(* recursive descent over the tokens of the lexer, which builds a lossless  *)
(* syntax tree and goes on after an error.                                  *)
(*                                                                         *)
(* The functions that call one another, or loop, leave their locals on a    *)
(* stack of calls: an action is a turn of a loop, one for each arm of its   *)
(* match, or what a function does between two calls.  The others are        *)
(* operators from a parser state to the parser state they leave, whose      *)
(* field ok is the function's result.                                       *)
(*                                                                         *)
(* The lexer is abstracted to what it hands over: a text is a sequence of   *)
(* tokens, and a token is a class that stands for every slice the parser    *)
(* cannot tell apart ("pad" is 07, "plus" is +7, "nought" is 0.5, ...).     *)
(***************************************************************************)
EXTENDS Integers, Sequences, FiniteSetsExt

CONSTANT Texts      \* the texts that are parsed, as sequences of classes

VARIABLES text,          \* what is parsed
          whole,         \* TRUE: parse, FALSE: parse_key_only
          parser,        \* the fields of struct Parser
          calls,         \* the functions under way but parse_root, innermost first
          not_newline, entry_started,   \* the locals of parse_root
          done

vars == <<text, whole, parser, calls, not_newline, entry_started, done>>

-----------------------------------------------------------------------------
(* Tokens *)

\* The kinds of tokens and of nodes, in the order of enum SyntaxKind.
Kinds == <<"WHITESPACE", "NEWLINE", "COMMENT", "IDENT", "IDENT_WITH_GLOB",
           "PERIOD", "COMMA", "EQ", "STRING", "MULTI_LINE_STRING",
           "STRING_LITERAL", "MULTI_LINE_STRING_LITERAL", "INTEGER",
           "INTEGER_HEX", "INTEGER_OCT", "INTEGER_BIN", "FLOAT", "BOOL",
           "DATE_TIME_OFFSET", "DATE_TIME_LOCAL", "DATE", "TIME",
           "BRACKET_START", "BRACKET_END", "BRACE_START", "BRACE_END",
           "ERROR", "KEY", "VALUE", "TABLE_HEADER", "TABLE_ARRAY_HEADER",
           "ENTRY", "ARRAY", "INLINE_TABLE", "ROOT">>

\* The bits of a kind's number, as the positions that are 1: the error
\* whitelist is a mask made of these numbers, not of one bit for each kind.
Bits(kind) ==
  LET n == (CHOOSE i \in DOMAIN Kinds : Kinds[i] = kind) - 1
  IN {b \in 0..5 : (n \div 2^b) % 2 = 1}

\* The kind of each class of tokens.  cmx is a comment with a control
\* character, strx a string with an invalid escape, mlx a multi-line one;
\* und is 7_, hexund 0x_7, fund 1_.5, fpad 01.5, fplus +1.5.
Kind == [ws |-> "WHITESPACE", nl |-> "NEWLINE", cm |-> "COMMENT",
         cmx |-> "COMMENT", id |-> "IDENT", glob |-> "IDENT_WITH_GLOB",
         dot |-> "PERIOD", comma |-> "COMMA", eq |-> "EQ", str |-> "STRING",
         strx |-> "STRING", ml |-> "MULTI_LINE_STRING",
         mlx |-> "MULTI_LINE_STRING", lit |-> "STRING_LITERAL",
         int |-> "INTEGER", plus |-> "INTEGER", pad |-> "INTEGER",
         und |-> "INTEGER", hex |-> "INTEGER_HEX", hexund |-> "INTEGER_HEX",
         float |-> "FLOAT", nought |-> "FLOAT", fplus |-> "FLOAT",
         fpad |-> "FLOAT", fund |-> "FLOAT", bool |-> "BOOL", date |-> "DATE",
         time |-> "TIME", open |-> "BRACKET_START", close |-> "BRACKET_END",
         lbrace |-> "BRACE_START", rbrace |-> "BRACE_END", err |-> "ERROR"]

ASSUME TextsAssumption == Texts \subseteq Seq(DOMAIN Kind)

\* The slices that allowed_chars or check_escape report.
Malformed == {"cmx", "strx", "mlx"}

\* Numbers parse_value refuses: for their zeros, and for check_underscores.
Padded == {"pad", "fpad"}
BadUnderscores == {"und", "hexund", "fund"}

-----------------------------------------------------------------------------
(* struct Parser and the green tree under construction *)

\* The builder is told when a node starts and finishes, and of the tokens in
\* between: all of a token (part 0), or the parts of a float that is a key.
Event(event, kind, i, part) == [event |-> event, kind |-> kind, tok |-> i, part |-> part]
Leaf(kind, i) == Event("token", kind, i, 0)

\* current = 0 is None; at is the lexer's span: the number of the token read
\* last, Len(tokens) + 1 once the lexer returned None.  Of the list of errors,
\* the last one alone is looked at.
NoError == [range |-> <<0, "token">>, message |-> ""]
New(tokens, pattern) ==
  [tokens |-> tokens, at |-> 0, current |-> 0, skip_whitespace |-> TRUE,
   key_pattern_syntax |-> pattern, error_whitelist |-> {}, errors |-> {}, last |-> NoError,
   builder |-> <<>>, parents |-> 0, ok |-> TRUE]

Start(p, kind) ==
  [p EXCEPT !.builder = Append(@, Event("start", kind, 0, 0)), !.parents = @ + 1]

Finish(p) ==
  [p EXCEPT !.builder = Append(@, Event("finish", "", 0, 0)), !.parents = @ - 1]

Insert(p, leaf) == [p EXCEPT !.builder = Append(@, leaf)]

Ok(p)  == [p EXCEPT !.ok = TRUE]
Err(p) == [p EXCEPT !.ok = FALSE]

CurrentKind(p) == Kind[p.tokens[p.current]]

\* Mutant: the whitelist is not looked at.
WhitelistedNever(p) == FALSE

Whitelisted(p) == p.error_whitelist \cap Bits(CurrentKind(p)) # {}
Whitelist(p, kinds) == [p EXCEPT !.error_whitelist = @ \cup UNION {Bits(k) : k \in kinds}]
Blacklist(p, kinds) == [p EXCEPT !.error_whitelist = @ \ UNION {Bits(k) : k \in kinds}]

AddError(p, range, message) ==
  LET e == [range |-> range, message |-> message]
  IN [p EXCEPT !.errors = @ \cup {e}, !.last = e]

\* Reports what allowed_chars and check_escape found inside the slice: an
\* empty range in the token, never the range of the token itself.
CheckSlice(p, message) ==
  IF p.tokens[p.at] \in Malformed THEN AddError(p, <<p.at, "inside">>, message)
  ELSE p

Here(p) == <<p.at, "token">>

\* Reads tokens up to the next one that the grammar is about: comments,
\* errors of the lexer and, if they are skipped, spaces go into the tree.
Skips(p) == {"COMMENT", "ERROR"} \cup (IF p.skip_whitespace THEN {"WHITESPACE"} ELSE {})

NextToken(p) ==
  Min({i \in (p.at + 1)..Len(p.tokens) : Kind[p.tokens[i]] \notin Skips(p)}
        \cup {Len(p.tokens) + 1})

Reported(p, i) ==
  IF Kind[p.tokens[i]] = "ERROR" THEN [range |-> <<i, "token">>, message |-> "unexpected token"]
  ELSE [range |-> <<i, "inside">>, message |-> "invalid character in comment"]

StepTo(p, next) ==
  LET skipped == (p.at + 1)..(next - 1)
      wrong == {i \in skipped : Kind[p.tokens[i]] = "ERROR" \/ p.tokens[i] \in Malformed}
  IN [p EXCEPT !.at = next,
        !.current = IF next <= Len(p.tokens) THEN next ELSE 0,
        !.builder = @ \o [n \in 1..(next - 1 - p.at) |-> Leaf(Kind[p.tokens[p.at + n]], p.at + n)],
        !.errors = @ \cup {Reported(p, i) : i \in wrong},
        !.last = IF wrong = {} THEN @ ELSE Reported(p, Max(wrong))]
Step(p) == StepTo(p, NextToken(p))

Looked(p) == [p EXCEPT !.ok = p.current # 0]
GetToken(p) == Looked(IF p.current = 0 THEN Step(p) ELSE p)

Taken(q, kind) == Insert(q, Leaf(kind, q.current))
TokenAs(p, kind) == LET q == GetToken(p) IN IF q.ok THEN Step(Taken(q, kind)) ELSE q
Token(p) == LET q == GetToken(p) IN IF q.ok THEN Step(Taken(q, CurrentKind(q))) ELSE q

\* As Token, but what follows is not read yet.
AddToken(p) ==
  LET q == GetToken(p)
  IN IF q.ok THEN [Taken(q, CurrentKind(q)) EXCEPT !.current = 0] ELSE q

\* Mutant: a token that has its error already is passed over.
ErrorDrops(p, message) ==
  IF p.last.range = Here(p) THEN Err(Step(p))
  ELSE LET q == AddError(p, Here(p), message)
       IN Err(IF p.current # 0 /\ ~Whitelisted(p) THEN TokenAs(q, "ERROR") ELSE q)

\* Parser::error: a first error at a token is reported, and the token is
\* taken as ERROR unless it is whitelisted; at the second it is taken anyway.
Error(p, message) ==
  LET same == p.last.range = Here(p)
      q == IF same THEN p ELSE AddError(p, Here(p), message)
  IN Err(IF same \/ (p.current # 0 /\ ~Whitelisted(p)) THEN TokenAs(q, "ERROR") ELSE q)

ReportError(p, message) == Err(AddError(p, Here(p), message))

\* Mutant: the end of the text is no error.
MustTokenOrEnd(p, kind, message) ==
  LET q == GetToken(p)
  IN IF ~q.ok THEN q ELSE IF CurrentKind(q) = kind THEN Token(q) ELSE Error(q, message)

MustTokenOr(p, kind, message) ==
  LET q == GetToken(p)
  IN IF ~q.ok THEN ReportError(q, "unexpected EOF")
     ELSE IF CurrentKind(q) = kind THEN Token(q) ELSE Error(q, message)

\* What parse_ident makes of a token: "error" and "refuse" fail, the latter
\* without taking the token, whose error is the caller's (plus, fplus).
IdentCase(q) ==
  LET kind == CurrentKind(q)
      class == q.tokens[q.current]
  IN IF class \in {"plus", "fplus"} THEN "refuse"
     ELSE IF kind = "FLOAT" THEN IF class \in {"nought", "fpad"} THEN "padded" ELSE "split"
     ELSE IF kind \in {"IDENT", "INTEGER", "INTEGER_HEX", "STRING", "STRING_LITERAL", "BOOL",
                       "DATE"}
               \/ (kind = "IDENT_WITH_GLOB" /\ q.key_pattern_syntax)
     THEN "ident" ELSE "error"

\* A float is split at its periods.
Split(q) ==
  LET part(kind, n) == Event("token", kind, q.current, n)
  IN Insert(Insert(Insert(q, part("IDENT", 1)), part("PERIOD", 2)), part("IDENT", 3))

ParseIdent(p) ==
  LET q == GetToken(p)
  IN IF ~q.ok THEN q
     ELSE CASE IdentCase(q) = "ident" ->
                 TokenAs(CheckSlice(q, "invalid escape sequence"), "IDENT")
            [] IdentCase(q) = "split" -> Step(Split(q))
            [] IdentCase(q) = "refuse" -> Err(q)
            [] OTHER -> Error(q, IF IdentCase(q) = "padded"
                                 THEN "zero-padded numbers are not allowed"
                                 ELSE "expected identifier")

\* parse_value, up to the items of an array or of an inline table.
ParseValue(p) ==
  LET q == GetToken(p)
  IN IF ~q.ok THEN Error(q, "expected value")
     ELSE IF q.tokens[q.current] \in Padded THEN Error(q, "zero-padded numbers are not allowed")
     ELSE IF q.tokens[q.current] \in BadUnderscores THEN Error(q, "invalid underscores")
     ELSE CASE CurrentKind(q) \in {"BOOL", "DATE", "TIME", "INTEGER", "INTEGER_HEX", "FLOAT",
                 "STRING", "MULTI_LINE_STRING", "STRING_LITERAL"} ->
                 Token(CheckSlice(q, "invalid escape sequence"))
            [] CurrentKind(q) = "BRACKET_START" ->
                 MustTokenOr(Start(q, "ARRAY"), "BRACKET_START", "expected [")
            [] CurrentKind(q) = "BRACE_START" ->
                 MustTokenOr(Start(q, "INLINE_TABLE"), "BRACE_START", "expected {")
            [] CurrentKind(q) \in {"IDENT", "BRACE_END"} -> Ok(ReportError(q, "expected value"))
            [] OTHER -> Error(q, "expected value")

-----------------------------------------------------------------------------
(* Calls *)

\* The function that fills a node, as with_node! calls it: the tokens that are
\* whitelisted around it, and its locals, a set of those that are true.
Call(node, whitelisted, locals) ==
  [node |-> node, whitelisted |-> whitelisted, locals |-> locals]

\* What is there of a parser when get_token was called.
Ahead == GetToken(parser)
Sees(kinds) == LET q == Ahead IN q.ok /\ CurrentKind(q) \in kinds
SeesBut(kinds) == LET q == Ahead IN q.ok /\ CurrentKind(q) \notin kinds

\* The function that fills this node goes on.
Inside(node) ==
  /\ calls # <<>> /\ Head(calls).node = node
  /\ UNCHANGED <<text, whole, not_newline, entry_started, done>>
Locals == Head(calls).locals
Outer == Tail(calls)
Caller(locals) == <<[Head(calls) EXCEPT !.locals = locals]>> \o Outer

LoopOn(q, locals) == parser' = q /\ calls' = Caller(locals)

\* It returns; parse_root finishes the node of an entry later.
Return(q) ==
  /\ parser' = Blacklist(IF Head(calls).node = "ENTRY" /\ Outer = <<>> THEN q ELSE Finish(q),
                         Head(calls).whitelisted)
  /\ calls' = Outer

\* parse_key up to its loop, from a function that leaves these calls.
CallKey(p, callers) ==
  LET q == ParseIdent(Start(p, "KEY"))
  IN IF q.ok THEN /\ parser' = q
                  /\ calls' = <<Call("KEY", {}, {})>> \o callers
     ELSE /\ parser' = Finish(ReportError(q, "expected identifier"))
          /\ calls' = callers

CallEntry(p, whitelisted, callers) ==
  CallKey(Start(Whitelist(p, whitelisted), "ENTRY"),
          <<Call("ENTRY", whitelisted, {})>> \o callers)

\* The array or inline table that parse_value comes to.
Collection(p) ==
  LET q == GetToken(p)
  IN IF q.ok /\ CurrentKind(q) = "BRACKET_START" THEN <<Call("ARRAY", {}, {"first"})>>
     ELSE IF q.ok /\ CurrentKind(q) = "BRACE_START" THEN <<Call("INLINE_TABLE", {}, {})>>
     ELSE <<>>

CallValue(p, whitelisted, callers) ==
  LET q == Start(Whitelist(p, whitelisted), "VALUE")
  IN IF Collection(q) = <<>>
     THEN /\ parser' = Blacklist(Finish(ParseValue(q)), whitelisted)
          /\ calls' = callers
     ELSE /\ parser' = ParseValue(q)
          /\ calls' = Collection(q) \o <<Call("VALUE", whitelisted, {})>> \o callers

-----------------------------------------------------------------------------
(* The loop of parse_key *)

AfterPeriod == "after_period" \in Locals

KeyPeriod ==
  /\ Inside("KEY") /\ Sees({"PERIOD"})
  /\ IF AfterPeriod THEN Return(Error(Ahead, "unexpected ."))
     ELSE LoopOn(Token(Ahead), {"after_period"})

\* An index of a key pattern.  Its brackets are passed over.
Bracketed == Sees({"BRACKET_START"}) /\ parser.key_pattern_syntax

KeyIndex ==
  /\ Inside("KEY") /\ Bracketed
  /\ LET index == ParseIdent(Step(Ahead))
         close == GetToken(index)
         shut == Error(close, "expected ]")
     IN IF ~index.ok THEN Return(Error(index, "expected identifier"))
        ELSE IF ~close.ok THEN Return(close)
        ELSE IF CurrentKind(close) # "BRACKET_END" THEN Return(shut)
        ELSE LoopOn(Step(close), {})

KeyIdent ==
  /\ Inside("KEY") /\ AfterPeriod
  /\ SeesBut({"PERIOD"}) /\ ~Bracketed
  /\ LET ident == ParseIdent(Ahead)
     IN IF ident.ok THEN LoopOn(ident, {})
        ELSE Return(ReportError(ident, "expected identifier"))

KeyEnd ==
  /\ Inside("KEY") /\ ~AfterPeriod
  /\ SeesBut({"PERIOD"}) /\ ~Bracketed
  /\ Return(IF parser.key_pattern_syntax THEN Error(Ahead, "unexpected identifier") ELSE Ok(Ahead))

KeyAtEof ==
  /\ Inside("KEY") /\ ~Ahead.ok
  /\ Return(IF AfterPeriod THEN Error(Ahead, "unexpected end of input") ELSE Ok(Ahead))

-----------------------------------------------------------------------------
(* parse_entry, parse_value, parse_array and parse_inline_table *)

\* parse_entry, behind the key and behind the value.
EntryValue ==
  /\ Inside("ENTRY") /\ Locals = {}
  /\ LET eq == IF parser.ok THEN MustTokenOr(parser, "EQ", "expected =") ELSE parser
     IN IF eq.ok THEN CallValue(eq, {}, Caller({"valued"})) ELSE Return(eq)

EntryEnd == Inside("ENTRY") /\ "valued" \in Locals /\ Return(parser)

ValueEnd == Inside("VALUE") /\ Return(parser)

ArrayEnd == Inside("ARRAY") /\ Sees({"BRACKET_END"}) /\ Return(AddToken(Ahead))

ArrayNewLine == Inside("ARRAY") /\ Sees({"NEWLINE"}) /\ LoopOn(Token(Ahead), Locals)

ArrayComma ==
  /\ Inside("ARRAY") /\ Sees({"COMMA"})
  /\ LET comma == Token(IF Locals # {} THEN Error(Ahead, "unexpected ,") ELSE Ahead)
     IN IF comma.ok THEN LoopOn(comma, {"comma_last"}) ELSE Return(comma)

ArrayItem ==
  /\ Inside("ARRAY") /\ SeesBut({"BRACKET_END", "NEWLINE", "COMMA"})
  /\ CallValue(IF Locals = {} THEN Error(Ahead, "expected ,") ELSE Ahead, {"COMMA"}, Caller({}))

ArrayAtEof == Inside("ARRAY") /\ ~Ahead.ok /\ Return(ReportError(Ahead, "unexpected EOF"))

InlineEnd == Inside("INLINE_TABLE") /\ Sees({"BRACE_END"}) /\ Return(AddToken(Ahead))

InlineBlank ==
  Inside("INLINE_TABLE") /\ Sees({"WHITESPACE", "NEWLINE"}) /\ LoopOn(AddToken(Ahead), Locals)

InlineComma ==
  /\ Inside("INLINE_TABLE") /\ Sees({"COMMA"})
  /\ LET comma == AddToken(IF Locals = {} THEN Error(Ahead, "unexpected ,") ELSE Ahead)
     IN IF comma.ok THEN LoopOn(comma, {}) ELSE Return(comma)

InlineEntry ==
  /\ Inside("INLINE_TABLE")
  /\ SeesBut({"BRACE_END", "WHITESPACE", "NEWLINE", "COMMA"})
  /\ CallEntry(IF Locals # {} THEN Error(Ahead, "expected , or }") ELSE Ahead, {"COMMA"},
               Caller({"expect_comma_or_end"}))

InlineAtEof == Inside("INLINE_TABLE") /\ ~Ahead.ok /\ Return(ReportError(Ahead, "expected }"))

-----------------------------------------------------------------------------
(* Headers, behind their keys *)

TableHeaderEnd ==
  Inside("TABLE_HEADER") /\ Return(MustTokenOr(parser, "BRACKET_END", "expected ]"))

Touching(p) == [p EXCEPT !.skip_whitespace = FALSE]
Apart(p) == [p EXCEPT !.skip_whitespace = TRUE]

\* Mutant: spaces are still not skipped behind the header.
CloseTwiceTight(p) ==
  LET close1 == GetToken(MustTokenOr(Touching(p), "BRACKET_END", "expected ]]"))
  IN IF ~close1.ok THEN close1
     ELSE IF CurrentKind(close1) = "BRACKET_END" THEN Step(Taken(close1, "BRACKET_END"))
     ELSE Error(close1, "expected ]]")

\* The brackets must touch, so spaces are not skipped when the first of a
\* pair is taken.  An early return leaves skip_whitespace as it is.
CloseTwice(p) ==
  LET close1 == GetToken(MustTokenOr(Touching(p), "BRACKET_END", "expected ]]"))
  IN IF ~close1.ok THEN close1
     ELSE IF CurrentKind(close1) = "BRACKET_END" THEN Step(Apart(Taken(close1, "BRACKET_END")))
     ELSE Error(close1, "expected ]]")

TableArrayHeaderEnd == Inside("TABLE_ARRAY_HEADER") /\ Return(CloseTwice(parser))

-----------------------------------------------------------------------------
(* The loop of parse_root *)

Init ==
  /\ text \in Texts
  /\ whole \in BOOLEAN
  /\ parser = IF whole THEN Start(New(text, FALSE), "ROOT") ELSE New(text, TRUE)
  /\ calls = <<>>
  /\ not_newline = FALSE
  /\ entry_started = FALSE
  /\ done = FALSE

\* The loop's condition: get_token, which reads the token the arm matches.
Looping ==
  /\ whole /\ ~done /\ calls = <<>>
  /\ UNCHANGED <<text, whole, done>>

\* The parser when the open entry, if there is one, is finished.
EntryFinished == IF entry_started THEN Finish(Ahead) ELSE Ahead

ExpectedNewLine ==
  /\ Looping /\ SeesBut({"NEWLINE"})
  /\ not_newline
  /\ LET bracket == CurrentKind(Ahead) = "BRACKET_START"
     IN /\ parser' = Error(IF bracket THEN EntryFinished ELSE Ahead, "expected new line")
        /\ entry_started' = (entry_started /\ ~bracket)
  /\ UNCHANGED <<calls, not_newline>>

\* The first bracket of each pair is there: they were looked at.
OpenOnce(p) == MustTokenOr(Start(p, "TABLE_HEADER"), "BRACKET_START", "expected [")
OpenTwice(p) ==
  LET open1 == MustTokenOr(Touching(Start(p, "TABLE_ARRAY_HEADER")), "BRACKET_START", "expected [[")
  IN Apart(MustTokenOr(open1, "BRACKET_START", "expected [["))

Header ==
  /\ Looping /\ Sees({"BRACKET_START"})
  /\ ~not_newline
  /\ not_newline' = TRUE
  /\ entry_started' = FALSE
  /\ LET p == Whitelist(EntryFinished, {"NEWLINE"})
         twice == p.at < Len(text) /\ Kind[text[p.at + 1]] = "BRACKET_START"
     IN IF twice THEN CallKey(OpenTwice(p), <<Call("TABLE_ARRAY_HEADER", {"NEWLINE"}, {})>>)
        ELSE CallKey(OpenOnce(p), <<Call("TABLE_HEADER", {"NEWLINE"}, {})>>)

NewLine ==
  /\ Looping /\ Sees({"NEWLINE"})
  /\ not_newline' = FALSE
  /\ entry_started' = FALSE
  /\ parser' = Token(EntryFinished)
  /\ UNCHANGED calls

Entry ==
  /\ Looping /\ SeesBut({"NEWLINE", "BRACKET_START"})
  /\ ~not_newline
  /\ not_newline' = TRUE
  /\ entry_started' = TRUE
  /\ CallEntry(EntryFinished, {"NEWLINE"}, <<>>)

\* The loop ends: the token stream has.
End ==
  /\ whole /\ ~done /\ calls = <<>> /\ ~Ahead.ok
  /\ parser' = Finish(EntryFinished)
  /\ entry_started' = FALSE
  /\ done' = TRUE
  /\ UNCHANGED <<text, whole, calls, not_newline>>

\* parse_key_only: keys of patches, of rewrites and of glob patterns.
KeyOnly ==
  /\ ~whole /\ parser.builder = <<>>
  /\ CallKey(parser, <<>>)
  /\ UNCHANGED <<text, whole, not_newline, entry_started, done>>

KeyOnlyEnd ==
  /\ ~whole /\ ~done /\ calls = <<>> /\ parser.builder # <<>>
  /\ done' = TRUE
  /\ UNCHANGED <<text, whole, parser, calls, not_newline, entry_started>>

Next ==
  \/ KeyPeriod \/ KeyIndex \/ KeyIdent \/ KeyEnd \/ KeyAtEof
  \/ EntryValue \/ EntryEnd \/ ValueEnd
  \/ ArrayEnd \/ ArrayNewLine \/ ArrayComma \/ ArrayItem \/ ArrayAtEof
  \/ InlineEnd \/ InlineBlank \/ InlineComma \/ InlineEntry \/ InlineAtEof
  \/ TableHeaderEnd \/ TableArrayHeaderEnd
  \/ ExpectedNewLine \/ Header \/ NewLine \/ Entry \/ End
  \/ KeyOnly \/ KeyOnlyEnd

Spec == Init /\ [][Next]_vars /\ WF_vars(Next)

-----------------------------------------------------------------------------
(* Properties *)

\* The leaves of the tree are the tokens 1..n: each is there once, whole or as
\* its three parts, in the order of the text.
Printed(b, i) ==
  \/ \E k \in DOMAIN b : b[k].tok = i /\ b[k].part = 0
  \/ \A part \in 1..3 : \E k \in DOMAIN b : b[k].tok = i /\ b[k].part = part
Before(e, f) ==
  \/ e.tok < f.tok
  \/ e.tok = f.tok /\ 0 < e.part /\ e.part < f.part
IsText(b, n) ==
  LET leaves == {k \in DOMAIN b : b[k].event = "token"}
  IN /\ \A k \in leaves : b[k].tok \in 1..n
     /\ \A i \in 1..n : Printed(b, i)
     /\ \A k, l \in leaves : k < l => Before(b[k], b[l])

(* Whatever the text and its errors, in the middle of every construct, the   *)
(* tree holds every token read so far, each once and in the order of the     *)
(* text, but for the one that is looked at, and its root is closed at the    *)
(* end and not before: formatting and rewriting print the tree, and a token  *)
(* that is missing there is lost from the user's file.                       *)
TreeIsTheText ==
  whole =>
    /\ IsText(parser.builder, IF parser.current # 0 THEN parser.at - 1
                              ELSE IF parser.at > Len(text) THEN Len(text)
                              ELSE parser.at)
    /\ done <=> parser.parents = 0
=============================================================================
