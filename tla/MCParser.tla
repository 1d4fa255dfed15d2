------------------------------ MODULE MCParser ------------------------------
(***************************************************************************)
(* The parser against the grammar of TOML 1.0 (with the line breaks and the *)
(* trailing comma that this parser takes in inline tables), over every      *)
(* short text and over longer texts that are one mistake away from a valid  *)
(* one.                                                                    *)
(***************************************************************************)
EXTENDS Parser, SequencesExt

-----------------------------------------------------------------------------
(* The grammar: for a place in a text, the places where a construct that    *)
(* starts there may end.                                                    *)

KeyTokens == {"id", "str", "lit", "int", "pad", "und", "hex", "hexund",
              "float", "nought", "fpad", "fund", "bool", "date"}
ScalarTokens == {"str", "ml", "lit", "int", "plus", "hex", "float", "nought",
                 "fplus", "bool", "date", "time"}
Blanks == {"ws", "nl", "cm"}

At(s, i) == IF i <= Len(s) THEN s[i] ELSE "end"

\* The places that are reached from i over tokens of S.
Over(s, i, S) == {j \in i..(Len(s) + 1) : \A k \in i..(j - 1) : s[k] \in S}

\* The places behind a token t that is found over blanks of S from i.
Behind(s, i, S, t) == {j + 1 : j \in {k \in Over(s, i, S) : At(s, k) = t}}

RECURSIVE KeyEnds(_, _)
KeyEnds(s, i) ==
  IF At(s, i) \notin KeyTokens THEN {}
  ELSE {i + 1} \cup UNION {KeyEnds(s, k) : k \in
                UNION {Over(s, j, {"ws"}) : j \in Behind(s, i + 1, {"ws"}, "dot")}}

RECURSIVE ValueEnds(_, _), ItemsEnds(_, _, _), PairEnds(_, _)

PairEnds(s, i) ==
  UNION {UNION {ValueEnds(s, m) : m \in Over(s, k, {"ws"})} :
         k \in UNION {Behind(s, j, {"ws"}, "eq") : j \in KeyEnds(s, i)}}

\* Items up to the closing token: values in an array, pairs in a table.
ItemsEnds(s, i, closing) ==
  LET item(j) == IF closing = "close" THEN ValueEnds(s, j) ELSE PairEnds(s, j)
      ends == UNION {item(j) : j \in Over(s, i, Blanks)}
  IN Behind(s, i, Blanks, closing)
     \cup UNION {Behind(s, j, Blanks, closing) : j \in ends}
     \cup UNION {ItemsEnds(s, k, closing) :
                 k \in UNION {Behind(s, j, Blanks, "comma") : j \in ends}}

ValueEnds(s, i) ==
  CASE At(s, i) \in ScalarTokens -> {i + 1}
    [] At(s, i) = "open"   -> ItemsEnds(s, i + 1, "close")
    [] At(s, i) = "lbrace" -> ItemsEnds(s, i + 1, "rbrace")
    [] OTHER -> {}

\* The places behind a key and a closing bracket.
KeyedEnds(s, i) ==
  UNION {Behind(s, k, {"ws"}, "close") :
         k \in UNION {KeyEnds(s, j) : j \in Over(s, i, {"ws"})}}

HeaderEnds(s, i) ==
  IF At(s, i) # "open" THEN {}
  ELSE IF At(s, i + 1) = "open"
  THEN {j + 1 : j \in {k \in KeyedEnds(s, i + 2) : At(s, k) = "close"}}
  ELSE KeyedEnds(s, i + 1)

\* A line is blank, a header or a pair, with a comment behind it.
LineEnds(s, i) ==
  LET bodies == UNION {{j} \cup HeaderEnds(s, j) \cup PairEnds(s, j) :
                       j \in Over(s, i, {"ws"})}
  IN UNION {LET j == Over(s, k, {"ws"}) IN j \cup {m + 1 : m \in
            {n \in j : At(s, n) = "cm"}} : k \in bodies}

RECURSIVE DocumentFrom(_, _)
DocumentFrom(s, i) ==
  \E j \in LineEnds(s, i) :
    \/ j = Len(s) + 1
    \/ At(s, j) = "nl" /\ DocumentFrom(s, j + 1)

ValidToml(s) == DocumentFrom(s, 1)

-----------------------------------------------------------------------------
(* The texts *)

\* The lexer joins neighbours of these sorts into one token, and a comment
\* reaches to the end of its line.
Words == KeyTokens \cup ScalarTokens \cup {"glob", "plus", "fplus"}
Lexable(s) ==
  \A i \in 1..(Len(s) - 1) :
    /\ s[i] \in {"ws", "nl"} => s[i + 1] # s[i]
    /\ s[i] \in {"cm", "cmx"} => s[i + 1] = "nl"
    /\ ~(s[i] \in Words /\ s[i + 1] \in Words)

Alphabet == {"ws", "nl", "cm", "id", "int", "dot", "comma", "eq", "open",
             "close", "lbrace", "rbrace"}
Rare == {"cmx", "glob", "str", "strx", "mlx", "lit", "plus", "pad", "und", "hexund",
         "float", "nought", "fpad", "fund", "bool", "date", "err"}

Short == UNION {[1..n -> Alphabet] : n \in 0..4}

Seeds ==
  { <<"id", "ws", "eq", "ws", "int", "nl", "id", "ws", "eq", "ws", "str">>,
    <<"open", "id", "close", "ws", "cm", "nl", "id", "eq", "int">>,
    <<"open", "open", "id", "close", "close", "nl", "id", "ws", "eq", "int">>,
    <<"open", "open", "id", "dot", "id", "ws", "close", "close", "nl", "id", "ws", "eq", "int">>,
    <<"id", "eq", "open", "int", "comma", "nl", "int", "comma", "close">>,
    <<"id", "eq", "open", "open", "int", "close", "close", "nl", "id", "eq", "int">>,
    <<"id", "eq", "lbrace", "id", "eq", "int", "comma", "ws", "id", "eq", "int", "rbrace">>,
    <<"id", "eq", "lbrace", "id", "eq", "open", "close", "rbrace", "nl", "id", "eq", "int">>,
    <<"id", "ws", "dot", "float", "eq", "fplus">>,
    <<"nl", "id", "eq", "bool", "cm", "nl", "open", "int", "close">>,
    <<"glob", "dot", "id", "open", "int", "close", "dot", "id">> }

\* Texts that are one insertion, deletion or replacement away from s.
Edits(s) ==
  {InsertAt(s, i, t) : i \in 1..(Len(s) + 1), t \in Alphabet \cup Rare}
  \cup {RemoveAt(s, i) : i \in DOMAIN s}
  \cup {[s EXCEPT ![i] = t] : i \in DOMAIN s, t \in Alphabet \cup Rare}

MCTexts == {s \in Short \cup Seeds \cup UNION {Edits(s) : s \in Seeds} : Lexable(s)}

-----------------------------------------------------------------------------
(* Properties *)

\* A key pattern: names, globs among them, with periods between them, or
\* brackets around all but the first.  The parser is more lenient in two ways,
\* which are part of this: a period in front of a bracket, and no closing
\* bracket at the end of the text.
RECURSIVE PatternEnds(_, _)
PatternEnds(s, i) ==
  LET space == {"ws", "cm"}
      name(j) == IF At(s, j) \in (KeyTokens \ {"nought", "fpad"}) \cup {"glob"}
                 THEN Over(s, j + 1, space) ELSE {}
      closed(j) == Behind(s, j, {}, "close") \cup ({j} \cap {Len(s) + 1})
      dots(j) == UNION {Over(s, k, space) : k \in Behind(s, j, {}, "dot")}
      index(j) == UNION {UNION {UNION {Over(s, m, space) : m \in closed(k)} :
                                k \in UNION {name(n) : n \in Over(s, b, space)}} :
                         b \in Behind(s, j, {}, "open")}
      more(j) == UNION {name(k) \cup index(k) : k \in dots(j)} \cup index(j)
      RECURSIVE from(_)
      from(j) == {j} \cup UNION {from(k) : k \in more(j)}
  IN UNION {from(j) : j \in name(i)}
KeyPattern(s) == \E i \in Over(s, 1, {"ws"}) : Len(s) + 1 \in PatternEnds(s, i)

(* The errors are exact: what the grammar derives has none (README.md:11: "a  *)
(* TOML v1.0.0 toolkit"), what it does not has some (parser/mod.rs:34-36:     *)
(* "errors will be collected ... the invalid token(s)").                      *)

\* Where they are not: space behind the brackets of [[ a ]]; a dotted key of
\* digits with a zero in front; and [[a] at the end of the text.
SpacedHeader == \E i \in 1..(Len(text) - 2) :
  text[i] = "open" /\ text[i + 1] = "open" /\ text[i + 2] = "ws"
ZeroKey == \E i \in DOMAIN text : text[i] \in {"nought", "fpad"}
HalfHeader == \E i \in 1..(Len(text) - 1) :
  /\ text[i] = "open" /\ text[i + 1] = "open"
  /\ \E k \in KeyedEnds(text, i + 2) : Len(text) + 1 \in Over(text, k, {"cm"})

(* Away from these three, whatever is not derived by the grammar, in whatever *)
(* way it is wrong, has an error: no recovery swallows it silently, and no    *)
(* rewrite is made at half a key (parse_key_only).                            *)
InvalidIsReported ==
  done /\ parser.errors = {} =>
    IF whole THEN HalfHeader \/ ValidToml(text) ELSE KeyPattern(text)

(* And what is derived has none: no context left over from the lines above    *)
(* (skipped spaces, the whitelist, the missing line break) spoils it.         *)
ValidIsAccepted ==
  /\ done /\ whole /\ ValidToml(text) /\ ~SpacedHeader /\ ~ZeroKey => parser.errors = {}
  /\ done /\ ~whole /\ KeyPattern(text) => parser.errors = {}

\* The text from behind its last line break.
LastLine ==
  LET breaks == {i \in DOMAIN text : text[i] = "nl"}
  IN IF breaks = {} THEN text
     ELSE SubSeq(text, 1 + CHOOSE i \in breaks : \A j \in breaks : j <= i, Len(text))

\* No bracket is open above the last line, and no header is there either: a
\* mistake in a header may take the line break with it.
NothingOpen ==
  \A i \in DOMAIN text : text[i] \in {"open", "lbrace"} => i > Len(text) - Len(LastLine)

(* A mistake in an entry does not spoil the next line: what is valid on its  *)
(* own has no error below lines with errors.                                 *)
NextLineParses ==
  done /\ whole /\ NothingOpen /\ ValidToml(LastLine) /\ ~SpacedHeader /\ ~ZeroKey =>
    \A e \in parser.errors : e.range[1] <= Len(text) - Len(LastLine)
=============================================================================
