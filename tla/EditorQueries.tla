----------------------------- MODULE EditorQueries -----------------------------
(* What the editor asks about a position in a document: the rename and hover of   *)
(* a key, and the links and the outline of the whole text                         *)
(* (crates/taplo-lsp/src/query.rs and handlers/), from the places that the tree   *)
(* of the document (TomlDom) remembers for its keys and nodes.                    *)
(*                                                                              *)
(* A document is typed statement by statement and has no errors. Names, numbers   *)
(* and punctuation are one character each, so that an offset is a number of       *)
(* tokens: the cursor at offset c stands behind token c.                          *)
EXTENDS Naturals, SequencesExt, FiniteSetsExt, TLC

CONSTANTS
    Lines,              \* the statements: [kind, keys, value]
    NewName,            \* the name that keys are renamed to
    MaxLines            \* bound: how many statements a document has

VARIABLES
    lines,              \* the text
    dom,                \* its tree, with the places of keys and nodes
    answer              \* the last request and what was answered

vars == <<lines, dom, answer>>

D == INSTANCE TomlDom WITH
        Keys <- {}, Paths <- {}, Values <- {}, MaxStatements <- 0,
        nodes <- dom.nodes, current <- dom.current, reading <- << >>,
        pc <- "read", walk <- << >>, toml <- << >>

(* SequencesExt's FoldLeft in linear time. *)
Fold(op(_, _), base, seq) ==
    LET acc[i \in 0..Len(seq)] == IF i = 0 THEN base ELSE op(acc[i - 1], seq[i])
    IN acc[Len(seq)]

-------------------------------------------------------------------------------
(* The text. A key is [name, at], at the number of its token. *)
Spread(names, at) ==
    [i \in DOMAIN names |-> [name |-> names[i], at |-> at + 2 * (i - 1)]]

(* A value from token "at" on: {a = 1, b.c = 2} and [1, {a = 1}] without spaces.  *)
RECURSIVE Laid(_, _)
Laid(value, at) ==
    LET EntryAt(acc, e) ==
            LET v == Laid(e.value, acc.next + 2 * Len(e.keys))
            IN [seq |-> Append(acc.seq, [keys |-> Spread(e.keys, acc.next), value |-> v]),
                next |-> v.to + 2]
        ItemAt(acc, item) ==
            LET v == Laid(item, acc.next)
            IN [seq |-> Append(acc.seq, v), next |-> v.to + 2]
        start == [seq |-> << >>, next |-> at + 1]
        inside == CASE value.kind = "inline" -> Fold(EntryAt, start, value.entries)
                    [] value.kind = "list" -> Fold(ItemAt, start, value.items)
                    [] OTHER -> [seq |-> << >>, next |-> at + 1]
    IN [kind |-> value.kind, from |-> at, to |-> inside.next - 1,
        entries |-> IF value.kind = "inline" THEN inside.seq ELSE << >>,
        items |-> IF value.kind = "list" THEN inside.seq ELSE << >>]

(* A statement from token "at" on; the line break follows "to". *)
Brackets == [table |-> 1, tables |-> 2, entry |-> 0]
LaidLine(line, at) ==
    LET keys == Spread(line.keys, at + Brackets[line.kind])
        value == Laid(line.value, Last(keys).at + 2)
    IN [kind |-> line.kind, keys |-> keys, value |-> value, from |-> at,
        to |-> IF line.kind = "entry" THEN value.to
               ELSE Last(keys).at + Brackets[line.kind]]

RECURSIVE KeysOf(_), ScalarsOf(_)
KeysOf(value) ==
    UNION {Range(e.keys) \cup KeysOf(e.value) : e \in Range(value.entries)}
        \cup UNION {KeysOf(v) : v \in Range(value.items)}
ScalarsOf(value) ==
    (IF value.kind = "scalar" THEN {value.from} ELSE {})
        \cup UNION {ScalarsOf(e.value) : e \in Range(value.entries)}
        \cup UNION {ScalarsOf(v) : v \in Range(value.items)}

Idents(text) ==
    {k.at : k \in UNION {Range(l.keys) \cup KeysOf(l.value) : l \in Range(text)}}
Primitives(text) ==
    UNION {ScalarsOf(l.value) : l \in {m \in Range(text) : m.kind = "entry"}}
End(text) == IF text = << >> THEN 0 ELSE Last(text).to + 1

-------------------------------------------------------------------------------
(* Where the tree remembers to stand: syntax gives each node the first and last   *)
(* token of its syntax, keys gives the key of an entry, by table and name, its    *)
(* syntax and its additional ones, and named says what each token really names.   *)
Empty == [nodes |-> <<D!Node("regular", FALSE)>>, current |-> D!Root, section |-> << >>,
          syntax |-> (D!Root :> <<1, 1>>), keys |-> << >>, flat |-> << >>,
          named |-> << >>, merged |-> FALSE]

Placed(d, id, from, to) ==
    IF id \in DOMAIN d.syntax THEN d ELSE [d EXCEPT !.syntax = (id :> <<from, to>>) @@ @]

(* Mutant: only the first place is remembered.                                    *)
OccursFirst(d, table, key, at) ==
    LET entry == <<table, key.name>>
    IN IF entry \in DOMAIN d.keys THEN d
       ELSE [d EXCEPT !.keys = (entry :> {at}) @@ @]

Occurs(d, table, key, at) ==
    LET entry == <<table, key.name>>
        before == IF entry \in DOMAIN d.keys THEN d.keys[entry] ELSE {}
    IN [d EXCEPT !.keys = (entry :> before \cup {at}) @@ @]

(* A walk along keys: the table it has come to and the path that leads there.     *)
StartAt(d, id, path) == [d |-> d, id |-> id, path |-> path]
Named(walk, key) ==
    [walk EXCEPT !.d.named = (key.at :> Append(walk.path, D!Step(key.name))) @@ @]

(* A key of a header: a key that the table has already remembers this place too,  *)
(* and the walk goes on in the last table of an array of tables.                  *)
HeaderKey(walk, key, header) ==
    LET node == D!Get(walk.d.nodes, walk.id, key.name)
        items == walk.d.nodes[node].items
        place(d, id) == IF d.nodes[id].kind = "pseudo" THEN Placed(d, id, key.at, key.at)
                        ELSE Placed(d, id, header.from, header.to)
        seen == Occurs(walk.d, walk.id, key, key.at)
        path == Append(walk.path, D!Step(key.name))
    IN IF D!IsArray(walk.d.nodes, node)
       THEN StartAt(place(place(seen, node), Last(items)), Last(items),
                    Append(path, D!Item(Len(items))))
       ELSE StartAt(place(seen, node), node, path)

(* Key number i of an entry. Where add_entry merges two pseudo tables, the key    *)
(* that is there remembers the key below the one that was merged.                 *)
EntryKey(walk, keys, i) ==
    LET known == <<walk.id, keys[i].name>> \in DOMAIN walk.d.keys
        at == IF known /\ i < Len(keys) THEN keys[i + 1].at ELSE keys[i].at
        node == D!Get(walk.d.nodes, walk.id, keys[i].name)
        occurs == Occurs(walk.d, walk.id, keys[i], at)
        seen == [occurs EXCEPT !.merged = @ \/ at # keys[i].at]
    IN StartAt(IF i < Len(keys) THEN Placed(seen, node, keys[i].at, keys[i].at) ELSE seen,
               node, Append(walk.path, D!Step(keys[i].name)))

RECURSIVE PlaceValue(_, _, _, _), PlaceEntry(_, _, _, _, _)
PlaceEntry(d, table, path, keys, value) ==
    LET walk == Fold(LAMBDA w, i : EntryKey(Named(w, keys[i]), keys, i),
                     StartAt(d, table, path), [i \in DOMAIN keys |-> i])
    IN PlaceValue(walk.d, walk.id, walk.path, value)

PlaceValue(d, id, path, value) ==
    Fold(LAMBDA e, i : PlaceValue(e, e.nodes[id].items[i], Append(path, D!Item(i)),
                                  value.items[i]),
         Fold(LAMBDA e, entry : PlaceEntry(e, id, path, entry.keys, entry.value),
              [Placed(d, id, value.from, value.to) EXCEPT
                !.named = IF value.kind = "scalar" THEN (value.from :> path) @@ @ ELSE @],
              value.entries),
         [i \in DOMAIN value.items |-> i])

(* The nodes that a statement makes (TomlDom), of a value as it is written.       *)
RECURSIVE Written(_, _)
NamesWith(keys, edits) ==
    [i \in DOMAIN keys |-> IF keys[i].at \in edits THEN NewName ELSE keys[i].name]
Written(value, edits) ==
    CASE value.kind = "inline" ->
            [kind |-> "inline",
             entries |-> [i \in DOMAIN value.entries |->
                            [keys |-> NamesWith(value.entries[i].keys, edits),
                             value |-> Written(value.entries[i].value, edits)]]]
      [] value.kind = "list" ->
            [kind |-> "list",
             items |-> [i \in DOMAIN value.items |-> Written(value.items[i], edits)]]
      [] OTHER -> [kind |-> "scalar"]

(* The nodes that a value makes, and the ones that the keys before it make, from  *)
(* a table on.                                                                    *)
RECURSIVE Made(_, _), EntryMade(_, _, _, _)
Made(ns, value) ==
    LET id == Len(ns) + 1
        fresh == Append(ns, D!Node(value.kind, FALSE))
        EntryIn(made, e) == EntryMade(made, id, e.keys, e.value)
        ItemIn(made, item) == D!Push(Made(made, item), id, Len(made) + 1)
    IN CASE value.kind = "inline" -> Fold(EntryIn, fresh, value.entries)
         [] value.kind = "list" -> Fold(ItemIn, fresh, value.items)
         [] OTHER -> fresh
EntryMade(ns, table, keys, value) ==
    LET at == Fold(D!MergeKey, [nodes |-> Made(ns, value), id |-> table], Front(keys))
    IN D!AddEntry(at, Last(keys), Len(ns) + 1)

Into(d, made) == [d EXCEPT !.nodes = made.nodes, !.current = made.id]
Merged(d, line) ==
    LET names == NamesWith(line.keys, {})
        Header(Open(_, _)) ==
            Open(Fold(D!MergeIntermediate, [nodes |-> d.nodes, id |-> D!Root], Front(names)),
                 Last(names))
        value == Written(line.value, {})
    IN Into(d, CASE line.kind = "table" -> Header(D!OpenTable)
                 [] line.kind = "tables" -> Header(D!OpenItem)
                 [] OTHER -> [nodes |-> EntryMade(d.nodes, d.current, names, value),
                              id |-> d.current])

(* flat_iter: the nodes below "id" with their paths, whose last key has "places". *)
RECURSIVE TextRanges(_, _), Flat(_, _, _, _)
TextRanges(d, id) ==
    Range(d.syntax[id])
        \cup UNION {d.keys[<<id, e.key>>] \cup TextRanges(d, e.node) : e \in Range(d.nodes[id].all)}
        \cup UNION {TextRanges(d, item) : item \in Range(d.nodes[id].items)}

Flat(d, id, path, places) ==
    LET Below(step, child, own) ==
            LET to == Append(path, step)
                ranges == own \cup TextRanges(d, child)
            IN <<[path |-> to, node |-> child, places |-> own,
                  from |-> Min(ranges), to |-> Max(ranges)]>> \o Flat(d, child, to, own)
        Next_(acc, below) == acc \o below
        all == d.nodes[id].all
        items == d.nodes[id].items
    IN Fold(Next_, << >>,
            [i \in DOMAIN all |-> Below(D!Step(all[i].key), all[i].node,
                                        d.keys[<<id, all[i].key>>])]
            \o [i \in DOMAIN items |-> Below(D!Item(i), items[i], places)])

Remembered(d, line) ==
    LET In(walk) == [walk.d EXCEPT !.section = walk.path]
    IN IF line.kind = "entry" THEN PlaceEntry(d, d.current, d.section, line.keys, line.value)
       ELSE In(Fold(LAMBDA w, key : HeaderKey(Named(w, key), key, line),
                    StartAt(d, D!Root, << >>), line.keys))
Read(d, line) == Remembered(Merged(d, line), line)

Lay(text, line) == Append(text, LaidLine(line, End(text) + 1))
Flattened(d) == [d EXCEPT !.flat = Flat(d, D!Root, << >>, {})]
TreeOf(text) == Flattened(Fold(Read, Empty, text))

-------------------------------------------------------------------------------
(* query.rs. The cursor is at offset c: token c is before it, token c + 1 after. *)
(* position_info_at: of the nodes around the token the last one of the longest    *)
(* path.                                                                         *)
DomNode(t) ==
    LET covering == {i \in DOMAIN dom.flat : dom.flat[i].from <= t /\ t <= dom.flat[i].to}
        length == Max({Len(dom.flat[i].path) : i \in covering})
    IN IF covering = {} THEN << >>
       ELSE dom.flat[Max({i \in covering : Len(dom.flat[i].path) = length})].path

(* The token before the cursor if it is of a kind, or else the one after; or 0.   *)
TokenAt(c, kinds) == CASE c \in kinds -> c
                       [] c \notin kinds /\ c + 1 \in kinds -> c + 1
                       [] OTHER -> 0

(* header_key: the keys of the header that the token before the cursor is in.     *)
HeaderKeys(c) ==
    UNION {Range(l.keys) : l \in {m \in Range(lines) :
                                    m.kind # "entry" /\ m.from <= c /\ c <= m.to}}

LookupKeys(path) ==
    LET Lookup(acc, step) ==
            LET node == D!IndexInto(acc.node, step)
                length == Len(dom.nodes[node].items)
                keys == Append(acc.keys, step)
            IN [node |-> node,
                keys |-> IF node # 0 /\ D!IsArray(dom.nodes, node)
                         THEN Append(keys, D!Item(IF length = 0 THEN 1 ELSE length))
                         ELSE keys]
    IN Fold(Lookup, [node |-> D!Root, keys |-> << >>], path).keys

(* Mutant: one key too few.                                                       *)
UpToTokenBefore(c, t, path) ==
    LET before == {k \in HeaderKeys(c) : k.at < t}
    IN IF HeaderKeys(c) = {} THEN path
       ELSE LookupKeys(SubSeq(path, 1, Min({Len(path), Cardinality(before)})))

(* Of a header the keys up to the one under the cursor.                           *)
UpToToken(c, t, path) ==
    LET before == {k \in HeaderKeys(c) : k.at <= t}
    IN IF HeaderKeys(c) = {} THEN path
       ELSE LookupKeys(SubSeq(path, 1, Min({Len(path), Cardinality(before)})))

IsItem(path) == path # << >> /\ Last(path)[1] = "item"
RECURSIVE WithoutItems(_)
WithoutItems(path) == IF IsItem(path) THEN WithoutItems(Front(path)) ELSE path

-------------------------------------------------------------------------------
(* Requests. *)
Idle == answer.request = "none"
Ask(request, c, token, keys, places) ==
    /\ answer' = [request |-> request, cursor |-> c, token |-> token,
                  keys |-> keys, places |-> places]
    /\ UNCHANGED <<lines, dom>>

(* find_all_matches without children; names have no characters of globs.          *)
Matches(keys) == {e \in Range(dom.flat) : e.path = keys}

(* Rewrite::add: patches for every place of the last key.                         *)
Patches(keys) == UNION {e.places : e \in {m \in Matches(keys) : ~IsItem(m.path)}}

(* The array itself, not its item. *)
RenameTarget(c, t) ==
    LET keys == UpToToken(c, t, DomNode(t))
    IN IF IsItem(keys) THEN Front(keys) ELSE keys

(* The keys are printed and parsed again: 0.0 is a number with a leading zero.    *)
Unparsable(keys) ==
    \E i \in 1..(Len(keys) - 1) : keys[i] = D!Item(1) /\ keys[i + 1][1] = "item"
Touching(places) == \E p, q \in places : q = p + 1

PrepareRename(c) ==
    LET t == TokenAt(c, Idents(lines))
    IN Idle /\ Ask("prepare", c, t, << >>, {t} \ {0})

Rename(c) ==
    LET t == TokenAt(c, Idents(lines))
        keys == RenameTarget(c, t)
    IN /\ Idle /\ t # 0 /\ DomNode(t) # << >>
       /\ IF Unparsable(keys) \/ Touching(Patches(keys))
          THEN Ask("panic", c, t, keys, {})
          ELSE Ask("rename", c, t, keys, Patches(keys))

Hover(c) ==
    LET t == TokenAt(c, Idents(lines) \cup Primitives(lines))
        keys == UpToToken(c, t, DomNode(t))
    IN /\ Idle /\ t # 0 /\ DomNode(t) # << >>
       /\ D!Path(keys) # 0
       /\ Ask("hover", c, t,
              IF t \in Idents(lines) THEN WithoutItems(LookupKeys(keys)) ELSE keys, {})

(* A schema with a link for every path.                                          *)
Links ==
    Idle /\ Ask("links", 0, 0, << >>,
        {<<e.path, at>> : <<e, at>> \in
            UNION {{e} \X e.places : e \in {m \in Range(dom.flat) : ~IsItem(m.path)}}})

(* Mutant: a symbol is where its own syntax is.                                   *)
SymbolsOfSyntax ==
    {<<e.path, dom.syntax[e.node][1], dom.syntax[e.node][2]>> : e \in Range(dom.flat)}

(* create_symbols: the ranges of values with everything below them.               *)
Symbols ==
    LET ranges(e) == TextRanges(dom, e.node)
    IN {<<e.path, Min(ranges(e)), Max(ranges(e))>> : e \in Range(dom.flat)}

Outline == Idle /\ Ask("outline", 0, 0, << >>, Symbols)

Typed(d) == D!RecordedIn(d.nodes) = {} /\ dom' = Flattened(d)
Type(line) ==
    /\ Len(lines) < MaxLines
    /\ Idle
    /\ lines' = Lay(lines, line)
    /\ Typed(Read(dom, LaidLine(line, End(lines) + 1)))
    /\ UNCHANGED answer

Init ==
    /\ lines = << >>
    /\ dom = Empty
    /\ answer = [request |-> "none", cursor |-> 0, token |-> 0, keys |-> << >>, places |-> {}]

Next ==
    \/ \E line \in Lines : Type(line)
    \/ \E c \in 0..End(lines) : PrepareRename(c) \/ Rename(c) \/ Hover(c)
    \/ Links \/ Outline

Spec == Init /\ [][Next]_vars

-------------------------------------------------------------------------------
(* Properties. Where the code is known to go wrong they say so: "merged" entries,  *)
(* headers below an array of tables, and nodes that others are spread around.     *)
Real(t) == dom.named[t]
Keyed == Idents(lines)

(* Whatever is spread around the token and as deep as what it names is below it.  *)
Apart(t) ==
    \A e \in Range(dom.flat) :
        e.from <= t /\ t <= e.to /\ Len(e.path) >= Len(Real(t)) => IsPrefix(Real(t), e.path)
BelowArray(path) == \E i \in DOMAIN path : path[i][1] = "item"
InHeader(t) == \E l \in Range(lines) : l.kind # "entry" /\ l.from <= t /\ t <= l.to
Plain(t) == ~dom.merged /\ Apart(t) /\ ~(InHeader(t) /\ BelowArray(Real(t)))

Tree(d) == {<<e.path, d.nodes[e.node].kind>> : e \in Range(d.flat)}
Moved(path, target) ==
    IF IsPrefix(target, path) THEN [path EXCEPT ![Len(target)] = D!Step(NewName)] ELSE path
Edited(l, edits) == [kind |-> l.kind, keys |-> NamesWith(l.keys, edits),
                     value |-> Written(l.value, edits)]
Applied(edits) ==
    TreeOf(Fold(Lay, << >>, [i \in DOMAIN lines |-> Edited(lines[i], edits)]))

(* The edits of a rename, applied to the text and read again, give the tree that  *)
(* was there with one key renamed, wherever headers and entries repeat it: no     *)
(* place is forgotten and no other key touched (handlers/rename.rs). A request    *)
(* never panics.                                                                  *)
RenameRenames ==
    answer.request \in {"rename", "panic"} /\ Plain(answer.token) =>
        /\ answer.request = "rename"
        /\ Tree(Applied(answer.places))
            = {<<Moved(n[1], Real(answer.token)), n[2]>> : n \in Tree(dom)}

(* The schemas that hover asks for are those of the key or value under the        *)
(* cursor (handlers/hover.rs); a key below an array is looked up in its items     *)
(* twice, and is left out.                                                        *)
HoverFindsItsKey ==
    answer.request = "hover" /\ Apart(answer.token)
        /\ (answer.token \in Keyed => ~BelowArray(Real(answer.token))) =>
    answer.keys = Real(answer.token)

(* The symbol of a table or array reaches over every place where something in it  *)
(* is named, however its headers are scattered (handlers/document_symbols.rs).    *)
OutlineHoldsItsKeys ==
    answer.request = "outline" =>
        \A t \in Keyed : \A s \in answer.places :
            IsStrictPrefix(s[1], Real(t)) => s[2] <= t /\ t <= s[3]

(* nodes.rs:144: "The same key can appear at multiple positions in a TOML         *)
(* document." The places that a key remembers are those where it is written.      *)
LinksAreExact ==
    answer.request = "links" => answer.places = {<<Real(t), t>> : t \in Keyed}
===============================================================================
