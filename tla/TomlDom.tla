-------------------------------- MODULE TomlDom --------------------------------
(* The tree that taplo builds from the statements of a document, from           *)
(* src/crates/taplo/src/dom: headers, headers of arrays of tables and entries    *)
(* with dotted keys are merged one after the other into the tables before them,  *)
(* and what does not fit is an error on a node of the tree.                      *)
(*                                                                              *)
(* Nodes are shared references in the code; here they are indexes of a sequence. *)
(* A step is one key of a header or of an entry, or one part of a value. Beside  *)
(* the tree the module keeps what TOML says of the same text: which paths are    *)
(* defined, how, and whether the document is still a valid one.                  *)
EXTENDS Naturals, Sequences

CONSTANTS
    Keys,               \* the names of keys
    Paths,              \* the dotted keys of headers and entries
    Values,             \* the values of entries, with all that are parts of others
    MaxStatements       \* bound: how many statements a document has

Dotted == Seq(Keys) \ {<< >>}

ASSUME PathsAssumption == Paths \subseteq Dotted

(* A value is a scalar, an inline table of entries or a list of items. *)
ASSUME ValuesAssumption ==
    \A v \in Values :
        /\ v.kind \in {"scalar", "inline", "list"}
        /\ v.kind = "inline" => v.entries \in Seq([keys : Dotted, value : Values])
        /\ v.kind = "list" => v.items \in Seq(Values)

VARIABLES
    nodes,              \* the nodes made so far, the root first
    current,            \* the table that entries go to
    reading,            \* the values that are being read, the document first
    pc,                 \* "read", or whose keys are walked: "table", "tables", "entry"
    walk,               \* the table that they have come to, and the keys left
    toml                \* TOML: the verdict and what is defined

tree == <<nodes, current>>
vars == <<tree, reading, pc, walk, toml>>

Root == 1
Tables == {"regular", "inline", "pseudo"}
Arrays == {"tables", "list"}

NoKeys == [k \in {} |-> Root]

(* TableInner and ArrayInner. "list" is an array that is a value. A table is     *)
(* "pseudo" when no header of its own made it, and header says whether a header  *)
(* or a dotted key of an entry needed it. Of the entries, all keeps every one    *)
(* and lookup the last one of each key.                                          *)
Node(kind, header) ==
    [kind |-> kind, header |-> header, all |-> << >>, lookup |-> NoKeys,
     items |-> << >>, errors |-> {}]

IsTable(ns, id) == ns[id].kind \in Tables
IsArray(ns, id) == ns[id].kind \in Arrays

Report(ns, id, error) == [ns EXCEPT ![id].errors = @ \cup {error}]

-------------------------------------------------------------------------------
(* Entries and items. *)
Has(ns, t, k) == k \in DOMAIN ns[t].lookup
Get(ns, t, k) == ns[t].lookup[k]

Bind(lookup, k, id) ==
    [x \in DOMAIN lookup \cup {k} |-> IF x = k THEN id ELSE lookup[x]]
Add(ns, t, k, id) ==
    [ns EXCEPT ![t].all = Append(@, [key |-> k, node |-> id]), ![t].lookup = Bind(@, k, id)]
Push(ns, a, id) == [ns EXCEPT ![a].items = Append(@, id)]

(* "at" is the nodes and the table that keys have come to. *)
Created(at, k, node) ==
    [nodes |-> Add(Append(at.nodes, node), at.id, k, Len(at.nodes) + 1),
     id |-> Len(at.nodes) + 1]

Reported(at, error) == [at EXCEPT !.nodes = Report(@, at.id, error)]

-------------------------------------------------------------------------------
(* Keys of entries. The pseudo tables that entry_from_syntax puts around a value *)
(* have one entry each, so that where add_entry merges two of them, it goes on   *)
(* with the next key in the table that is there. Any other entry of a key that   *)
(* the table has is an error, and replaces the one before in lookup.             *)
MergeKey(at, k) ==
    CASE ~Has(at.nodes, at.id, k) -> Created(at, k, Node("pseudo", FALSE))
      [] Has(at.nodes, at.id, k) /\ at.nodes[Get(at.nodes, at.id, k)].kind = "pseudo" ->
            [at EXCEPT !.id = Get(at.nodes, at.id, k)]
      [] OTHER -> Created(Reported(at, "ConflictingKeys"), k, Node("pseudo", FALSE))

(* Mutant: an entry of a key that the table has is no error. *)
AddUnseen(at, k, id) == Add(at.nodes, at.id, k, id)

(* add_entry with the value itself, which is no pseudo table. *)
AddEntry(at, k, id) ==
    Add(IF Has(at.nodes, at.id, k) THEN Reported(at, "ConflictingKeys").nodes ELSE at.nodes,
        at.id, k, id)

-------------------------------------------------------------------------------
(* Keys of headers. *)
MergeTable(at, existing) ==
    [nodes |-> IF at.nodes[existing].kind = "inline"
               THEN Report(at.nodes, existing, "ExpectedTable")
               ELSE at.nodes,
     id |-> existing]

PushNew(ns, a, node) == Push(Append(ns, node), a, Len(ns) + 1)

(* Mutant: a header extends the first table of an array of tables. *)
MergeFirst(at, existing) ==
    LET items == at.nodes[existing].items
    IN IF items # << >> /\ IsTable(at.nodes, Head(items))
       THEN [at EXCEPT !.id = Head(items)]
       ELSE [nodes |-> PushNew(at.nodes, existing, Node("pseudo", TRUE)),
             id |-> Len(at.nodes) + 1]

(* The last table of an array of tables is the one that a header extends. *)
MergeArray(at, existing) ==
    LET ns == IF at.nodes[existing].kind # "tables"
              THEN Report(at.nodes, existing, "ExpectedArrayOfTables")
              ELSE at.nodes
        items == ns[existing].items
    IN IF items # << >> /\ IsTable(ns, items[Len(items)])
       THEN [nodes |-> ns, id |-> items[Len(items)]]
       ELSE [nodes |-> PushNew(ns, existing, Node("pseudo", TRUE)), id |-> Len(ns) + 1]

(* merge_intermediate: a key of a header that is not the last one. *)
MergeIntermediate(at, k) ==
    LET existing == Get(at.nodes, at.id, k)
    IN CASE ~Has(at.nodes, at.id, k) -> Created(at, k, Node("pseudo", TRUE))
         [] Has(at.nodes, at.id, k) /\ IsTable(at.nodes, existing) -> MergeTable(at, existing)
         [] Has(at.nodes, at.id, k) /\ IsArray(at.nodes, existing) -> MergeArray(at, existing)
         [] OTHER -> Created(Reported(at, "ExpectedTable"), k, Node("pseudo", TRUE))

(* Mutant: a header may open a table that a dotted key made. *)
OpenPseudo(at, k) ==
    LET existing == Get(at.nodes, at.id, k)
    IN CASE ~Has(at.nodes, at.id, k) -> Created(at, k, Node("regular", TRUE))
         [] Has(at.nodes, at.id, k) /\ at.nodes[existing].kind = "pseudo" ->
                [at EXCEPT !.id = existing]
         [] OTHER -> Reported(at, "ConflictingKeys")

(* The last key of a table's header. What is there and is not a table leaves the *)
(* entries that follow in the parent.                                            *)
OpenTable(at, k) ==
    LET existing == Get(at.nodes, at.id, k)
        implied == at.nodes[existing].kind = "pseudo" /\ at.nodes[existing].header
    IN CASE ~Has(at.nodes, at.id, k) -> Created(at, k, Node("regular", TRUE))
         [] Has(at.nodes, at.id, k) /\ IsTable(at.nodes, existing) ->
                [nodes |-> IF implied THEN at.nodes
                           ELSE Report(at.nodes, existing, "ConflictingKeys"),
                 id |-> existing]
         [] OTHER -> Reported(at, "ConflictingKeys")

(* Mutant: the first header of an array makes the array and no table in it. *)
OpenEmpty(at, k) ==
    IF Has(at.nodes, at.id, k) /\ IsArray(at.nodes, Get(at.nodes, at.id, k))
    THEN [nodes |-> PushNew(at.nodes, Get(at.nodes, at.id, k), Node("regular", TRUE)),
          id |-> Len(at.nodes) + 1]
    ELSE [at EXCEPT !.nodes = Created(at, k, Node("tables", FALSE)).nodes]

(* The last key of the header of an array of tables. *)
OpenItem(at, k) ==
    LET fresh == Created(at, k, Node("tables", FALSE))
        array == IF Has(at.nodes, at.id, k) THEN Get(at.nodes, at.id, k) ELSE fresh.id
        before == IF Has(at.nodes, at.id, k) THEN at.nodes ELSE fresh.nodes
        ns == IF before[array].kind = "tables" THEN before
              ELSE Report(before, array, "ExpectedArrayOfTables")
    IN IF IsArray(ns, array)
       THEN [nodes |-> PushNew(ns, array, Node("regular", TRUE)), id |-> Len(ns) + 1]
       ELSE [at EXCEPT !.nodes = ns]

-------------------------------------------------------------------------------
(* What TOML says. A path has keys and, behind an array, the number of an item.  *)
(* A path is defined as a "table" by its own header, "super" by the header of a  *)
(* table below it, "reopened" by its own header after that, "dotted" by an       *)
(* entry, as an "array" of so many tables, or as a value of some kind. What is   *)
(* defined in a value that is being read is kept by itself, until it is clear    *)
(* that the value may stand where its keys say.                                  *)
Step(k) == <<"key", k>>
Item(n) == <<"item", n>>
Steps(keys) == [i \in 1..Len(keys) |-> Step(keys[i])]

Def(how) == [how |-> how, tables |-> 0]
Define(defined, p, definition) ==
    [q \in DOMAIN defined \cup {p} |-> IF q = p THEN definition ELSE defined[q]]
Join(defined, inner) ==
    [q \in DOMAIN defined \cup DOMAIN inner |->
        IF q \in DOMAIN inner THEN inner[q] ELSE defined[q]]

Status(defined, p) == IF p \in DOMAIN defined THEN defined[p].how ELSE "undefined"

(* Into the last item of an array of tables. *)
Into(defined, p) ==
    IF Status(defined, p) = "array" THEN Append(p, Item(defined[p].tables)) ELSE p

(* From the first fault on nothing is compared any more. *)
Rejected == [verdict |-> "invalid", known |-> << >>, section |-> << >>, place |-> << >>]

(* TOML allows what has a fine status; taplo means to be lenient with others. *)
Rule(status, fine, lenient, next) ==
    toml' = CASE toml.verdict = "invalid" -> Rejected
              [] toml.verdict # "invalid" /\ status \in fine -> next
              [] toml.verdict # "invalid" /\ status \in lenient \ fine ->
                    [next EXCEPT !.verdict = "tolerated"]
              [] OTHER -> Rejected

(* Where the definitions stop, nothing below can be defined. *)
Headed == {"undefined", "table", "super", "reopened", "dotted", "array"}

RuleHeaderKey(k) ==
    LET defined == toml.known[1].defined
        p == Append(toml.place, Step(k))
        more == IF p \in DOMAIN defined THEN defined ELSE Define(defined, p, Def("super"))
    IN Rule(Status(defined, p), Headed, {},
            [toml EXCEPT !.known[1].defined = more, !.place = Into(defined, p)])

RuleTable(k) ==
    LET defined == toml.known[1].defined
        p == Append(toml.place, Step(k))
        how == IF p \in DOMAIN defined THEN "reopened" ELSE "table"
    IN Rule(Status(defined, p), {"undefined", "super"}, {"reopened"},
            [toml EXCEPT !.known[1].defined = Define(@, p, Def(how)), !.section = p])

RuleItem(k) ==
    LET defined == toml.known[1].defined
        p == Append(toml.place, Step(k))
        n == IF p \in DOMAIN defined THEN defined[p].tables + 1 ELSE 1
        item == Append(p, Item(n))
    IN Rule(Status(defined, p), {"undefined", "array"}, {},
            [toml EXCEPT
                !.known[1].defined =
                    Define(Define(@, p, [how |-> "array", tables |-> n]), item, Def("table")),
                !.section = item])

(* Where the entries go of the table that is the i-th value, or of the document. *)
Below(i) == IF i = 1 THEN toml.section ELSE toml.known[i].path

RuleValue(keys, value) ==
    LET n == Len(reading)
        p == IF keys = << >> THEN Append(toml.known[n].path, Item(reading[n].next))
             ELSE Below(n) \o Steps(keys)
    IN toml' = IF toml.verdict = "invalid" THEN toml
               ELSE [toml EXCEPT !.known =
                        Append(@, [path |-> p, defined |-> [q \in {p} |-> Def(value.kind)]])]

RuleEntryKey(k) ==
    LET n == Len(reading) - 1
        defined == toml.known[n].defined
        p == Append(toml.place, Step(k))
        more == IF p \in DOMAIN defined THEN defined ELSE Define(defined, p, Def("dotted"))
    IN Rule(Status(defined, p), {"undefined", "dotted"}, {"super", "reopened"},
            [toml EXCEPT !.known[n].defined = more, !.place = p])

(* The definitions with those of the value that was read last. *)
Taken ==
    LET n == Len(reading) - 1
        all == [toml.known EXCEPT ![n].defined = Join(@, toml.known[n + 1].defined)]
    IN [toml EXCEPT !.known = SubSeq(all, 1, n)]

RuleEntry(k) ==
    LET n == Len(reading) - 1
    IN Rule(Status(toml.known[n].defined, Append(toml.place, Step(k))), {"undefined"}, {}, Taken)

-------------------------------------------------------------------------------
(* Statements and values. *)
Here == [nodes |-> nodes, id |-> walk.id]
Nowhere == [id |-> Root, keys |-> << >>]

Top == reading[Len(reading)]
Next_(stack) == [stack EXCEPT ![Len(stack)].next = @ + 1]
Holders == SubSeq(reading, 1, Len(reading) - 1)

BetweenStatements == pc = "read" /\ Len(reading) = 1
Statement == BetweenStatements /\ Top.next <= MaxStatements

(* A header starts from the root again. *)
Header(kind, path) ==
    /\ Statement
    /\ pc' = kind
    /\ walk' = [id |-> Root, keys |-> path]
    /\ toml' = [toml EXCEPT !.place = << >>]
    /\ UNCHANGED <<tree, reading>>

WalkTo(at) == nodes' = at.nodes /\ walk' = [id |-> at.id, keys |-> Tail(walk.keys)]

HeaderKey ==
    /\ pc \in {"table", "tables"} /\ Len(walk.keys) > 1
    /\ WalkTo(MergeIntermediate(Here, walk.keys[1]))
    /\ RuleHeaderKey(walk.keys[1])
    /\ UNCHANGED <<current, reading, pc>>

Open(at) ==
    /\ nodes' = at.nodes /\ current' = at.id
    /\ pc' = "read" /\ walk' = Nowhere /\ reading' = Next_(reading)

TableHeader ==
    /\ pc = "table" /\ Len(walk.keys) = 1
    /\ Open(OpenTable(Here, walk.keys[1]))
    /\ RuleTable(walk.keys[1])

TableArrayHeader ==
    /\ pc = "tables" /\ Len(walk.keys) = 1
    /\ Open(OpenItem(Here, walk.keys[1]))
    /\ RuleItem(walk.keys[1])

(* Node::from_syntax: a new node, and then its parts. *)
Begin(keys, value) ==
    /\ nodes' = Append(nodes, Node(value.kind, FALSE))
    /\ reading' = Append(reading, [id |-> Len(nodes) + 1, value |-> value,
                                   keys |-> keys, next |-> 1])
    /\ RuleValue(keys, value)
    /\ UNCHANGED <<current, pc, walk>>

Entry(path, value) == Statement /\ Begin(path, value)

InlineEntry ==
    /\ pc = "read" /\ Top.value.kind = "inline" /\ Top.next <= Len(Top.value.entries)
    /\ LET entry == Top.value.entries[Top.next] IN Begin(entry.keys, entry.value)

ListItem ==
    /\ pc = "read" /\ Top.value.kind = "list" /\ Top.next <= Len(Top.value.items)
    /\ Begin(<< >>, Top.value.items[Top.next])

Complete ==
    /\ pc = "read"
    /\ CASE Top.value.kind = "scalar" -> TRUE
         [] Top.value.kind = "inline" -> Top.next > Len(Top.value.entries)
         [] Top.value.kind = "list" -> Top.next > Len(Top.value.items)
         [] OTHER -> FALSE

(* An item goes to the end of its list. *)
PushItem ==
    /\ Complete /\ Top.keys = << >>
    /\ nodes' = Push(nodes, reading[Len(reading) - 1].id, Top.id)
    /\ reading' = Next_(Holders)
    /\ toml' = IF toml.verdict = "invalid" THEN toml ELSE Taken
    /\ UNCHANGED <<current, pc, walk>>

(* A value with keys goes along them, from the table that its entry is in. *)
EntryKeys ==
    /\ Complete /\ Top.keys # << >>
    /\ pc' = "entry"
    /\ LET n == Len(reading) - 1
       IN /\ walk' = [id |-> IF n = 1 THEN current ELSE reading[n].id, keys |-> Top.keys]
          /\ toml' = IF toml.verdict = "invalid" THEN toml
                     ELSE [toml EXCEPT !.place = Below(n)]
    /\ UNCHANGED <<tree, reading>>

EntryKey ==
    /\ pc = "entry" /\ Len(walk.keys) > 1
    /\ WalkTo(MergeKey(Here, walk.keys[1]))
    /\ RuleEntryKey(walk.keys[1])
    /\ UNCHANGED <<current, reading, pc>>

EntryValue ==
    /\ pc = "entry" /\ Len(walk.keys) = 1
    /\ nodes' = AddEntry(Here, walk.keys[1], Top.id)
    /\ reading' = Next_(Holders)
    /\ pc' = "read" /\ walk' = Nowhere
    /\ RuleEntry(walk.keys[1])
    /\ UNCHANGED current

Document == [id |-> Root, value |-> [kind |-> "document"], keys |-> << >>, next |-> 1]

Init ==
    /\ nodes = <<Node("regular", FALSE)>>
    /\ current = Root
    /\ reading = <<Document>>
    /\ pc = "read"
    /\ walk = Nowhere
    /\ toml = [verdict |-> "valid", section |-> << >>, place |-> << >>,
               known |-> <<[path |-> << >>, defined |-> [p \in {<< >>} |-> Def("table")]]>>]

Next ==
    \/ \E path \in Paths : Header("table", path) \/ Header("tables", path)
    \/ \E path \in Paths, value \in Values : Entry(path, value)
    \/ HeaderKey \/ TableHeader \/ TableArrayHeader
    \/ InlineEntry \/ ListItem \/ PushItem
    \/ EntryKeys \/ EntryKey \/ EntryValue

Spec == Init /\ [][Next]_vars

-------------------------------------------------------------------------------
(* Readers of the tree. *)
(* collect_flat: the entries and the items of a node, behind its path. *)
Children(ns, e) ==
    {[path |-> Append(e.path, Step(ns[e.node].all[i].key)), node |-> ns[e.node].all[i].node] :
        i \in 1..Len(ns[e.node].all)}
    \cup {[path |-> Append(e.path, Item(i)), node |-> ns[e.node].items[i]] :
        i \in 1..Len(ns[e.node].items)}

(* flat_iter: every node below the root with its path, level by level; the order *)
(* of the listing is left out. No node is deeper than there are nodes.           *)
Listing(ns) ==
    LET upTo[d \in 0..Len(ns)] ==
            IF d = 0 THEN [found |-> {}, last |-> {[path |-> << >>, node |-> Root]}]
            ELSE LET above == upTo[d - 1]
                     level == UNION {Children(ns, e) : e \in above.last}
                 IN [found |-> above.found \cup level, last |-> level]
    IN upTo
FlatIter(ns) == Listing(ns)[Len(ns)].found

(* path: one index into a node after the other; 0 is an invalid node. *)
IndexInto(id, step) ==
    CASE id # 0 /\ step[1] = "key" /\ IsTable(nodes, id) /\ Has(nodes, id, step[2]) ->
            Get(nodes, id, step[2])
      [] id # 0 /\ step[1] = "item" /\ IsArray(nodes, id)
            /\ step[2] \in 1..Len(nodes[id].items) ->
            nodes[id].items[step[2]]
      [] OTHER -> 0
Path(path) ==
    LET to[i \in 0..Len(path)] == IF i = 0 THEN Root ELSE IndexInto(to[i - 1], path[i])
    IN to[Len(path)]

RecordedIn(ns) == ns[Root].errors \cup UNION {ns[e.node].errors : e \in FlatIter(ns)}
Recorded == RecordedIn(nodes)

-------------------------------------------------------------------------------
(* Properties. *)
(* A document that TOML allows has no error anywhere in its tree, whatever the   *)
(* order of its headers and entries: root_from_syntax rejects nothing legal.     *)
(* Nor has one with only the two faults that .github/workflows/ci.yaml:68 takes  *)
(* out of toml-test: a table with a header of its own again after a table below  *)
(* it had one (super-twice), and an entry with a dotted key into a table that a  *)
(* header implied (append-with-dotted-keys).                                     *)
ValidIsAccepted == toml.verdict # "invalid" /\ BetweenStatements => Recorded = {}

(* A document that TOML forbids for any other reason has an error in its tree.   *)
InvalidIsRecorded == toml.verdict = "invalid" /\ BetweenStatements => Recorded # {}

(* The tree of a valid document is the one TOML describes: the same paths, with  *)
(* tables, arrays of tables and values where TOML has them. A merge in           *)
(* merge_intermediate or add_entry that loses or moves a table would break it.   *)
TreeIsTheDocument ==
    LET defined == toml.known[1].defined
        kinds(how) == CASE how \in {"super", "dotted", "reopened"} -> "pseudo"
                        [] how = "table" -> "regular"
                        [] how = "array" -> "tables"
                        [] OTHER -> how
    IN toml.verdict # "invalid" /\ BetweenStatements =>
        /\ DOMAIN defined = {<< >>} \cup {e.path : e \in FlatIter(nodes)}
        /\ \A e \in FlatIter(nodes) : nodes[e.node].kind = kinds(defined[e.path].how)

(* Without errors, flat_iter and path agree: the path that flat_iter gives a     *)
(* node leads to that node, although the one reads "all" and the other "lookup". *)
PathsLeadBack ==
    BetweenStatements /\ Recorded = {} =>
        \A e \in FlatIter(nodes) : Path(e.path) = e.node

===============================================================================
