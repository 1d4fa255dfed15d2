------------------------- MODULE MCSchemaTraversal -------------------------
(* SchemaTraversal on schemas put together from small parts, each asked about *)
(* every position of every small document.                                    *)
EXTENDS SchemaTraversal

X == Str("x")
Y == Str("y")
One(k, s) == k :> s
Leaf(seq) == One("enum", Arr(seq))
P(k, s) == One("properties", One(k, s))
Frag(ptr) == [path |-> <<>>, ptr |-> ptr, anchor |-> ""]
Ref(r) == One("ref", r)

MCRootPath == <<"/", "s", "root">>
MCLibrary == (<<"/", "s", "defs", "lib">> :>
                [properties |-> [a |-> Ref(Frag(<<"defs", "v">>)), c |-> Leaf(<<X, Y>>)],
                 defs |-> [v |-> Leaf(<<X>>),
                           m |-> One("anchor", Str("mark")) @@ P("a", Ref(Frag(<<"defs", "v">>)))]])
MCPattern(p, k) == <<p, k>> \in {<<"[ac]", "a">>, <<"[ac]", "c">>}
MCIndices == ("0" :> 0) @@ ("1" :> 1) @@ ("2" :> 2)

Lib(ptr) == [path |-> <<"defs", "lib">>, ptr |-> ptr, anchor |-> ""]
Parts ==
  {P("a", Leaf(<<X>>)), P("a", Leaf(<<X, Y>>)), P("c", Leaf(<<Y>>)),
   One("required", Arr(<<Str("a")>>)),
   One("patternProperties", One("[ac]", Leaf(<<X>>))),
   One("additionalProperties", Leaf(<<X>>)),
   P("a", Leaf(<<Y>>)) @@ One("additionalProperties", Leaf(<<X>>)),
   P("a", Leaf(<<X>>)) @@ One("additionalProperties", Bool(FALSE)),
   Ref(Frag(<<"defs", "d">>)), Ref(Lib(<<>>)),
   One("id", [path |-> <<"defs", "">>, ptr |-> <<>>, anchor |-> ""])
     @@ P("a", Ref([path |-> <<"lib">>, ptr |-> <<"properties", "a">>, anchor |-> ""])),
   Ref([path |-> <<"embedded">>, ptr |-> <<>>, anchor |-> ""]),
   Ref([path |-> <<"defs", "lib">>, ptr |-> <<>>, anchor |-> "mark"])}

\* Where merging the members of an allOf loses what one of them says,
\* which is left out.
Closes(p) == Has(p, "additionalProperties")
Indirect(p) == Has(p, "id") \/ Has(p, "ref")
Lost(p, q) == p # q /\ (Closes(p) \/ Closes(q) \/ Indirect(p) \/ Indirect(q))

AllOf(p, q) == {One("allOf", Arr(<<p, q>>)), q @@ One("allOf", Arr(<<p>>))}
Joined(p, q) ==
  {One("oneOf", Arr(<<p, q>>)),
   One("if", p) @@ One("then", q), One("if", p) @@ One("else", q),
   One("dependentSchemas", One("c", q)) @@ p,
   One("anyOf", Arr(<<p, q>>)) @@ One("unevaluatedProperties", Leaf(<<Y>>))}
Cyclic ==
  {One("allOf", Arr(<<Ref(Frag(<<>>)), P("a", Leaf(<<X>>))>>)),
   One("anyOf", Arr(<<Ref(Frag(<<>>)), P("a", Leaf(<<X>>))>>)),
   P("a", Leaf(<<X>>)) @@ P("b", Ref(Frag(<<>>))),
   Ref(Frag(<<"defs", "d">>)) @@ One("required", Arr(<<Str("a")>>)),
   One("if", Ref(Frag(<<>>))) @@ One("then", P("a", Leaf(<<X>>)))}
Missing == Ref([path |-> <<"missing">>, ptr |-> <<>>, anchor |-> ""])
Broken ==
  {One("anyOf", Arr(<<Missing, P("a", Leaf(<<X>>))>>)), P("a", Missing),
   One("if", Missing) @@ One("then", P("a", Leaf(<<X>>))) @@ One("else", P("a", Leaf(<<Y>>)))}
Defs == [defs |-> [d |-> P("a", Leaf(<<X>>)),
                   e |-> One("id", [path |-> <<"embedded">>, ptr |-> <<>>, anchor |-> ""])
                           @@ P("c", Ref(Frag(<<"defs", "f">>)))
                           @@ [defs |-> [f |-> Leaf(<<X>>)]]]]
Roots ==
  {r @@ Defs : r \in
     Parts \cup Cyclic \cup Broken
       \cup UNION {Joined(p, q) \cup (IF Lost(p, q) THEN {} ELSE AllOf(p, q)) :
                     p \in Parts, q \in Parts}}
Objects == {<<>>} \cup {One("a", v) : v \in {X, Y}} \cup {One("c", v) : v \in {X, Y}}
             \cup {One("a", v) @@ One("c", w) : v \in {X, Y}, w \in {X, Y}}

Lists ==
  {One("items", Leaf(<<X>>)),
   One("prefixItems", Arr(<<Leaf(<<X>>)>>)) @@ One("items", Leaf(<<Y>>)),
   One("items", Arr(<<Leaf(<<X>>)>>)) @@ One("additionalItems", Leaf(<<X, Y>>)),
   One("contains", Leaf(<<X>>)),
   One("prefixItems", Arr(<<Leaf(<<X, Y>>)>>))}
ListRoots ==
  UNION {{p, One("allOf", Arr(<<p, q>>)), One("anyOf", Arr(<<p, q>>)),
          p @@ One("unevaluatedItems", Leaf(<<Y>>)),
          One("allOf", Arr(<<p>>)) @@ One("unevaluatedItems", Leaf(<<Y>>)),
          One("if", p) @@ One("then", q)} : p \in Lists, q \in Lists}
Arrays == {Arr(s) : s \in {<<>>} \cup [1..1 -> {X, Y}] \cup [1..2 -> {X, Y}]}

Plain == {P("a", Leaf(<<X>>)), P("a", Leaf(<<X, Y>>)), P("c", Leaf(<<Y>>))}
Nested == {P("t", r @@ Defs) : r \in UNION {Joined(p, q) : p \in Plain, q \in Plain}}

MCQuestions ==
  [root : Roots, value : Objects, keys : {<<>>, <<"a">>, <<"c">>}]
    \cup [root : {P("l", r) : r \in ListRoots}, value : {One("l", a) : a \in Arrays},
          keys : {<<"l">>, <<"l", "0">>, <<"l", "1">>}]
    \cup [root : Nested, value : {One("t", o) : o \in Objects}, keys : {<<"t">>, <<"t", "a">>}]
=============================================================================
