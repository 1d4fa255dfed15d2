--------------------------- MODULE SchemaTraversal ---------------------------
(***************************************************************************)
(* Which schemas describe a position of a document (taplo-common's          *)
(* schema/mod.rs): resolving references, folding and merging schemas, and   *)
(* the two walks, schemas_at_path (hover, links) and possible_schemas_from  *)
(* (completion).                                                            *)
(*                                                                         *)
(* JSON: an object is a function from its keys, an array [array |-> seq];   *)
(* a string, Boolean and null are one-field records too.  $ref, $id,        *)
(* $anchor and $defs are the keys ref, id, anchor and defs.  A URL is       *)
(* [path, ptr, anchor]: the segments of its path, and its fragment as a     *)
(* JSON pointer (percent and tilde escapes undone) or an anchor.            *)
(* Of the constraints on one value only enum and required are kept, and     *)
(* what a walk returns is a set: its order is not modelled.                 *)
(***************************************************************************)
EXTENDS Naturals, Sequences, SequencesExt, FiniteSetsExt, Functions, TLC

CONSTANTS Questions,      \* what is asked: a schema, a document and a position
          Library,        \* the other schema documents: URL path -> schema
          RootPath,       \* where the schema asked about is
          Pattern(_, _),  \* Pattern(p, k): the regular expression p matches k
          Indices,        \* the path segments that are indices -> their number
          MaxCompositionDepth, MaxDepth

VARIABLES root,           \* the schema
          value, keys,    \* the document, and the position
          found,          \* what schemas_at_path returned
          children        \* what possible_schemas_from returned

vars == <<root, value, keys, found, children>>

Null == [null |-> TRUE]
Bool(b) == [bool |-> b]
Str(s) == [str |-> s]
Arr(seq) == [array |-> seq]

IsArray(v) == DOMAIN v = {"array"}
IsObject(v) == DOMAIN v \cap {"null", "bool", "str", "array", "path"} = {}
Get(v, k) == IF IsObject(v) /\ k \in DOMAIN v THEN v[k] ELSE Null
At(v, i) == IF IsArray(v) /\ i < Len(v.array) THEN v.array[i + 1] ELSE Null
Items(v) == IF IsArray(v) THEN ToSet(v.array) ELSE {}
Without(schema, ks) == Restrict(schema, DOMAIN schema \ ks)
OrElse(v, default) == IF v = Null THEN default ELSE v
Values(v) == IF IsObject(v) THEN Range(v) ELSE {}
Has(v, k) == Get(v, k) # Null
Child(v, k) == IF k \in DOMAIN Indices THEN At(v, Indices[k]) ELSE Get(v, k)

Documents == (RootPath :> root) @@ Library

-----------------------------------------------------------------------------
(* References *)

\* Url::join: RFC 3986, for an absolute URL ("/" first), a relative path and
\* a fragment alone.
Join(base, r) ==
  IF r.path = <<>> THEN [r EXCEPT !.path = base.path]
  ELSE IF Head(r.path) = "/" THEN r
  ELSE [r EXCEPT !.path = Front(base.path) \o r.path]
Document(url) == [url EXCEPT !.ptr = <<>>, !.anchor = ""]
Url(path) == [path |-> path, ptr |-> <<>>, anchor |-> ""]

Rebase(base, schema) ==
  IF Has(schema, "id") THEN Document(Join(base, schema.id)) ELSE base

ListKeywords == {"oneOf", "anyOf", "allOf", "prefixItems"}
MapKeywords == {"properties", "patternProperties", "defs", "dependentSchemas"}
OneKeywords == {"if", "then", "else", "items", "additionalItems", "contains",
                "additionalProperties", "unevaluatedProperties", "unevaluatedItems"}
SchemaChildren(schema) ==
  UNION {Items(Get(schema, w)) : w \in ListKeywords \cup {"items"}}
    \cup UNION {Values(Get(schema, w)) : w \in MapKeywords}
    \cup {Get(schema, w) : w \in {v \in OneKeywords : IsObject(Get(schema, v))}}

\* The schemas of a document that url names by an $id or an anchor, each with
\* the base around it.
RECURSIVE AnchoredSubschema(_, _, _)
AnchoredSubschema(document, base, url) ==
  IF Has(document, "id") /\ Join(base, document.id) = url
  THEN {[base |-> base, schema |-> document]}
  ELSE LET scope == Rebase(base, document) IN
       IF Has(document, "anchor") /\ [scope EXCEPT !.anchor = document.anchor.str] = url
       THEN {[base |-> base, schema |-> document]}
       ELSE UNION {AnchoredSubschema(c, scope, url) : c \in SchemaChildren(document)}

Unresolved == [base |-> Url(<<>>), schema |-> Null]
First(matches) == IF matches = {} THEN Unresolved ELSE CHOOSE m \in matches : TRUE

\* Every document is in memory; load_schema of another URL fails.
ResourceAt(url) ==
  First(UNION {AnchoredSubschema(Documents[p], Url(p), url) : p \in DOMAIN Documents})
LoadSchema(url) ==
  IF url.path \in DOMAIN Documents
  THEN [base |-> url, schema |-> Documents[url.path]] ELSE Unresolved

RECURSIVE Walk(_, _)
Walk(at, pointer) ==
  IF pointer = <<>> \/ at = Unresolved THEN at
  ELSE LET next == Child(at.schema, Head(pointer)) IN
       Walk(IF next = Null THEN Unresolved
            ELSE [base |-> Rebase(at.base, at.schema), schema |-> next], Tail(pointer))

OrLoaded(resource, url) == IF resource = Unresolved THEN LoadSchema(url) ELSE resource
PointedAt(document, url) ==
  IF url.anchor = "" \/ document = Unresolved THEN Walk(document, url.ptr)
  ELSE First(AnchoredSubschema(document.schema, document.base, url))
ResolveSchema(url) ==
  PointedAt(OrLoaded(ResourceAt(Document(url)), Document(url)), url)

RECURSIVE AbsoluteRefs(_, _)
AbsoluteRefs(schema, base) ==
  IF IsArray(schema)
  THEN Arr([i \in DOMAIN schema.array |-> AbsoluteRefs(schema.array[i], base)])
  ELSE IF ~IsObject(schema) THEN schema
  ELSE LET inner == Rebase(base, schema) IN
       [k \in DOMAIN schema |->
          CASE k = "ref" /\ DOMAIN schema.ref = DOMAIN base -> Join(inner, schema.ref)
            [] k = "id" /\ DOMAIN schema.id = DOMAIN base -> Join(base, schema.id)
            [] k = "enum" -> schema.enum
            [] OTHER -> AbsoluteRefs(schema[k], inner)]

-----------------------------------------------------------------------------
(* Merging *)

NotASibling == {"ref", "id", "anchor", "defs"}
SiblingOverlay(schema) == Without(schema, NotASibling)

Required(a, b) == Arr(a.array \o SelectSeq(b.array, LAMBDA x : x \notin ToSet(a.array)))

RECURSIVE MergedOver(_, _)
MergedOver(base, overlay) ==
  IF ~IsObject(base) \/ ~IsObject(overlay) THEN overlay
  ELSE [k \in DOMAIN base \cup DOMAIN overlay |->
          IF k \notin DOMAIN overlay THEN base[k]
          ELSE IF k \notin DOMAIN base THEN overlay[k]
          ELSE IF k = "required" /\ IsArray(base[k]) /\ IsArray(overlay[k])
          THEN Required(base[k], overlay[k])
          ELSE MergedOver(base[k], overlay[k])]

RECURSIVE MergedAllOf(_, _)
MergedAllOf(base, overlay) ==
  LET merged == MergedOver(base, overlay)
      Both(k) == Has(base, k) /\ Has(overlay, k)
      map(k) == [n \in DOMAIN merged[k] |->
                   IF n \in DOMAIN base[k] /\ n \in DOMAIN overlay[k]
                   THEN MergedAllOf(base[k][n], overlay[k][n]) ELSE merged[k][n]]
  IN IF ~IsObject(merged) THEN merged
     ELSE [k \in DOMAIN merged |->
             CASE k = "enum" /\ Both(k) ->
                    Arr(SelectSeq(base.enum.array, LAMBDA x : x \in Items(overlay.enum)))
               [] k \in {"properties", "patternProperties", "defs"} /\ Both(k) -> map(k)
               [] OTHER -> merged[k]]

FoldSiblings(target, carrier, base) ==
  LET overlay == SiblingOverlay(carrier) IN
  IF DOMAIN overlay = {} THEN target ELSE MergedOver(target, AbsoluteRefs(overlay, base))

NoRef == [url |-> Url(<<>>), base |-> Url(<<>>), schema |-> Null]
Referenced(url, target, carrier, base) ==
  IF target = Unresolved THEN NoRef
  ELSE [url |-> url, base |-> target.base,
        schema |-> FoldSiblings(target.schema, carrier, base)]
RefSchemaValue(base, schema) ==
  IF ~Has(schema, "ref") THEN NoRef
  ELSE LET url == Join(base, schema.ref) IN Referenced(url, ResolveSchema(url), schema, base)

ArrayKeywords == {"items", "prefixItems", "contains", "additionalItems", "unevaluatedItems"}

\* The members of an allOf as one schema, or Null where they stay apart.
RECURSIVE ComposeAllOf(_, _, _, _)
Composed(base, schema, budget, visited) ==
  OrElse(ComposeAllOf(base, schema, budget, visited), schema)

\* A member stands for what it refers to, unless that is being merged already.
Member(ref, base, schema) ==
  IF ref = NoRef THEN [url |-> Null, base |-> base, schema |-> schema] ELSE ref
MergedMember(merged, member, budget, visited) ==
  IF member.url \in visited THEN merged
  ELSE MergedAllOf(merged,
         AbsoluteRefs(Composed(member.base, member.schema, budget,
                               visited \cup ({member.url} \ {Null})), member.base))
UnlessArrays(merged) == IF \E k \in ArrayKeywords : Has(merged, k) THEN Null ELSE merged

ComposeAllOf(base, schema, budget, visited) ==
  IF \/ ~Has(schema, "allOf") \/ budget = 0
     \/ Has(schema, "oneOf") \/ Has(schema, "anyOf") \/ Has(schema, "properties")
  THEN Null
  ELSE LET inner == Rebase(base, schema)
           Merge(merged, s) ==
             MergedMember(merged, Member(RefSchemaValue(inner, s), inner, s),
                          budget - 1, visited)
       IN UnlessArrays(MergedAllOf(FoldLeft(Merge, <<>>, schema.allOf.array),
                                   AbsoluteRefs(Without(schema, {"allOf"}), base)))

-----------------------------------------------------------------------------
(* The validator (the jsonschema crate): the positions it reports.  A       *)
(* reference met again on the same value adds nothing.                       *)

LocalSchemas(schema, k, v) ==
  IF IsArray(v)
  THEN LET i == Indices[k] IN
       IF At(Get(schema, "prefixItems"), i) # Null THEN {At(schema.prefixItems, i)}
       ELSE IF IsArray(Get(schema, "items"))
       THEN {IF At(schema.items, i) # Null THEN At(schema.items, i)
             ELSE Get(schema, "additionalItems")} \ {Null}
       ELSE {Get(schema, "items")} \ {Null}
  ELSE LET patterns == {p \in DOMAIN Get(schema, "patternProperties") :
                          Has(schema, "patternProperties") /\ Pattern(p, k)}
           named == ({Get(Get(schema, "properties"), k)} \ {Null})
                      \cup {schema.patternProperties[p] : p \in patterns}
       IN IF named # {} THEN named ELSE {Get(schema, "additionalProperties")} \ {Null}

ChildKeys(v) ==
  IF IsArray(v) THEN {k \in DOMAIN Indices : Indices[k] < Len(v.array)}
  ELSE IF IsObject(v) THEN DOMAIN v ELSE {}

\* The schemas beside schema that v must satisfy, and those it may satisfy.
Conjuncts(inner, schema, v, holds) ==
  Items(Get(schema, "allOf"))
    \cup (IF ~Has(schema, "if") THEN {}
          ELSE {Get(schema, IF holds THEN "then" ELSE "else")} \ {Null})
    \cup {schema.dependentSchemas[k] :
            k \in {n \in DOMAIN Get(schema, "dependentSchemas") :
                     Has(schema, "dependentSchemas") /\ Has(v, n)}}

RECURSIVE ErrorsOf(_, _, _, _)
RECURSIVE EvaluatedIn(_, _, _, _)

InPlace(op(_, _, _, _), base, schema, v, seen, choices) ==
  LET inner == Rebase(base, schema)
      Ok(sub) == ErrorsOf(inner, sub, v, seen) = {}
      Follow(url, target) == op(target.base, target.schema, v, seen \cup {url})
      url == Join(inner, schema.ref)
  IN UNION {op(inner, sub, v, seen) :
              sub \in Conjuncts(inner, schema, v, Has(schema, "if") /\ Ok(schema["if"]))
                      \cup (IF choices
                            THEN {b \in Items(Get(schema, "oneOf")) \cup Items(Get(schema, "anyOf"))
                                        \cup {Get(schema, "if")} : Ok(b)}
                            ELSE {})}
     \cup (IF ~Has(schema, "ref") THEN {}
           ELSE IF url \in seen THEN {} ELSE Follow(url, ResolveSchema(url)))

EvaluatedIn(base, schema, v, seen) ==
  IF ~IsObject(schema) THEN {}
  ELSE {k \in ChildKeys(v) :
          \/ LocalSchemas(schema, k, v) # {}
          \/ Has(schema, IF IsArray(v) THEN "unevaluatedItems" ELSE "unevaluatedProperties")
          \/ /\ IsArray(v) /\ Has(schema, "contains")
             /\ ErrorsOf(Rebase(base, schema), schema.contains, Child(v, k), {}) = {}}
       \cup InPlace(EvaluatedIn, base, schema, v, seen, TRUE)

ErrorsOf(base, schema, v, seen) ==
  IF schema = Bool(FALSE) THEN {<<>>}
  ELSE IF ~IsObject(schema) THEN {}
  ELSE
    LET inner == Rebase(base, schema)
        Ok(sub) == ErrorsOf(inner, sub, v, seen) = {}
        rest == Get(schema, IF IsArray(v) THEN "unevaluatedItems" ELSE "unevaluatedProperties")
        bare == Without(schema, {"unevaluatedItems", "unevaluatedProperties"})
        left == IF rest = Null THEN {} ELSE ChildKeys(v) \ EvaluatedIn(base, bare, v, seen)
        Subs(k) == LocalSchemas(schema, k, v) \cup (IF k \in left THEN {rest} ELSE {})
        wrong ==
          \/ Has(schema, "enum") /\ v \notin Items(schema.enum)
          \/ IsObject(v) /\ \E r \in Items(Get(schema, "required")) : ~Has(v, r.str)
          \/ Has(schema, "anyOf") /\ \A b \in Items(schema.anyOf) : ~Ok(b)
          \/ Has(schema, "oneOf") /\ Cardinality({i \in DOMAIN schema.oneOf.array :
                                                    Ok(schema.oneOf.array[i])}) # 1
          \/ /\ IsArray(v) /\ Has(schema, "contains")
             /\ \A x \in Items(v) : ErrorsOf(inner, schema.contains, x, {}) # {}
          \* additionalProperties: false and its like name the object
          \/ \E k \in ChildKeys(v) :
               Bool(FALSE) \in {Get(schema, "additionalProperties"), rest} \cap Subs(k)
    IN (IF wrong THEN {<<>>} ELSE {})
       \cup UNION {UNION {{<<k>> \o e : e \in ErrorsOf(inner, sub, Child(v, k), {})} :
                             sub \in Subs(k) \ {Bool(FALSE)}} : k \in ChildKeys(v)}
       \cup InPlace(ErrorsOf, base, schema, v, seen, FALSE)

\* Building a validator resolves every reference it can reach.
RECURSIVE RefsIn(_, _)
RefsIn(base, schema) ==
  (IF Has(schema, "ref") THEN {Join(Rebase(base, schema), schema.ref)} ELSE {})
    \cup UNION {RefsIn(Rebase(base, schema), c) : c \in SchemaChildren(schema)}
RECURSIVE Compiles(_, _, _)
CompilesAt(target, seen) ==
  target # Unresolved /\ Compiles(target.base, target.schema, seen)
Compiles(base, schema, seen) ==
  \A url \in RefsIn(base, schema) \ seen : CompilesAt(ResolveSchema(url), seen \cup {url})

-----------------------------------------------------------------------------
(* The walks *)

ConditionUrl == Url(<<"/", "condition">>)
Detached(schema) == IF IsObject(schema) THEN Without(schema, {"id"}) ELSE schema
Judged(condition, instance) ==
  IF instance = Null \/ ~Compiles(ConditionUrl, condition, {}) THEN "unknown"
  ELSE IF ErrorsOf(ConditionUrl, condition, instance, {}) = {} THEN "yes" ELSE "no"
ConditionHolds(base, condition, instance) ==
  Judged(Detached(AbsoluteRefs(condition, base)), instance)

\* Mutant: both branches of an if are offered whatever the document says.
ConditionalSubschemasBoth(base, schema, instance) ==
  LET triggers == {t \in DOMAIN Get(schema, "dependentSchemas") :
                     instance = Null \/ Has(instance, t)}
  IN {s \in {Get(schema, "then"), Get(schema, "else")}
              \cup {Get(Get(schema, "dependentSchemas"), t) : t \in triggers} : IsObject(s)}

Branches(holds) ==
  CASE holds = "yes" -> {"then"} [] holds = "no" -> {"else"} [] OTHER -> {"then", "else"}
ConditionalSubschemas(base, schema, instance) ==
  LET branches == IF ~Has(schema, "if") THEN {}
                  ELSE Branches(ConditionHolds(base, schema["if"], instance))
      triggers == {t \in DOMAIN Get(schema, "dependentSchemas") :
                     instance = Null \/ Has(instance, t)}
  IN {s \in {Get(schema, b) : b \in branches}
              \cup {Get(Get(schema, "dependentSchemas"), t) : t \in triggers} : IsObject(s)}

\* The reference was already followed for the same value.
\* Mutant: no reference is remembered.
OnChainNever(url, visited) == FALSE
OnChain(url, visited) == url \in visited

\* What a call of collect_schemas adds and answers; cut: its budget ran out.
Nothing == [found |-> {}, covers |-> FALSE, cut |-> FALSE, failed |-> FALSE]
Failed == [Nothing EXCEPT !.failed = TRUE]
Cut(schema) == [Nothing EXCEPT !.cut = IsObject(schema)]
All(answers) ==
  [found |-> UNION {a.found : a \in answers}, covers |-> \E a \in answers : a.covers,
   cut |-> \E a \in answers : a.cut, failed |-> \E a \in answers : a.failed]

KeySchemas(s, k) ==
  {Get(Get(s, "items"), k), Get(Get(s, "properties"), k), Get(s, "additionalProperties")}
    \cup {s.patternProperties[p] : p \in {q \in DOMAIN Get(s, "patternProperties") :
                                            Has(s, "patternProperties") /\ Pattern(q, k)}}
KeyEvaluated(s, k) ==
  \/ Has(Get(s, "properties"), k) \/ Has(s, "additionalProperties")
  \/ \E p \in DOMAIN Get(s, "patternProperties") :
       Has(s, "patternProperties") /\ Pattern(p, k)

\* Mutant: the position after the last of prefixItems is taken for one of them.
IndexSchemaMore(s, i) ==
  IF IsArray(Get(s, "prefixItems")) /\ i <= Len(s.prefixItems.array) THEN At(s.prefixItems, i)
  ELSE IF ~IsArray(Get(s, "items")) THEN Get(s, "items")
  ELSE IF i < Len(s.items.array) THEN At(s.items, i) ELSE Get(s, "additionalItems")

IndexSchema(s, i) ==
  IF IsArray(Get(s, "prefixItems")) /\ i < Len(s.prefixItems.array) THEN At(s.prefixItems, i)
  ELSE IF ~IsArray(Get(s, "items")) THEN Get(s, "items")
  ELSE IF i < Len(s.items.array) THEN At(s.items, i) ELSE Get(s, "additionalItems")

RECURSIVE CollectSchemas(_, _, _, _, _, _)

\* The schemas of s for the path segment k; whether it is covered by them.
SchemasFor(s, k) ==
  IF k \in DOMAIN Indices THEN {IndexSchema(s, Indices[k])} ELSE KeySchemas(s, k)
CoveredBy(inner, s, v, k) ==
  IF k \notin DOMAIN Indices THEN KeyEvaluated(s, k)
  ELSE \/ IndexSchema(s, Indices[k]) # Null
       \/ Has(s, "contains") /\ ConditionHolds(inner, s.contains, Child(v, k)) = "yes"

\* One path segment down: the subschemas of s for it.
CollectSegment(inner, s, v, path, covered) ==
  LET isKey == Head(path) \notin DOMAIN Indices
      rest == Get(s, IF isKey THEN "unevaluatedProperties" ELSE "unevaluatedItems")
  IN [All({CollectSchemas(inner, sub, Child(v, Head(path)), Tail(path),
                          MaxCompositionDepth, {}) :
             sub \in SchemasFor(s, Head(path)) \cup (IF covered THEN {} ELSE {rest})})
        EXCEPT !.covers = covered \/ (~isKey /\ rest # Null)]
CollectBelow(inner, s, v, path, evaluated) ==
  CollectSegment(inner, s, v, path, evaluated \/ CoveredBy(inner, s, v, Head(path)))

\* The branches of a oneOf or an anyOf: those that match are what counts.
Chosen(keyword, answers, matching) ==
  [All(Range(answers)) EXCEPT !.covers =
     /\ keyword = "anyOf" \/ Cardinality(matching) = 1
     /\ \E i \in matching : answers[i].covers]
BranchesOf(s, keyword) == IF IsArray(Get(s, keyword)) THEN s[keyword].array ELSE <<>>

CollectBeside(inner, s, v, path, budget, visited) ==
  LET In(sub) == CollectSchemas(inner, sub, v, path, budget, visited)
      Choice(keyword, branches) ==
        Chosen(keyword, [i \in DOMAIN branches |-> In(branches[i])],
               {i \in DOMAIN branches : ConditionHolds(inner, branches[i], v) # "no"})
  IN All({Choice(keyword, BranchesOf(s, keyword)) : keyword \in {"oneOf", "anyOf"}}
           \cup {In(sub) : sub \in Items(Get(s, "allOf")) \cup ConditionalSubschemas(inner, s, v)})

\* What is found beside s, and at the end of the path s itself, else what is
\* below it.
WithSelf(beside, s, base) ==
  [beside EXCEPT !.found = @ \cup {AbsoluteRefs(s, base)}, !.covers = FALSE]
WithBelow(beside, below) == [All({beside, below}) EXCEPT !.covers = below.covers]
CollectFrom(base, inner, s, v, path, beside) ==
  IF path = <<>> THEN WithSelf(beside, s, base)
  ELSE WithBelow(beside, CollectBelow(inner, s, v, path, beside.covers))
CollectComposed(base, inner, s, v, path, budget, visited) ==
  CollectFrom(base, inner, s, v, path, CollectBeside(inner, s, v, path, budget, visited))

CollectReferenced(url, target, carrier, inner, v, path, budget, visited) ==
  IF OnChain(url, visited) THEN Nothing
  ELSE IF target = Unresolved THEN Failed
  ELSE CollectSchemas(target.base, FoldSiblings(target.schema, carrier, inner),
                      v, path, budget, visited \cup {url})

CollectSchemas(base, schema, v, path, budget, visited) ==
  LET inner == Rebase(base, schema)
      url == Join(inner, schema.ref)
  IN IF ~IsObject(schema) \/ budget = 0 THEN Cut(schema)
     ELSE IF Has(schema, "ref")
     THEN CollectReferenced(url, ResolveSchema(url), schema, inner, v, path, budget - 1, visited)
     ELSE CollectComposed(base, inner, Composed(base, schema, budget - 1, visited),
                          v, path, budget - 1, visited)

SchemasAtPath(v, path) ==
  CollectSchemas(Url(RootPath), root, v, path, MaxCompositionDepth, {})

\* The schemas at and below a schema, each with its path from there.
RECURSIVE CollectChildSchemas(_, _, _, _, _, _, _)
ChildrenOf(inner, s, path, instance, depth, budget, visited) ==
  LET beside == UNION {Items(Get(s, w)) : w \in {"oneOf", "anyOf", "allOf"}}
                  \cup ConditionalSubschemas(inner, s, instance)
      includeSelf == (~Has(s, "oneOf") /\ ~Has(s, "anyOf")) \/ Has(s, "properties")
      properties == IF IsObject(Get(s, "properties")) THEN DOMAIN s.properties ELSE {}
  IN UNION {CollectChildSchemas(inner, sub, path, instance, depth, budget, visited) :
              sub \in beside}
     \cup (IF includeSelf THEN {[path |-> path, schema |-> s]} ELSE {})
     \cup UNION {CollectChildSchemas(inner, s.properties[k], Append(path, k),
                                     Get(instance, k), depth - 1, MaxCompositionDepth, {}) :
                   k \in properties}
ReferencedOr(base, schema, ref, path, instance, depth, budget, visited) ==
  IF ref = NoRef
  THEN ChildrenOf(Rebase(base, schema), Composed(base, schema, budget, visited),
                  path, instance, depth, budget, visited)
  ELSE IF OnChain(ref.url, visited) THEN {}
  ELSE CollectChildSchemas(ref.base, ref.schema, path, instance, depth, budget,
                           visited \cup {ref.url})
CollectChildSchemas(base, schema, path, instance, depth, budget, visited) ==
  IF ~IsObject(schema) \/ depth = 0 \/ budget = 0 THEN {}
  ELSE ReferencedOr(base, schema, RefSchemaValue(Rebase(base, schema), schema),
                    path, instance, depth, budget - 1, visited)

\* Mutant: the conditions below a position are judged by the whole document.
InstanceAtRoot(v, path) == v
InstanceAt(v, path) == FoldLeft(Child, v, path)

-----------------------------------------------------------------------------
(* A question of the editor: the schemas of a position, then those below it. *)

NotAsked == [Nothing EXCEPT !.cut = TRUE, !.failed = TRUE]

Init ==
  /\ \E q \in Questions : root = q.root /\ value = q.value /\ keys = q.keys
  /\ found = NotAsked /\ children = {}

AskSchemasAtPath ==
  /\ found = NotAsked
  /\ found' = SchemasAtPath(value, keys)
  /\ UNCHANGED <<root, value, keys, children>>

\* The schemas found were made to stand alone, and are read from the root.
AskPossibleSchemasFrom ==
  /\ ~found.failed /\ children = {}
  /\ children' = UNION {CollectChildSchemas(Url(RootPath), s, <<>>, InstanceAt(value, keys),
                                           MaxDepth, MaxCompositionDepth, {}) : s \in found.found}
  /\ children' # children
  /\ UNCHANGED <<root, value, keys, found>>

Next == AskSchemasAtPath \/ AskPossibleSchemasFrom
Spec == Init /\ [][Next]_vars

-----------------------------------------------------------------------------
(* Properties *)

\* The first question was just answered.
Answered == found # NotAsked /\ ~found.failed /\ children = {}
Rejects(s, v) == <<>> \in ErrorsOf(Url(RootPath), s, v, {})
Here == InstanceAt(value, keys)
Reported == keys \in ErrorsOf(Url(RootPath), root, value, {})

\* The schemas hover and completion are given are the ones that judge the
\* document: what the validator reports at a position, some schema found for
\* it, taken out of its document, rejects.
ReportsAreExplained ==
  Answered /\ Reported => \E s \in found.found : Rejects(s, Here)

\* And no schema is found that does not apply: what it rejects is reported.
\* Not so under a oneOf or an anyOf, whose failing branches are found too, and
\* for additionalProperties, found for the keys that properties names as well.
RECURSIVE Subschemas(_)
Subschemas(schema) == {schema} \cup UNION {Subschemas(c) : c \in SchemaChildren(schema)}
Somewhere(w) == \E s \in Subschemas(root) : Has(s, w)
Exact == /\ ~Somewhere("oneOf") /\ ~Somewhere("anyOf")
         /\ \A s \in Subschemas(root) :
              IsObject(Get(s, "additionalProperties")) =>
                ~Has(s, "properties") /\ ~Has(s, "patternProperties")
FoundSchemasApply ==
  /\ Answered /\ Exact /\ Here # Null /\ (\E s \in found.found : Rejects(s, Here))
  /\ Compiles(Url(RootPath), root, {})
  => Reported

\* A cycle of references ends where it closes, never by its budget running
\* out, where the answer would be cut.
CyclesClose == found # NotAsked => ~found.cut

\* The two walks agree: where keys are only described by name, the schemas
\* completion is offered for a key are those hover finds there.
RejectedBy(schemas, v) == \E s \in schemas : Rejects(s, v)
WalksAgree ==
  children # {} /\ ~Somewhere("patternProperties") /\ ~Somewhere("additionalProperties")
                /\ ~Somewhere("unevaluatedProperties") =>
    \A k \in {c.path[1] : c \in {d \in children : Len(d.path) = 1}} :
      \A v \in {Get(Here, k), Str("other")} :
        RejectedBy(SchemasAtPath(value, Append(keys, k)).found, v)
          <=> RejectedBy({c.schema : c \in {d \in children : d.path = <<k>>}}, v)
=============================================================================
