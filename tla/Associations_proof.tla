-------------------------- MODULE Associations_proof --------------------------
(* What TLC checks of Associations on two documents and two schemas, proved for  *)
(* any documents, schemas, texts, settings, extensions and number of messages.   *)
EXTENDS Associations, TLAPS

Sources == {"builtin", "catalog", "config", "lsp_config", "manual", "$schema", "directive"}

RuleType == [at : Nat, docs : SUBSET Documents, by : {"url", "pattern"}, source : Sources,
             priority : 0..Maximum, schema : Schemas]

DocumentType == [text : Text \cup {None}, associated : BOOLEAN]

TypeOK ==
    /\ associations \subseteq RuleType
    /\ settings \in Setting
    /\ documents \in [Documents -> DocumentType]
    /\ opened \subseteq Documents /\ selecting \subseteq Documents
    /\ DOMAIN told = Documents
    /\ chosen \in [Documents -> Named]
    /\ messages \in Nat

\* A rule of the highest priority is the choice of a schema for one document.
IsChoice(r) == \E d \in Documents : /\ r.by = "url" /\ r.docs = {d} /\ r.source = "manual"
                                    /\ chosen[d] = r.schema

ChoicesOK ==
    /\ \A r \in associations : r.priority = Maximum => IsChoice(r)
    /\ \A r, q \in associations : r.priority = Maximum /\ q.priority = Maximum /\ r.docs = q.docs => r = q
    /\ \A d \in Documents : chosen[d] # None =>
           \E r \in associations : r.priority = Maximum /\ r.docs = {d}

\* What the server knows of a document the client has opened; a document that was
\* refused has been told nothing.
KnownOK ==
    /\ Known \subseteq opened
    /\ \A d \in opened \ Known : told[d] = Untold

IInv == TypeOK /\ ChoicesOK /\ KnownOK /\ RulesFollowText /\ ToldIsTrue

-------------------------------------------------------------------------------
(* Rules.                                                                      *)

\* What a new rule is.
LEMMA NewRule ==
    ASSUME NEW n, NEW ds, NEW by, NEW source, NEW priority, NEW schema,
           NEW r \in Rule(n, ds, by, source, priority, schema)
    PROVE  /\ schema # None
           /\ r = [at |-> n, docs |-> ds, by |-> by, source |-> source,
                   priority |-> priority, schema |-> schema]
    BY DEF Rule

LEMMA NewRuleExists ==
    ASSUME NEW n, NEW ds, NEW by, NEW source, NEW priority, NEW schema, schema # None
    PROVE  Rule(n, ds, by, source, priority, schema) # {}
<1>1. schema \in {schema} \ {None}
  OBVIOUS
<1>2. [at |-> n, docs |-> ds, by |-> by, source |-> source, priority |-> priority, schema |-> schema]
        \in Rule(n, ds, by, source, priority, schema)
  BY <1>1 DEF Rule
<1> QED BY <1>2

LEMMA NewRuleType ==
    ASSUME NEW n \in Nat, NEW ds \in SUBSET Documents, NEW by \in {"url", "pattern"},
           NEW source \in Sources, NEW priority \in 0..Maximum, NEW schema \in Named
    PROVE  Rule(n, ds, by, source, priority, schema) \subseteq RuleType
    BY DEF Rule, RuleType, Named

\* The rules of a text name its document and are no choices.
LEMMA DocumentRules ==
    ASSUME NEW n \in Nat, NEW d \in Documents, NEW text \in Text
    PROVE  /\ DirectiveRule(n, d, text) \subseteq RuleType
           /\ FieldRule(n, d, text) \subseteq RuleType
           /\ \A r \in DirectiveRule(n, d, text) :
                  r.by = "url" /\ r.docs = {d} /\ r.source = "directive" /\ r.priority = 75
           /\ \A r \in FieldRule(n, d, text) :
                  r.by = "url" /\ r.docs = {d} /\ r.source = "$schema" /\ r.priority = 70
           /\ \A r \in DirectiveRule(n, d, text) : r.schema = text.directive /\ r.schema # None
           /\ \A r \in FieldRule(n, d, text) : r.schema = text.field /\ r.schema # None
           /\ text.directive # None => DirectiveRule(n, d, text) # {}
           /\ text.field # None => FieldRule(n, d, text) # {}
<1>1. text.directive \in Named /\ text.field \in Named
  BY DEF Text
<1>2. {d} \in SUBSET Documents /\ 75 \in 0..Maximum /\ 70 \in 0..Maximum
  BY DEF Maximum
<1>3. Rule(n, {d}, "url", "directive", 75, text.directive) \subseteq RuleType
  BY <1>1, <1>2, NewRuleType DEF Sources
<1>4. Rule(n, {d}, "url", "$schema", 70, text.field) \subseteq RuleType
  BY <1>1, <1>2, NewRuleType DEF Sources
<1>5. \A r \in DirectiveRule(n, d, text) :
          r.by = "url" /\ r.docs = {d} /\ r.source = "directive" /\ r.priority = 75
  BY DEF DirectiveRule, Rule
<1>6. \A r \in FieldRule(n, d, text) :
          r.by = "url" /\ r.docs = {d} /\ r.source = "$schema" /\ r.priority = 70
  BY DEF FieldRule, Rule
<1>7. \A r \in DirectiveRule(n, d, text) : r.schema = text.directive /\ r.schema # None
  BY DEF DirectiveRule, Rule
<1>8. \A r \in FieldRule(n, d, text) : r.schema = text.field /\ r.schema # None
  BY DEF FieldRule, Rule
<1>9. /\ text.directive # None => DirectiveRule(n, d, text) # {}
      /\ text.field # None => FieldRule(n, d, text) # {}
  BY NewRuleExists DEF DirectiveRule, FieldRule
<1> QED BY <1>3, <1>4, <1>5, <1>6, <1>7, <1>8, <1>9 DEF DirectiveRule, FieldRule

\* The rules of a configuration name no document and are no choices.
LEMMA ConfigurationRules ==
    ASSUME NEW n \in Nat, NEW s \in Setting, NEW reachable \in BOOLEAN, None \notin Schemas
    PROVE  /\ FromConfiguration(n, s, reachable) \subseteq RuleType
           /\ \A r \in FromConfiguration(n, s, reachable) : r.by = "pattern" /\ r.priority # Maximum
<1> DEFINE catalog == IF reachable THEN s.catalog ELSE None
<1>1. /\ s.included \in SUBSET Documents
      /\ s.rule \in Named /\ s.config \in Named /\ s.lsp \in Named /\ catalog \in Named
  BY DEF Setting, Named
<1>2. /\ Documents \in SUBSET Documents
      /\ 51 \in 0..Maximum /\ 50 \in 0..Maximum /\ 60 \in 0..Maximum /\ 25 \in 0..Maximum
  BY DEF Maximum
<1>4. Rule(n, Documents, "pattern", "config", 51, s.rule) \subseteq RuleType
  BY <1>1, <1>2, NewRuleType DEF Sources
<1>5. Rule(n, s.included, "pattern", "config", 50, s.config) \subseteq RuleType
  BY <1>1, <1>2, NewRuleType DEF Sources
<1>6. Rule(n, Documents, "pattern", "lsp_config", 60, s.lsp) \subseteq RuleType
  BY <1>1, <1>2, NewRuleType DEF Sources
<1>7. Rule(n, Documents, "pattern", "catalog", 25, catalog) \subseteq RuleType
  BY <1>1, <1>2, NewRuleType DEF Sources
<1>3. /\ \A r \in Rule(n, Documents, "pattern", "config", 51, s.rule) : r.by = "pattern" /\ r.priority = 51
      /\ \A r \in Rule(n, s.included, "pattern", "config", 50, s.config) : r.by = "pattern" /\ r.priority = 50
      /\ \A r \in Rule(n, Documents, "pattern", "lsp_config", 60, s.lsp) : r.by = "pattern" /\ r.priority = 60
      /\ \A r \in Rule(n, Documents, "pattern", "catalog", 25, catalog) : r.by = "pattern" /\ r.priority = 25
  BY DEF Rule
<1> QED BY <1>3, <1>4, <1>5, <1>6, <1>7 DEF FromConfiguration, Maximum

\* The one rule of the highest priority is the best.
LEMMA HighestIsBest ==
    ASSUME NEW rs, rs \subseteq RuleType, NEW r \in rs, r.priority = Maximum,
           \A q \in rs : q.priority = Maximum => q = r
    PROVE  Best(rs) = r
<1> DEFINE Top(p) == \A q \in rs : q.priority < p.priority \/ (q.priority = p.priority /\ q.at <= p.at)
<1>1. Top(r)
  BY DEF RuleType, Maximum
<1>2. ASSUME NEW p \in rs, Top(p) PROVE p = r
  BY <1>2 DEF RuleType, Maximum
<1> QED BY <1>1, <1>2 DEF Best

\* With such rules the choice is the best rule.
LEMMA ChoiceIsBest == TypeOK /\ ChoicesOK => ChoiceWins
<1> SUFFICES ASSUME TypeOK, ChoicesOK, NEW d \in Documents, chosen[d] # None
             PROVE  AssociationFor(associations, d) = chosen[d]
  BY DEF ChoiceWins
<1>1. PICK r \in associations : r.priority = Maximum /\ r.docs = {d}
  BY DEF ChoicesOK
<1>2. r \in Matching(associations, d) /\ Matching(associations, d) \subseteq RuleType
  BY <1>1 DEF Matching, TypeOK
<1>3. ASSUME NEW q \in Matching(associations, d), q.priority = Maximum PROVE q = r
  <2>1. q \in associations /\ d \in q.docs
    BY DEF Matching
  <2>2. IsChoice(q)
    BY <1>3, <2>1 DEF ChoicesOK
  <2>3. q.docs = {d}
    BY <2>1, <2>2 DEF IsChoice
  <2> QED BY <1>1, <1>3, <2>1, <2>3 DEF ChoicesOK
<1>4. Best(Matching(associations, d)) = r
  BY <1>1, <1>2, <1>3, HighestIsBest
<1>5. chosen[d] = r.schema
  BY <1>1 DEF ChoicesOK, IsChoice
<1> QED BY <1>2, <1>4, <1>5 DEF AssociationFor

\* What is told of each document when the rules change to rs.
LEMMA Emitted ==
    ASSUME NEW rs, EmitAssociations(rs), NEW d \in Documents
    PROVE  /\ DOMAIN told' = Documents
           /\ d \in Known => told'[d] = AssociationFor(rs, d)
           /\ d \notin Known => told'[d] = told[d]
    BY DEF EmitAssociations

-------------------------------------------------------------------------------
(* Types.                                                                      *)

LEMMA InitType == Init => TypeOK
<1> SUFFICES ASSUME Init PROVE TypeOK
  OBVIOUS
<1>1. settings \in Setting
  BY AssociationsAssumption DEF Init
<1>2. Rule(0, TaploFiles, "pattern", "builtin", 10, ConfigSchema) \subseteq RuleType
  <2>1. TaploFiles \in SUBSET Documents /\ 10 \in 0..Maximum /\ ConfigSchema \in Named /\ 0 \in Nat
    BY AssociationsAssumption DEF Maximum, Named
  <2> QED BY <2>1, NewRuleType DEF Sources
<1>3. \A reachable \in BOOLEAN : FromConfiguration(0, settings, reachable) \subseteq RuleType
  BY <1>1, ConfigurationRules, AssociationsAssumption
<1>4. associations \subseteq RuleType
  BY <1>2, <1>3 DEF Init
<1> QED BY <1>1, <1>4 DEF Init, TypeOK, Closed, DocumentType, Named

LEMMA OpenOrChangeType ==
    ASSUME TypeOK, NEW d \in Documents, NEW text \in Texts,
           DocumentOpen(d, text) \/ DocumentChange(d, text)
    PROVE  TypeOK'
<1>1. messages' \in Nat /\ text \in Text
  BY AssociationsAssumption DEF TypeOK, DocumentOpen, DocumentChange, Write, Receive
<1>2. Stored(d, text) \in [Documents -> DocumentType]
  BY <1>1 DEF TypeOK, Stored, DocumentType, Setting
<1>3. documents' \in [Documents -> DocumentType]
  BY <1>2 DEF TypeOK, DocumentOpen, DocumentChange
<1>4. /\ DirectiveRule(messages', d, text) \subseteq RuleType
      /\ FieldRule(messages', d, text) \subseteq RuleType
  BY <1>1, DocumentRules
<1>5. associations' \subseteq RuleType
  BY <1>4 DEF TypeOK, DocumentOpen, DocumentChange, AddFromDocument, Forget
<1>6. DOMAIN told' = Documents
  BY Emitted DEF TypeOK, DocumentOpen, DocumentChange, EmitAssociations
<1>7. chosen' \in [Documents -> Named]
  BY DEF TypeOK, DocumentOpen, DocumentChange, Named
<1>8. settings' \in Setting /\ opened' \subseteq Documents /\ selecting' \subseteq Documents
  BY DEF TypeOK, DocumentOpen, DocumentChange, Write
<1> QED BY <1>1, <1>3, <1>5, <1>6, <1>7, <1>8 DEF TypeOK

LEMMA CloseType == ASSUME TypeOK, NEW d \in Documents, DocumentClose(d) PROVE TypeOK'
<1>1. documents' \in [Documents -> DocumentType]
  BY DEF TypeOK, DocumentClose, Closed, DocumentType
<1> QED BY <1>1 DEF TypeOK, DocumentClose, Write, Receive, client

LEMMA InitializeType ==
    ASSUME TypeOK, NEW s \in Settings, NEW reachable \in BOOLEAN, Initialize(s, reachable)
    PROVE  TypeOK'
<1>1. messages' \in Nat /\ s \in Setting
  BY AssociationsAssumption DEF TypeOK, Initialize, Write, Receive
<1>2. FromConfiguration(messages', s, reachable) \subseteq RuleType
  BY <1>1, ConfigurationRules, AssociationsAssumption
<1>3. associations' \subseteq RuleType
  BY <1>2 DEF TypeOK, Initialize
<1>4. DOMAIN told' = Documents
  BY DEF TypeOK, Initialize, EmitAssociations
<1> QED BY <1>1, <1>3, <1>4 DEF TypeOK, Initialize, Write

LEMMA PatternType ==
    ASSUME TypeOK, NEW x \in Extensions, AssociatePattern(x) PROVE TypeOK'
<1>1. messages' \in Nat
  BY DEF TypeOK, AssociatePattern, Receive
<1>2. x.docs \in SUBSET Documents /\ x.schema \in Named /\ 10 \in 0..Maximum
  BY AssociationsAssumption DEF Named, Maximum
<1>3. Rule(messages', x.docs, "pattern", "manual", 10, x.schema) \subseteq RuleType
  BY <1>1, <1>2, NewRuleType DEF Sources
<1>4. associations' \subseteq RuleType
  BY <1>3 DEF TypeOK, AssociatePattern
<1> QED BY <1>1, <1>4 DEF TypeOK, AssociatePattern, EmitAssociations

LEMMA UrlType ==
    ASSUME TypeOK, NEW d \in Documents, NEW schema \in Schemas, AssociateUrl(d, schema)
    PROVE  TypeOK'
<1>1. messages' \in Nat
  BY DEF TypeOK, AssociateUrl, Receive
<1>2. {d} \in SUBSET Documents /\ schema \in Named /\ Maximum \in 0..Maximum
  BY DEF Named, Maximum
<1>3. Rule(messages', {d}, "url", "manual", Maximum, schema) \subseteq RuleType
  BY <1>1, <1>2, NewRuleType DEF Sources
<1>4. associations' \subseteq RuleType
  BY <1>3 DEF TypeOK, AssociateUrl, Unselect
<1>5. chosen' \in [Documents -> Named]
  BY <1>2 DEF TypeOK, AssociateUrl
<1> QED BY <1>1, <1>4, <1>5 DEF TypeOK, AssociateUrl

LEMMA UrlDoneType == ASSUME TypeOK, NEW d \in Documents, AssociateUrlDone(d) PROVE TypeOK'
    BY DEF TypeOK, AssociateUrlDone, EmitAssociations

-------------------------------------------------------------------------------
(* Choices.                                                                    *)

\* A step keeps the choices when the rules of the highest priority stay the same.
LEMMA ChoicesKept ==
    ASSUME ChoicesOK, UNCHANGED chosen,
           \A r : r.priority = Maximum => (r \in associations' <=> r \in associations)
    PROVE  ChoicesOK'
<1>1. ASSUME NEW r \in associations', r.priority = Maximum PROVE IsChoice(r)'
  BY <1>1 DEF ChoicesOK, IsChoice
<1>2. ASSUME NEW r \in associations', NEW q \in associations',
             r.priority = Maximum, q.priority = Maximum, r.docs = q.docs
      PROVE  r = q
  BY <1>2 DEF ChoicesOK
<1>3. ASSUME NEW d \in Documents, chosen'[d] # None
      PROVE  \E r \in associations' : r.priority = Maximum /\ r.docs = {d}
  BY <1>3 DEF ChoicesOK
<1> QED BY <1>1, <1>2, <1>3 DEF ChoicesOK

LEMMA OpenKeepsChoices ==
    ASSUME TypeOK, ChoicesOK, NEW d \in Documents, NEW text \in Texts, DocumentOpen(d, text)
    PROVE  ChoicesOK'
<1>1. CASE d \in settings.included /\ settings.enabled
  <2>1. messages' \in Nat /\ text \in Text
    BY AssociationsAssumption DEF TypeOK, DocumentOpen, Write, Receive
  <2>2. associations' = AddFromDocument(Forget(d), messages', d, text)
    BY <1>1 DEF DocumentOpen
  <2>3. \A r : r.priority = Maximum => (r \in associations' <=> r \in associations /\ r.docs # {d})
    <3>1. \A r \in associations : r.priority = Maximum => r.by = "url" /\ r.source = "manual"
      BY DEF ChoicesOK, IsChoice
    <3> QED BY <2>1, <2>2, <3>1, DocumentRules DEF AddFromDocument, Forget, FromDocument, ForUrl, Maximum
  <2>4. chosen' = [chosen EXCEPT ![d] = None]
    BY <1>1 DEF DocumentOpen
  <2>5. ASSUME NEW r \in associations', r.priority = Maximum PROVE IsChoice(r)'
    <3>1. r \in associations /\ r.docs # {d}
      BY <2>3, <2>5
    <3>2. PICK e \in Documents : r.by = "url" /\ r.docs = {e} /\ r.source = "manual" /\ chosen[e] = r.schema
      BY <2>5, <3>1 DEF ChoicesOK, IsChoice
    <3>3. chosen'[e] = chosen[e]
      BY <2>4, <3>1, <3>2 DEF TypeOK
    <3> QED BY <3>2, <3>3 DEF IsChoice
  <2>6. ASSUME NEW r \in associations', NEW q \in associations',
               r.priority = Maximum, q.priority = Maximum, r.docs = q.docs
        PROVE  r = q
    BY <2>3, <2>6 DEF ChoicesOK
  <2>7. ASSUME NEW e \in Documents, chosen'[e] # None
        PROVE  \E r \in associations' : r.priority = Maximum /\ r.docs = {e}
    <3>1. e # d /\ chosen[e] # None
      BY <2>4, <2>7 DEF TypeOK
    <3>2. PICK r \in associations : r.priority = Maximum /\ r.docs = {e}
      BY <3>1 DEF ChoicesOK
    <3>3. {e} # {d}
      BY <3>1
    <3> QED BY <2>3, <3>2, <3>3
  <2> QED BY <2>5, <2>6, <2>7 DEF ChoicesOK
<1>2. CASE ~(d \in settings.included /\ settings.enabled)
  BY <1>2, ChoicesKept DEF DocumentOpen
<1> QED BY <1>1, <1>2

LEMMA ChangeKeepsChoices ==
    ASSUME TypeOK, ChoicesOK, NEW d \in Documents, NEW text \in Texts, DocumentChange(d, text)
    PROVE  ChoicesOK'
<1>1. CASE d \in settings.included /\ settings.enabled
  <2>1. messages' \in Nat /\ text \in Text
    BY AssociationsAssumption DEF TypeOK, DocumentChange, Write, Receive
  <2>2. associations' = AddFromDocument(associations, messages', d, text) /\ UNCHANGED chosen
    BY <1>1 DEF DocumentChange
  <2>3. \A r \in associations : r.priority = Maximum => r.source = "manual"
    BY DEF ChoicesOK, IsChoice
  <2>4. \A r : r.priority = Maximum => (r \in associations' <=> r \in associations)
    BY <2>1, <2>2, <2>3, DocumentRules DEF AddFromDocument, FromDocument, Maximum
  <2> QED BY <2>2, <2>4, ChoicesKept
<1>2. CASE ~(d \in settings.included /\ settings.enabled)
  BY <1>2, ChoicesKept DEF DocumentChange
<1> QED BY <1>1, <1>2

LEMMA UrlKeepsChoices ==
    ASSUME TypeOK, ChoicesOK, NEW d \in Documents, NEW schema \in Schemas, AssociateUrl(d, schema)
    PROVE  ChoicesOK'
<1> DEFINE new == [at |-> messages', docs |-> {d}, by |-> "url", source |-> "manual",
                   priority |-> Maximum, schema |-> schema]
<1>1. Rule(messages', {d}, "url", "manual", Maximum, schema) = {new}
  BY AssociationsAssumption DEF Rule
<1>2. \A r : r.priority = Maximum =>
          (r \in associations' <=> (r \in associations /\ r.docs # {d}) \/ r = new)
  <2>1. \A r \in associations : r.priority = Maximum => r.by = "url" /\ r.source = "manual"
    BY DEF ChoicesOK, IsChoice
  <2> QED BY <1>1, <2>1 DEF AssociateUrl, Unselect, ForUrl
<1>3. chosen' = [chosen EXCEPT ![d] = schema]
  BY DEF AssociateUrl
<1>4. ASSUME NEW r \in associations', r.priority = Maximum PROVE IsChoice(r)'
  <2>1. CASE r = new
    BY <1>3, <2>1 DEF IsChoice, TypeOK
  <2>2. CASE r \in associations /\ r.docs # {d}
    <3>1. PICK e \in Documents : r.by = "url" /\ r.docs = {e} /\ r.source = "manual" /\ chosen[e] = r.schema
      BY <1>4, <2>2 DEF ChoicesOK, IsChoice
    <3>2. chosen'[e] = chosen[e]
      BY <1>3, <2>2, <3>1 DEF TypeOK
    <3> QED BY <3>1, <3>2 DEF IsChoice
  <2> QED BY <1>2, <1>4, <2>1, <2>2
<1>5. ASSUME NEW r \in associations', NEW q \in associations',
             r.priority = Maximum, q.priority = Maximum, r.docs = q.docs
      PROVE  r = q
  <2>1. new.docs = {d}
    OBVIOUS
  <2> QED BY <1>2, <1>5, <2>1 DEF ChoicesOK
<1>6. ASSUME NEW e \in Documents, chosen'[e] # None
      PROVE  \E r \in associations' : r.priority = Maximum /\ r.docs = {e}
  <2>1. CASE e = d
    <3>1. new.priority = Maximum /\ new.docs = {d} /\ new \in associations'
      BY <1>1 DEF AssociateUrl
    <3> QED BY <2>1, <3>1
  <2>2. CASE e # d
    <3>1. chosen[e] # None /\ {e} # {d}
      BY <1>3, <1>6, <2>2 DEF TypeOK
    <3>2. PICK r \in associations : r.priority = Maximum /\ r.docs = {e}
      BY <3>1 DEF ChoicesOK
    <3> QED BY <1>2, <3>1, <3>2
  <2> QED BY <2>1, <2>2
<1> QED BY <1>4, <1>5, <1>6 DEF ChoicesOK

LEMMA ConfigurationKeepsChoices ==
    ASSUME TypeOK, ChoicesOK, NEW s \in Settings, NEW reachable \in BOOLEAN, Initialize(s, reachable)
    PROVE  ChoicesOK'
<1>1. messages' \in Nat /\ s \in Setting
  BY AssociationsAssumption DEF TypeOK, Initialize, Write, Receive
<1>2. \A r \in FromConfiguration(messages', s, reachable) : r.priority # Maximum
  BY <1>1, ConfigurationRules, AssociationsAssumption
<1>3. \A r : r.priority = Maximum => (r \in associations' <=> r \in associations)
  BY <1>2 DEF Initialize
<1> QED BY <1>3, ChoicesKept DEF Initialize

LEMMA PatternKeepsChoices ==
    ASSUME ChoicesOK, NEW x \in Extensions, AssociatePattern(x) PROVE ChoicesOK'
<1>1. \A r \in Rule(messages', x.docs, "pattern", "manual", 10, x.schema) : r.priority # Maximum
  BY DEF Rule, Maximum
<1>2. \A r : r.priority = Maximum => (r \in associations' <=> r \in associations)
  BY <1>1 DEF AssociatePattern
<1> QED BY <1>2, ChoicesKept DEF AssociatePattern

LEMMA InitChoices == Init => ChoicesOK
<1> SUFFICES ASSUME Init PROVE ChoicesOK
  OBVIOUS
<1>1. \A r \in Rule(0, TaploFiles, "pattern", "builtin", 10, ConfigSchema) : r.priority # Maximum
  BY DEF Rule, Maximum
<1>2. settings \in Setting
  BY AssociationsAssumption DEF Init
<1>3. \A reachable \in BOOLEAN :
          \A r \in FromConfiguration(0, settings, reachable) : r.priority # Maximum
  BY <1>2, ConfigurationRules, AssociationsAssumption
<1>4. \A r \in associations : r.priority # Maximum
  BY <1>1, <1>3 DEF Init
<1> QED BY <1>4 DEF Init, ChoicesOK

-------------------------------------------------------------------------------
(* Texts.                                                                      *)

\* The rules from d's text are those of the text.
FollowsText(d) ==
    /\ {r.schema : r \in RulesOf(d, "directive")} = {documents[d].text.directive} \ {None}
    /\ {r.schema : r \in RulesOf(d, "$schema")} = {documents[d].text.field} \ {None}

\* The rules from d's text stay in a step that keeps the rules that name d and come
\* from a document.
LEMMA TextKept ==
    ASSUME NEW d, FollowsText(d), documents'[d] = documents[d],
           \A r : FromDocument(r, d) => (r \in associations' <=> r \in associations)
    PROVE  FollowsText(d)'
<1>1. RulesOf(d, "directive")' = RulesOf(d, "directive")
  BY DEF RulesOf, FromDocument
<1>2. RulesOf(d, "$schema")' = RulesOf(d, "$schema")
  BY DEF RulesOf, FromDocument
<1> QED BY <1>1, <1>2 DEF FollowsText

\* A text that is stored brings its rules, and takes those of the one before.
LEMMA TextStored ==
    ASSUME NEW d \in Documents, NEW text \in Text, NEW rs, messages' \in Nat,
           documents'[d].text = text,
           associations' = AddFromDocument(rs, messages', d, text)
    PROVE  FollowsText(d)'
<1> DEFINE directives == DirectiveRule(messages', d, text)
           fields == FieldRule(messages', d, text)
<1>1. RulesOf(d, "directive")' = directives
  BY DocumentRules DEF RulesOf, AddFromDocument, FromDocument, ForUrl
<1>2. RulesOf(d, "$schema")' = fields
  BY DocumentRules DEF RulesOf, AddFromDocument, FromDocument, ForUrl
<1> HIDE DEF directives, fields
<1>3. /\ \A r \in directives : r.schema = text.directive /\ r.schema # None
      /\ text.directive # None => directives # {}
  BY DocumentRules DEF directives
<1>4. /\ \A r \in fields : r.schema = text.field /\ r.schema # None
      /\ text.field # None => fields # {}
  BY DocumentRules DEF fields
<1>5. {r.schema : r \in directives} = {text.directive} \ {None}
  BY <1>3
<1>6. {r.schema : r \in fields} = {text.field} \ {None}
  BY <1>4
<1> QED BY <1>1, <1>2, <1>5, <1>6 DEF FollowsText

TextsFollowed == \A d \in Known : documents[d].associated => FollowsText(d)

LEMMA TextsFollowedMeaning == TextsFollowed <=> RulesFollowText
    BY DEF TextsFollowed, FollowsText, RulesFollowText

LEMMA OpenFollowsText ==
    ASSUME TypeOK, TextsFollowed, NEW d \in Documents, NEW text \in Texts, DocumentOpen(d, text)
    PROVE  TextsFollowed'
<1> SUFFICES ASSUME NEW e \in Documents, documents'[e].text # None, documents'[e].associated
             PROVE  FollowsText(e)'
  BY DEF TextsFollowed, Known
<1>0. messages' \in Nat /\ text \in Text
  BY AssociationsAssumption DEF TypeOK, DocumentOpen, Write, Receive
<1>1. CASE e = d /\ d \in settings.included
  <2>1. documents'[d] = [text |-> text, associated |-> settings.enabled]
    BY <1>1 DEF DocumentOpen, Stored, TypeOK
  <2>2. associations' = AddFromDocument(Forget(d), messages', d, text)
    BY <1>1, <2>1 DEF DocumentOpen
  <2> QED BY <1>0, <1>1, <2>1, <2>2, TextStored
<1>2. CASE ~(e = d /\ d \in settings.included)
  <2>1. documents'[e] = documents[e]
    BY <1>2 DEF DocumentOpen, Stored, TypeOK
  <2>2. FollowsText(e)
    BY <2>1 DEF TextsFollowed, Known
  <2>3. \A r : FromDocument(r, e) => (r \in associations' <=> r \in associations)
    <3>1. CASE associations' = associations
      BY <3>1
    <3>2. CASE e # d /\ associations' = AddFromDocument(Forget(d), messages', d, text)
      <4>1. {e} # {d}
        BY <3>2
      <4> QED BY <1>0, <3>2, <4>1, DocumentRules DEF AddFromDocument, Forget, FromDocument, ForUrl
    <3> QED BY <1>2, <3>1, <3>2 DEF DocumentOpen
  <2> QED BY <2>1, <2>2, <2>3, TextKept
<1> QED BY <1>1, <1>2

LEMMA ChangeFollowsText ==
    ASSUME TypeOK, TextsFollowed, NEW d \in Documents, NEW text \in Texts, DocumentChange(d, text)
    PROVE  TextsFollowed'
<1> SUFFICES ASSUME NEW e \in Documents, documents'[e].text # None, documents'[e].associated
             PROVE  FollowsText(e)'
  BY DEF TextsFollowed, Known
<1>0. messages' \in Nat /\ text \in Text
  BY AssociationsAssumption DEF TypeOK, DocumentChange, Write, Receive
<1>1. CASE e = d /\ d \in settings.included
  <2>1. documents'[d] = [text |-> text, associated |-> settings.enabled]
    BY <1>1 DEF DocumentChange, Stored, TypeOK
  <2>2. associations' = AddFromDocument(associations, messages', d, text)
    BY <1>1, <2>1 DEF DocumentChange
  <2> QED BY <1>0, <1>1, <2>1, <2>2, TextStored
<1>2. CASE ~(e = d /\ d \in settings.included)
  <2>1. documents'[e] = documents[e]
    BY <1>2 DEF DocumentChange, Stored, TypeOK
  <2>2. FollowsText(e)
    BY <2>1 DEF TextsFollowed, Known
  <2>3. \A r : FromDocument(r, e) => (r \in associations' <=> r \in associations)
    <3>1. CASE associations' = associations
      BY <3>1
    <3>2. CASE e # d /\ associations' = AddFromDocument(associations, messages', d, text)
      <4>1. {e} # {d}
        BY <3>2
      <4> QED BY <1>0, <3>2, <4>1, DocumentRules DEF AddFromDocument, FromDocument, ForUrl
    <3> QED BY <1>2, <3>1, <3>2 DEF DocumentChange
  <2> QED BY <2>1, <2>2, <2>3, TextKept
<1> QED BY <1>1, <1>2

\* The other handlers leave the rules from documents alone.
LEMMA OthersFollowText ==
    ASSUME TypeOK, TextsFollowed,
           \A e \in Documents : documents'[e].text # None => documents'[e] = documents[e],
           \A r, e : FromDocument(r, e) => (r \in associations' <=> r \in associations)
    PROVE  TextsFollowed'
<1> SUFFICES ASSUME NEW e \in Documents, documents'[e].text # None, documents'[e].associated
             PROVE  FollowsText(e)'
  BY DEF TextsFollowed, Known
<1>1. documents'[e] = documents[e]
  OBVIOUS
<1>2. FollowsText(e)
  BY <1>1 DEF TextsFollowed, Known
<1> QED BY <1>1, <1>2, TextKept

-------------------------------------------------------------------------------
(* Announcements.                                                              *)

\* Opening a document tells the client of the others when their rules may have changed.
LEMMA OpenTells ==
    ASSUME TypeOK, KnownOK, ToldIsTrue, NEW d \in Documents, NEW text \in Texts, DocumentOpen(d, text)
    PROVE  KnownOK' /\ ToldIsTrue'
<1>1. /\ opened' = opened \cup {d}
      /\ selecting = {} /\ told'[d] = Untold
      /\ \A e \in Documents \ {d} : documents'[e] = documents[e]
  BY DEF DocumentOpen, Write, Stored, TypeOK
<1>2. Known' \subseteq Known \cup {d} /\ Known \ {d} \subseteq Known'
  BY <1>1 DEF Known
<1>3. \A e \in Known \ {d} : told'[e] \in {Untold, AssociationFor(associations', e)}
  <2> SUFFICES ASSUME NEW e \in Known \ {d}
               PROVE  told'[e] \in {Untold, AssociationFor(associations', e)}
    OBVIOUS
  <2>1. e \in Documents
    BY DEF Known
  <2>2. CASE told' = [told EXCEPT ![d] = Untold] /\ associations' = associations
    BY <1>1, <2>1, <2>2 DEF ToldIsTrue, TypeOK
  <2>3. CASE told' = [c \in Documents |-> IF c \in Known \ {d} THEN AssociationFor(associations', c)
                                         ELSE IF c = d THEN Untold ELSE told[c]]
    BY <2>1, <2>3
  <2> QED BY <2>2, <2>3 DEF DocumentOpen
<1>4. \A e \in Documents \ {d} : e \notin Known => told'[e] = told[e]
  BY DEF DocumentOpen, TypeOK
<1>5. KnownOK'
  <2>1. Known' \subseteq opened'
    BY <1>1, <1>2 DEF KnownOK
  <2>2. ASSUME NEW e \in opened' \ Known' PROVE told'[e] = Untold
    <3>1. e \in Documents
      BY <1>1, <2>2 DEF TypeOK
    <3> QED BY <1>1, <1>2, <1>4, <2>2, <3>1 DEF KnownOK
  <2> QED BY <2>1, <2>2 DEF KnownOK
<1>6. ToldIsTrue'
  BY <1>1, <1>2, <1>3 DEF ToldIsTrue
<1> QED BY <1>5, <1>6

LEMMA ChangeTells ==
    ASSUME TypeOK, KnownOK, ToldIsTrue, NEW d \in Documents, NEW text \in Texts, DocumentChange(d, text)
    PROVE  KnownOK' /\ ToldIsTrue'
<1>1. /\ opened' = opened /\ d \in opened
      /\ selecting = {}
      /\ \A e \in Documents \ {d} : documents'[e] = documents[e]
  BY DEF DocumentChange, Write, Stored, TypeOK
<1>2. text # None
  BY AssociationsAssumption
<1>3. Known' \subseteq Known \cup {d} /\ Known \subseteq Known'
  BY <1>1, <1>2 DEF DocumentChange, Known, Stored, TypeOK
<1>4. \/ associations' = associations /\ told' = told
      \/ EmitAssociations(associations')
  BY DEF DocumentChange
<1>5. \A e \in Documents \ Known : told'[e] = told[e]
  BY <1>4 DEF EmitAssociations
<1>6. \A e \in Known : told'[e] \in {Untold, AssociationFor(associations', e)}
  BY <1>1, <1>4 DEF ToldIsTrue, EmitAssociations, Known
<1>7. KnownOK'
  <2>1. Known' \subseteq opened'
    BY <1>1, <1>3 DEF KnownOK
  <2>2. \A e \in opened' \ Known' : told'[e] = Untold
    BY <1>1, <1>3, <1>5 DEF KnownOK, TypeOK
  <2> QED BY <2>1, <2>2 DEF KnownOK
<1>8. ToldIsTrue'
  <2>1. d \notin Known => told'[d] = Untold
    BY <1>1, <1>5 DEF KnownOK
  <2> QED BY <1>3, <1>6, <2>1 DEF ToldIsTrue
<1> QED BY <1>7, <1>8

LEMMA CloseTells ==
    ASSUME TypeOK, KnownOK, ToldIsTrue, NEW d \in Documents, DocumentClose(d)
    PROVE  KnownOK' /\ ToldIsTrue'
<1>1. Known' = Known \ {d}
  BY DEF DocumentClose, Known, Closed, TypeOK
<1>2. /\ opened' = opened \ {d} /\ selecting = {}
      /\ UNCHANGED <<associations, told>>
  BY DEF DocumentClose, Write, client
<1>3. \A e \in Documents : AssociationFor(associations', e) = AssociationFor(associations, e)
  BY <1>2
<1> QED BY <1>1, <1>2, <1>3 DEF KnownOK, ToldIsTrue, Known

\* Whoever announces all associations has told the client the truth.
LEMMA EmitTells ==
    ASSUME KnownOK, EmitAssociations(associations'), UNCHANGED <<documents, opened>>, opened \subseteq Documents
    PROVE  KnownOK' /\ ToldIsTrue'
<1>1. Known' = Known /\ Known \subseteq Documents
  BY DEF Known
<1>2. \A e \in Documents \ Known : told'[e] = told[e]
  BY DEF EmitAssociations
<1>3. \A e \in Known : told'[e] = AssociationFor(associations', e)
  BY <1>1 DEF EmitAssociations
<1> QED BY <1>1, <1>2, <1>3 DEF KnownOK, ToldIsTrue

LEMMA UnchangedTells ==
    ASSUME KnownOK, ToldIsTrue, UNCHANGED <<associations, documents, opened, told, selecting>>
    PROVE  KnownOK' /\ ToldIsTrue'
<1>1. Known' = Known
  BY DEF Known
<1>2. \A e : AssociationFor(associations', e) = AssociationFor(associations, e)
  OBVIOUS
<1> QED BY <1>1, <1>2 DEF KnownOK, ToldIsTrue

-------------------------------------------------------------------------------
(* The invariant.                                                              *)

LEMMA InitInvariant == Init => IInv
<1> SUFFICES ASSUME Init PROVE IInv
  OBVIOUS
<1>1. TypeOK /\ ChoicesOK
  BY InitType, InitChoices
<1>2. Known = {} /\ opened = {}
  BY DEF Init, Known, Closed
<1> QED BY <1>1, <1>2 DEF IInv, KnownOK, RulesFollowText, ToldIsTrue

LEMMA NextInvariant == IInv /\ [Next]_vars => IInv'
<1> SUFFICES ASSUME IInv, [Next]_vars PROVE IInv'
  OBVIOUS
<1> USE DEF IInv
<1>0. TextsFollowed /\ (TextsFollowed' => RulesFollowText')
  BY TextsFollowedMeaning DEF TextsFollowed, FollowsText, RulesFollowText
<1>1. ASSUME NEW d \in Documents, NEW text \in Texts, DocumentOpen(d, text) PROVE IInv'
  BY <1>0, <1>1, OpenOrChangeType, OpenKeepsChoices, OpenFollowsText, OpenTells
<1>2. ASSUME NEW d \in Documents, NEW text \in Texts, DocumentChange(d, text) PROVE IInv'
  BY <1>0, <1>2, OpenOrChangeType, ChangeKeepsChoices, ChangeFollowsText, ChangeTells
<1>3. ASSUME NEW d \in Documents, DocumentClose(d) PROVE IInv'
  <2>1. TypeOK' /\ KnownOK' /\ ToldIsTrue'
    BY <1>3, CloseType, CloseTells
  <2>2. ChoicesOK'
    BY <1>3, ChoicesKept DEF DocumentClose, client
  <2>3. \A e \in Documents : documents'[e].text # None => documents'[e] = documents[e]
    BY <1>3 DEF DocumentClose, Closed, TypeOK
  <2>4. TextsFollowed'
    BY <1>0, <1>3, <2>3, OthersFollowText DEF DocumentClose
  <2> QED BY <1>0, <2>1, <2>2, <2>4
<1>4. ASSUME NEW d \in Documents, AssociateUrlDone(d) PROVE IInv'
  <2>1. TypeOK'
    BY <1>4, UrlDoneType
  <2>2. ChoicesOK' /\ TextsFollowed'
    BY <1>0, <1>4, ChoicesKept, OthersFollowText DEF AssociateUrlDone
  <2>3. KnownOK' /\ ToldIsTrue'
    <3>1. EmitAssociations(associations') /\ UNCHANGED <<documents, opened>>
      BY <1>4 DEF AssociateUrlDone
    <3> QED BY <3>1, EmitTells DEF TypeOK
  <2> QED BY <1>0, <2>1, <2>2, <2>3
<1>5. ASSUME NEW d \in Documents, NEW schema \in Schemas, AssociateUrl(d, schema) PROVE IInv'
  <2>1. TypeOK' /\ ChoicesOK'
    BY <1>5, UrlType, UrlKeepsChoices
  <2>2. \A r, e : FromDocument(r, e) => (r \in associations' <=> r \in associations)
    BY <1>5 DEF AssociateUrl, Unselect, Rule, FromDocument
  <2>3. TextsFollowed'
    BY <1>0, <1>5, <2>2, OthersFollowText DEF AssociateUrl
  <2>4. KnownOK' /\ ToldIsTrue'
    <3>1. /\ UNCHANGED <<documents, opened, told>>
          /\ selecting' = selecting \cup {d}
      BY <1>5 DEF AssociateUrl
    <3>2. Known' = Known /\ selecting' # {}
      BY <3>1 DEF Known
    <3> QED BY <3>1, <3>2 DEF KnownOK, ToldIsTrue
  <2> QED BY <1>0, <2>1, <2>3, <2>4
<1>6. ASSUME NEW x \in Extensions, AssociatePattern(x) PROVE IInv'
  <2>1. TypeOK' /\ ChoicesOK'
    BY <1>6, PatternType, PatternKeepsChoices
  <2>2. \A r, e : FromDocument(r, e) => (r \in associations' <=> r \in associations)
    BY <1>6 DEF AssociatePattern, Rule, FromDocument, ForUrl
  <2>3. TextsFollowed'
    BY <1>0, <1>6, <2>2, OthersFollowText DEF AssociatePattern
  <2>4. KnownOK' /\ ToldIsTrue'
    <3>1. EmitAssociations(associations') /\ UNCHANGED <<documents, opened>>
      BY <1>6 DEF AssociatePattern
    <3> QED BY <3>1, EmitTells DEF TypeOK
  <2> QED BY <1>0, <2>1, <2>3, <2>4
<1>7. ASSUME NEW s \in Settings, NEW reachable \in BOOLEAN, Initialize(s, reachable) PROVE IInv'
  <2>1. TypeOK' /\ ChoicesOK'
    BY <1>7, InitializeType, ConfigurationKeepsChoices
  <2>2. messages' \in Nat /\ s \in Setting
    BY <1>7, AssociationsAssumption DEF TypeOK, Initialize, Write, Receive
  <2>3. \A r \in FromConfiguration(messages', s, reachable) : r.by # "url"
    BY <2>2, ConfigurationRules, AssociationsAssumption
  <2>4. \A r, e : FromDocument(r, e) => (r \in associations' <=> r \in associations)
    BY <1>7, <2>3 DEF Initialize, FromDocument, ForUrl
  <2>5. TextsFollowed'
    BY <1>0, <1>7, <2>4, OthersFollowText DEF Initialize
  <2>6. KnownOK' /\ ToldIsTrue'
    <3>1. CASE s.enabled
      <4>1. EmitAssociations(associations') /\ UNCHANGED <<documents, opened>>
        BY <1>7, <3>1 DEF Initialize
      <4> QED BY <4>1, EmitTells DEF TypeOK
    <3>2. CASE ~s.enabled
      BY <1>7, <3>2, UnchangedTells DEF Initialize, Write
    <3> QED BY <3>1, <3>2
  <2> QED BY <1>0, <2>1, <2>5, <2>6
<1>8. CASE UNCHANGED vars
  <2>1. TypeOK'
    BY <1>8 DEF vars, client, TypeOK
  <2>2. ChoicesOK' /\ TextsFollowed' /\ KnownOK' /\ ToldIsTrue'
    BY <1>0, <1>8, ChoicesKept, OthersFollowText, UnchangedTells DEF vars, client
  <2> QED BY <1>0, <2>1, <2>2
<1> QED BY <1>1, <1>2, <1>3, <1>4, <1>5, <1>6, <1>7, <1>8 DEF Next, Finished

THEOREM Invariant == Spec => []IInv
    BY InitInvariant, NextInvariant, PTL DEF Spec

\* Whatever the text of a document says and configurations become, the document has
\* the schema its user chose last (ChoiceWins), for any number of documents, schemas,
\* settings and messages.
THEOREM ChoicePrevails == Spec => []ChoiceWins
<1>1. IInv => ChoiceWins
  BY ChoiceIsBest DEF IInv
<1> QED BY <1>1, Invariant, PTL

\* The rules from a document are those of the text it has (RulesFollowText).
THEOREM TextsRule == Spec => []RulesFollowText
<1>1. IInv => RulesFollowText
  BY DEF IInv
<1> QED BY <1>1, Invariant, PTL

\* The client knows the schema of every open document it was told of (ToldIsTrue).
THEOREM ClientKnows == Spec => []ToldIsTrue
<1>1. IInv => ToldIsTrue
  BY DEF IInv
<1> QED BY <1>1, Invariant, PTL

-------------------------------------------------------------------------------
(* Documents leave one another's schemas alone.                                *)

LEMMA SameRulesSameSchema ==
    ASSUME NEW d, \A r : d \in r.docs => (r \in associations' <=> r \in associations)
    PROVE  AssociationFor(associations', d) = AssociationFor(associations, d)
<1>1. Matching(associations', d) = Matching(associations, d)
  BY DEF Matching
<1> QED BY <1>1 DEF AssociationFor

\* A step that stores or removes a document leaves the schemas of the others alone.
LEMMA StepLeavesOthers ==
    ASSUME TypeOK, [Next]_vars, NEW d \in Documents, NEW e \in Documents,
           d # e, documents'[e] # documents[e]
    PROVE  AssociationFor(associations', d) = AssociationFor(associations, d)
<1>1. ASSUME NEW c \in Documents, NEW text \in Texts,
             DocumentOpen(c, text) \/ DocumentChange(c, text)
      PROVE  \A r : d \in r.docs => (r \in associations' <=> r \in associations)
  <2>1. c = e
    BY <1>1 DEF DocumentOpen, DocumentChange, Stored, TypeOK
  <2>2. messages' \in Nat /\ text \in Text
    BY <1>1, AssociationsAssumption DEF TypeOK, DocumentOpen, DocumentChange, Write, Receive
  <2>3. \/ associations' = associations
        \/ associations' = AddFromDocument(Forget(e), messages', e, text)
        \/ associations' = AddFromDocument(associations, messages', e, text)
    BY <1>1, <2>1 DEF DocumentOpen, DocumentChange
  <2> QED BY <2>2, <2>3, DocumentRules DEF AddFromDocument, Forget, FromDocument, ForUrl
<1>2. ASSUME NEW c \in Documents, DocumentClose(c)
      PROVE  associations' = associations
  BY <1>2 DEF DocumentClose
<1>3. \/ \E c \in Documents, text \in Texts : DocumentOpen(c, text) \/ DocumentChange(c, text)
      \/ \E c \in Documents : DocumentClose(c)
  BY DEF Next, Finished, vars, Initialize, AssociatePattern, AssociateUrl, AssociateUrlDone
<1> QED BY <1>1, <1>2, <1>3, SameRulesSameSchema

\* A document that is opened, edited or closed changes no other's schema
\* (OthersKeepTheirSchema).
THEOREM OthersUndisturbed == Spec => OthersKeepTheirSchema
<1>1. IInv /\ [Next]_vars =>
          [\A d, e \in Documents : d # e /\ documents'[e] # documents[e]
               => AssociationFor(associations', d) = AssociationFor(associations, d)]_vars
  BY StepLeavesOthers DEF IInv
<1> QED BY <1>1, Invariant, PTL DEF Spec, OthersKeepTheirSchema

===============================================================================
