------------------------------ MODULE Associations ------------------------------
(* Which schema a document has in one workspace of the language server:        *)
(* taplo_common::schema::associations, and the handlers that change the rules. *)
(*                                                                             *)
(* Rules are kept in a list, here a set of rules that bear the number of the   *)
(* message that added them (rules that one message adds are of different       *)
(* priorities, so that their order does not matter); they come from the        *)
(* documents themselves, from configurations and their catalogs, and from the  *)
(* client (the user's choice for a document, the patterns of extensions).  The *)
(* handlers that write a document or a configuration hold the world's write    *)
(* guard for the whole change, so that each is one action; the choice of a     *)
(* schema holds a read guard and waits for diagnostics between the change and  *)
(* its announcement.                                                           *)
EXTENDS Naturals

CONSTANTS
    Documents,
    TaploFiles,      \* the documents that configure taplo itself
    Schemas,
    ConfigSchema,    \* the built-in schema
    None,
    Texts,           \* [directive, field]: the schemas a text names, or None
    Settings,        \* [enabled, included, rule, config, lsp, catalog]
    Extensions,      \* [docs, schema]: the patterns of extensions, with their schemas
    MaxMessages      \* bound: the messages of the client

\* Mutant: what the user chooses counts as much as a setting.
MaximumOfSettings == 60

Maximum == 100       \* priority::MAX

Named == Schemas \cup {None}

Text == [directive : Named, field : Named]

Setting == [enabled : BOOLEAN, included : SUBSET Documents,
            rule : Named, config : Named, lsp : Named, catalog : Named]

ASSUME AssociationsAssumption ==
    /\ None \notin Schemas /\ None \notin Text /\ ConfigSchema \in Schemas
    /\ TaploFiles \subseteq Documents
    /\ Texts \subseteq Text
    /\ Settings \subseteq Setting
    /\ Extensions \subseteq [docs : SUBSET Documents, schema : Schemas]
    /\ MaxMessages \in Nat

VARIABLES
    associations,    \* the rules
    settings,        \* the configuration in force
    documents,       \* the text of each document, and whether it was read for rules
    opened,          \* the documents the client has open
    selecting,       \* the documents whose new schema is not announced yet
    told,            \* what the client was told of each document since it opened it
    chosen,          \* the schema the user chose for each document since then
    messages

client == <<told, chosen>>
vars == <<associations, settings, documents, opened, selecting, client, messages>>

Closed == [text |-> None, associated |-> FALSE]

Untold == "untold"

-------------------------------------------------------------------------------
(* The rules.                                                                  *)

\* A rule for the documents ds, added by message n: the URL of one, or a pattern.
Rule(n, ds, by, source, priority, schema) ==
    {[at |-> n, docs |-> ds, by |-> by, source |-> source, priority |-> priority,
      schema |-> named] : named \in {schema} \ {None}}

DirectiveRule(n, d, text) == Rule(n, {d}, "url", "directive", 75, text.directive)

FieldRule(n, d, text) == Rule(n, {d}, "url", "$schema", 70, text.field)

ForUrl(r, d) == r.by = "url" /\ r.docs = {d}

\* Mutant: the rules of every document are taken for those of this one.
FromDocumentOfAnyone(r, d) == r.by = "url" /\ r.source \in {"directive", "$schema"}

FromDocument(r, d) == ForUrl(r, d) /\ r.source \in {"directive", "$schema"}

\* Mutant: the rules of the text that was there before are kept.
AddFromDocumentOnTop(rs, n, d, text) == rs \cup DirectiveRule(n, d, text) \cup FieldRule(n, d, text)

AddFromDocument(rs, n, d, text) ==
    {r \in rs : ~FromDocument(r, d)} \cup DirectiveRule(n, d, text) \cup FieldRule(n, d, text)

\* Rules of a configuration, which are added to those of the one before; its catalog
\* may be out of reach.
FromConfiguration(n, s, reachable) ==
    Rule(n, Documents, "pattern", "config", 51, s.rule)
    \cup Rule(n, s.included, "pattern", "config", 50, s.config)
    \cup Rule(n, Documents, "pattern", "lsp_config", 60, s.lsp)
    \cup Rule(n, Documents, "pattern", "catalog", 25, IF reachable THEN s.catalog ELSE None)

\* The last of those of the highest priority (Iterator::max_by_key).
Best(rs) ==
    CHOOSE r \in rs : \A q \in rs : q.priority < r.priority \/ (q.priority = r.priority /\ q.at <= r.at)

Matching(rs, d) == {r \in rs : d \in r.docs}

AssociationFor(rs, d) == IF Matching(rs, d) = {} THEN None ELSE Best(Matching(rs, d)).schema

Known == {d \in Documents : documents[d].text # None}

\* The client is told of every document of the workspace.
EmitAssociations(rs) ==
    told' = [d \in Documents |-> IF d \in Known THEN AssociationFor(rs, d) ELSE told[d]]

-------------------------------------------------------------------------------
(* The handlers.                                                               *)

Receive ==
    /\ messages < MaxMessages
    /\ messages' = messages + 1

\* Writers wait for the guards of those who select a schema.
Write == Receive /\ selecting = {} /\ UNCHANGED selecting

\* document_open forgets every rule that names the document: its condition on the
\* sources is always true.
Forget(d) == {r \in associations : ~ForUrl(r, d)}

Stored(d, text) == [documents EXCEPT ![d] = [text |-> text, associated |-> settings.enabled]]

\* The document itself is not among those the client is told of: it is stored later.
\* The text of a document that is not included is refused.
DocumentOpen(d, text) ==
    /\ Write
    /\ d \notin opened /\ opened' = opened \cup {d}
    /\ IF d \in settings.included
       THEN documents' = Stored(d, text)
       ELSE UNCHANGED documents
    /\ IF d \in settings.included /\ settings.enabled
       THEN /\ associations' = AddFromDocument(Forget(d), messages', d, text)
            /\ told' = [e \in Documents |-> IF e \in Known \ {d} THEN AssociationFor(associations', e)
                                            ELSE IF e = d THEN Untold ELSE told[e]]
            /\ chosen' = [chosen EXCEPT ![d] = None]
       ELSE /\ told' = [told EXCEPT ![d] = Untold]
            /\ UNCHANGED <<associations, chosen>>
    /\ UNCHANGED settings

\* A document that was refused may be stored now, if it is included since.
DocumentChange(d, text) ==
    /\ Write
    /\ d \in opened
    /\ IF d \in settings.included
       THEN documents' = Stored(d, text)
       ELSE UNCHANGED documents
    /\ IF d \in settings.included /\ settings.enabled
       THEN /\ associations' = AddFromDocument(associations, messages', d, text)
            /\ EmitAssociations(associations')
       ELSE UNCHANGED <<associations, told>>
    /\ UNCHANGED <<settings, opened, chosen>>

\* The rules of a closed document stay.
DocumentClose(d) ==
    /\ Write
    /\ d \in opened /\ opened' = opened \ {d}
    /\ documents' = [documents EXCEPT ![d] = Closed]
    /\ UNCHANGED <<associations, settings, client>>

\* WorkspaceState::initialize under another configuration: nothing is forgotten, and
\* nothing is added or told when schemas are disabled.
Initialize(s, reachable) ==
    /\ Write
    /\ settings' = s
    /\ IF s.enabled
       THEN /\ associations' = associations \cup FromConfiguration(messages', s, reachable)
            /\ EmitAssociations(associations')
       ELSE UNCHANGED <<associations, told>>
    /\ UNCHANGED <<documents, opened, chosen>>

\* Mutant: only the choice for one document is announced.
AssociatePatternSilently(x) ==
    /\ Receive
    /\ associations' = associations \cup Rule(messages', x.docs, "pattern", "manual", 10, x.schema)
    /\ UNCHANGED <<settings, documents, opened, selecting, client>>

\* associate_schema for the pattern of an extension.
AssociatePattern(x) ==
    /\ Receive
    /\ associations' = associations \cup Rule(messages', x.docs, "pattern", "manual", 10, x.schema)
    /\ EmitAssociations(associations')
    /\ UNCHANGED <<settings, documents, opened, selecting, chosen>>

Unselect(rs, d) == {r \in rs : ~(ForUrl(r, d) /\ r.source = "manual")}

\* associate_schema for the document the user sees, up to its wait for diagnostics.
AssociateUrl(d, schema) ==
    /\ Receive
    /\ associations' = Unselect(associations, d) \cup Rule(messages', {d}, "url", "manual", Maximum, schema)
    /\ selecting' = selecting \cup {d}
    /\ chosen' = [chosen EXCEPT ![d] = schema]
    /\ UNCHANGED <<settings, documents, opened, told>>

AssociateUrlDone(d) ==
    /\ d \in selecting
    /\ selecting' = selecting \ {d}
    /\ EmitAssociations(associations)
    /\ UNCHANGED <<associations, settings, documents, opened, chosen, messages>>

\* A workspace that was just initialized.
Init ==
    /\ settings \in Settings
    /\ \E reachable \in BOOLEAN :
           associations = Rule(0, TaploFiles, "pattern", "builtin", 10, ConfigSchema)
                          \cup (IF settings.enabled THEN FromConfiguration(0, settings, reachable) ELSE {})
    /\ documents = [d \in Documents |-> Closed] /\ opened = {}
    /\ selecting = {}
    /\ told = [d \in Documents |-> Untold] /\ chosen = [d \in Documents |-> None]
    /\ messages = 0

Finished == messages = MaxMessages /\ selecting = {} /\ UNCHANGED vars

Next ==
    \/ \E d \in Documents, text \in Texts : DocumentOpen(d, text) \/ DocumentChange(d, text)
    \/ \E d \in Documents : DocumentClose(d) \/ AssociateUrlDone(d)
    \/ \E d \in Documents, schema \in Schemas : AssociateUrl(d, schema)
    \/ \E x \in Extensions : AssociatePattern(x)
    \/ \E s \in Settings, reachable \in BOOLEAN : Initialize(s, reachable)
    \/ Finished

Spec == Init /\ [][Next]_vars

-------------------------------------------------------------------------------
(* Properties.                                                                 *)

RulesOf(d, source) ==
    {r \in associations : ForUrl(r, d) /\ r.source = source}

\* The rules from an open document are those of the text it has now, and no others,
\* if schemas were enabled when the text came.
RulesFollowText ==
    \A d \in Known : documents[d].associated =>
        /\ {r.schema : r \in RulesOf(d, "directive")} = {documents[d].text.directive} \ {None}
        /\ {r.schema : r \in RulesOf(d, "$schema")} = {documents[d].text.field} \ {None}

\* The schema the user chose last is the document's, whatever its text says and the
\* configuration becomes, until the document is opened again.
ChoiceWins ==
    \A d \in Documents : chosen[d] # None => AssociationFor(associations, d) = chosen[d]

\* What the client was told last of an open document is true when nobody is about to
\* tell it more: every change of the rules, also by messages about other documents,
\* is announced.
ToldIsTrue ==
    selecting = {} => \A d \in Known : told[d] \in {Untold, AssociationFor(associations, d)}

\* A document that is opened, edited or closed changes no other document's schema.
OthersKeepTheirSchema ==
    [][\A d, e \in Documents :
          d # e /\ documents'[e] # documents[e]
          => AssociationFor(associations', d) = AssociationFor(associations, d)]_vars

===============================================================================
