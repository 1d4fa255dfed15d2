----------------------------- MODULE MCAssociations -----------------------------
(* Instances of Associations for TLC.                                          *)
EXTENDS Associations

CONSTANTS package, taplo, s, t

BothDocuments == {package, taplo}
OneDocument == {taplo}
BothSchemas == {s, t}

Plain == [directive |-> None, field |-> None]
SomeTexts == {Plain, [directive |-> s, field |-> t], [Plain EXCEPT !.field = s]}

Defaults == [enabled |-> TRUE, included |-> BothDocuments,
             rule |-> None, config |-> None, lsp |-> None, catalog |-> None]
SomeSettings == {[Defaults EXCEPT !.catalog = t],
                 [Defaults EXCEPT !.rule = s, !.config = t, !.lsp = t, !.included = {package}],
                 [Defaults EXCEPT !.enabled = FALSE]}

OneExtension == {[docs |-> BothDocuments, schema |-> s]}
===============================================================================
