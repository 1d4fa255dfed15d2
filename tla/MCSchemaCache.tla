----------------------------- MODULE MCSchemaCache -----------------------------
(* Instances of SchemaCache for TLC.                                           *)
EXTENDS SchemaCache

CONSTANT taplo

OneUrl == {taplo}
===============================================================================
