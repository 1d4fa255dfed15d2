---------------------------- MODULE MCEditorQueries ----------------------------
(* Instances of EditorQueries for TLC.                                          *)
EXTENDS EditorQueries

CONSTANTS a, b, c

Scalar == [kind |-> "scalar"]
Table(keys) == [kind |-> "table", keys |-> keys, value |-> Scalar]
Tables(keys) == [kind |-> "tables", keys |-> keys, value |-> Scalar]
Entry(keys, value) == [kind |-> "entry", keys |-> keys, value |-> value]
In(keys) == [keys |-> keys, value |-> Scalar]

(* [a], [b.a.c], [a.b], [a.b.c], [[b]], [[a.b]], c = 1, a.b = 1, a.c = 1,
   b = {a=1,c.b=1}, a = [1,{b=1}] *)
SomeLines ==
    {Table(<<a>>), Table(<<b, a, c>>), Table(<<a, b>>), Table(<<a, b, c>>),
     Tables(<<b>>), Tables(<<a, b>>),
     Entry(<<c>>, Scalar), Entry(<<a, b>>, Scalar), Entry(<<a, c>>, Scalar),
     Entry(<<b>>, [kind |-> "inline", entries |-> <<In(<<a>>), In(<<c, b>>)>>]),
     Entry(<<a>>, [kind |-> "list",
                   items |-> <<Scalar, [kind |-> "inline", entries |-> <<In(<<b>>)>>]>>])}
===============================================================================
