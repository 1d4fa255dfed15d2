------------------------------- MODULE MCTomlDom -------------------------------
(* Instances of TomlDom for TLC.                                                *)
EXTENDS TomlDom

CONSTANTS a, b

SomePaths == {<<a>>, <<a, b>>, <<a, b, a>>, <<a, b, b>>}

Scalar == [kind |-> "scalar"]
Inline(entries) == [kind |-> "inline", entries |-> entries]
(* 1, {a.a = 1, a.b = 1}, {a = 1, a.b = 1} and [1, {a.a = 1, a.b = 1}] *)
Fits == Inline(<<[keys |-> <<a, a>>, value |-> Scalar], [keys |-> <<a, b>>, value |-> Scalar]>>)
Clashes == Inline(<<[keys |-> <<a>>, value |-> Scalar], [keys |-> <<a, b>>, value |-> Scalar]>>)
SomeValues == {Scalar, Fits, Clashes, [kind |-> "list", items |-> <<Scalar, Fits>>]}
===============================================================================
