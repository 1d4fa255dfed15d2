------------------------------ MODULE MCLspWorld ------------------------------
(* Instances of LspWorld for TLC: a document inside one workspace folder, or   *)
(* one inside a folder nested in another.                                      *)
EXTENDS LspWorld, TLC

CONSTANTS d1, d2, outer, inner, detached

OneDoc == {d1}
NestedDoc == {d2}
OneFolder == {outer}
TwoFolders == {outer, inner}

PrefixOne == (d1 :> <<outer>>)
AllIncluded == {Docs}
MaybeIncluded == SUBSET Docs

PrefixNested == (d2 :> <<inner, outer>>)
===============================================================================
