------------------------------ MODULE MCFleet ------------------------------
(* Two pods, two requests at a time and three in all: environments default *)
(* and a, clusters called c, and a legacy one that is really called a-c.   *)
EXTENDS Fleet, TLC

NameDefault == <<"default">>
NamesExtra  == {<<"a">>}
NamesShort  == {<<"c">>}
NamesLegacy == {<<"c">>, <<"a", "c">>}
Symmetry    == Permutations(Pods) \cup Permutations(Workers) \cup Permutations(Kubeconfigs)
=============================================================================
