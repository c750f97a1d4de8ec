---------------------------- MODULE MCNameTables ----------------------------
EXTENDS NameTables

A == <<"a">>
AB == <<"a", "b">>
B == <<"b">>
BB == <<"b", "b">>

MCHash == ("a" :> 5) @@ ("b" :> 19) @@ ("c" :> 6)
MCDefault == <<"best", 1>>
MCStrategies == {<<"best", 1>>, <<"best", 2>>}
MCRequested == {<<"best">>, <<"best", 1>>, <<"none">>}

(* Names without a repeated component. *)
MCFibNames == {A, AB}
MCPitNames == {AB, B}
MCChoiceNames == {<<>>, A}
MCQueryNames == {A, AB, B, <<"a", "b", "c">>, <<"b", "a">>}
MCLifetimes == {2}

(* Names with one: the hashes of /b/b and / are the same. *)
RepeatedFibNames == {<<>>, B}
RepeatedPitNames == {B, BB}
RepeatedChoiceNames == {B}
RepeatedQueryNames == {B, BB}
=============================================================================
