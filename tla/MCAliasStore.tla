---------------------------- MODULE MCAliasStore ----------------------------
(* AliasStore on the patterns gpt*, gpt-4* and gpt-4o: two that both cover  *)
(* some models, and an exact one that sorts after the wildcards.            *)
EXTENDS AliasStore, TLC

gpt_any == <<"gpt", "*">>
gpt_4_any == <<"gpt", "-4", "*">>
gpt_4o == <<"gpt", "-4", "o">>

MCOrder == <<gpt_any, gpt_4_any, gpt_4o>>
MCModels == {gpt_4o, <<"gpt", "-4">>, <<"gpt", "-3">>, <<"o1">>}
Symmetry == Permutations(Editors)
=============================================================================
