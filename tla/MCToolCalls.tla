----------------------------- MODULE MCToolCalls -----------------------------
(* Calls for TLC: two calls of one choice and one of another, and a text   *)
(* of which no proper part parses.                                         *)
EXTENDS ToolCalls

MCKeys == {<<0, 0>>, <<0, 1>>, <<1, 0>>}

MCArguments == {<<"{", "}">>}

==============================================================================
