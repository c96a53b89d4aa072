--------------------------- MODULE MCAgenticLoop ---------------------------
(* Small instances of AgenticLoop. *)
EXTENDS AgenticLoop

MCTurns == {<<"read", "write">>, <<"sub", "bad">>, <<"write", "ask">>}
MCAsStands == {"raises"}
MCBoth == {"raises", "answers"}
=============================================================================
