---------------------------- MODULE MC_Terminal ----------------------------
(* A screen of three rows of three columns and lines of up to four          *)
(* characters: clear, help with and without a word behind it, a word that   *)
(* is no command, and spawn with and without an argument.                   *)
EXTENDS Terminal

MC_commands == [clear |-> <<"a">>, help |-> <<"a", "a">>, ps |-> <<"a", "b">>,
                mem |-> <<"b", "a">>, spawn |-> <<"b">>]
MC_spawnables == [counter |-> <<"b">>, once |-> <<"a">>]
MC_Lines == {<<"a", "a", " ", "a", "b">>, <<"b", " ", "a">>, <<"b", "b">>}
=============================================================================
