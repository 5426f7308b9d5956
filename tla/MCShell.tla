------------------------------ MODULE MCShell ------------------------------
(* Lines, programs and texts for the run of Shell. *)
EXTENDS Shell

Programs == [two |-> <<<<"x">>, NL>>, three |-> <<<<"x">>, <<"y">>, NL>>]

TypedLines ==
  { << >>, <<" ", "exit">>,
    <<"echo", "a">>, <<"echo", "-n", "a", "b", ">", "f">>, <<"echo", "a", ">", "locked">>,
    <<"record">>, <<"record", ">", "f">>, <<"pwd", "<", "f">>, <<"cd", "d2">>, <<"cd", "d9">>,
    <<"help", "<", "f", ">", "g">>, <<"exit">>, <<"exit", "|", "cat">>, <<">", "f">>,
    <<"nosuch", ">", "f">>, <<"two">>, <<"cat", "<", "f", ">", "f">>,
    <<"two", "|", "cat", ">", "f">>, <<"three", "|", "cat">>,
    <<"two", ">", "f", "|", "cat", "<", "f", "|", "cat">>,
    <<"two", "|", "two", "|", "cat">>, <<"cat", "|", "cat", "<", "g">>,
    <<"two", "|", ">", "locked">> }
=============================================================================
