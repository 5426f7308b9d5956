------------------------------ MODULE MCIpcMsg ------------------------------
(* Inputs for the runs of IpcMsg. *)
EXTENDS IpcMsg

(* No line, an empty line, equal lines, lines after "EOF", and the text of *)
(* the exit message among the lines.                                       *)
Files == {<< >>, <<"x", "">>, <<"x", "y", "y">>, <<"x", "EOF", "y">>,
          <<"x", EXIT_MESSAGE, "y">>}
=============================================================================
