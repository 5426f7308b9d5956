------------------------------ MODULE IpcInput ------------------------------
(* What the sender of lab1 makes of its input file. *)
EXTENDS Naturals, Sequences, FiniteSets, SequencesExt

EXIT_MESSAGE == "__IPC_EXIT__"

(* The texts it sends: the lines before "EOF", and the exit message. *)
Script(file) ==
  LET stop == {n \in DOMAIN file : file[n] = "EOF"}
      last == IF stop = {} THEN Len(file) ELSE Min(stop) - 1
  IN  Append(SubSeq(file, 1, last), EXIT_MESSAGE)
=============================================================================
