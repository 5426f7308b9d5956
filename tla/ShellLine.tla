----------------------------- MODULE ShellLine -----------------------------
(***************************************************************************)
(* A command line of lab2: how split_line cuts it into nodes, the text the *)
(* builtins print, and what running it one stage after the other comes to. *)
(*                                                                         *)
(* A line is a sequence of words; blanks are left out, but for one at the  *)
(* start.  A node has at most nine words and read_line's buffer takes the  *)
(* whole line.  A text is a sequence of items: words, listed lines and     *)
(* newlines, each a tuple of words.                                        *)
(***************************************************************************)
EXTENDS Naturals, Sequences, SequencesExt

CONSTANTS
  Dirs,       \* directories cd can go to; a file name is looked up in one
  FileNames,  \* names used in redirections
  Locked,     \* those that cannot be opened for writing
  Emits,      \* programs that write a text and read nothing, and the text
  PIPE        \* items a pipe holds

NL == <<"\n">>
Absent == [exists |-> FALSE, data |-> << >>]
File(text) == [exists |-> TRUE, data |-> text]

-----------------------------------------------------------------------------
(* read_line drops a line that is empty or begins with a blank. *)
Ignored(line) == line # << >> => Head(line) = " "

(* struct cmd_node; "" is the NULL of in_file and out_file. *)
EmptyNode == [args |-> << >>, in_file |-> "", out_file |-> ""]

(* One turn of the loop over the tokens.  The word after < or > is a file  *)
(* name whatever it is.                                                    *)
AddToken(acc, token) ==
  LET last == Len(acc.nodes) IN
  CASE acc.next = "in"  -> [nodes |-> [acc.nodes EXCEPT ![last].in_file = token], next |-> "any"]
    [] acc.next = "out" -> [nodes |-> [acc.nodes EXCEPT ![last].out_file = token], next |-> "any"]
    [] acc.next = "any" ->
         CASE token = "|" -> [acc EXCEPT !.nodes = Append(@, EmptyNode)]
           [] token = "<" -> [acc EXCEPT !.next = "in"]
           [] token = ">" -> [acc EXCEPT !.next = "out"]
           [] OTHER       -> [acc EXCEPT !.nodes[last].args = Append(@, token)]

(* What the loop has made of the first i tokens, for each i. *)
Loop(line) ==
  LET acc[i \in 0 .. Len(line)] ==
        IF i = 0 THEN [nodes |-> <<EmptyNode>>, next |-> "any"]
        ELSE AddToken(acc[i - 1], line[i])
  IN acc

split_line(line) == Loop(line)[Len(line)].nodes

-----------------------------------------------------------------------------
builtin_str == {"help", "cd", "pwd", "echo", "exit", "record"}
IsBuiltin(node) == node.args[1] \in builtin_str
IsOneBuiltin(nodes) == Len(nodes) = 1 /\ nodes[1].args # << >> /\ IsBuiltin(nodes[1])

(* echo: the words, and a newline unless the first one is -n. *)
EchoText(words) ==
  LET items(ws) == [i \in DOMAIN ws |-> <<ws[i]>>] IN
  IF words # << >> /\ words[1] = "-n" THEN items(Tail(words)) ELSE Append(items(words), NL)

(* What a builtin prints; listed is the listing of record. *)
BuiltinText(args, cwd, listed) ==
  CASE args[1] = "help"   -> <<<<"help">>, NL>>
    [] args[1] = "pwd"    -> <<<<cwd>>, NL>>
    [] args[1] = "echo"   -> EchoText(Tail(args))
    [] args[1] = "record" -> [i \in 1 .. 2 * Len(listed) |->
                                  IF i % 2 = 1 THEN listed[(i + 1) \div 2] ELSE NL]
    [] args[1] \in {"cd", "exit"} -> << >>

(* Where cd leads: chdir fails for no argument and for no directory. *)
CdTo(args, cwd) ==
  IF args[1] = "cd" /\ Len(args) > 1 /\ args[2] \in Dirs THEN args[2] ELSE cwd

(* The whole lines of a text, which a line-buffered stdout writes at once, *)
(* and the rest, which it keeps.                                           *)
LastNL(text) == SelectLastInSeq(text, LAMBDA item : item = NL)
WholeLines(text) == SubSeq(text, 1, LastNL(text))
LastPart(text) == SubSeq(text, LastNL(text) + 1, Len(text))

-----------------------------------------------------------------------------
(* The reference: a line run stage after stage, each as one function.      *)
IsProgram(args) == args # << >> /\ (args[1] = "cat" \/ args[1] \in DOMAIN Emits)
ProgramText(args, input) == IF args[1] = "cat" THEN input ELSE Emits[args[1]]

(* redirection() finds both files of a node. *)
CanRead(files, cwd, node) == node.in_file # "" => files[<<cwd, node.in_file>>].exists
CanWrite(node) == node.out_file \notin Locked
Opened(files, cwd, node) ==
  IF node.out_file = "" THEN files ELSE [files EXCEPT ![<<cwd, node.out_file>>] = File(<< >>)]

(* What the program of a stage writes in all; s.input is what the pipe     *)
(* before it holds.                                                        *)
StageText(s, node) ==
  LET files == Opened(s.files, s.cwd, node)
      input == IF node.in_file = "" THEN s.input ELSE files[<<s.cwd, node.in_file>>].data
  IN IF IsProgram(node.args) THEN ProgramText(node.args, input) ELSE << >>

(* State s when a stage has written text: to its file, the terminal or the *)
(* next pipe.  fits says whether each text has fitted its pipe so far.     *)
Written(s, node, last, text) ==
  IF node.out_file # ""
  THEN [s EXCEPT !.files = [@ EXCEPT ![<<s.cwd, node.out_file>>] = File(text)],
                 !.input = << >>]
  ELSE IF last THEN [s EXCEPT !.term = @ \o text]
  ELSE [s EXCEPT !.input = text, !.fits = @ /\ Len(text) <= PIPE]

(* State s after an external stage. *)
RunStage(s, node, last) ==
  IF CanRead(s.files, s.cwd, node) /\ CanWrite(node)
  THEN Written(s, node, last, StageText(s, node))
  ELSE [s EXCEPT !.input = << >>]

(* A builtin: all it prints goes to its file or to the terminal. *)
RunBuiltin(s, node, listed) ==
  [Written(s, node, TRUE, BuiltinText(node.args, s.cwd, listed)) EXCEPT
     !.cwd = CdTo(node.args, s.cwd)]

(* A line begins in a given file system. *)
Start(files, cwd) ==
  [files |-> files, cwd |-> cwd, input |-> << >>, term |-> << >>, fits |-> TRUE]

(* State s after stage i; nofork are the stages fork failed for. *)
AfterStage(s, i, nodes, nofork) ==
  IF i \in nofork THEN [s EXCEPT !.input = << >>]
  ELSE RunStage(s, nodes[i], i = Len(nodes))

(* The states of a pipeline: after none of its stages, the first, ... *)
RunStages(start, nodes, nofork) ==
  LET state[i \in 0 .. Len(nodes)] ==
        IF i = 0 THEN start ELSE AfterStage(state[i - 1], i, nodes, nofork)
  IN state

RunLine(files, cwd, nodes, listed, nofork) ==
  IF IsOneBuiltin(nodes)
  THEN RunBuiltin(Start(files, cwd), nodes[1], listed)
  ELSE RunStages(Start(files, cwd), nodes, nofork)[Len(nodes)]
=============================================================================
