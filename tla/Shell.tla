------------------------------- MODULE Shell -------------------------------
(***************************************************************************)
(* The shell of lab2 at a terminal: its loop, the history, the builtins    *)
(* with their redirections, and pipelines, whose stages fork_cmd_node runs *)
(* one after the other, waiting for each.                                  *)
(*                                                                         *)
(* The programs a stage execs are outside: cat copies its input item by    *)
(* item, others write a text.  A child inherits every descriptor the shell *)
(* has, the read end of the pipe it writes to among them: no write ends in *)
(* SIGPIPE.  The terminal gives programs no input, and read_line no end of *)
(* file.                                                                   *)
(***************************************************************************)
EXTENDS ShellLine, FiniteSets, FiniteSetsExt

CONSTANTS
  Lines,           \* lines the user types
  MaxLines,        \* how many
  MAX_RECORD_NUM   \* lines the history keeps: 16

(* Words are strings, and FileNames has every name a line redirects to. *)
ASSUME WordsAssumption ==
  /\ Lines \subseteq Seq(STRING) /\ Dirs \subseteq STRING
  /\ Emits \in [DOMAIN Emits -> Seq(Seq(STRING))]
  /\ \A line \in Lines : \A i \in DOMAIN split_line(line) :
       LET cmd == split_line(line)[i] IN {cmd.in_file, cmd.out_file} \subseteq FileNames \cup {""}

ASSUME SizesAssumption == MaxLines \in Nat /\ MAX_RECORD_NUM \in Nat \ {0} /\ PIPE \in Nat \ {0}

VARIABLES
  history, history_count,
  pc,       \* where the shell is
  nodes,    \* the line it runs
  p,        \* the stage it runs
  std,      \* what descriptors 0 and 1 of the shell are open on
  fds,      \* the other descriptors of the shell
  child,    \* the child it waits for
  pipes,    \* what the pipe after each stage holds
  files, cwd,
  pending,  \* what stdout's buffer holds
  term,     \* what the terminal has shown since the line was read
  entered,  \* history: the lines that were recorded
  before,   \* history: the files and directory when the line was read
  nofork    \* history: stages of the line for which fork failed

recordVars == <<history, history_count, entered>>
lineVars == <<nodes, before>>
shellVars == <<pc, p, std, fds>>
outVars == <<files, pipes, term>>
vars == <<recordVars, lineVars, shellVars, outVars, child, cwd, pending, nofork>>

TTY == <<"tty">>
FileAt(name) == <<"file", cwd, name>>
Pipe(k) == <<"pipe", k>>
ReadEnd(k) == <<"r", k>>
WriteEnd(k) == <<"w", k>>
Saved == {<<"in">>, <<"out">>}

NoChild == [pc |-> "none", in |-> TTY, out |-> TTY, fds |-> {}, pos |-> 0, left |-> << >>]
node == nodes[p]
IsLast == p = Len(nodes)

Init ==
  /\ history = [i \in 0 .. (MAX_RECORD_NUM - 1) |-> << >>] /\ history_count = 0
  /\ pc = "prompt" /\ nodes = << >> /\ p = 0
  /\ std = <<TTY, TTY>> /\ fds = {} /\ child = NoChild
  /\ pipes = << >>
  /\ files = [f \in Dirs \X FileNames |-> Absent]
  /\ cwd \in Dirs
  /\ pending = << >> /\ term = << >> /\ entered = << >>
  /\ before = [files |-> files, cwd |-> cwd] /\ nofork = {}

(* Text written to descriptor 1, or by a program to its output. *)
WriteTo(target, text) ==
  CASE target = TTY         -> term' = term \o text /\ UNCHANGED <<files, pipes>>
    [] target[1] = "file"   -> /\ files' = [files EXCEPT ![Tail(target)].data = @ \o text]
                               /\ UNCHANGED <<term, pipes>>
    [] target[1] = "pipe"   -> /\ pipes' = [pipes EXCEPT ![target[2]] = @ \o text]
                               /\ UNCHANGED <<term, files>>

-----------------------------------------------------------------------------
(* The ring of lines. *)
StoreLine(line) ==
  /\ history' = [history EXCEPT ![history_count % MAX_RECORD_NUM] = line]
  /\ history_count' = history_count + 1

(* read_line and split_line. *)
read_line(line) ==
  /\ pc = "prompt" /\ Len(entered) < MaxLines
  /\ ~Ignored(line)
  /\ StoreLine(line)
  /\ entered' = Append(entered, line)
  /\ nodes' = split_line(line) /\ p' = 1
  /\ before' = [files |-> files, cwd |-> cwd] /\ nofork' = {}
  /\ term' = << >> /\ pipes' = [i \in DOMAIN split_line(line) |-> << >>]
  /\ pc' = "line"
  /\ UNCHANGED <<std, fds, child, files, cwd, pending>>

Goto(to) == pc' = to /\ UNCHANGED <<p, std, fds>>

(* A dropped line: the terminal is asked again. *)
IgnoreLine(line) ==
  /\ pc = "prompt" /\ Ignored(line)
  /\ Goto("flush")
  /\ UNCHANGED <<recordVars, lineVars, outVars, child, cwd, pending, nofork>>

(* searchBuiltInCommand calls strcmp on a NULL args[0]. *)
EmptyCommand ==
  /\ pc = "line" /\ Len(nodes) = 1 /\ node.args = << >>
  /\ Goto("ended")
  /\ UNCHANGED <<recordVars, lineVars, outVars, child, cwd, pending, nofork>>

SingleBuiltin == Len(nodes) = 1 /\ node.args # << >> /\ IsBuiltin(node)

(* redirection() of the shell itself; a file that does not open ends it.   *)
BuiltinNoFile ==
  /\ pc = "line" /\ SingleBuiltin
  /\ ~(CanRead(files, cwd, node) /\ CanWrite(node))
  /\ Goto("ended")
  /\ UNCHANGED <<recordVars, lineVars, outVars, child, cwd, pending, nofork>>

BuiltinRedirect ==
  /\ pc = "line" /\ SingleBuiltin
  /\ CanRead(files, cwd, node) /\ CanWrite(node)
  /\ std' = <<IF node.in_file # "" THEN FileAt(node.in_file) ELSE std[1],
              IF node.out_file # "" THEN FileAt(node.out_file) ELSE std[2]>>
  /\ fds' = fds \cup Saved
  /\ files' = Opened(files, cwd, node)
  /\ pc' = "builtin"
  /\ UNCHANGED <<recordVars, lineVars, p, pipes, term, child, cwd, pending, nofork>>

(* Mutant: record begins at the first slot. *)
record_FromSlot0 ==
  [i \in 1 .. Min({history_count, MAX_RECORD_NUM}) |-> history[i - 1]]

(* The lines record() prints, from the oldest. *)
record ==
  IF history_count < MAX_RECORD_NUM
  THEN [i \in 1 .. history_count |-> history[i - 1]]
  ELSE [i \in 1 .. MAX_RECORD_NUM |->
          history[(history_count + i - 1) % MAX_RECORD_NUM]]

(* execBuiltInCommand.  stdout writes whole lines and keeps the rest. *)
execBuiltInCommand ==
  LET text == pending \o BuiltinText(node.args, cwd, record) IN
  /\ pc = "builtin"
  /\ WriteTo(std[2], WholeLines(text))
  /\ pending' = LastPart(text)
  /\ cwd' = CdTo(node.args, cwd)
  /\ Goto("restore")
  /\ UNCHANGED <<recordVars, lineVars, child, nofork>>

(* Mutant: descriptor 1 is not restored. *)
Restore_InOnly ==
  /\ pc = "restore"
  /\ std' = <<IF node.in_file # "" THEN TTY ELSE std[1], std[2]>>
  /\ fds' = fds \ Saved
  /\ pc' = IF node.args[1] = "exit" THEN "ended" ELSE "flush"
  /\ UNCHANGED <<recordVars, lineVars, outVars, p, child, cwd, pending, nofork>>

(* The shell's stdin and stdout again; exit leaves the loop. *)
Restore ==
  /\ pc = "restore"
  /\ std' = <<IF node.in_file # "" THEN TTY ELSE std[1],
              IF node.out_file # "" THEN TTY ELSE std[2]>>
  /\ fds' = fds \ Saved
  /\ pc' = IF node.args[1] = "exit" THEN "ended" ELSE "flush"
  /\ UNCHANGED <<recordVars, lineVars, outVars, p, child, cwd, pending, nofork>>

-----------------------------------------------------------------------------
(* fork_cmd_node makes the pipe to the next stage, if there is one. *)
FdsAtFork == IF IsLast THEN fds ELSE fds \cup {ReadEnd(p), WriteEnd(p)}

(* Mutant: the shell keeps the write end. *)
CloseEnds_KeepWrite(open) == open \ {ReadEnd(p - 1)}

(* What the shell closes when spawn_proc has returned. *)
CloseEnds(open) == open \ {ReadEnd(p - 1), WriteEnd(p)}

NextStage ==
  IF IsLast THEN pc' = "flush" /\ UNCHANGED p ELSE pc' = "line" /\ p' = p + 1

IsExternal == Len(nodes) = 1 => node.args # << >> /\ ~IsBuiltin(node)

(* spawn_proc: the child runs and the shell waits for it. *)
spawn_proc ==
  /\ pc = "line" /\ IsExternal
  /\ fds' = FdsAtFork
  /\ child' = [NoChild EXCEPT !.pc = "redirect", !.fds = FdsAtFork]
  /\ pc' = "wait"
  /\ UNCHANGED <<recordVars, lineVars, outVars, p, std, cwd, pending, nofork>>

(* fork fails: the stage is skipped. *)
ForkFails ==
  /\ pc = "line" /\ IsExternal
  /\ nofork' = nofork \cup {p}
  /\ fds' = CloseEnds(FdsAtFork)
  /\ NextStage
  /\ UNCHANGED <<recordVars, lineVars, outVars, std, child, cwd, pending>>

waitpid ==
  /\ pc = "wait" /\ child.pc = "ended"
  /\ child' = NoChild
  /\ fds' = CloseEnds(fds)
  /\ NextStage
  /\ UNCHANGED <<recordVars, lineVars, outVars, std, cwd, pending, nofork>>

(* printf of the prompt, and fgets, which flushes stdout. *)
Flush ==
  /\ pc = "flush"
  /\ WriteTo(std[2], pending) /\ pending' = << >>
  /\ Goto("prompt")
  /\ UNCHANGED <<recordVars, lineVars, child, cwd, nofork>>

-----------------------------------------------------------------------------
ChildOnly == UNCHANGED <<recordVars, lineVars, shellVars, cwd, pending, nofork>>

(* Mutant: a file for input does not keep the pipe away. *)
ChildIn_PipeFirst ==
  IF p > 1 THEN Pipe(p - 1)
  ELSE IF node.in_file # "" THEN FileAt(node.in_file)
  ELSE std[1]

(* Where a child reads and writes: a file comes before a pipe. *)
ChildIn == IF node.in_file # "" THEN FileAt(node.in_file)
           ELSE IF p > 1 THEN Pipe(p - 1)
           ELSE std[1]
ChildOut == IF node.out_file # "" THEN FileAt(node.out_file)
            ELSE IF ~IsLast THEN Pipe(p)
            ELSE std[2]

(* redirection() and execvp in the child; it exits if one of them fails.   *)
ChildNoFile ==
  /\ child.pc = "redirect"
  /\ ~(CanRead(files, cwd, node) /\ CanWrite(node))
  /\ child' = [child EXCEPT !.pc = "ended"]
  /\ UNCHANGED outVars /\ ChildOnly

ChildExec ==
  /\ child.pc = "redirect"
  /\ CanRead(files, cwd, node) /\ CanWrite(node)
  /\ files' = Opened(files, cwd, node)
  /\ child' = [child EXCEPT
       !.pc = IF ~IsProgram(node.args) THEN "ended"
              ELSE IF node.args[1] = "cat" THEN "read" ELSE "write",
       !.in = ChildIn, !.out = ChildOut,
       !.left = IF IsProgram(node.args) /\ node.args[1] # "cat" THEN Emits[node.args[1]]
                ELSE << >>]
  /\ UNCHANGED <<pipes, term>> /\ ChildOnly

(* The input of cat: the items it can read now, and whether more may come. *)
Input == CASE child.in = TTY -> << >>
           [] child.in[1] = "pipe" -> pipes[child.in[2]]
           [] child.in[1] = "file" ->
                SubSeq(files[Tail(child.in)].data, child.pos + 1,
                       Len(files[Tail(child.in)].data))
MoreInput == child.in[1] = "pipe" /\ WriteEnd(child.in[2]) \in fds \cup child.fds

CatRead ==
  /\ child.pc = "read" /\ Input # << >>
  /\ child' = [child EXCEPT !.pc = "write", !.left = <<Head(Input)>>, !.pos = @ + 1]
  /\ pipes' = IF child.in[1] = "pipe" THEN [pipes EXCEPT ![child.in[2]] = Tail(@)] ELSE pipes
  /\ UNCHANGED <<files, term>> /\ ChildOnly

CatEnd ==
  /\ child.pc = "read" /\ Input = << >> /\ ~MoreInput
  /\ child' = [child EXCEPT !.pc = "ended"]
  /\ UNCHANGED outVars /\ ChildOnly

(* A write waits while its pipe is full. *)
HasRoom == child.out[1] = "pipe" => Len(pipes[child.out[2]]) < PIPE

ChildWrite ==
  /\ child.pc = "write" /\ child.left # << >> /\ HasRoom
  /\ WriteTo(child.out, <<Head(child.left)>>)
  /\ child' = [child EXCEPT !.left = Tail(@)]
  /\ ChildOnly

ChildWritten ==
  /\ child.pc = "write" /\ child.left = << >>
  /\ child' = [child EXCEPT !.pc = IF node.args[1] = "cat" THEN "read" ELSE "ended"]
  /\ UNCHANGED outVars /\ ChildOnly

-----------------------------------------------------------------------------
shell ==
  \/ EmptyCommand
  \/ BuiltinNoFile \/ BuiltinRedirect \/ execBuiltInCommand \/ Restore
  \/ spawn_proc \/ ForkFails \/ waitpid \/ Flush

Child == ChildNoFile \/ ChildExec \/ CatRead \/ CatEnd \/ ChildWrite \/ ChildWritten

Next ==
  \/ \E line \in Lines : read_line(line) \/ IgnoreLine(line)
  \/ shell
  \/ Child

Spec == Init /\ [][Next]_vars

(* The shell and its child are scheduled. *)
FairSpec == Spec /\ WF_vars(shell) /\ WF_vars(Child)

-----------------------------------------------------------------------------
LastLines == SubSeq(entered, Max({1, Len(entered) - MAX_RECORD_NUM + 1}), Len(entered))

(***************************************************************************)
(* RecordShowsLast: the ring holds the last lines that were entered, up to *)
(* MAX_RECORD_NUM of them, the oldest first, the line being run included.  *)
(***************************************************************************)
RecordShowsLast == record = LastLines

(***************************************************************************)
(* PromptClean: whatever a line did, at the next prompt the shell reads    *)
(* from and writes to the terminal, holds no other descriptor, and has no  *)
(* child that nobody waited for.                                           *)
(***************************************************************************)
PromptClean == pc = "prompt" => std = <<TTY, TTY>> /\ fds = {} /\ child = NoChild

Reference == RunLine(before.files, before.cwd, nodes, LastLines, nofork)

(* A redirected builtin whose text does not end in a newline (echo -n):    *)
(* the rest stays in stdio's buffer until the terminal is back.            *)
LeavesRest ==
  /\ IsOneBuiltin(nodes) /\ nodes[1].out_file # ""
  /\ LastPart(BuiltinText(nodes[1].args, before.cwd, LastLines)) # << >>

(***************************************************************************)
(* OutputsRight: at the next prompt the files, the directory and what the  *)
(* terminal has shown are what the line comes to when its stages run one   *)
(* after the other: no item is lost or doubled in a pipe, no stage reads   *)
(* what a later one writes, and redirections keep to their stage.  Left    *)
(* out is echo -n with a redirection: what it prints after its last        *)
(* newline goes to the terminal and not to its file (shell.c:142-149), so  *)
(* that for those lines the redirection does not keep to its stage.        *)
(***************************************************************************)
OutputsRight ==
  pc = "prompt" /\ nodes # << >> /\ ~LeavesRest =>
    /\ files = Reference.files /\ cwd = Reference.cwd
    /\ term = Reference.term

(***************************************************************************)
(* LineEnds: the prompt comes back, or the shell ends, after every line in *)
(* which the output of each stage fits its pipe.  The shell waits for a    *)
(* stage before it starts the one that would empty the pipe, so for other  *)
(* lines it need not.  (A stage that fork fails for may leave a later one  *)
(* a file that does not fit.)                                              *)
(***************************************************************************)
LineEnds == (pc = "line" /\ Reference.fits) ~> (pc \in {"prompt", "ended"} \/ ~Reference.fits)
=============================================================================
