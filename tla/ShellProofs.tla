---------------------------- MODULE ShellProofs ----------------------------
(***************************************************************************)
(* The shell of lab2 for any lines, programs, directories and lengths of   *)
(* history and pipes: its history, its descriptors and what its commands   *)
(* print.                                                                  *)
(***************************************************************************)
EXTENDS Shell, SequenceTheorems, WellFoundedInduction, TLAPS

-----------------------------------------------------------------------------
(* The slots of the ring: lines less than a turn apart have different      *)
(* ones, and a line a turn later has the same.                             *)
LEMMA SlotFacts ==
  ASSUME NEW m \in Nat \ {0}, NEW n \in Nat
  PROVE  n \div m \in Nat /\ n % m \in 0 .. (m - 1) /\ n = m * (n \div m) + (n % m)
OBVIOUS

LEMMA SlotsDiffer ==
  ASSUME NEW m \in Nat \ {0}, NEW j \in Nat, NEW k \in Nat, j < k, k < j + m
  PROVE  j % m # k % m
<1>1. PICK q \in Nat : q = j \div m
  BY SlotFacts
<1>2. PICK s \in Nat : s = k \div m
  BY SlotFacts
<1>3. PICK r \in 0 .. (m - 1) : r = j % m
  BY SlotFacts
<1>4. j = m * q + r
  BY <1>1, <1>3, SlotFacts
<1>5. k = m * s + (k % m)
  BY <1>2, SlotFacts
<1>6. ASSUME k % m = r PROVE FALSE
  <2>1. k = m * s + r
    BY <1>5, <1>6
  <2>2. m * s - m * q < m /\ m * s - m * q > 0
    BY <1>4, <2>1
  <2>3. CASE s <= q
    <3>1. PICK d \in Nat : q = s + d
      BY <2>3
    <3> QED
      BY <2>2, <3>1
  <2>4. CASE s > q
    <3>1. PICK d \in Nat : s = q + 1 + d
      <4>1. s - q - 1 \in Nat
        BY <2>4
      <4> QED
        BY <4>1
    <3>2. m * s = m * q + m + m * d /\ m * d >= 0
      BY <3>1
    <3> QED
      BY <2>2, <3>2
  <2> QED
    BY <2>3, <2>4
<1> QED
  BY <1>3, <1>6

LEMMA SlotUnique ==
  ASSUME NEW m \in Nat \ {0}, NEW q \in Nat, NEW r \in 0 .. (m - 1)
  PROVE  (q * m + r) % m = r
OBVIOUS

LEMMA SlotOfNextTurn ==
  ASSUME NEW m \in Nat \ {0}, NEW n \in Nat
  PROVE  (n + m) % m = n % m
<1>1. PICK q \in Nat : q = n \div m
  BY SlotFacts
<1>2. PICK r \in 0 .. (m - 1) : r = n % m
  BY SlotFacts
<1>3. n = m * q + r
  BY <1>1, <1>2, SlotFacts
<1>4. PICK s \in Nat : s = q + 1
  OBVIOUS
<1>5. n + m = s * m + r
  BY <1>3, <1>4
<1>6. (s * m + r) % m = r
  BY SlotUnique
<1> QED
  BY <1>2, <1>5, <1>6

LEMMA MaxOfTwo ==
  ASSUME NEW a \in Int, NEW b \in Int
  PROVE  Max({a, b}) = IF a >= b THEN a ELSE b
<1>1. \A c : c = Max({a, b}) <=> c = CHOOSE x \in {a, b} : \A y \in {a, b} : x >= y
  BY DEF Max
<1> QED
  BY <1>1

-----------------------------------------------------------------------------
(* The history: the ring holds each of the last MAX_RECORD_NUM lines in    *)
(* the slot of its number.                                                 *)
RecordInv ==
  /\ entered \in Seq(Lines) /\ history_count = Len(entered)
  /\ history \in [0 .. (MAX_RECORD_NUM - 1) -> Lines \cup {<< >>}]
  /\ \A k \in 1 .. Len(entered) :
       k > Len(entered) - MAX_RECORD_NUM => history[(k - 1) % MAX_RECORD_NUM] = entered[k]

LEMMA RecordInit == Init => RecordInv
BY SizesAssumption DEF Init, RecordInv

LEMMA RecordAdded ==
  ASSUME RecordInv, NEW line \in Lines, StoreLine(line), entered' = Append(entered, line)
  PROVE  RecordInv'
<1> DEFINE n == Len(entered)
<1>1. /\ n \in Nat /\ history_count = n /\ MAX_RECORD_NUM \in Nat \ {0}
      /\ entered' \in Seq(Lines) /\ Len(entered') = n + 1 /\ entered'[n + 1] = line
      /\ \A k \in 1 .. n : entered'[k] = entered[k]
  BY SizesAssumption DEF RecordInv
<1>2. PICK slot \in 0 .. (MAX_RECORD_NUM - 1) : slot = n % MAX_RECORD_NUM
  BY <1>1, SlotFacts
<1>3. history' = [history EXCEPT ![slot] = line] /\ history_count' = n + 1
  BY <1>1, <1>2 DEF StoreLine
<1>4. history' \in [0 .. (MAX_RECORD_NUM - 1) -> Lines \cup {<< >>}]
  BY <1>3 DEF RecordInv
<1>5. ASSUME NEW k \in 1 .. (n + 1), k > n + 1 - MAX_RECORD_NUM
      PROVE  history'[(k - 1) % MAX_RECORD_NUM] = entered'[k]
  <2>1. CASE k = n + 1
    <3>1. k - 1 = n /\ history'[slot] = line
      BY <1>1, <1>2, <1>3, <2>1 DEF RecordInv
    <3> QED
      BY <1>1, <1>2, <2>1, <3>1
  <2>2. CASE k \in 1 .. n
    <3>1. PICK j \in Nat : j = k - 1 /\ j < n /\ n < j + MAX_RECORD_NUM
      BY <1>1, <1>5, <2>2
    <3>2. PICK other \in 0 .. (MAX_RECORD_NUM - 1) : other = j % MAX_RECORD_NUM
      BY <1>1, SlotFacts
    <3>3. other # slot
      BY <1>1, <1>2, <3>1, <3>2, SlotsDiffer
    <3>4. history[other] = entered[k]
      <4>1. k > n - MAX_RECORD_NUM
        BY <1>1, <1>5
      <4> QED
        BY <2>2, <3>1, <3>2, <4>1 DEF RecordInv
    <3>5. history'[other] = history[other]
      BY <1>3, <3>3 DEF RecordInv
    <3> QED
      BY <1>1, <2>2, <3>1, <3>2, <3>4, <3>5
  <2> QED
    BY <1>1, <2>1, <2>2
<1>6. \A k \in 1 .. Len(entered') :
        k > Len(entered') - MAX_RECORD_NUM => history'[(k - 1) % MAX_RECORD_NUM] = entered'[k]
  <2>1. Len(entered') = n + 1
    BY <1>1
  <2> SUFFICES ASSUME NEW k \in 1 .. Len(entered'), k > Len(entered') - MAX_RECORD_NUM
               PROVE  history'[(k - 1) % MAX_RECORD_NUM] = entered'[k]
    OBVIOUS
  <2>2. k \in 1 .. (n + 1) /\ k > n + 1 - MAX_RECORD_NUM
    BY <1>1, <2>1
  <2> QED
    BY <1>5, <2>2
<1>7. history_count' = Len(entered')
  BY <1>1, <1>3
<1> QED
  BY <1>1, <1>4, <1>6, <1>7 DEF RecordInv

LEMMA RecordNext == RecordInv /\ [Next]_vars => RecordInv'
<1> SUFFICES ASSUME RecordInv, [Next]_vars PROVE RecordInv'
  OBVIOUS
<1>1. ASSUME NEW line \in Lines, read_line(line) PROVE RecordInv'
  BY <1>1, RecordAdded DEF read_line
<1>2. ASSUME NEW line \in Lines, IgnoreLine(line) PROVE UNCHANGED recordVars
  BY <1>2 DEF IgnoreLine
<1>3. ASSUME shell PROVE UNCHANGED recordVars
  BY <1>3 DEF shell, EmptyCommand, BuiltinNoFile, BuiltinRedirect, execBuiltInCommand, Restore,
              spawn_proc, ForkFails, waitpid, Flush
<1>4. ASSUME Child PROVE UNCHANGED recordVars
  BY <1>4 DEF Child, ChildNoFile, ChildExec, CatRead, CatEnd, ChildWrite, ChildWritten, ChildOnly
<1>5. UNCHANGED recordVars => RecordInv'
  BY DEF recordVars, RecordInv
<1> QED
  BY <1>1, <1>2, <1>3, <1>4, <1>5 DEF Next, vars

(* A subsequence as a function of its positions. *)
LEMMA SubSeqAt ==
  ASSUME NEW S, NEW s \in Seq(S), NEW a \in Nat \ {0}, NEW l \in Nat, a + l = Len(s) + 1
  PROVE  SubSeq(s, a, Len(s)) = [k \in 1 .. l |-> s[a + k - 1]]
<1>1. PICK b \in Nat : b = Len(s) /\ b = a + l - 1
  OBVIOUS
<1>2. \A i \in a .. b : s[i] \in S
  <2> SUFFICES ASSUME NEW i \in a .. b PROVE s[i] \in S
    OBVIOUS
  <2>1. i \in 1 .. Len(s)
    BY <1>1
  <2> QED
    BY <2>1, ElementOfSeq
<1>3. /\ SubSeq(s, a, b) \in Seq(S)
      /\ Len(SubSeq(s, a, b)) = l
      /\ \A i \in 1 .. b - a + 1 : SubSeq(s, a, b)[i] = s[a + i - 1]
  BY <1>1, <1>2, SubSeqProperties
<1>4. b - a + 1 = l
  BY <1>1
<1> DEFINE f == SubSeq(s, a, b)
<1>5. f = [k \in 1 .. l |-> f[k]]
  BY <1>3
<1> QED
  BY <1>1, <1>3, <1>4, <1>5

(* record() goes through the ring from the oldest line. *)
LEMMA RecordListed == RecordInv => RecordShowsLast
<1> SUFFICES ASSUME RecordInv PROVE record = LastLines
  BY DEF RecordShowsLast
<1> DEFINE n == Len(entered)
           m == MAX_RECORD_NUM
<1>1. n \in Nat /\ m \in Nat \ {0} /\ history_count = n /\ entered \in Seq(Lines)
  BY SizesAssumption DEF RecordInv
<1>2. ASSUME NEW k \in 1 .. n, k > n - m PROVE history[(k - 1) % m] = entered[k]
  BY <1>2 DEF RecordInv
<1>8. LastLines = SubSeq(entered, Max({1, n - m + 1}), Len(entered))
  BY DEF LastLines
<1>9. record = IF n < m THEN [i \in 1 .. n |-> history[i - 1]]
               ELSE [i \in 1 .. m |-> history[(n + i - 1) % m]]
  BY <1>1 DEF record
<1>10. n = Len(entered)
  OBVIOUS
<1> HIDE DEF n, m
<1>3. CASE n < m
  <2>1. Max({1, n - m + 1}) = 1
    BY <1>1, <1>3, MaxOfTwo
  <2>2. LastLines = [k \in 1 .. n |-> entered[1 + k - 1]]
    <3>1. 1 \in Nat \ {0} /\ 1 + n = Len(entered) + 1
      BY <1>1, <1>10
    <3>2. SubSeq(entered, 1, Len(entered)) = [k \in 1 .. n |-> entered[1 + k - 1]]
      BY <1>1, <3>1, SubSeqAt
    <3> QED
      BY <1>8, <2>1, <3>2
  <2>3. ASSUME NEW k \in 1 .. n PROVE history[k - 1] = entered[1 + k - 1]
    <3>1. (0 * m + (k - 1)) % m = k - 1
      BY <1>1, <1>3, SlotUnique
    <3>2. (k - 1) % m = k - 1
      BY <3>1, <1>1
    <3>3. k > n - m /\ 1 + k - 1 = k
      BY <1>1, <1>3
    <3> QED
      BY <1>2, <3>2, <3>3
  <2> QED
    BY <1>3, <1>9, <2>2, <2>3
<1>4. CASE n >= m
  <2>1. Max({1, n - m + 1}) = n - m + 1
    BY <1>1, <1>4, MaxOfTwo
  <2>2. LastLines = [k \in 1 .. m |-> entered[(n - m + 1) + k - 1]]
    <3>1. n - m + 1 \in Nat \ {0} /\ (n - m + 1) + m = Len(entered) + 1
      BY <1>1, <1>4, <1>10
    <3>2. PICK a \in Nat \ {0} : a = n - m + 1
      BY <3>1
    <3>3. a + m = Len(entered) + 1
      BY <3>1, <3>2
    <3>4. SubSeq(entered, a, Len(entered)) = [k \in 1 .. m |-> entered[a + k - 1]]
      BY <1>1, <3>3, SubSeqAt
    <3> QED
      BY <1>8, <2>1, <3>2, <3>4
  <2>3. ASSUME NEW k \in 1 .. m
        PROVE  history[(n + k - 1) % m] = entered[(n - m + 1) + k - 1]
    <3>1. n - m + k - 1 \in Nat
      BY <1>1, <1>4
    <3>2. PICK j \in Nat : j = n - m + k - 1
      BY <3>1
    <3>3. (j + m) % m = j % m
      BY <1>1, SlotOfNextTurn
    <3>4. /\ n + k - 1 = j + m /\ (n - m + 1) + k - 1 = j + 1
          /\ j + 1 \in 1 .. n /\ j + 1 > n - m /\ (j + 1) - 1 = j
      BY <1>1, <1>4, <3>2
    <3>5. history[((j + 1) - 1) % m] = entered[j + 1]
      BY <1>2, <3>4
    <3> QED
      BY <3>3, <3>4, <3>5
  <2>4. ~(n < m)
    BY <1>1, <1>4
  <2> QED
    BY <1>9, <2>2, <2>3, <2>4
<1> QED
  BY <1>1, <1>3, <1>4

(***************************************************************************)
(* For every length of the ring: record() prints the last lines that were  *)
(* entered, the oldest first.                                              *)
(***************************************************************************)
THEOREM RecordAlways == Spec => []RecordShowsLast
<1>1. Init => RecordInv
  BY RecordInit
<1>2. RecordInv /\ [Next]_vars => RecordInv'
  BY RecordNext
<1>3. RecordInv => RecordShowsLast
  BY RecordListed
<1> QED
  BY <1>1, <1>2, <1>3, PTL DEF Spec

-----------------------------------------------------------------------------
(* The descriptors: while a stage runs the shell holds the read end of the *)
(* pipe before it, and while it waits also both ends of the pipe after it; *)
(* while a builtin runs it holds the two it saved, and a descriptor that   *)
(* is not redirected is still the terminal.  There is a child exactly      *)
(* while the shell waits.                                                  *)
HeldBefore == IF p = 1 THEN {} ELSE {ReadEnd(p - 1)}
HeldAfter == IF IsLast THEN {} ELSE {ReadEnd(p), WriteEnd(p)}

OnTerminal == std = <<TTY, TTY>>
InLine == pc \in {"line", "builtin", "restore", "wait"}

CleanInv ==
  /\ pc \in {"prompt", "flush", "line", "builtin", "restore", "wait", "ended"}
  /\ p \in Nat
  /\ InLine => p >= 1 /\ (Len(nodes) = 1 => p = 1)
  /\ pc \in {"prompt", "flush"} => OnTerminal /\ fds = {}
  /\ pc = "line" => OnTerminal /\ fds = HeldBefore
  /\ pc = "wait" => OnTerminal /\ fds = HeldBefore \cup HeldAfter
  /\ pc \in {"builtin", "restore"} =>
       /\ p = 1 /\ fds = Saved
       /\ std = <<std[1], std[2]>>
       /\ node.in_file = "" => std[1] = TTY
       /\ node.out_file = "" => std[2] = TTY
  /\ IF pc = "wait" THEN "pc" \in DOMAIN child /\ child.pc # "none" ELSE child = NoChild

LEMMA CleanInit == Init => CleanInv
BY DEF Init, CleanInv, InLine, OnTerminal

(* The ends of the pipes are different descriptors. *)
LEMMA EndsDiffer ==
  ASSUME NEW i \in Nat, NEW j \in Nat
  PROVE  WriteEnd(i) # ReadEnd(j) /\ (ReadEnd(i) = ReadEnd(j) => i = j)
BY DEF WriteEnd, ReadEnd

(* What is left of a stage is the read end of the pipe after it. *)
LEMMA StageClosed ==
  ASSUME p \in Nat, p >= 1, OnTerminal, InLine, Len(nodes) = 1 => p = 1,
         NEW open, open = HeldBefore \cup HeldAfter,
         fds' = CloseEnds(open), NextStage, std' = std, nodes' = nodes, child' = NoChild
  PROVE  CleanInv'
<1>1. CASE IsLast
  <2>1. fds' = {}
    BY <1>1 DEF CloseEnds, HeldBefore, HeldAfter
  <2>2. pc' = "flush" /\ p' = p
    BY <1>1 DEF NextStage
  <2> QED
    BY <2>1, <2>2 DEF CleanInv, OnTerminal, InLine
<1>2. CASE ~IsLast
  <2>1. pc' = "line" /\ p' = p + 1
    BY <1>2 DEF NextStage
  <2>2. fds' = {ReadEnd(p)}
    <3>1. p - 1 \in Nat
      OBVIOUS
    <3>2. ReadEnd(p) # WriteEnd(p) /\ ReadEnd(p) # ReadEnd(p - 1)
      BY <3>1, EndsDiffer
    <3> QED
      BY <1>2, <3>2 DEF CloseEnds, HeldBefore, HeldAfter
  <2>3. p' # 1 /\ p' - 1 = p /\ p' \in Nat /\ p' >= 1
    BY <2>1
  <2>4. Len(nodes') # 1
    BY <1>2 DEF IsLast
  <2>5. HeldBefore' = {ReadEnd(p)}
    BY <2>3 DEF HeldBefore, ReadEnd
  <2> QED
    BY <2>1, <2>2, <2>3, <2>4, <2>5 DEF CleanInv, OnTerminal, InLine
<1> QED
  BY <1>1, <1>2

LEMMA CleanChild == CleanInv /\ Child => CleanInv'
<1> SUFFICES ASSUME CleanInv, Child PROVE CleanInv'
  OBVIOUS
<1>1. pc = "wait" /\ "pc" \in DOMAIN child
  <2>1. child.pc # "none"
    BY DEF Child, ChildNoFile, ChildExec, CatRead, CatEnd, ChildWrite, ChildWritten
  <2>2. child # NoChild
    BY <2>1 DEF NoChild
  <2> QED
    BY <2>2 DEF CleanInv
<1>2. UNCHANGED <<pc, p, std, fds, nodes>>
  BY DEF Child, ChildNoFile, ChildExec, CatRead, CatEnd, ChildWrite, ChildWritten, ChildOnly,
         lineVars, shellVars
<1>3. "pc" \in DOMAIN child' /\ child'.pc # "none"
  BY <1>1 DEF Child, ChildNoFile, ChildExec, CatRead, CatEnd, ChildWrite, ChildWritten, CleanInv
<1>4. pc' = "wait" /\ p' = p
  BY <1>1, <1>2
<1>5. OnTerminal' /\ fds' = HeldBefore' \cup HeldAfter' /\ InLine /\ p >= 1
  BY <1>1, <1>2 DEF CleanInv, OnTerminal, HeldBefore, HeldAfter, IsLast, InLine
<1> QED
  BY <1>1, <1>2, <1>3, <1>4, <1>5 DEF CleanInv, InLine

LEMMA CleanNext == CleanInv /\ [Next]_vars => CleanInv'
<1> SUFFICES ASSUME CleanInv, [Next]_vars PROVE CleanInv'
  OBVIOUS
<1> USE DEF lineVars, shellVars
<1>1. ASSUME NEW line \in Lines, read_line(line) PROVE CleanInv'
  BY <1>1 DEF read_line, CleanInv, OnTerminal, InLine, HeldBefore
<1>2. ASSUME NEW line \in Lines, IgnoreLine(line) PROVE CleanInv'
  BY <1>2 DEF IgnoreLine, Goto, CleanInv, OnTerminal, InLine
<1>3. CASE EmptyCommand
  BY <1>3 DEF EmptyCommand, Goto, CleanInv, InLine
<1>4. CASE BuiltinNoFile
  BY <1>4 DEF BuiltinNoFile, Goto, CleanInv, InLine
<1>5. CASE BuiltinRedirect
  <2>1. /\ pc = "line" /\ p = 1 /\ fds = {} /\ OnTerminal /\ child = NoChild
        /\ pc' = "builtin" /\ p' = 1 /\ nodes' = nodes /\ child' = child
    BY <1>5 DEF BuiltinRedirect, SingleBuiltin, CleanInv, InLine, HeldBefore
  <2>2. fds' = Saved
    BY <1>5, <2>1 DEF BuiltinRedirect
  <2>3. /\ std' = <<std'[1], std'[2]>>
        /\ node.in_file = "" => std'[1] = TTY
        /\ node.out_file = "" => std'[2] = TTY
    BY <1>5, <2>1 DEF BuiltinRedirect, OnTerminal
  <2>4. node' = node
    BY <2>1 DEF node
  <2> QED
    BY <2>1, <2>2, <2>3, <2>4 DEF CleanInv, InLine
<1>6. CASE execBuiltInCommand
  <2>1. /\ pc = "builtin" /\ pc' = "restore"
        /\ UNCHANGED <<p, std, fds, nodes, child>>
    BY <1>6 DEF execBuiltInCommand, Goto
  <2>2. node' = node
    BY <2>1 DEF node
  <2> QED
    BY <2>1, <2>2 DEF CleanInv, InLine
<1>7. CASE Restore
  <2>1. /\ pc = "restore" /\ p = 1 /\ fds = Saved /\ child = NoChild
        /\ node.in_file = "" => std[1] = TTY
        /\ node.out_file = "" => std[2] = TTY
    BY <1>7 DEF Restore, CleanInv
  <2>2. OnTerminal' /\ fds' = {} /\ p' = p /\ child' = NoChild /\ pc' \in {"ended", "flush"}
    BY <1>7, <2>1 DEF Restore, OnTerminal
  <2> QED
    BY <2>1, <2>2 DEF CleanInv, InLine
<1>8. CASE spawn_proc
  <2>1. /\ pc = "line" /\ OnTerminal /\ fds = HeldBefore
        /\ p \in Nat /\ p >= 1 /\ (Len(nodes) = 1 => p = 1)
    BY <1>8 DEF spawn_proc, CleanInv, InLine
  <2>2. /\ pc' = "wait" /\ UNCHANGED <<p, std, nodes>>
        /\ fds' = HeldBefore \cup HeldAfter
        /\ "pc" \in DOMAIN child' /\ child'.pc = "redirect"
    BY <1>8, <2>1 DEF spawn_proc, FdsAtFork, HeldAfter, NoChild
  <2>3. fds' = HeldBefore' \cup HeldAfter'
    BY <2>2 DEF HeldBefore, HeldAfter, IsLast
  <2> QED
    BY <2>1, <2>2, <2>3 DEF CleanInv, InLine, OnTerminal
<1>9. CASE ForkFails
  <2>1. /\ pc = "line" /\ OnTerminal /\ FdsAtFork = HeldBefore \cup HeldAfter
        /\ InLine /\ p \in Nat /\ p >= 1 /\ (Len(nodes) = 1 => p = 1)
        /\ fds' = CloseEnds(FdsAtFork) /\ NextStage
        /\ std' = std /\ nodes' = nodes /\ child' = NoChild
    BY <1>9 DEF ForkFails, CleanInv, InLine, FdsAtFork, HeldAfter
  <2> QED
    BY <2>1, StageClosed
<1>10. CASE waitpid
  <2>1. /\ pc = "wait" /\ OnTerminal /\ fds = HeldBefore \cup HeldAfter
        /\ InLine /\ p \in Nat /\ p >= 1 /\ (Len(nodes) = 1 => p = 1)
        /\ fds' = CloseEnds(fds) /\ NextStage
        /\ std' = std /\ nodes' = nodes /\ child' = NoChild
    BY <1>10 DEF waitpid, CleanInv, InLine
  <2> QED
    BY <2>1, StageClosed
<1>11. CASE Flush
  BY <1>11 DEF Flush, Goto, CleanInv, OnTerminal, InLine
<1>12. CASE Child
  BY <1>12, CleanChild
<1>13. CASE UNCHANGED vars
  BY <1>13 DEF vars, CleanInv, OnTerminal, InLine, HeldBefore, HeldAfter, IsLast, node
<1> QED
  BY <1>1, <1>2, <1>3, <1>4, <1>5, <1>6, <1>7, <1>8, <1>9, <1>10, <1>11, <1>12, <1>13
  DEF Next, shell

(***************************************************************************)
(* For every line of any number of stages, whatever of it fails: the       *)
(* prompt comes back on the terminal, with no descriptor left open and no  *)
(* child left behind.                                                      *)
(***************************************************************************)
THEOREM PromptIsClean == Spec => []PromptClean
<1>1. CleanInv => PromptClean
  BY DEF CleanInv, PromptClean, OnTerminal
<1> QED
  BY <1>1, CleanInit, CleanNext, PTL DEF Spec

-----------------------------------------------------------------------------
(* Induction: a set of naturals has a least one, and one with a bound a    *)
(* greatest.                                                               *)
LEMMA LeastOf ==
  ASSUME NEW S \in SUBSET Nat, S # {}
  PROVE  \E m \in S : \A n \in S : m <= n
<1>1. PICK m \in S : \A n \in S : ~ (<<n, m>> \in OpToRel(<, Nat))
  BY NatLessThanWellFounded, WFMin
<1>2. \A n \in S : ~ (n < m)
  BY <1>1, Zenon DEF OpToRel
<1> QED
  BY <1>2

LEMMA MaxIn ==
  ASSUME NEW n \in Nat, NEW S \in SUBSET (1 .. n), S # {}
  PROVE  Max(S) \in S
<1> DEFINE T == {m \in Nat : n - m \in S}
<1>1. T # {}
  <2>1. PICK i \in S : TRUE
    OBVIOUS
  <2>2. n - i \in Nat /\ n - (n - i) = i
    OBVIOUS
  <2> QED
    BY <2>2
<1>2. PICK m \in T : \A k \in T : m <= k
  <2> HIDE DEF T
  <2>1. T \in SUBSET Nat
    BY DEF T
  <2> QED
    BY <1>1, <2>1, LeastOf
<1>3. n - m \in S /\ \A j \in S : n - m >= j
  <2> SUFFICES ASSUME NEW j \in S PROVE n - m >= j
    BY <1>2
  <2>1. n - j \in Nat /\ n - (n - j) = j
    OBVIOUS
  <2>2. n - j \in T
    BY <2>1
  <2>3. m <= n - j /\ m \in Nat
    BY <2>2, <1>2
  <2> QED
    BY <2>3
<1>4. \E i \in S : \A j \in S : i >= j
  BY <1>3
<1> QED
  BY <1>4 DEF Max

-----------------------------------------------------------------------------
(* Texts, commands and the states of a line.                               *)
(* STRING with the literals the shell writes, of which the provers do not  *)
(* know that they are strings.                                             *)
Word == STRING \cup {"\n", "help", ""}
Item == Seq(Word)
Text == Seq(Item)
Names == FileNames \cup {""}
Command(names) == [args : Seq(Word), in_file : names, out_file : names]
FileSystems == [Dirs \X FileNames -> [exists : BOOLEAN, data : Text]]
States == [files : FileSystems, cwd : Dirs, input : Text, term : Text, fits : BOOLEAN]

(* stdio's buffer keeps what comes after the last newline of a text. *)
LEMMA LinesAndRest ==
  ASSUME NEW text \in Text
  PROVE  /\ WholeLines(text) \in Text /\ LastPart(text) \in Text
         /\ WholeLines(text) \o LastPart(text) = text
<1> DEFINE n == Len(text)
           I == {i \in 1 .. n : text[i] = NL}
<1>1. n \in Nat
  BY DEF Text
<1>2. LastNL(text) = IF I # {} THEN Max(I) ELSE 0
  BY DEF LastNL, SelectLastInSeq
<1>3. LastNL(text) \in 0 .. n
  <2>1. CASE I = {}
    BY <1>1, <1>2, <2>1
  <2>2. CASE I # {}
    <3>1. Max(I) \in I
      <4> HIDE DEF n
      <4> QED
      BY <1>1, <2>2, MaxIn
    <3> QED
      BY <1>2, <2>2, <3>1
  <2> QED
    BY <2>1, <2>2
<1>4. PICK k \in 0 .. n : k = LastNL(text)
  BY <1>3
<1>5. \A i \in 1 .. n : text[i] \in Item
  BY ElementOfSeq DEF Text
<1>6. SubSeq(text, 1, k) \in Text
  <2>1. \A i \in 1 .. k : text[i] \in Item
    BY <1>1, <1>5
  <2>2. k \in Int /\ 1 \in Int
    BY <1>1
  <2> QED
    BY <2>1, <2>2, SubSeqProperties DEF Text
<1>7. SubSeq(text, k + 1, n) \in Text
  <2>1. \A i \in k + 1 .. n : text[i] \in Item
    BY <1>1, <1>5
  <2>2. k + 1 \in Int /\ n \in Int
    BY <1>1
  <2> QED
    BY <2>1, <2>2, SubSeqProperties DEF Text
<1>8. SubSeq(text, 1, k) \o SubSeq(text, k + 1, n) = text
  <2>1. /\ 1 \in 1 .. n + 1 /\ k \in 1 - 1 .. n /\ n \in k .. n
    BY <1>1
  <2>2. SubSeq(text, 1, k) \o SubSeq(text, k + 1, n) = SubSeq(text, 1, n)
    BY <2>1, ConcatAdjacentSubSeq DEF Text
  <2> QED
    BY <2>2, SubSeqFull DEF Text
<1> QED
  BY <1>4, <1>6, <1>7, <1>8 DEF WholeLines, LastPart

LEMMA OneIn == ASSUME NEW S, NEW e \in S PROVE <<e>> \in Seq(S)
OBVIOUS

LEMMA NLIn == NL \in Item
<1>1. "\n" \in Word
  BY DEF Word
<1> QED
  BY <1>1, OneIn DEF NL, Item

LEMMA EchoIn ==
  ASSUME NEW words \in Seq(Word)
  PROVE  EchoText(words) \in Text
<1>1. ASSUME NEW ws \in Seq(Word) PROVE [i \in DOMAIN ws |-> <<ws[i]>>] \in Text
  <2>1. Len(ws) \in Nat /\ DOMAIN ws = 1 .. Len(ws) /\ \A i \in 1 .. Len(ws) : ws[i] \in Word
    BY ElementOfSeq
  <2>2. \A i \in 1 .. Len(ws) : <<ws[i]>> \in Item
    BY <2>1 DEF Item
  <2> QED
    BY <2>1, <2>2 DEF Text
<1>2. [i \in DOMAIN words |-> <<words[i]>>] \in Text
  BY <1>1
<1>3. Append([i \in DOMAIN words |-> <<words[i]>>], NL) \in Text
  BY <1>2, NLIn, AppendProperties DEF Text
<1>4. words # << >> => [i \in DOMAIN Tail(words) |-> <<Tail(words)[i]>>] \in Text
  <2> SUFFICES ASSUME words # << >>
               PROVE  [i \in DOMAIN Tail(words) |-> <<Tail(words)[i]>>] \in Text
    OBVIOUS
  <2>1. Tail(words) \in Seq(Word)
    BY HeadTailProperties
  <2> QED
    BY <2>1, <1>1
<1> QED
  BY <1>3, <1>4 DEF EchoText

LEMMA BuiltinTextIn ==
  ASSUME NEW args \in Seq(Word), args # << >>, args[1] \in builtin_str,
         NEW dir \in Dirs, NEW listed \in Seq(Item)
  PROVE  BuiltinText(args, dir, listed) \in Text
<1>1. <<<<"help">>, NL>> \in Text
  <2>1. "help" \in Word
    BY DEF Word
  <2>2. <<"help">> \in Item
    BY <2>1, OneIn DEF Item
  <2> QED
    BY <2>2, NLIn DEF Text
<1>2. <<<<dir>>, NL>> \in Text
  <2>1. dir \in Word
    BY WordsAssumption DEF Word
  <2>2. <<dir>> \in Item
    BY <2>1, OneIn DEF Item
  <2> QED
    BY <2>2, NLIn DEF Text
<1>3. EchoText(Tail(args)) \in Text
  <2>1. Tail(args) \in Seq(Word)
    BY HeadTailProperties
  <2> QED
    BY <2>1, EchoIn
<1>4. [i \in 1 .. 2 * Len(listed) |-> IF i % 2 = 1 THEN listed[(i + 1) \div 2] ELSE NL] \in Text
  <2>1. Len(listed) \in Nat
    OBVIOUS
  <2>2. ASSUME NEW i \in 1 .. 2 * Len(listed), i % 2 = 1 PROVE listed[(i + 1) \div 2] \in Item
    <3>1. (i + 1) \div 2 \in 1 .. Len(listed)
      BY <2>1, <2>2
    <3> QED
      BY <3>1, ElementOfSeq
  <2>3. 2 * Len(listed) \in Nat
    BY <2>1
  <2>4. \A i \in 1 .. 2 * Len(listed) :
          (IF i % 2 = 1 THEN listed[(i + 1) \div 2] ELSE NL) \in Item
    BY <2>2, NLIn
  <2> QED
    BY <2>3, <2>4, SMTT(30) DEF Text
<1>5. << >> \in Text
  BY DEF Text
<1> QED
  BY <1>1, <1>2, <1>3, <1>4, <1>5 DEF BuiltinText, builtin_str

-----------------------------------------------------------------------------
(* split_line: its loop goes over the tokens, and makes commands of them.  *)
LoopStart == [nodes |-> <<EmptyNode>>, next |-> "any"]
IsLoop(g, line, n) ==
  g = [i \in 0 .. n |-> IF i = 0 THEN LoopStart ELSE AddToken(g[i - 1], line[i])]

LEMMA LoopExists ==
  ASSUME NEW line, NEW n \in Nat
  PROVE  \E g : IsLoop(g, line, n)
<1> DEFINE S == {m \in Nat : ~ \E g : IsLoop(g, line, m)}
<1> SUFFICES ASSUME S # {} PROVE FALSE
  OBVIOUS
<1>1. PICK m \in S : \A k \in S : m <= k
  <2>1. S \in SUBSET Nat
    OBVIOUS
  <2> HIDE DEF S
  <2> QED
    BY <2>1, LeastOf
<1>2. CASE m = 0
  <2> DEFINE g == [i \in 0 .. 0 |-> LoopStart]
  <2>1. IsLoop(g, line, 0)
    BY DEF IsLoop
  <2> QED
    BY <1>1, <1>2, <2>1
<1>3. CASE m # 0
  <2>1. m \in Nat /\ m - 1 \in Nat /\ ~ (m <= m - 1)
    BY <1>3
  <2>2. PICK g : IsLoop(g, line, m - 1)
    BY <1>1, <2>1
  <2> DEFINE h == [i \in 0 .. m |-> IF i = m THEN AddToken(g[m - 1], line[m]) ELSE g[i]]
  <2>3. ASSUME NEW i \in 0 .. m
        PROVE  h[i] = IF i = 0 THEN LoopStart ELSE AddToken(h[i - 1], line[i])
    <3>1. CASE i = m
      <4>1. h[i - 1] = g[m - 1]
        BY <3>1, <2>1
      <4> QED
        BY <3>1, <4>1, <1>3
    <3>2. CASE i # m
      <4>1. i \in 0 .. m - 1 /\ h[i] = g[i]
        BY <3>2, <2>1
      <4>2. g[i] = IF i = 0 THEN LoopStart ELSE AddToken(g[i - 1], line[i])
        BY <4>1, <2>2 DEF IsLoop
      <4>3. i # 0 => h[i - 1] = g[i - 1]
        BY <4>1
      <4> QED
        BY <4>1, <4>2, <4>3
    <3> QED
      BY <3>1, <3>2
  <2>4. IsLoop(h, line, m)
    <3>1. h = [i \in 0 .. m |-> h[i]]
      OBVIOUS
    <3> QED
      BY <3>1, <2>3, Zenon DEF IsLoop
  <2> QED
    BY <1>1, <2>4
<1> QED
  BY <1>2, <1>3

LEMMA LoopIs ==
  ASSUME NEW line, Len(line) \in Nat
  PROVE  IsLoop(Loop(line), line, Len(line))
<1>1. \E g : IsLoop(g, line, Len(line))
  BY LoopExists
<1>2. Loop(line) = CHOOSE g : IsLoop(g, line, Len(line))
  BY Zenon DEF Loop, IsLoop, LoopStart
<1> QED
  BY <1>1, <1>2

Accs == {acc \in [nodes : Seq(Command(Word)), next : {"any", "in", "out"}] : acc.nodes # << >>}

LEMMA EmptyNodeIn == EmptyNode \in Command(Word)
BY DEF EmptyNode, Command, Word

LEMMA NodesReplaced ==
  ASSUME NEW acc \in Accs, NEW new \in Seq(Command(Word)), new # << >>
  PROVE  [acc EXCEPT !.nodes = new] \in Accs
BY DEF Accs

LEMMA AddTokenIn ==
  ASSUME NEW acc \in Accs, NEW token \in Word
  PROVE  AddToken(acc, token) \in Accs
<1> DEFINE last == Len(acc.nodes)
           cmd == acc.nodes[last]
<1>1. /\ acc.nodes \in Seq(Command(Word)) /\ acc.nodes # << >>
      /\ acc.next \in {"any", "in", "out"}
      /\ acc = [nodes |-> acc.nodes, next |-> acc.next]
  BY DEF Accs
<1>2. last \in 1 .. Len(acc.nodes)
  BY <1>1
<1>3. cmd \in Command(Word)
  BY <1>1, <1>2, ElementOfSeq
<1>4. ASSUME NEW c \in Command(Word)
      PROVE  /\ [acc.nodes EXCEPT ![last] = c] \in Seq(Command(Word))
             /\ [acc.nodes EXCEPT ![last] = c] # << >>
  BY <1>1, <1>2, ExceptSeq
<1>5. CASE acc.next = "in"
  <2>1. [cmd EXCEPT !.in_file = token] \in Command(Word)
    BY <1>3 DEF Command
  <2>2. [acc.nodes EXCEPT ![last].in_file = token]
          = [acc.nodes EXCEPT ![last] = [cmd EXCEPT !.in_file = token]]
    OBVIOUS
  <2> QED
    BY <1>4, <1>5, <2>1, <2>2 DEF AddToken, Accs
<1>6. CASE acc.next = "out"
  <2>1. [cmd EXCEPT !.out_file = token] \in Command(Word)
    BY <1>3 DEF Command
  <2>2. [acc.nodes EXCEPT ![last].out_file = token]
          = [acc.nodes EXCEPT ![last] = [cmd EXCEPT !.out_file = token]]
    OBVIOUS
  <2> QED
    BY <1>4, <1>6, <2>1, <2>2 DEF AddToken, Accs
<1>7. CASE acc.next = "any"
  <2>1. [acc EXCEPT !.nodes = Append(@, EmptyNode)] \in Accs
    <3>1. Append(acc.nodes, EmptyNode) \in Seq(Command(Word)) /\ Append(acc.nodes, EmptyNode) # << >>
      BY <1>1, EmptyNodeIn, AppendProperties
    <3> QED
      BY <3>1, NodesReplaced
  <2>2. [acc EXCEPT !.next = "in"] \in Accs /\ [acc EXCEPT !.next = "out"] \in Accs
    BY <1>1 DEF Accs
  <2>3. [acc EXCEPT !.nodes[last].args = Append(@, token)] \in Accs
    <3>1. Append(cmd.args, token) \in Seq(Word)
      BY <1>3 DEF Command
    <3>2. [cmd EXCEPT !.args = Append(cmd.args, token)] \in Command(Word)
      BY <1>3, <3>1 DEF Command
    <3>3. [acc EXCEPT !.nodes[last].args = Append(@, token)]
            = [acc EXCEPT !.nodes =
                 [acc.nodes EXCEPT ![last] = [cmd EXCEPT !.args = Append(cmd.args, token)]]]
      OBVIOUS
    <3>4. [acc EXCEPT !.nodes =
             [acc.nodes EXCEPT ![last] = [cmd EXCEPT !.args = Append(cmd.args, token)]]] \in Accs
      <4> HIDE DEF cmd, last
      <4> QED
        BY <1>4, <3>2, NodesReplaced
    <3> QED
      BY <3>3, <3>4, Zenon
  <2> QED
    BY <1>7, <2>1, <2>2, <2>3 DEF AddToken
<1> QED
  BY <1>1, <1>5, <1>6, <1>7

LEMMA SplitLineIn ==
  ASSUME NEW line \in Lines
  PROVE  split_line(line) \in Seq(Command(Names)) /\ split_line(line) # << >>
<1> DEFINE n == Len(line)
           acc == Loop(line)
<1>1. n \in Nat /\ \A i \in 1 .. n : line[i] \in Word
  <2>1. line \in Seq(STRING)
    BY WordsAssumption
  <2>2. n \in Nat /\ \A i \in 1 .. n : line[i] \in STRING
    BY <2>1, ElementOfSeq
  <2> QED
    BY <2>2 DEF Word
<1>2. \A i \in 0 .. n : acc[i] = IF i = 0 THEN LoopStart ELSE AddToken(acc[i - 1], line[i])
  BY <1>1, LoopIs DEF IsLoop
<1> DEFINE S == {i \in 0 .. n : acc[i] \notin Accs}
<1>3. S = {}
  <2> SUFFICES ASSUME S # {} PROVE FALSE
    OBVIOUS
  <2>1. PICK m \in S : \A k \in S : m <= k
    <3>1. S \in SUBSET Nat
      BY <1>1
    <3> HIDE DEF S
    <3> QED
      BY <3>1, LeastOf
  <2>2. LoopStart \in Accs
    BY EmptyNodeIn DEF LoopStart, Accs
  <2>3. m # 0 /\ m \in 1 .. n
    BY <1>1, <1>2, <2>1, <2>2
  <2>4. m - 1 \in 0 .. n /\ m - 1 \notin S
    BY <1>1, <2>1, <2>3
  <2>5. acc[m - 1] \in Accs /\ acc[m] = AddToken(acc[m - 1], line[m]) /\ line[m] \in Word
    BY <1>1, <1>2, <2>3, <2>4
  <2>6. acc[m] \in Accs
    BY <2>5, AddTokenIn
  <2> QED
    BY <2>1, <2>6
<1>4. acc[n] \in Accs
  BY <1>1, <1>3
<1>5. split_line(line) \in Seq(Command(Word)) /\ split_line(line) # << >>
  BY <1>4 DEF split_line, Accs
<1> DEFINE l == split_line(line)
<1>6. ASSUME NEW i \in 1 .. Len(l) PROVE l[i] \in Command(Names)
  <2> HIDE DEF l
  <2>1. l[i] \in Command(Word) /\ i \in DOMAIN l
    BY <1>5, ElementOfSeq DEF l
  <2>2. {l[i].in_file, l[i].out_file} \subseteq Names
    BY <2>1, WordsAssumption DEF l, Names
  <2> QED
    BY <2>1, <2>2 DEF Command
<1> QED
  <2> HIDE DEF l
  <2>1. Len(l) \in Nat /\ l = [i \in 1 .. Len(l) |-> l[i]]
    BY <1>5 DEF l
  <2>2. l \in Seq(Command(Names))
    BY <2>1, <1>6, SMTT(30)
  <2> QED
    BY <2>2, <1>5 DEF l

-----------------------------------------------------------------------------
(* RunStages: a run of the first n stages ends in state s.                 *)
IsRun(g, start, cmds, skipped, n) ==
  g = [i \in 0 .. n |-> IF i = 0 THEN start ELSE AfterStage(g[i - 1], i, cmds, skipped)]
Reaches(s, start, cmds, skipped, n) ==
  \E g : IsRun(g, start, cmds, skipped, n) /\ s = g[n]

LEMMA RunStart ==
  ASSUME NEW start, NEW cmds, NEW skipped
  PROVE  Reaches(start, start, cmds, skipped, 0)
<1> DEFINE g == [i \in 0 .. 0 |-> start]
<1>1. IsRun(g, start, cmds, skipped, 0)
  BY DEF IsRun
<1>2. g[0] = start
  OBVIOUS
<1> QED
  BY <1>1, <1>2 DEF Reaches

LEMMA RunOneMore ==
  ASSUME NEW s, NEW start, NEW cmds, NEW skipped, NEW m \in Nat, m # 0,
         Reaches(s, start, cmds, skipped, m - 1)
  PROVE  Reaches(AfterStage(s, m, cmds, skipped), start, cmds, skipped, m)
<1>1. PICK g : IsRun(g, start, cmds, skipped, m - 1) /\ s = g[m - 1]
  BY DEF Reaches
<1>2. m - 1 \in Nat
  OBVIOUS
<1> DEFINE h == [i \in 0 .. m |-> IF i = m THEN AfterStage(s, m, cmds, skipped) ELSE g[i]]
<1>3. ASSUME NEW i \in 0 .. m
      PROVE  h[i] = IF i = 0 THEN start ELSE AfterStage(h[i - 1], i, cmds, skipped)
  <2>1. CASE i = m
    <3>1. h[i - 1] = s
      BY <2>1, <1>1, <1>2
    <3> QED
      BY <2>1, <3>1
  <2>2. CASE i # m
    <3>1. i \in 0 .. m - 1 /\ h[i] = g[i]
      BY <2>2, <1>2
    <3>2. g[i] = IF i = 0 THEN start ELSE AfterStage(g[i - 1], i, cmds, skipped)
      BY <3>1, <1>1 DEF IsRun
    <3>3. i # 0 => h[i - 1] = g[i - 1]
      BY <3>1
    <3> QED
      BY <3>1, <3>2, <3>3
  <2> QED
    BY <2>1, <2>2
<1>4. IsRun(h, start, cmds, skipped, m)
  <2>1. h = [i \in 0 .. m |-> h[i]]
    OBVIOUS
  <2> QED
    BY <2>1, <1>3, Zenon DEF IsRun
<1>5. h[m] = AfterStage(s, m, cmds, skipped)
  OBVIOUS
<1> QED
  BY <1>4, <1>5, Zenon DEF Reaches

(* A later stage that fork fails for is none of the first n. *)
LEMMA RunSkipsLater ==
  ASSUME NEW s, NEW start, NEW cmds, NEW skipped, NEW n \in Nat, NEW q \in Nat, q > n,
         Reaches(s, start, cmds, skipped, n)
  PROVE  Reaches(s, start, cmds, skipped \cup {q}, n)
<1>1. PICK g : IsRun(g, start, cmds, skipped, n) /\ s = g[n]
  BY DEF Reaches
<1>2. \A i \in 0 .. n : AfterStage(g[i - 1], i, cmds, skipped)
                      = AfterStage(g[i - 1], i, cmds, skipped \cup {q})
  BY DEF AfterStage
<1>3. \A i \in 0 .. n : g[i] = IF i = 0 THEN start ELSE AfterStage(g[i - 1], i, cmds, skipped)
  BY <1>1 DEF IsRun
<1>4. g = [i \in 0 .. n |-> g[i]]
  BY <1>1 DEF IsRun
<1>5. IsRun(g, start, cmds, skipped \cup {q}, n)
  BY <1>2, <1>3, <1>4, Zenon DEF IsRun
<1> QED
  BY <1>1, <1>5 DEF Reaches

(* There is one run. *)
LEMMA RunIs ==
  ASSUME NEW s, NEW start, NEW cmds, NEW skipped, Len(cmds) \in Nat,
         Reaches(s, start, cmds, skipped, Len(cmds))
  PROVE  RunStages(start, cmds, skipped)[Len(cmds)] = s
<1> DEFINE n == Len(cmds)
           f == RunStages(start, cmds, skipped)
<1>1. PICK g : IsRun(g, start, cmds, skipped, n) /\ s = g[n]
  BY DEF Reaches
<1>2. f = CHOOSE h : IsRun(h, start, cmds, skipped, n)
  BY Zenon DEF RunStages, IsRun
<1>3. IsRun(f, start, cmds, skipped, n)
  BY <1>1, <1>2
<1>4. \A i \in 0 .. n : f[i] = IF i = 0 THEN start ELSE AfterStage(f[i - 1], i, cmds, skipped)
  BY <1>3 DEF IsRun
<1>5. \A i \in 0 .. n : g[i] = IF i = 0 THEN start ELSE AfterStage(g[i - 1], i, cmds, skipped)
  BY <1>1 DEF IsRun
<1> DEFINE S == {i \in 0 .. n : f[i] # g[i]}
<1>6. S = {}
  <2> SUFFICES ASSUME S # {} PROVE FALSE
    OBVIOUS
  <2>1. PICK m \in S : \A k \in S : m <= k
    <3>1. S \in SUBSET Nat
      OBVIOUS
    <3> HIDE DEF S
    <3> QED
      BY <3>1, LeastOf
  <2>2. m # 0
    BY <2>1, <1>4, <1>5
  <2>3. m - 1 \in 0 .. n /\ m - 1 \notin S
    BY <2>1, <2>2
  <2>4. f[m - 1] = g[m - 1]
    BY <2>3
  <2> QED
    BY <1>4, <1>5, <2>1, <2>2, <2>4
<1> QED
  BY <1>1, <1>6

-----------------------------------------------------------------------------
(* What a stage does to the state of the line.                             *)
LEMMA FileIn ==
  ASSUME NEW fs \in FileSystems, NEW dir \in Dirs, NEW name \in FileNames, NEW text \in Text
  PROVE  [fs EXCEPT ![<<dir, name>>] = File(text)] \in FileSystems
<1>1. <<dir, name>> \in Dirs \X FileNames
  OBVIOUS
<1>2. File(text) \in [exists : BOOLEAN, data : Text]
  BY DEF File
<1> QED
  BY <1>1, <1>2 DEF FileSystems

LEMMA FileDataIn ==
  ASSUME NEW fs \in FileSystems, NEW dir \in Dirs, NEW name \in FileNames
  PROVE  fs[<<dir, name>>].data \in Text
<1>1. <<dir, name>> \in Dirs \X FileNames
  OBVIOUS
<1> QED
  BY <1>1 DEF FileSystems

LEMMA EmptyText == << >> \in Text
BY DEF Text

LEMMA OpenedIn ==
  ASSUME NEW fs \in FileSystems, NEW dir \in Dirs, NEW cmd \in Command(Names)
  PROVE  Opened(fs, dir, cmd) \in FileSystems
BY FileIn, EmptyText DEF Opened, Command, Names

LEMMA StageTextIn ==
  ASSUME NEW s \in States, NEW cmd \in Command(Names)
  PROVE  StageText(s, cmd) \in Text
<1>1. s.files \in FileSystems /\ s.cwd \in Dirs /\ s.input \in Text
  BY DEF States
<1> DEFINE fs == Opened(s.files, s.cwd, cmd)
           input == IF cmd.in_file = "" THEN s.input ELSE fs[<<s.cwd, cmd.in_file>>].data
<1>2. input \in Text
  <2>1. fs \in FileSystems
    BY <1>1, OpenedIn
  <2>2. cmd.in_file # "" => cmd.in_file \in FileNames
    BY DEF Command, Names
  <2> HIDE DEF fs
  <2> QED
    BY <1>1, <2>1, <2>2, FileDataIn
<1>3. IsProgram(cmd.args) => ProgramText(cmd.args, input) \in Text
  <2> HIDE DEF input
  <2>1. ASSUME cmd.args[1] \in DOMAIN Emits PROVE Emits[cmd.args[1]] \in Text
    <3>1. Emits[cmd.args[1]] \in Seq(Seq(STRING))
      BY <2>1, WordsAssumption
    <3>2. Seq(STRING) \subseteq Item
      BY SeqMonotonic DEF Item, Word
    <3> QED
      BY <3>1, <3>2, SeqMonotonic DEF Text
  <2> QED
    BY <1>2, <2>1 DEF IsProgram, ProgramText
<1> QED
  BY <1>3, EmptyText DEF StageText

LEMMA WrittenIs ==
  ASSUME NEW s \in States, NEW cmd \in Command(Names), NEW last \in BOOLEAN, NEW text \in Text
  PROVE  LET w == Written(s, cmd, last, text) IN
         /\ w \in States /\ w.cwd = s.cwd
         /\ w.files = IF cmd.out_file # ""
                      THEN [s.files EXCEPT ![<<s.cwd, cmd.out_file>>] = File(text)]
                      ELSE s.files
         /\ w.term = IF cmd.out_file = "" /\ last THEN s.term \o text ELSE s.term
         /\ cmd.out_file # "" => w.input = << >>
         /\ cmd.out_file = "" /\ ~last => w.input = text
<1>1. /\ s.files \in FileSystems /\ s.cwd \in Dirs /\ s.term \in Text
      /\ s.input \in Text /\ s.fits \in BOOLEAN
  BY DEF States
<1>2. CASE cmd.out_file # ""
  <2>1. [s.files EXCEPT ![<<s.cwd, cmd.out_file>>] = File(text)] \in FileSystems
    BY <1>1, <1>2, FileIn DEF Command, Names
  <2> QED
    BY <1>1, <1>2, <2>1, EmptyText DEF Written, States
<1>3. CASE cmd.out_file = "" /\ last
  <2>1. s.term \o text \in Text
    BY <1>1, ConcatProperties DEF Text
  <2> QED
    BY <1>1, <1>3, <2>1 DEF Written, States
<1>4. CASE cmd.out_file = "" /\ ~last
  <2>1. (s.fits /\ Len(text) <= PIPE) \in BOOLEAN
    OBVIOUS
  <2> QED
    BY <1>1, <1>4, <2>1 DEF Written, States
<1> QED
  BY <1>2, <1>3, <1>4

LEMMA WrittenHere ==
  ASSUME NEW s \in States, node \in Command(Names), NEW text \in Text
  PROVE  LET w == Written(s, node, IsLast, text) IN
         /\ w \in States /\ w.cwd = s.cwd
         /\ w.files = IF node.out_file # ""
                      THEN [s.files EXCEPT ![<<s.cwd, node.out_file>>] = File(text)]
                      ELSE s.files
         /\ w.term = IF node.out_file = "" /\ IsLast THEN s.term \o text ELSE s.term
         /\ node.out_file # "" => w.input = << >>
         /\ node.out_file = "" /\ ~IsLast => w.input = text
<1>1. PICK w : w = Written(s, node, IsLast, text)
  OBVIOUS
<1>2. CASE IsLast
  <2>1. w = Written(s, node, TRUE, text)
    BY <1>1, <1>2 DEF Written
  <2>2. /\ w \in States /\ w.cwd = s.cwd
        /\ w.files = IF node.out_file # ""
                     THEN [s.files EXCEPT ![<<s.cwd, node.out_file>>] = File(text)]
                     ELSE s.files
        /\ w.term = IF node.out_file = "" /\ TRUE THEN s.term \o text ELSE s.term
        /\ node.out_file # "" => w.input = << >>
    BY <2>1, WrittenIs, ZenonT(40)
  <2> QED
    BY <1>1, <1>2, <2>2, Zenon
<1>3. CASE ~IsLast
  <2>1. w = Written(s, node, FALSE, text)
    BY <1>1, <1>3 DEF Written
  <2>2. /\ w \in States /\ w.cwd = s.cwd
        /\ w.files = IF node.out_file # ""
                     THEN [s.files EXCEPT ![<<s.cwd, node.out_file>>] = File(text)]
                     ELSE s.files
        /\ w.term = IF node.out_file = "" /\ FALSE THEN s.term \o text ELSE s.term
        /\ node.out_file = "" /\ ~FALSE => w.input = text
        /\ node.out_file # "" => w.input = << >>
    BY <2>1, WrittenIs, ZenonT(40)
  <2> QED
    BY <1>1, <1>3, <2>2, Zenon
<1> QED
  BY <1>2, <1>3

LEMMA NothingWritten ==
  ASSUME NEW s \in States
  PROVE  LET w == [s EXCEPT !.input = << >>] IN
         /\ w \in States /\ w.cwd = s.cwd /\ w.files = s.files /\ w.term = s.term
         /\ w.input = << >>
BY EmptyText DEF States

LEMMA AfterStageIn ==
  ASSUME NEW s \in States, NEW cmds \in Seq(Command(Names)), NEW i \in 1 .. Len(cmds), NEW skipped
  PROVE  AfterStage(s, i, cmds, skipped) \in States
<1>1. cmds[i] \in Command(Names) /\ (i = Len(cmds)) \in BOOLEAN
  BY ElementOfSeq
<1>2. StageText(s, cmds[i]) \in Text
  BY <1>1, StageTextIn
<1>3. Written(s, cmds[i], i = Len(cmds), StageText(s, cmds[i])) \in States
  BY <1>1, <1>2, WrittenIs
<1> QED
  BY <1>3, NothingWritten DEF AfterStage, RunStage

-----------------------------------------------------------------------------
(* The outputs: before and after a stage the shell is where the reference  *)
(* is, in its files, its directory, its terminal and the pipe to the next  *)
(* stage.  While the stage runs, what it has written, what it is to write  *)
(* and what cat can still read make up the text of the stage; and it has   *)
(* brought the shell where the reference is with the text written so far.  *)
(* What a builtin has printed is on the terminal, in a file or in stdio's  *)
(* buffer, until the prompt empties that; of a redirected one, nothing is  *)
(* in the buffer unless the line is one that LeavesRest.                   *)
TextInv ==
  /\ files \in FileSystems /\ cwd \in Dirs /\ term \in Text /\ pending \in Text
  /\ nodes \in Seq(Command(Names)) /\ pipes \in [DOMAIN nodes -> Text]
  /\ before \in [files : FileSystems, cwd : Dirs]
  /\ InLine => p \in 1 .. Len(nodes)

Matches(s, k) ==
  /\ files = s.files /\ cwd = s.cwd /\ term = s.term
  /\ k = 0 => s.input = << >>
  /\ k \in 1 .. Len(nodes) - 1 => pipes[k] = s.input
  /\ \A j \in DOMAIN nodes : j > k => pipes[j] = << >>

LeftInput == IF node.args[1] = "cat" THEN Input ELSE << >>

Running(s) ==
  /\ CanRead(s.files, s.cwd, node) /\ CanWrite(node) /\ IsProgram(node.args)
  /\ child.in = ChildIn /\ child.out = ChildOut
  /\ child.pc = "read" => node.args[1] = "cat" /\ child.left = << >>
  /\ \E text \in Text :
       /\ Matches(Written(s, node, IsLast, text), p)
       /\ (text \o child.left) \o LeftInput = StageText(s, node)

Waiting(s) ==
  /\ IsExternal
  /\ child = [pc |-> child.pc, in |-> child.in, out |-> child.out, fds |-> child.fds,
              pos |-> child.pos, left |-> child.left]
  /\ child.pos \in Nat /\ child.left \in Text
  /\ \/ child.pc = "redirect" /\ child.pos = 0 /\ Matches(s, p - 1)
     \/ child.pc \in {"read", "write"} /\ Running(s)
     \/ child.pc = "ended" /\ Matches(RunStage(s, node, IsLast), p)

LineStart == Start(before.files, before.cwd)

StageInv ==
  \E s \in States :
    /\ Reaches(s, LineStart, nodes, nofork, p - 1) /\ nofork \subseteq 1 .. p - 1
    /\ IF pc = "line" THEN Matches(s, p - 1) ELSE Waiting(s)

Redirected ==
  /\ SingleBuiltin
  /\ files = Opened(before.files, before.cwd, node) /\ cwd = before.cwd /\ term = << >>
  /\ node.out_file # "" => std[2] = FileAt(node.out_file)

AtReference ==
  /\ files = Reference.files /\ cwd = Reference.cwd
  /\ term \o pending = Reference.term

OutInv ==
  /\ TextInv
  /\ pc \in {"prompt", "line", "wait", "builtin"} => pending = << >>
  /\ pc \in {"line", "wait"} => StageInv
  /\ pc = "builtin" => Redirected
  /\ pc = "restore" => SingleBuiltin /\ (LeavesRest \/ AtReference)
  /\ pc \in {"prompt", "flush"} => (nodes # << >> => LeavesRest \/ AtReference)

LEMMA StartIn ==
  ASSUME TextInv
  PROVE  LineStart \in States
BY EmptyText DEF TextInv, LineStart, Start, States

LEMMA OutInit == Init => OutInv
<1> SUFFICES ASSUME Init PROVE OutInv
  OBVIOUS
<1>1. << >> \in Text /\ << >> \in Seq(Command(Names)) /\ DOMAIN << >> = {} /\ Absent \in [exists : BOOLEAN, data : Text]
  BY EmptyText DEF Absent
<1>2. files \in FileSystems
  BY <1>1 DEF Init, FileSystems
<1>3. pipes \in [DOMAIN nodes -> Text]
  BY <1>1 DEF Init
<1> QED
  BY <1>1, <1>2, <1>3 DEF Init, OutInv, TextInv, InLine

(* read_line: the first stage starts where the line does. *)
LEMMA OutRead ==
  ASSUME OutInv, NEW line \in Lines, read_line(line)
  PROVE  OutInv'
<1>1. /\ nodes' = split_line(line) /\ p' = 1 /\ pc' = "line" /\ nofork' = {}
      /\ before' = [files |-> files, cwd |-> cwd] /\ term' = << >>
      /\ pipes' = [i \in DOMAIN split_line(line) |-> << >>]
      /\ UNCHANGED <<files, cwd, pending>> /\ pc = "prompt" /\ pending = << >>
  BY DEF read_line, OutInv
<1>2. nodes' \in Seq(Command(Names)) /\ nodes' # << >> /\ Len(nodes') \in Nat /\ Len(nodes') # 0
  <2>1. nodes' \in Seq(Command(Names)) /\ nodes' # << >>
    BY <1>1, SplitLineIn
  <2> QED
    BY <2>1
<1>3. TextInv'
  BY <1>1, <1>2, EmptyText DEF OutInv, TextInv
<1>4. Matches(LineStart, 0)'
  BY <1>1 DEF Matches, LineStart, Start
<1>5. LineStart' \in States
  BY <1>3, <1>1, EmptyText DEF TextInv, LineStart, Start, States
<1>6. Reaches(LineStart', LineStart', nodes', nofork', 0)
  BY RunStart
<1>7. StageInv'
  <2>1. p' - 1 = 0 /\ nofork' \subseteq 1 .. p' - 1
    BY <1>1
  <2> QED
    BY <1>1, <1>4, <1>5, <1>6, <2>1 DEF StageInv
<1> QED
  BY <1>1, <1>3, <1>7 DEF OutInv

(* What the shell does without the line it is in. *)
LEMMA OutIgnored ==
  ASSUME OutInv, NEW line \in Lines, IgnoreLine(line)
  PROVE  OutInv'
BY DEF IgnoreLine, Goto, OutInv, TextInv, InLine, recordVars, lineVars, outVars, AtReference,
       Reference, LeavesRest, LastLines

(* A builtin: the reference for the line is RunBuiltin. *)
LEMMA BuiltinReference ==
  ASSUME SingleBuiltin, p = 1
  PROVE  Reference = RunBuiltin(LineStart, node, LastLines)
BY DEF SingleBuiltin, node, Reference, RunLine, IsOneBuiltin, LineStart

LEMMA OutRedirect ==
  ASSUME OutInv, CleanInv, BuiltinRedirect
  PROVE  OutInv'
<1>1. /\ pc = "line" /\ SingleBuiltin /\ CanRead(files, cwd, node) /\ CanWrite(node)
      /\ files' = Opened(files, cwd, node) /\ pc' = "builtin"
      /\ std' = <<IF node.in_file # "" THEN FileAt(node.in_file) ELSE std[1],
                  IF node.out_file # "" THEN FileAt(node.out_file) ELSE std[2]>>
      /\ UNCHANGED <<nodes, before, p, pipes, term, cwd, pending>>
  BY DEF BuiltinRedirect, lineVars
<1>2. p = 1 /\ TextInv /\ pending = << >> /\ StageInv /\ p \in 1 .. Len(nodes)
  BY <1>1 DEF OutInv, TextInv, InLine, CleanInv, SingleBuiltin
<1>3. node \in Command(Names) /\ node' = node
  BY <1>1, <1>2, ElementOfSeq DEF TextInv, node
<1>4. PICK s \in States : Reaches(s, LineStart, nodes, nofork, p - 1) /\ Matches(s, p - 1)
  BY <1>1, <1>2 DEF StageInv
<1>5. s = LineStart
  <2>1. p - 1 = 0
    BY <1>2
  <2> QED
    BY <2>1, <1>4 DEF Reaches, IsRun
<1>6. files = before.files /\ cwd = before.cwd /\ term = << >>
  BY <1>4, <1>5 DEF Matches, LineStart, Start
<1>7. files' \in FileSystems
  BY <1>1, <1>2, <1>3, OpenedIn DEF TextInv
<1>8. TextInv'
  BY <1>1, <1>2, <1>7 DEF TextInv, InLine
<1>9. Redirected'
  <2>1. SingleBuiltin'
    BY <1>1, <1>3 DEF SingleBuiltin
  <2>2. node.out_file # "" => std'[2] = FileAt(node.out_file)
    BY <1>1
  <2>3. FileAt(node.out_file)' = FileAt(node.out_file)
    BY <1>1, <1>3 DEF FileAt
  <2> QED
    BY <1>1, <1>3, <1>6, <2>1, <2>2, <2>3 DEF Redirected
<1> QED
  BY <1>1, <1>2, <1>8, <1>9 DEF OutInv

(* The targets of writes are told apart by their first words. *)
LEMMA Targets ==
  ASSUME NEW name, NEW k
  PROVE  /\ FileAt(name) # TTY /\ FileAt(name)[1] = "file" /\ Tail(FileAt(name)) = <<cwd, name>>
         /\ Pipe(k) # TTY /\ Pipe(k)[1] = "pipe" /\ Pipe(k)[2] = k
BY DEF FileAt, TTY, Pipe

LEMMA WriteToTTY ==
  ASSUME NEW text, WriteTo(TTY, text)
  PROVE  term' = term \o text /\ files' = files /\ pipes' = pipes
<1>1. TTY[1] = "tty"
  BY DEF TTY
<1>2. TTY[1] # "file" /\ TTY[1] # "pipe"
  BY <1>1
<1> QED
  BY <1>2 DEF WriteTo

LEMMA WriteToFile ==
  ASSUME NEW name, NEW text, WriteTo(FileAt(name), text)
  PROVE  /\ files' = [files EXCEPT ![<<cwd, name>>].data = @ \o text]
         /\ term' = term /\ pipes' = pipes
<1>1. FileAt(name)[1] # "pipe"
  BY Targets
<1> QED
  BY <1>1, Targets DEF WriteTo

LEMMA WriteToPipe ==
  ASSUME NEW k, NEW text, WriteTo(Pipe(k), text)
  PROVE  /\ pipes' = [pipes EXCEPT ![k] = @ \o text]
         /\ term' = term /\ files' = files
<1>1. Pipe(k)[1] # "file"
  BY Targets
<1> QED
  BY <1>1, Targets DEF WriteTo

LEMMA DataReplaced ==
  ASSUME NEW e, NEW a, NEW b
  PROVE  [[exists |-> e, data |-> a] EXCEPT !.data = b] = [exists |-> e, data |-> b]
OBVIOUS

(* What is written to a file comes after what it has. *)
WithFile(fs, at, text) == [fs EXCEPT ![at] = File(text)]
Grown(fs, at, more) == [fs EXCEPT ![at].data = @ \o more]

LEMMA FileGrows ==
  ASSUME NEW fs, NEW at \in DOMAIN fs, NEW text, NEW more
  PROVE  Grown(WithFile(fs, at, text), at, more) = WithFile(fs, at, text \o more)
<1> DEFINE now == WithFile(fs, at, text)
<1>1. [File(text) EXCEPT !.data = text \o more] = File(text \o more)
  BY DataReplaced, Zenon DEF File
<1>2. now[at] = File(text)
  BY DEF WithFile
<1>3. now[at].data = text
  BY <1>2 DEF File
<1> HIDE DEF now
<1>4. [now EXCEPT ![at].data = @ \o more] = [now EXCEPT ![at] = File(text \o more)]
  BY <1>1, <1>2, <1>3
<1> QED
  BY <1>4 DEF now, WithFile, Grown

LEMMA OutBuiltin ==
  ASSUME OutInv, CleanInv, RecordInv, execBuiltInCommand
  PROVE  OutInv'
<1> DEFINE text == BuiltinText(node.args, cwd, record)
<1>1. /\ pc = "builtin" /\ pc' = "restore" /\ pending = << >>
      /\ WriteTo(std[2], WholeLines(pending \o text)) /\ pending' = LastPart(pending \o text)
      /\ cwd' = CdTo(node.args, cwd)
      /\ UNCHANGED <<nodes, before, p, std, nofork, entered>>
  BY DEF execBuiltInCommand, Goto, OutInv, lineVars, recordVars
<1>2. /\ TextInv /\ Redirected /\ SingleBuiltin /\ p = 1 /\ p \in 1 .. Len(nodes)
      /\ node.out_file = "" => std[2] = TTY
  BY <1>1 DEF OutInv, TextInv, InLine, CleanInv, Redirected
<1>3. node \in Command(Names) /\ node' = node
  BY <1>1, <1>2, ElementOfSeq DEF TextInv, node
<1>4. record = LastLines /\ LastLines \in Seq(Item)
  <2>1. record = LastLines
    BY RecordListed DEF RecordShowsLast
  <2>2. LastLines \in Seq(Item)
    <3>1. entered \in Seq(Lines)
      BY DEF RecordInv
    <3>2. Lines \subseteq Item
      BY WordsAssumption, SeqMonotonic DEF Item, Word
    <3>3. entered \in Seq(Item) /\ Len(entered) \in Nat
      BY <3>1, <3>2, SeqMonotonic
    <3>4. PICK first \in Int : first = Max({1, Len(entered) - MAX_RECORD_NUM + 1}) /\ first >= 1
      BY <3>3, SizesAssumption, MaxOfTwo
    <3>5. \A i \in first .. Len(entered) : entered[i] \in Item
      BY <3>3, <3>4, ElementOfSeq
    <3> QED
      <4>1. Len(entered) \in Int
        BY <3>3
      <4>2. SubSeq(entered, first, Len(entered)) \in Seq(Item)
        BY <4>1, <3>5, SubSeqProperties
      <4> QED
        BY <4>2, <3>4, Zenon DEF LastLines
  <2> QED
    BY <2>1, <2>2
<1>5. text \in Text
  BY <1>2, <1>3, <1>4, BuiltinTextIn DEF SingleBuiltin, IsBuiltin, Command, TextInv
<1>6. pending \o text = text
  BY <1>1, <1>5, ConcatEmptySeq DEF Text
<1>7. /\ WholeLines(text) \in Text /\ LastPart(text) \in Text
      /\ WholeLines(text) \o LastPart(text) = text
  BY <1>5, LinesAndRest
<1>8. WriteTo(std[2], WholeLines(text)) /\ pending' = LastPart(text)
  BY <1>1, <1>6
<1> DEFINE opened == Opened(before.files, before.cwd, node)
<1>9. /\ files = opened /\ opened \in FileSystems /\ cwd = before.cwd /\ term = << >>
      /\ before.files \in FileSystems /\ before.cwd \in Dirs
  BY <1>2, <1>3, OpenedIn DEF Redirected, TextInv
<1>10. cwd' \in Dirs
  BY <1>1, <1>2 DEF CdTo, TextInv
<1>11. SingleBuiltin'
  BY <1>1, <1>2, <1>3 DEF SingleBuiltin
<1>12. Reference' = RunBuiltin(LineStart, node, LastLines)
  <2>1. LastLines' = LastLines /\ LineStart' = LineStart
    BY <1>1 DEF LastLines, LineStart
  <2>2. Reference' = Reference
    BY <1>1, <2>1 DEF Reference
  <2> QED
    BY <2>2, <1>2, BuiltinReference
<1>13. text = BuiltinText(node.args, LineStart.cwd, LastLines) /\ cwd' = CdTo(node.args, LineStart.cwd)
  BY <1>1, <1>4, <1>9 DEF LineStart, Start
<1>14. LineStart \in States
  BY <1>2, StartIn
<1> DEFINE written == Written(LineStart, node, TRUE, text)
<1>15. /\ written \in States
       /\ written.files = IF node.out_file # ""
                          THEN [before.files EXCEPT ![<<before.cwd, node.out_file>>] = File(text)]
                          ELSE before.files
       /\ written.term = IF node.out_file = "" THEN << >> \o text ELSE << >>
  <2>1. LineStart.files = before.files /\ LineStart.cwd = before.cwd /\ LineStart.term = << >>
    BY DEF LineStart, Start
  <2>2. /\ written \in States
        /\ written.files = IF node.out_file # ""
                           THEN [LineStart.files EXCEPT
                                   ![<<LineStart.cwd, node.out_file>>] = File(text)]
                           ELSE LineStart.files
        /\ written.term = IF node.out_file = "" /\ TRUE THEN LineStart.term \o text
                          ELSE LineStart.term
    BY <1>3, <1>5, <1>14, WrittenIs
  <2> QED
    BY <2>1, <2>2
<1>16. Reference' = [written EXCEPT !.cwd = cwd']
  BY <1>12, <1>13 DEF RunBuiltin
<1>17. Reference'.files = written.files /\ Reference'.cwd = cwd' /\ Reference'.term = written.term
  <2> HIDE DEF written
  <2> QED
    BY <1>15, <1>16 DEF States
<1>18. CASE node.out_file = ""
  <2>1. term' = WholeLines(text) /\ files' = files /\ pipes' = pipes
    <3>1. term' = term \o WholeLines(text) /\ files' = files /\ pipes' = pipes
      BY <1>2, <1>8, <1>18, WriteToTTY
    <3> QED
      BY <3>1, <1>7, <1>9, ConcatEmptySeq DEF Text
  <2>2. written.files = before.files /\ written.term = text
    BY <1>5, <1>15, <1>18, ConcatEmptySeq DEF Text
  <2>3. files = before.files
    BY <1>9, <1>18 DEF Opened
  <2>4. AtReference'
    BY <2>1, <2>2, <2>3, <1>7, <1>8, <1>17 DEF AtReference
  <2>5. TextInv'
    BY <1>1, <1>2, <1>7, <1>8, <1>10, <2>1 DEF TextInv, InLine
  <2> QED
    BY <1>1, <1>11, <2>4, <2>5 DEF OutInv
<1>19. CASE node.out_file # ""
  <2> DEFINE at == <<before.cwd, node.out_file>>
             new == [before.files EXCEPT ![at] = File(WholeLines(text))]
  <2>1. node.out_file \in FileNames
    BY <1>3, <1>19 DEF Command, Names
  <2>2. opened = [before.files EXCEPT ![at] = File(<< >>)]
    BY <1>19 DEF Opened
  <2>3. std[2] = FileAt(node.out_file)
    BY <1>2, <1>19 DEF Redirected
  <2>4. at = <<cwd, node.out_file>> /\ at \in Dirs \X FileNames
    BY <2>1, <1>9
  <2>5. files' = [files EXCEPT ![at].data = @ \o WholeLines(text)] /\ term' = term /\ pipes' = pipes
    BY <2>3, <2>4, <1>8, WriteToFile
  <2>6. files' = new
    <3>1. << >> \o WholeLines(text) = WholeLines(text)
      BY <1>7, ConcatEmptySeq DEF Text
    <3>2. files = WithFile(before.files, at, << >>)
      BY <1>9, <2>2 DEF WithFile
    <3>3. files' = Grown(files, at, WholeLines(text))
      BY <2>5 DEF Grown
    <3>4. at \in DOMAIN before.files
      BY <1>9, <2>4 DEF FileSystems
    <3>5. files' = WithFile(before.files, at, << >> \o WholeLines(text))
      <4> HIDE DEF at, text
      <4> QED
        BY <3>2, <3>3, <3>4, FileGrows
    <3> QED
      BY <3>1, <3>5 DEF WithFile
  <2>7. new \in FileSystems
    BY <2>1, <1>7, <1>9, FileIn
  <2>8. TextInv'
    <3> HIDE DEF new
    <3> QED
      BY <1>1, <1>2, <1>7, <1>8, <1>10, <2>5, <2>6, <2>7 DEF TextInv, InLine
  <2>9. CASE LastPart(text) # << >>
    <3>1. LastPart(BuiltinText(nodes[1].args, before.cwd, LastLines)) # << >>
      BY <2>9, <1>2, <1>4, <1>9 DEF node
    <3>2. LeavesRest
      BY <3>1, <1>2, <1>19 DEF LeavesRest, IsOneBuiltin, SingleBuiltin, node
    <3>3. LeavesRest' = LeavesRest
      BY <1>1 DEF LeavesRest, LastLines
    <3> QED
      BY <1>1, <1>11, <2>8, <3>2, <3>3 DEF OutInv
  <2>10. CASE LastPart(text) = << >>
    <3>1. WholeLines(text) = text
      BY <1>7, <2>10, ConcatEmptySeq DEF Text
    <3>2. written.files = new /\ written.term = << >>
      BY <3>1, <1>15, <1>19
    <3>3. term' \o pending' = << >>
      BY <1>8, <1>9, <2>5, <2>10, ConcatEmptySeq, EmptyText DEF Text
    <3>4. AtReference'
      <4> HIDE DEF new, written
      <4> QED
        BY <2>6, <3>2, <3>3, <1>17 DEF AtReference
    <3> QED
      BY <1>1, <1>11, <2>8, <3>4 DEF OutInv
  <2> QED
    BY <2>9, <2>10
<1> QED
  BY <1>18, <1>19

(* The shell's descriptors are the terminal again. *)
LEMMA OutRestore ==
  ASSUME OutInv, Restore
  PROVE  OutInv'
<1>1. /\ pc = "restore" /\ pc' \in {"ended", "flush"}
      /\ UNCHANGED <<nodes, before, nofork, entered, files, cwd, term, pipes, pending, p>>
  BY DEF Restore, lineVars, recordVars, outVars
<1>2. TextInv' /\ (LeavesRest \/ AtReference)'
  BY <1>1 DEF OutInv, TextInv, InLine, AtReference, Reference, LeavesRest, LastLines
<1> QED
  BY <1>1, <1>2 DEF OutInv

LEMMA OutFlush ==
  ASSUME OutInv, CleanInv, Flush
  PROVE  OutInv'
<1>1. /\ pc = "flush" /\ pc' = "prompt" /\ std[2] = TTY /\ pending' = << >>
      /\ WriteTo(std[2], pending)
      /\ UNCHANGED <<nodes, before, nofork, entered, cwd, p>>
  BY DEF Flush, Goto, CleanInv, OnTerminal, lineVars, recordVars
<1>2. term' = term \o pending /\ UNCHANGED <<files, pipes>>
  BY <1>1, WriteToTTY
<1>3. TextInv /\ term \in Text /\ pending \in Text
  BY DEF OutInv, TextInv
<1>4. term' \in Text /\ term' \o << >> = term'
  BY <1>2, <1>3, ConcatProperties, ConcatEmptySeq DEF Text
<1>5. TextInv'
  BY <1>1, <1>2, <1>3, <1>4, EmptyText DEF TextInv, InLine
<1>6. Reference' = Reference /\ LeavesRest' = LeavesRest
  BY <1>1 DEF Reference, LeavesRest, LastLines
<1>7. nodes' # << >> => (LeavesRest \/ AtReference)'
  BY <1>1, <1>2, <1>4, <1>6 DEF OutInv, AtReference
<1> QED
  BY <1>1, <1>5, <1>7 DEF OutInv

(* A child is forked: nothing of the outputs changes. *)
LEMMA OutSpawn ==
  ASSUME OutInv, CleanInv, spawn_proc
  PROVE  OutInv'
<1>1. /\ pc = "line" /\ pc' = "wait" /\ IsExternal
      /\ child' = [NoChild EXCEPT !.pc = "redirect", !.fds = FdsAtFork]
      /\ UNCHANGED <<nodes, before, nofork, entered, files, cwd, term, pipes, pending, p>>
  BY DEF spawn_proc, lineVars, recordVars, outVars
<1>2. TextInv /\ pending = << >> /\ StageInv
  BY <1>1 DEF OutInv
<1>3. TextInv'
  BY <1>1, <1>2 DEF TextInv, InLine
<1>4. PICK s \in States : /\ Reaches(s, LineStart, nodes, nofork, p - 1)
                          /\ nofork \subseteq 1 .. p - 1 /\ Matches(s, p - 1)
  BY <1>1, <1>2 DEF StageInv
<1>5. /\ child' = [pc |-> "redirect", in |-> TTY, out |-> TTY, fds |-> FdsAtFork,
                   pos |-> 0, left |-> << >>]
  BY <1>1 DEF NoChild
<1>6. Matches(s, p - 1)'
  BY <1>1, <1>4 DEF Matches
<1>7. Waiting(s)'
  <2>1. IsExternal' /\ (p - 1)' = p - 1
    BY <1>1 DEF IsExternal, node
  <2>2. /\ child'.pc = "redirect" /\ child'.in = TTY /\ child'.out = TTY
        /\ child'.fds = FdsAtFork /\ child'.pos = 0 /\ child'.left = << >>
    BY <1>5
  <2>3. child' = [pc |-> child'.pc, in |-> child'.in, out |-> child'.out, fds |-> child'.fds,
                  pos |-> child'.pos, left |-> child'.left]
    BY <1>5
  <2> QED
    BY <1>6, <2>1, <2>2, <2>3, EmptyText DEF Waiting
<1>8. LineStart' = LineStart
  BY <1>1 DEF LineStart
<1>9. Reaches(s, LineStart', nodes', nofork', p' - 1) /\ nofork' \subseteq 1 .. p' - 1
  BY <1>1, <1>4, <1>8
<1>10. StageInv'
  BY <1>1, <1>7, <1>9 DEF StageInv
<1> QED
  BY <1>1, <1>2, <1>3, <1>10 DEF OutInv

(* A stage is over: the next one starts where it has ended, or the line is *)
(* where the reference ends.                                               *)
LEMMA StageOver ==
  ASSUME TextInv, pending = << >>, InLine, IsExternal, NextStage,
         UNCHANGED <<nodes, before, entered, files, cwd, term, pipes, pending>>,
         NEW s \in States, Reaches(s, LineStart, nodes, nofork', p), Matches(s, p),
         nofork' \subseteq 1 .. p
  PROVE  OutInv'
<1>1. p \in 1 .. Len(nodes) /\ Len(nodes) \in Nat
  BY DEF TextInv
<1>2. LineStart' = LineStart /\ LastLines' = LastLines
  BY DEF LineStart, LastLines
<1>3. CASE IsLast
  <2>1. pc' = "flush" /\ p' = p /\ p = Len(nodes)
    BY <1>3 DEF NextStage, IsLast
  <2>2. RunStages(LineStart, nodes, nofork')[Len(nodes)] = s
    BY <1>1, <2>1, RunIs
  <2>3. Len(nodes) = 1 => nodes[1].args # << >> /\ ~IsBuiltin(nodes[1])
    BY <2>1 DEF IsExternal, node
  <2>4. Reference' = s
    BY <2>2, <2>3, <1>2 DEF Reference, RunLine, IsOneBuiltin, LineStart
  <2>5. files' = s.files /\ cwd' = s.cwd /\ term' = s.term
    BY DEF Matches
  <2>6. term' \o pending' = term'
    BY ConcatEmptySeq DEF TextInv, Text
  <2>7. AtReference'
    BY <2>4, <2>5, <2>6 DEF AtReference
  <2>8. TextInv'
    BY <2>1 DEF TextInv, InLine
  <2> QED
    BY <2>1, <2>7, <2>8 DEF OutInv
<1>4. CASE ~IsLast
  <2>1. pc' = "line" /\ p' = p + 1 /\ p' - 1 = p
    BY <1>1, <1>4 DEF NextStage
  <2>2. p' \in 1 .. Len(nodes)
    BY <1>1, <1>4, <2>1 DEF IsLast
  <2>3. TextInv'
    BY <2>2 DEF TextInv
  <2>4. Matches(s, p - 1)'
    BY <1>1, <2>1 DEF Matches
  <2>5. Reaches(s, LineStart', nodes', nofork', p' - 1) /\ nofork' \subseteq 1 .. p' - 1
    BY <1>2, <2>1
  <2>6. StageInv'
    BY <2>1, <2>4, <2>5 DEF StageInv
  <2> QED
    BY <2>1, <2>3, <2>6 DEF OutInv
<1> QED
  BY <1>3, <1>4

LEMMA OutForkFails ==
  ASSUME OutInv, CleanInv, ForkFails
  PROVE  OutInv'
<1>1. /\ pc = "line" /\ IsExternal /\ nofork' = nofork \cup {p} /\ NextStage
      /\ UNCHANGED <<nodes, before, entered, files, cwd, term, pipes, pending>>
  BY DEF ForkFails, lineVars, recordVars, outVars
<1>2. TextInv /\ pending = << >> /\ InLine /\ StageInv
  BY <1>1 DEF OutInv, InLine
<1>3. PICK s \in States : /\ Reaches(s, LineStart, nodes, nofork, p - 1)
                          /\ nofork \subseteq 1 .. p - 1 /\ Matches(s, p - 1)
  BY <1>1, <1>2 DEF StageInv
<1>4. p \in 1 .. Len(nodes) /\ Len(nodes) \in Nat /\ p \in Nat /\ p # 0 /\ p - 1 \in Nat /\ p > p - 1
  BY <1>2 DEF TextInv
<1>5. Reaches(s, LineStart, nodes, nofork', p - 1)
  BY <1>1, <1>3, <1>4, RunSkipsLater
<1> DEFINE t == AfterStage(s, p, nodes, nofork')
<1>6. Reaches(t, LineStart, nodes, nofork', p)
  BY <1>4, <1>5, RunOneMore
<1>7. t = [s EXCEPT !.input = << >>]
  BY <1>1 DEF AfterStage
<1>8. t \in States /\ t.cwd = s.cwd /\ t.files = s.files /\ t.term = s.term /\ t.input = << >>
  BY <1>7, NothingWritten
<1>9. Matches(t, p)
  <2> HIDE DEF t
  <2>1. p \in 1 .. Len(nodes) - 1 => pipes[p] = << >>
    <3> SUFFICES ASSUME p \in 1 .. Len(nodes) - 1 PROVE pipes[p] = << >>
      OBVIOUS
    <3>1. p \in DOMAIN nodes /\ p > p - 1
      BY <1>2, <1>4 DEF TextInv
    <3> QED
      BY <3>1, <1>3 DEF Matches
  <2>2. \A j \in DOMAIN nodes : j > p => pipes[j] = << >>
    <3> SUFFICES ASSUME NEW j \in DOMAIN nodes, j > p PROVE pipes[j] = << >>
      OBVIOUS
    <3>1. j \in Nat
      BY <1>2 DEF TextInv
    <3>2. j > p - 1
      BY <3>1, <1>4
    <3> QED
      BY <3>2, <1>3 DEF Matches
  <2> QED
    BY <1>3, <1>8, <2>1, <2>2 DEF Matches
<1>10. nofork' \subseteq 1 .. p
  BY <1>1, <1>3, <1>4
<1> HIDE DEF t
<1> QED
  BY <1>1, <1>2, <1>6, <1>8, <1>9, <1>10, StageOver

LEMMA OutWaitpid ==
  ASSUME OutInv, CleanInv, waitpid
  PROVE  OutInv'
<1>1. /\ pc = "wait" /\ child.pc = "ended" /\ NextStage /\ nofork' = nofork
      /\ UNCHANGED <<nodes, before, entered, files, cwd, term, pipes, pending>>
  BY DEF waitpid, lineVars, recordVars, outVars
<1>2. TextInv /\ pending = << >> /\ InLine /\ StageInv
  BY <1>1 DEF OutInv, InLine
<1>3. PICK s \in States : /\ Reaches(s, LineStart, nodes, nofork, p - 1)
                          /\ nofork \subseteq 1 .. p - 1 /\ Waiting(s)
  BY <1>1, <1>2 DEF StageInv
<1>4. IsExternal /\ Matches(RunStage(s, node, IsLast), p)
  BY <1>1, <1>3 DEF Waiting
<1>5. p \in 1 .. Len(nodes) /\ Len(nodes) \in Nat /\ p \in Nat /\ p # 0 /\ nodes \in Seq(Command(Names))
  BY <1>2 DEF TextInv
<1> DEFINE t == AfterStage(s, p, nodes, nofork)
<1>6. Reaches(t, LineStart, nodes, nofork, p) /\ t \in States
  BY <1>3, <1>5, RunOneMore, AfterStageIn
<1>7. t = RunStage(s, node, IsLast)
  <2>1. p \notin nofork
    BY <1>3, <1>5
  <2> QED
    BY <2>1 DEF AfterStage, node, IsLast
<1>8. nofork \subseteq 1 .. p
  BY <1>3, <1>5
<1>9. Matches(t, p)
  BY <1>4, <1>7
<1> HIDE DEF t
<1> QED
  BY <1>1, <1>2, <1>4, <1>6, <1>8, <1>9, StageOver

(* A step of the child: what it has to show. *)
LEMMA ChildStep ==
  ASSUME OutInv, pc = "wait", ChildOnly, NEW s \in States,
         Reaches(s, LineStart, nodes, nofork, p - 1), nofork \subseteq 1 .. p - 1, Waiting(s)',
         files' \in FileSystems, term' \in Text, pipes' \in [DOMAIN nodes -> Text]
  PROVE  OutInv'
<1>1. UNCHANGED <<nodes, before, nofork, entered, cwd, pending, p, pc, std>>
  BY DEF ChildOnly, recordVars, lineVars, shellVars
<1>2. TextInv'
  BY <1>1 DEF OutInv, TextInv, InLine
<1>3. LineStart' = LineStart
  BY <1>1 DEF LineStart
<1>4. Reaches(s, LineStart', nodes', nofork', p' - 1) /\ nofork' \subseteq 1 .. p' - 1
  BY <1>1, <1>3
<1>5. StageInv'
  BY <1>1, <1>4 DEF StageInv
<1> QED
  BY <1>1, <1>2, <1>5 DEF OutInv

(* What holds in every step of the child. *)
LEMMA WhileWaiting ==
  ASSUME OutInv, CleanInv, Child
  PROVE  /\ pc = "wait" /\ TextInv /\ OnTerminal /\ node \in Command(Names)
         /\ p \in 1 .. Len(nodes) /\ Len(nodes) \in Nat /\ DOMAIN nodes = 1 .. Len(nodes)
         /\ \E s \in States : /\ Reaches(s, LineStart, nodes, nofork, p - 1)
                              /\ nofork \subseteq 1 .. p - 1 /\ Waiting(s)
<1>1. pc = "wait"
  <2>1. child.pc # "none"
    BY DEF Child, ChildNoFile, ChildExec, CatRead, CatEnd, ChildWrite, ChildWritten
  <2>2. child # NoChild
    BY <2>1 DEF NoChild
  <2> QED
    BY <2>2 DEF CleanInv
<1>2. TextInv /\ OnTerminal /\ StageInv
  BY <1>1 DEF OutInv, CleanInv
<1>3. /\ p \in 1 .. Len(nodes) /\ nodes \in Seq(Command(Names))
      /\ Len(nodes) \in Nat /\ DOMAIN nodes = 1 .. Len(nodes)
  BY <1>1, <1>2 DEF TextInv, InLine
<1>4. node \in Command(Names)
  BY <1>3, ElementOfSeq DEF node
<1> QED
  BY <1>1, <1>2, <1>3, <1>4 DEF StageInv

(* What cat can read: of its file what comes after the items it has read,  *)
(* or what the pipe holds.                                                 *)
FileInput(fs) ==
  SubSeq(fs[<<cwd, node.in_file>>].data, child.pos + 1, Len(fs[<<cwd, node.in_file>>].data))

LEMMA InputIs ==
  OnTerminal /\ child.in = ChildIn =>
    Input = IF node.in_file # "" THEN FileInput(files)
            ELSE IF p > 1 THEN pipes[p - 1] ELSE << >>
<1> SUFFICES ASSUME OnTerminal, child.in = ChildIn
             PROVE  Input = IF node.in_file # "" THEN FileInput(files)
                            ELSE IF p > 1 THEN pipes[p - 1] ELSE << >>
  OBVIOUS
<1>1. CASE node.in_file # ""
  <2>1. child.in = FileAt(node.in_file) /\ child.in[1] # "pipe"
    BY <1>1, Targets DEF ChildIn
  <2>2. child.in # TTY /\ child.in[1] = "file" /\ Tail(child.in) = <<cwd, node.in_file>>
    BY <2>1, Targets
  <2>3. Input = SubSeq(files[Tail(child.in)].data, child.pos + 1,
                       Len(files[Tail(child.in)].data))
    BY <2>1, <2>2 DEF Input
  <2> QED
    BY <1>1, <2>2, <2>3 DEF FileInput
<1>2. CASE node.in_file = "" /\ p > 1
  <2>1. child.in = Pipe(p - 1)
    BY <1>2 DEF ChildIn
  <2>2. child.in # TTY /\ child.in[1] = "pipe" /\ child.in[2] = p - 1 /\ child.in[1] # "file"
    BY <2>1, Targets
  <2>3. Input = pipes[p - 1]
    BY <2>2 DEF Input
  <2> QED
    BY <1>2, <2>3
<1>3. CASE node.in_file = "" /\ ~(p > 1)
  <2>1. child.in = TTY
    BY <1>3 DEF ChildIn, OnTerminal
  <2>2. TTY[1] = "tty"
    BY DEF TTY
  <2>3. child.in[1] # "pipe" /\ child.in[1] # "file"
    BY <2>1, <2>2
  <2> QED
    BY <1>3, <2>1, <2>3 DEF Input
<1> QED
  BY <1>1, <1>2, <1>3

LEMMA InputIsNext ==
  (OnTerminal /\ child.in = ChildIn =>
    Input = IF node.in_file # "" THEN FileInput(files)
            ELSE IF p > 1 THEN pipes[p - 1] ELSE << >>)'
BY InputIs, PTL

LEMMA FileInputIn ==
  ASSUME NEW fs \in FileSystems, node.in_file \in FileNames, cwd \in Dirs, child.pos \in Nat
  PROVE  FileInput(fs) \in Text
<1> DEFINE data == fs[<<cwd, node.in_file>>].data
<1>1. data \in Text
  BY FileDataIn
<1> HIDE DEF data
<1>2. Len(data) \in Int /\ child.pos + 1 \in Int /\ \A i \in child.pos + 1 .. Len(data) : data[i] \in Item
  BY <1>1, ElementOfSeq DEF Text
<1>3. SubSeq(data, child.pos + 1, Len(data)) \in Seq(Item)
  BY <1>2, SubSeqProperties
<1> QED
  BY <1>3 DEF FileInput, data, Text

LEMMA InputIn ==
  ASSUME TextInv, OnTerminal, child.in = ChildIn, child.pos \in Nat, node \in Command(Names),
         p \in 1 .. Len(nodes), Len(nodes) \in Nat, DOMAIN nodes = 1 .. Len(nodes)
  PROVE  Input \in Text
<1>1. node.in_file # "" => FileInput(files) \in Text
  BY FileInputIn DEF TextInv, Command, Names
<1>2. p > 1 => pipes[p - 1] \in Text
  BY DEF TextInv
<1> QED
  BY <1>1, <1>2, EmptyText, InputIs

(* redirection() or execvp fails: the stage writes nothing. *)
LEMMA OutNoFile ==
  ASSUME OutInv, CleanInv, ChildNoFile
  PROVE  OutInv'
<1>1. /\ pc = "wait" /\ TextInv /\ p \in 1 .. Len(nodes) /\ Len(nodes) \in Nat
      /\ DOMAIN nodes = 1 .. Len(nodes)
  BY WhileWaiting DEF Child
<1>2. PICK s \in States : /\ Reaches(s, LineStart, nodes, nofork, p - 1)
                          /\ nofork \subseteq 1 .. p - 1 /\ Waiting(s)
  BY WhileWaiting DEF Child
<1>3. /\ child.pc = "redirect" /\ ~(CanRead(files, cwd, node) /\ CanWrite(node))
      /\ child' = [child EXCEPT !.pc = "ended"]
      /\ UNCHANGED <<files, pipes, term, nodes, p, cwd, std>> /\ ChildOnly
  BY DEF ChildNoFile, outVars, ChildOnly, lineVars, shellVars
<1>4. Matches(s, p - 1) /\ IsExternal
  BY <1>2, <1>3 DEF Waiting
<1>5. node' = node /\ IsLast' = IsLast /\ IsExternal'
  BY <1>3, <1>4 DEF node, IsLast, IsExternal
<1> DEFINE t == [s EXCEPT !.input = << >>]
<1>6. RunStage(s, node, IsLast) = t
  BY <1>3, <1>4 DEF RunStage, Matches
<1>7. t \in States /\ t.cwd = s.cwd /\ t.files = s.files /\ t.term = s.term /\ t.input = << >>
  BY NothingWritten
<1>8. /\ p \in 1 .. Len(nodes) - 1 => pipes[p] = << >>
      /\ \A j \in DOMAIN nodes : j > p => pipes[j] = << >>
  BY <1>1, <1>4 DEF Matches
<1>9. Matches(t, p)'
  <2> HIDE DEF t
  <2> QED
    BY <1>1, <1>3, <1>4, <1>7, <1>8 DEF Matches
<1>10. child' = [pc |-> "ended", in |-> child.in, out |-> child.out, fds |-> child.fds,
                 pos |-> child.pos, left |-> child.left]
       /\ child.pos \in Nat /\ child.left \in Text
  BY <1>2, <1>3 DEF Waiting
<1>11. Waiting(s)'
  <2>1. Matches(RunStage(s, node, IsLast), p)'
    BY <1>5, <1>6, <1>9
  <2> HIDE DEF t
  <2> QED
    BY <1>5, <1>10, <2>1 DEF Waiting
<1> QED
  BY <1>1, <1>2, <1>3, <1>11, ChildStep DEF TextInv

(* execvp: the stage starts with nothing written. *)
LEMMA NotLast ==
  ASSUME p \in 1 .. Len(nodes), Len(nodes) \in Nat
  PROVE  p \in 1 .. Len(nodes) - 1 => ~IsLast
BY DEF IsLast

LEMMA PipeBefore ==
  ASSUME p \in 1 .. Len(nodes), Len(nodes) \in Nat, p > 1
  PROVE  p - 1 \in 1 .. Len(nodes)
OBVIOUS

LEMMA OutExec ==
  ASSUME OutInv, CleanInv, ChildExec
  PROVE  OutInv'
<1>1. /\ pc = "wait" /\ TextInv /\ OnTerminal /\ p \in 1 .. Len(nodes) /\ Len(nodes) \in Nat
      /\ DOMAIN nodes = 1 .. Len(nodes) /\ node \in Command(Names)
  BY WhileWaiting DEF Child
<1>2. PICK s \in States : /\ Reaches(s, LineStart, nodes, nofork, p - 1)
                          /\ nofork \subseteq 1 .. p - 1 /\ Waiting(s)
  BY WhileWaiting DEF Child
<1> DEFINE program == IsProgram(node.args)
           cat == node.args[1] = "cat"
           left == IF program /\ ~cat THEN Emits[node.args[1]] ELSE << >>
<1>3. /\ child.pc = "redirect" /\ CanRead(files, cwd, node) /\ CanWrite(node)
      /\ files' = Opened(files, cwd, node)
      /\ child' = [child EXCEPT
           !.pc = IF ~program THEN "ended" ELSE IF cat THEN "read" ELSE "write",
           !.in = ChildIn, !.out = ChildOut, !.left = left]
      /\ UNCHANGED <<pipes, term, nodes, p, cwd, std>> /\ ChildOnly
  BY DEF ChildExec, ChildOnly, lineVars, shellVars
<1>4. Matches(s, p - 1) /\ IsExternal /\ child.pos = 0
  BY <1>2, <1>3 DEF Waiting
<1>5. node' = node /\ IsLast' = IsLast /\ IsExternal' /\ IsLast \in BOOLEAN
  BY <1>3, <1>4 DEF node, IsLast, IsExternal
<1>6. /\ s.files = files /\ s.cwd = cwd /\ s.term = term
      /\ files \in FileSystems /\ cwd \in Dirs /\ term \in Text
  BY <1>1, <1>4 DEF Matches, TextInv
<1>7. files' \in FileSystems
  BY <1>1, <1>3, <1>6, OpenedIn
<1>17. PICK t : t = Written(s, node, IsLast, << >>)
  OBVIOUS
<1>8. /\ t.cwd = s.cwd
      /\ t.files = IF node.out_file # ""
                   THEN [s.files EXCEPT ![<<s.cwd, node.out_file>>] = File(<< >>)] ELSE s.files
      /\ t.term = IF node.out_file = "" /\ IsLast THEN s.term \o << >> ELSE s.term
      /\ node.out_file # "" => t.input = << >>
      /\ node.out_file = "" /\ ~IsLast => t.input = << >>
  BY <1>1, <1>17, EmptyText, WrittenHere
<1>9. /\ p \in 1 .. Len(nodes) - 1 => pipes[p] = << >>
      /\ \A j \in DOMAIN nodes : j > p => pipes[j] = << >>
  BY <1>1, <1>4 DEF Matches
<1>18. p \in 1 .. Len(nodes) - 1 => ~IsLast
  BY <1>1, NotLast
<1>10. Matches(t, p)'
  <2>1. t.files = files'
    BY <1>3, <1>6, <1>8 DEF Opened
  <2>2. t.term = term'
    BY <1>3, <1>6, <1>8, ConcatEmptySeq DEF Text
  <2>3. p \in 1 .. Len(nodes) - 1 => t.input = << >>
    BY <1>8, <1>18
  <2>4. p # 0
    BY <1>1
  <2>5. t.cwd = cwd'
    BY <1>3, <1>6, <1>8
  <2> QED
    BY <1>3, <1>9, <2>1, <2>2, <2>3, <2>4, <2>5 DEF Matches
<1>11. CanRead(s.files, s.cwd, node) /\ CanWrite(node)
  BY <1>3, <1>6
<1>12. /\ child' = [pc |-> IF ~program THEN "ended" ELSE IF cat THEN "read" ELSE "write",
                    in |-> ChildIn, out |-> ChildOut, fds |-> child.fds,
                    pos |-> 0, left |-> left]
  <2> HIDE DEF left, program, cat
  <2>1. child = [pc |-> child.pc, in |-> child.in, out |-> child.out, fds |-> child.fds,
                 pos |-> child.pos, left |-> child.left]
    BY <1>2 DEF Waiting
  <2> QED
    BY <1>3, <1>4, <2>1
<1>13. /\ child'.pc = IF ~program THEN "ended" ELSE IF cat THEN "read" ELSE "write"
       /\ child'.in = ChildIn /\ child'.out = ChildOut /\ child'.pos = 0 /\ child'.left = left
       /\ child' = [pc |-> child'.pc, in |-> child'.in, out |-> child'.out, fds |-> child'.fds,
                    pos |-> child'.pos, left |-> child'.left]
  <2> HIDE DEF left, program, cat
  <2> QED
    BY <1>12
<1>14. left \in Text
  <2>1. program /\ ~cat => StageText(s, node) = left
    BY DEF StageText, ProgramText
  <2> QED
    BY <1>1, <2>1, StageTextIn, EmptyText
<1>15. CASE ~program
  <2>1. RunStage(s, node, IsLast) = t
    <3>1. StageText(s, node) = << >>
      BY <1>15 DEF StageText
    <3> QED
      BY <3>1, <1>11, <1>17 DEF RunStage
  <2>2. Matches(RunStage(s, node, IsLast), p)'
    BY <1>5, <1>10, <2>1
  <2>3. child'.pc = "ended"
    BY <1>13, <1>15
  <2>4. Waiting(s)'
    <3> HIDE DEF left, program, cat
    <3> QED
      BY <1>5, <1>13, <1>14, <2>2, <2>3 DEF Waiting
  <2> QED
    BY <1>1, <1>2, <1>3, <1>7, <2>4, ChildStep DEF TextInv
<1>16. CASE program
  <2>1. ChildIn' = ChildIn /\ ChildOut' = ChildOut /\ OnTerminal'
    BY <1>1, <1>3, <1>5 DEF ChildIn, ChildOut, FileAt, OnTerminal
  <2>2. child'.in = ChildIn' /\ child'.out = ChildOut'
    BY <1>13, <2>1
  <2>3. (<< >> \o left) \o LeftInput' = StageText(s, node)
    <3>1. << >> \o left = left /\ left \o << >> = left
      BY <1>14, ConcatEmptySeq DEF Text
    <3>2. CASE ~cat
      <4>1. LeftInput' = << >>
        BY <1>5, <3>2 DEF LeftInput
      <4>2. StageText(s, node) = left
        BY <1>16, <3>2 DEF StageText, ProgramText
      <4> QED
        BY <3>1, <4>1, <4>2
    <3>3. CASE cat
      <4>1. LeftInput' = Input' /\ left = << >>
        BY <1>5, <3>3 DEF LeftInput
      <4>2. Input' = IF node.in_file # "" THEN FileInput(files)'
                     ELSE IF p > 1 THEN pipes[p - 1] ELSE << >>
        BY <1>3, <1>5, <2>1, <2>2, InputIsNext
      <4>4. Input' = StageText(s, node)
        <5>1. CASE node.in_file # ""
          <6> DEFINE data == Opened(s.files, s.cwd, node)[<<s.cwd, node.in_file>>].data
          <6>1. StageText(s, node) = data
            BY <1>16, <3>3, <5>1 DEF StageText, ProgramText
          <6>2. data = files'[<<cwd', node'.in_file>>].data
            BY <1>3, <1>5, <1>6
          <6>3. data \in Text
            BY <1>1, <6>1, StageTextIn
          <6> HIDE DEF data
          <6>4. FileInput(files)' = SubSeq(data, 1, Len(data))
            BY <1>13, <6>2 DEF FileInput
          <6> QED
            BY <4>2, <5>1, <6>1, <6>3, <6>4, SubSeqFull DEF Text
        <5>2. CASE node.in_file = ""
          <6>1. StageText(s, node) = s.input
            BY <1>16, <3>3, <5>2 DEF StageText, ProgramText
          <6>2. CASE p > 1
            <7>1. p - 1 \in 1 .. Len(nodes) - 1
              BY <1>1, <6>2
            <7> QED
              BY <1>4, <4>2, <5>2, <6>1, <6>2, <7>1 DEF Matches
          <6>3. CASE ~(p > 1)
            <7>1. p - 1 = 0
              BY <1>1, <6>3
            <7> QED
              BY <1>4, <4>2, <5>2, <6>1, <6>3, <7>1 DEF Matches
          <6> QED
            BY <6>2, <6>3
        <5> QED
          BY <5>1, <5>2
      <4>5. << >> \o Input' = Input'
        BY <1>1, <4>4, StageTextIn, ConcatEmptySeq DEF Text
      <4> QED
        BY <3>1, <4>1, <4>4, <4>5
    <3> QED
      BY <3>2, <3>3
  <2>4. (<< >> \o child'.left) \o LeftInput' = StageText(s, node')
    BY <1>5, <1>13, <2>3
  <2>5. Matches(Written(s, node, IsLast, << >>), p)'
    BY <1>5, <1>10, <1>17
  <2>6. child'.pc = IF cat THEN "read" ELSE "write"
    BY <1>13, <1>16
  <2>7. child'.pc = "read" => node'.args[1] = "cat" /\ child'.left = << >>
    BY <1>5, <1>13, <2>6
  <2>8. CanRead(s.files, s.cwd, node') /\ CanWrite(node') /\ IsProgram(node'.args)
    BY <1>5, <1>11, <1>16
  <2>9. Running(s)'
    <3> HIDE DEF left, program, cat
    <3> QED
      BY <2>2, <2>4, <2>5, <2>7, <2>8, EmptyText DEF Running
  <2>10. Waiting(s)'
    <3> HIDE DEF left
    <3> QED
      BY <1>5, <1>13, <1>14, <2>6, <2>9 DEF Waiting
  <2> QED
    BY <1>1, <1>2, <1>3, <1>7, <2>10, ChildStep DEF TextInv
<1> QED
  BY <1>15, <1>16

(* The text of a stage is written: its child ends. *)
LEMMA StageEnds ==
  ASSUME OutInv, pc = "wait", ChildOnly, UNCHANGED outVars, NEW s \in States,
         Reaches(s, LineStart, nodes, nofork, p - 1), nofork \subseteq 1 .. p - 1, Waiting(s),
         Running(s), child.left = << >>, LeftInput = << >>,
         child' = [child EXCEPT !.pc = "ended"]
  PROVE  OutInv'
<1>1. TextInv /\ UNCHANGED <<files, pipes, term, nodes, p, cwd>>
  BY DEF OutInv, outVars, ChildOnly, lineVars, shellVars
<1>2. PICK text \in Text :
        /\ Matches(Written(s, node, IsLast, text), p)
        /\ (text \o child.left) \o LeftInput = StageText(s, node)
  BY DEF Running
<1>3. StageText(s, node) = text
  BY <1>2, ConcatEmptySeq DEF Text
<1>4. RunStage(s, node, IsLast) = Written(s, node, IsLast, text)
  BY <1>3 DEF Running, RunStage
<1>5. Matches(RunStage(s, node, IsLast), p)
  BY <1>2, <1>4
<1>6. PICK t : t = RunStage(s, node, IsLast)
  OBVIOUS
<1>7. Matches(t, p)'
  BY <1>1, <1>5, <1>6 DEF Matches
<1>8. node' = node /\ IsLast' = IsLast /\ IsExternal'
  BY <1>1 DEF node, IsLast, IsExternal, Waiting
<1>9. Matches(RunStage(s, node, IsLast), p)'
  BY <1>6, <1>7, <1>8
<1>10. child' = [pc |-> "ended", in |-> child.in, out |-> child.out, fds |-> child.fds,
                 pos |-> child.pos, left |-> child.left]
       /\ child.pos \in Nat /\ child.left \in Text
  BY DEF Waiting
<1>11. Waiting(s)'
  BY <1>8, <1>9, <1>10 DEF Waiting
<1> QED
  BY <1>1, <1>11, ChildStep DEF TextInv

LEMMA OutCatEnd ==
  ASSUME OutInv, CleanInv, CatEnd
  PROVE  OutInv'
<1>1. PICK s \in States : /\ Reaches(s, LineStart, nodes, nofork, p - 1)
                          /\ nofork \subseteq 1 .. p - 1 /\ Waiting(s)
  BY WhileWaiting DEF Child
<1>2. /\ pc = "wait" /\ child.pc = "read" /\ Input = << >> /\ ChildOnly /\ UNCHANGED outVars
      /\ child' = [child EXCEPT !.pc = "ended"]
  BY WhileWaiting DEF Child, CatEnd
<1>3. Running(s)
  BY <1>1, <1>2 DEF Waiting
<1>4. child.left = << >> /\ LeftInput = << >>
  BY <1>2, <1>3 DEF Running, LeftInput
<1> QED
  BY <1>1, <1>2, <1>3, <1>4, StageEnds

(* A write is done: cat reads on, other programs end. *)
LEMMA OutWritten ==
  ASSUME OutInv, CleanInv, ChildWritten
  PROVE  OutInv'
<1>1. PICK s \in States : /\ Reaches(s, LineStart, nodes, nofork, p - 1)
                          /\ nofork \subseteq 1 .. p - 1 /\ Waiting(s)
  BY WhileWaiting DEF Child
<1>2. /\ pc = "wait" /\ TextInv /\ child.pc = "write" /\ child.left = << >>
      /\ ChildOnly /\ UNCHANGED outVars
      /\ child' = [child EXCEPT !.pc = IF node.args[1] = "cat" THEN "read" ELSE "ended"]
  BY WhileWaiting DEF Child, ChildWritten
<1>3. Running(s)
  BY <1>1, <1>2 DEF Waiting
<1>4. CASE node.args[1] # "cat"
  <2>1. LeftInput = << >>
    BY <1>4 DEF LeftInput
  <2>2. child' = [child EXCEPT !.pc = "ended"]
    BY <1>2, <1>4
  <2> QED
    BY <1>1, <1>2, <1>3, <2>1, <2>2, StageEnds
<1>5. CASE node.args[1] = "cat"
  <2>1. child' = [pc |-> "read", in |-> child.in, out |-> child.out, fds |-> child.fds,
                  pos |-> child.pos, left |-> child.left]
        /\ child.pos \in Nat /\ child.left \in Text
    BY <1>1, <1>2, <1>5 DEF Waiting
  <2>2. UNCHANGED <<files, pipes, term, nodes, p, cwd, std>>
    BY <1>2 DEF outVars, ChildOnly, lineVars, shellVars
  <2>3. /\ node' = node /\ IsLast' = IsLast /\ IsExternal'
        /\ ChildIn' = ChildIn /\ ChildOut' = ChildOut
    BY <1>1, <2>2 DEF node, IsLast, IsExternal, Waiting, ChildIn, ChildOut, FileAt
  <2>4. Input' = Input
    BY <2>1, <2>2 DEF Input
  <2>5. PICK text \in Text :
          /\ Matches(Written(s, node, IsLast, text), p)
          /\ (text \o child.left) \o LeftInput = StageText(s, node)
    BY <1>3 DEF Running
  <2>6. PICK t : t = Written(s, node, IsLast, text)
    OBVIOUS
  <2>7. Matches(t, p)'
    BY <2>2, <2>5, <2>6 DEF Matches
  <2>8. Matches(Written(s, node, IsLast, text), p)'
    BY <2>3, <2>6, <2>7
  <2>9. (text \o child'.left) \o LeftInput' = StageText(s, node')
    BY <2>1, <2>3, <2>4, <2>5 DEF LeftInput
  <2>10. Running(s)'
    BY <1>2, <1>3, <1>5, <2>1, <2>3, <2>8, <2>9 DEF Running
  <2>11. Waiting(s)'
    BY <2>1, <2>3, <2>10 DEF Waiting
  <2> QED
    BY <1>1, <1>2, <2>2, <2>11, ChildStep DEF TextInv
<1> QED
  BY <1>4, <1>5

(* cat takes the first item it can read. *)
LEMMA FirstAndRest ==
  ASSUME NEW text \in Text, text # << >>
  PROVE  /\ Head(text) \in Item /\ Tail(text) \in Text
         /\ <<Head(text)>> \in Text /\ <<Head(text)>> \o Tail(text) = text
<1>1. Head(text) \in Item /\ Tail(text) \in Text
  BY HeadTailProperties DEF Text
<1>2. <<Head(text)>> \in Text
  BY <1>1, OneIn DEF Text
<1>3. Len(text) \in Nat /\ 1 \in 1 .. Len(text) /\ Len(text) \in 1 .. Len(text)
  BY DEF Text
<1>4. SubSeq(text, 1, Len(text)) = <<text[1]>> \o SubSeq(text, 1 + 1, Len(text))
  BY <1>3, SubSeqRecursiveFirst DEF Text
<1>5. SubSeq(text, 1, Len(text)) = text /\ SubSeq(text, 2, Len(text)) = Tail(text)
  BY SubSeqFull, TailIsSubSeq DEF Text
<1>6. text[1] = Head(text)
  BY DEF Text
<1> QED
  BY <1>1, <1>2, <1>4, <1>5, <1>6

LEMMA OutCatRead ==
  ASSUME OutInv, CleanInv, CatRead
  PROVE  OutInv'
<1>1. PICK s \in States : /\ Reaches(s, LineStart, nodes, nofork, p - 1)
                          /\ nofork \subseteq 1 .. p - 1 /\ Waiting(s)
  BY WhileWaiting DEF Child
<1>2. /\ pc = "wait" /\ TextInv /\ OnTerminal /\ node \in Command(Names)
      /\ p \in 1 .. Len(nodes) /\ Len(nodes) \in Nat /\ DOMAIN nodes = 1 .. Len(nodes)
  BY WhileWaiting DEF Child
<1>3. /\ child.pc = "read" /\ Input # << >> /\ ChildOnly
      /\ child' = [child EXCEPT !.pc = "write", !.left = <<Head(Input)>>, !.pos = @ + 1]
      /\ pipes' = IF child.in[1] = "pipe" THEN [pipes EXCEPT ![child.in[2]] = Tail(@)] ELSE pipes
      /\ UNCHANGED <<files, term, nodes, p, cwd, std>>
  BY DEF CatRead, ChildOnly, lineVars, shellVars
<1>4. /\ Running(s) /\ child.in = ChildIn /\ child.pos \in Nat
      /\ child.left = << >> /\ node.args[1] = "cat" /\ LeftInput = Input
  BY <1>1, <1>3 DEF Waiting, Running, LeftInput
<1>5. Input \in Text
  BY <1>2, <1>4, InputIn
<1>6. /\ <<Head(Input)>> \in Text /\ Tail(Input) \in Text
      /\ <<Head(Input)>> \o Tail(Input) = Input
  BY <1>3, <1>5, FirstAndRest
<1>7. child' = [pc |-> "write", in |-> child.in, out |-> child.out, fds |-> child.fds,
                pos |-> child.pos + 1, left |-> <<Head(Input)>>]
  BY <1>1, <1>3 DEF Waiting
<1>8. /\ node' = node /\ IsLast' = IsLast /\ IsExternal' /\ OnTerminal'
      /\ ChildIn' = ChildIn /\ ChildOut' = ChildOut
  BY <1>1, <1>2, <1>3 DEF node, IsLast, IsExternal, Waiting, ChildIn, ChildOut, FileAt, OnTerminal
<1>9. Input = IF node.in_file # "" THEN FileInput(files)
              ELSE IF p > 1 THEN pipes[p - 1] ELSE << >>
  BY <1>2, <1>4, InputIs
<1>10. Input' = IF node.in_file # "" THEN FileInput(files)'
                ELSE IF p > 1 THEN pipes'[p - 1] ELSE << >>
  BY <1>3, <1>4, <1>7, <1>8, InputIsNext
<1>11. /\ Input' = Tail(Input) /\ pipes' \in [DOMAIN nodes -> Text]
       /\ \A j \in DOMAIN nodes : j >= p => pipes'[j] = pipes[j]
  <2>1. CASE node.in_file # ""
    <3>1. child.in = FileAt(node.in_file)
      BY <1>4, <2>1 DEF ChildIn
    <3>2. pipes' = pipes
      BY <1>3, <3>1, Targets
    <3> DEFINE data == files[<<cwd, node.in_file>>].data
    <3>3. data \in Text
      BY <1>2, <2>1, FileDataIn DEF TextInv, Command, Names
    <3>4. FileInput(files)' = SubSeq(data, child.pos + 1 + 1, Len(data))
      BY <1>3, <1>7, <1>8 DEF FileInput
    <3> HIDE DEF data
    <3>5. Input = SubSeq(data, child.pos + 1, Len(data))
      BY <1>9, <2>1 DEF FileInput, data
    <3>6. Len(data) \in Nat /\ child.pos + 1 \in 1 .. Len(data) /\ Len(data) \in child.pos + 1 .. Len(data)
      <4>1. Len(data) \in Nat
        BY <3>3 DEF Text
      <4>2. ~ (Len(data) < child.pos + 1)
        BY <1>3, <1>4, <3>5, <4>1, SubSeqEmpty
      <4> QED
        BY <1>4, <4>1, <4>2
    <3>7. Tail(Input) = SubSeq(data, child.pos + 1 + 1, Len(data))
      BY <3>3, <3>5, <3>6, HeadTailOfSubSeq DEF Text
    <3> QED
      BY <1>2, <1>10, <2>1, <3>2, <3>4, <3>7 DEF TextInv
  <2>2. CASE node.in_file = "" /\ p > 1
    <3>1. child.in = Pipe(p - 1)
      BY <1>4, <2>2 DEF ChildIn
    <3>2. pipes' = [pipes EXCEPT ![p - 1] = Tail(pipes[p - 1])]
      BY <1>3, <3>1, Targets
    <3>3. Input = pipes[p - 1] /\ p - 1 \in DOMAIN nodes
      <4>1. Input = pipes[p - 1]
        BY <1>9, <2>2
      <4>2. p - 1 \in DOMAIN nodes
        BY <1>2, <2>2, PipeBefore, Zenon
      <4> QED
        BY <4>1, <4>2
    <3>4. pipes'[p - 1] = Tail(Input)
      BY <1>2, <3>2, <3>3 DEF TextInv
    <3>5. pipes' \in [DOMAIN nodes -> Text]
      BY <1>2, <1>6, <3>2, <3>3 DEF TextInv
    <3>6. \A j \in DOMAIN nodes : j >= p => pipes'[j] = pipes[j]
      <4> SUFFICES ASSUME NEW j \in DOMAIN nodes, j >= p PROVE pipes'[j] = pipes[j]
        OBVIOUS
      <4>1. j # p - 1
        BY <1>2
      <4> QED
        BY <1>2, <3>2, <4>1 DEF TextInv
    <3> QED
      BY <1>10, <2>2, <3>4, <3>5, <3>6
  <2>3. CASE node.in_file = "" /\ ~(p > 1)
    BY <1>3, <1>9, <2>3
  <2> QED
    BY <2>1, <2>2, <2>3
<1>12. PICK text \in Text :
         /\ Matches(Written(s, node, IsLast, text), p)
         /\ (text \o child.left) \o LeftInput = StageText(s, node)
  BY <1>4 DEF Running
<1>13. PICK t : t = Written(s, node, IsLast, text)
  OBVIOUS
<1>14. Matches(t, p)'
  <2>1. p # 0
    BY <1>2
  <2>2. p \in 1 .. Len(nodes) - 1 => pipes'[p] = t.input
    BY <1>2, <1>11, <1>12, <1>13 DEF Matches
  <2>3. \A j \in DOMAIN nodes : j > p => pipes'[j] = << >>
    BY <1>2, <1>11, <1>12 DEF Matches
  <2>4. files' = t.files /\ cwd' = t.cwd /\ term' = t.term
    BY <1>3, <1>12, <1>13 DEF Matches
  <2> QED
    BY <1>3, <2>1, <2>2, <2>3, <2>4 DEF Matches
<1>15. Matches(Written(s, node, IsLast, text), p)'
  BY <1>8, <1>13, <1>14
<1>16. (text \o child'.left) \o LeftInput' = StageText(s, node')
  <2>1. child'.left = <<Head(Input)>> /\ LeftInput' = Tail(Input)
    BY <1>4, <1>7, <1>8, <1>11 DEF LeftInput
  <2>2. (text \o <<Head(Input)>>) \o Tail(Input) = text \o (<<Head(Input)>> \o Tail(Input))
    BY <1>6, ConcatAssociative DEF Text
  <2>3. (text \o child.left) \o LeftInput = text \o Input
    BY <1>4, ConcatEmptySeq DEF Text
  <2> QED
    BY <1>6, <1>8, <1>12, <2>1, <2>2, <2>3
<1>17. Running(s)'
  <2>1. child'.pc = "write" /\ child'.in = child.in /\ child'.out = child.out
    BY <1>7
  <2> QED
    BY <1>4, <1>8, <1>15, <1>16, <2>1 DEF Running
<1>18. Waiting(s)'
  <2>1. /\ child'.pc = "write" /\ child'.pos \in Nat /\ child'.left \in Text
        /\ child' = [pc |-> child'.pc, in |-> child'.in, out |-> child'.out, fds |-> child'.fds,
                     pos |-> child'.pos, left |-> child'.left]
    BY <1>4, <1>6, <1>7
  <2> QED
    BY <1>8, <1>17, <2>1 DEF Waiting
<1> QED
  BY <1>1, <1>2, <1>3, <1>11, <1>18, ChildStep DEF TextInv

LEMMA TextAssociates ==
  ASSUME NEW a \in Text, NEW b \in Text, NEW c \in Text
  PROVE  (a \o b) \o c = a \o (b \o c)
BY ConcatAssociative DEF Text

(* A write takes the text of the stage further by one item. *)
LEMMA OneMoreWritten ==
  ASSUME TextInv, OnTerminal, node \in Command(Names), p \in 1 .. Len(nodes), Len(nodes) \in Nat,
         DOMAIN nodes = 1 .. Len(nodes), NEW s \in States, NEW text \in Text, NEW more \in Text,
         Matches(Written(s, node, IsLast, text), p), WriteTo(ChildOut, more),
         UNCHANGED <<nodes, p, cwd>>
  PROVE  /\ Matches(Written(s, node, IsLast, text \o more), p)'
         /\ files' \in FileSystems /\ term' \in Text /\ pipes' \in [DOMAIN nodes -> Text]
         /\ \A j \in DOMAIN nodes : j # p => pipes'[j] = pipes[j]
         /\ \A name \in FileNames : name # node.out_file =>
              files'[<<cwd, name>>] = files[<<cwd, name>>]
<1>1. text \o more \in Text
  BY ConcatProperties DEF Text
<1>2. PICK w : w = Written(s, node, IsLast, text)
  OBVIOUS
<1>3. PICK v : v = Written(s, node, IsLast, text \o more)
  OBVIOUS
<1>4. /\ w.cwd = s.cwd
      /\ w.files = IF node.out_file # ""
                   THEN [s.files EXCEPT ![<<s.cwd, node.out_file>>] = File(text)] ELSE s.files
      /\ w.term = IF node.out_file = "" /\ IsLast THEN s.term \o text ELSE s.term
      /\ node.out_file # "" => w.input = << >>
      /\ node.out_file = "" /\ ~IsLast => w.input = text
  BY <1>2, WrittenHere
<1>5. /\ v.cwd = s.cwd
      /\ v.files = IF node.out_file # ""
                   THEN [s.files EXCEPT ![<<s.cwd, node.out_file>>] = File(text \o more)] ELSE s.files
      /\ v.term = IF node.out_file = "" /\ IsLast THEN s.term \o (text \o more) ELSE s.term
      /\ node.out_file # "" => v.input = << >>
      /\ node.out_file = "" /\ ~IsLast => v.input = text \o more
  BY <1>1, <1>3, WrittenHere
<1>6. /\ files = w.files /\ cwd = w.cwd /\ term = w.term /\ p # 0
      /\ p \in 1 .. Len(nodes) - 1 => pipes[p] = w.input
      /\ \A j \in DOMAIN nodes : j > p => pipes[j] = << >>
  BY <1>2 DEF Matches
<1>7. /\ files \in FileSystems /\ cwd \in Dirs /\ term \in Text /\ pipes \in [DOMAIN nodes -> Text]
      /\ s.files \in FileSystems /\ s.term \in Text /\ s.cwd = cwd
  BY <1>4, <1>6 DEF TextInv, States
<1>8. p \in 1 .. Len(nodes) - 1 => ~IsLast
  BY NotLast
<1>9. /\ files' = v.files /\ term' = v.term
      /\ p \in 1 .. Len(nodes) - 1 => pipes'[p] = v.input
      /\ files' \in FileSystems /\ term' \in Text /\ pipes' \in [DOMAIN nodes -> Text]
      /\ \A j \in DOMAIN nodes : j # p => pipes'[j] = pipes[j]
      /\ \A name \in FileNames : name # node.out_file =>
              files'[<<cwd, name>>] = files[<<cwd, name>>]
  <2>1. CASE node.out_file # ""
    <3> DEFINE at == <<cwd, node.out_file>>
    <3>1. WriteTo(FileAt(node.out_file), more)
      BY <2>1 DEF ChildOut
    <3>2. files' = Grown(files, at, more) /\ term' = term /\ pipes' = pipes
      BY <3>1, WriteToFile DEF Grown
    <3>3. node.out_file \in FileNames
      BY <2>1 DEF Command, Names
    <3>4. at \in DOMAIN s.files
      BY <1>7, <3>3 DEF FileSystems
    <3>5. files = WithFile(s.files, at, text) /\ v.files = WithFile(s.files, at, text \o more)
      BY <1>4, <1>5, <1>6, <1>7, <2>1 DEF WithFile
    <3>6. files' = v.files
      <4> HIDE DEF at
      <4> QED
        BY <3>2, <3>4, <3>5, FileGrows
    <3>7. files' \in FileSystems
      <4>1. s.files \in FileSystems /\ cwd \in Dirs
        BY <1>7
      <4>2. WithFile(s.files, at, text \o more) \in FileSystems
        BY <1>1, <3>3, <4>1, FileIn, Zenon DEF WithFile
      <4> HIDE DEF at
      <4> QED
        BY <3>5, <3>6, <4>2
    <3>8. \A name \in FileNames : name # node.out_file =>
            files'[<<cwd, name>>] = files[<<cwd, name>>]
      <4> SUFFICES ASSUME NEW name \in FileNames, name # node.out_file
                   PROVE  files'[<<cwd, name>>] = files[<<cwd, name>>]
        OBVIOUS
      <4>1. <<cwd, name>> # at
        OBVIOUS
      <4> HIDE DEF at
      <4>2. <<cwd, name>> \in DOMAIN files
        BY <1>7 DEF FileSystems
      <4> QED
        BY <3>2, <4>1, <4>2 DEF Grown
    <3>9. p \in 1 .. Len(nodes) - 1 => pipes'[p] = v.input
      BY <1>4, <1>5, <1>6, <2>1, <3>2
    <3> QED
      BY <1>4, <1>5, <1>6, <1>7, <2>1, <3>2, <3>6, <3>7, <3>8, <3>9
  <2>2. CASE node.out_file = "" /\ IsLast
    <3>1. WriteTo(TTY, more)
      BY <2>2 DEF ChildOut, OnTerminal
    <3>2. term' = term \o more /\ files' = files /\ pipes' = pipes
      BY <3>1, WriteToTTY
    <3>3. (s.term \o text) \o more = s.term \o (text \o more)
      <4>1. s.term \in Text
        BY <1>7
      <4> QED
        BY <4>1, TextAssociates
    <3>4. term' = v.term
      BY <1>4, <1>5, <1>6, <2>2, <3>2, <3>3
    <3>5. term' \in Text
      BY <1>7, <3>2, ConcatProperties DEF Text
    <3>6. files' = v.files
      BY <1>4, <1>5, <1>6, <2>2, <3>2
    <3>7. ~(p \in 1 .. Len(nodes) - 1)
      BY <1>8, <2>2
    <3> QED
      BY <1>7, <3>2, <3>4, <3>5, <3>6, <3>7
  <2>3. CASE node.out_file = "" /\ ~IsLast
    <3>1. WriteTo(Pipe(p), more)
      BY <2>3 DEF ChildOut
    <3>2. pipes' = [pipes EXCEPT ![p] = @ \o more] /\ files' = files /\ term' = term
      BY <3>1, WriteToPipe
    <3>3. p \in DOMAIN nodes
      OBVIOUS
    <3>4. pipes[p] \in Text /\ pipes[p] \o more \in Text
      BY <1>7, <3>3, ConcatProperties DEF Text
    <3>5. pipes' \in [DOMAIN nodes -> Text] /\ pipes'[p] = pipes[p] \o more
      BY <1>7, <3>2, <3>3, <3>4
    <3>6. \A j \in DOMAIN nodes : j # p => pipes'[j] = pipes[j]
      BY <1>7, <3>2
    <3>7. p \in 1 .. Len(nodes) - 1 => pipes'[p] = v.input
      BY <1>4, <1>5, <1>6, <2>3, <3>5
    <3>8. files' = v.files /\ term' = v.term
      BY <1>4, <1>5, <1>6, <2>3, <3>2
    <3> QED
      BY <1>7, <3>2, <3>5, <3>6, <3>7, <3>8
  <2> QED
    BY <2>1, <2>2, <2>3
<1>10. \A j \in DOMAIN nodes : j > p => pipes'[j] = << >>
  BY <1>6, <1>9
<1>11. Matches(v, p)'
  BY <1>5, <1>6, <1>7, <1>9, <1>10, ZenonT(60) DEF Matches
<1>12. node' = node /\ IsLast' = IsLast
  BY DEF node, IsLast
<1>13. Matches(Written(s, node, IsLast, text \o more), p)'
  BY <1>3, <1>11, <1>12
<1> QED
  BY <1>9, <1>13

LEMMA OutChildWrite ==
  ASSUME OutInv, CleanInv, ChildWrite
  PROVE  OutInv'
<1>1. PICK s \in States : /\ Reaches(s, LineStart, nodes, nofork, p - 1)
                          /\ nofork \subseteq 1 .. p - 1 /\ Waiting(s)
  BY WhileWaiting DEF Child
<1>2. /\ pc = "wait" /\ TextInv /\ OnTerminal /\ node \in Command(Names)
      /\ p \in 1 .. Len(nodes) /\ Len(nodes) \in Nat /\ DOMAIN nodes = 1 .. Len(nodes)
  BY WhileWaiting DEF Child
<1>3. /\ child.pc = "write" /\ child.left # << >> /\ WriteTo(child.out, <<Head(child.left)>>)
      /\ child' = [child EXCEPT !.left = Tail(@)] /\ ChildOnly
      /\ UNCHANGED <<nodes, p, cwd, std>>
  BY DEF ChildWrite, ChildOnly, lineVars, shellVars
<1>4. Running(s) /\ child.in = ChildIn /\ child.out = ChildOut /\ child.pos \in Nat /\ child.left \in Text
  BY <1>1, <1>3 DEF Waiting, Running
<1>5. PICK text \in Text :
        /\ Matches(Written(s, node, IsLast, text), p)
        /\ (text \o child.left) \o LeftInput = StageText(s, node)
  BY <1>4 DEF Running
<1>6. PICK more \in Text : more = <<Head(child.left)>> /\ more \o Tail(child.left) = child.left
  BY <1>3, <1>4, FirstAndRest
<1>7. Tail(child.left) \in Text
  BY <1>3, <1>4, FirstAndRest
<1>8. WriteTo(ChildOut, more)
  BY <1>3, <1>4, <1>6
<1>9. /\ Matches(Written(s, node, IsLast, text \o more), p)'
      /\ files' \in FileSystems /\ term' \in Text /\ pipes' \in [DOMAIN nodes -> Text]
      /\ \A j \in DOMAIN nodes : j # p => pipes'[j] = pipes[j]
      /\ \A name \in FileNames : name # node.out_file =>
           files'[<<cwd, name>>] = files[<<cwd, name>>]
  BY <1>2, <1>3, <1>5, <1>8, OneMoreWritten
<1>10. child' = [pc |-> child.pc, in |-> child.in, out |-> child.out, fds |-> child.fds,
                 pos |-> child.pos, left |-> Tail(child.left)]
  BY <1>1, <1>3 DEF Waiting
<1>11. /\ node' = node /\ IsLast' = IsLast /\ IsExternal' /\ OnTerminal'
       /\ ChildIn' = ChildIn /\ ChildOut' = ChildOut
  BY <1>1, <1>2, <1>3 DEF node, IsLast, IsExternal, Waiting, ChildIn, ChildOut, FileAt, OnTerminal
<1>12. LeftInput \in Text
  BY <1>2, <1>4, InputIn, EmptyText DEF LeftInput
<1>13. LeftInput' = LeftInput
  <2>1. CASE node.args[1] # "cat"
    BY <1>11, <2>1 DEF LeftInput
  <2>2. CASE node.args[1] = "cat"
    <3>1. LeftInput = Input /\ LeftInput' = Input'
      BY <1>11, <2>2 DEF LeftInput
    <3>2. Input = IF node.in_file # "" THEN FileInput(files)
                  ELSE IF p > 1 THEN pipes[p - 1] ELSE << >>
      BY <1>2, <1>4, InputIs
    <3>3. Input' = IF node.in_file # "" THEN FileInput(files)'
                   ELSE IF p > 1 THEN pipes'[p - 1] ELSE << >>
      BY <1>3, <1>4, <1>10, <1>11, InputIsNext
    <3>4. CASE node.in_file # ""
      <4>1. node.in_file \in FileNames
        BY <1>2, <3>4 DEF Command, Names
      <4>2. ASSUME node.in_file = node.out_file PROVE FALSE
        <5> DEFINE at == <<s.cwd, node.in_file>>
        <5>1. StageText(s, node) = Opened(s.files, s.cwd, node)[at].data
          BY <1>4, <2>2, <3>4 DEF StageText, ProgramText, Running
        <5>2. at \in DOMAIN s.files
          BY <1>2, <4>1 DEF States, FileSystems
        <5>3. Opened(s.files, s.cwd, node) = [s.files EXCEPT ![at] = File(<< >>)]
          BY <3>4, <4>2 DEF Opened
        <5>4. Opened(s.files, s.cwd, node)[at] = File(<< >>)
          <6> HIDE DEF at
          <6> QED
            BY <5>2, <5>3
        <5>5. StageText(s, node) = << >>
          BY <5>1, <5>4 DEF File
        <5>6. text \o child.left \in Text
          BY <1>4, <1>5, ConcatProperties DEF Text
        <5>7. text \o child.left = << >>
          BY <1>5, <1>12, <5>5, <5>6, ConcatEqualIffEmpty DEF Text
        <5>8. child.left = << >>
          BY <1>4, <1>5, <5>7, ConcatEqualIffEmpty DEF Text
        <5> QED
          BY <1>3, <5>8
      <4>3. files'[<<cwd, node.in_file>>] = files[<<cwd, node.in_file>>]
        BY <1>9, <4>1, <4>2
      <4>4. FileInput(files)' = FileInput(files)
        BY <1>3, <1>10, <1>11, <4>3 DEF FileInput
      <4> QED
        BY <3>1, <3>2, <3>3, <3>4, <4>4
    <3>5. CASE node.in_file = "" /\ p > 1
      <4>1. p - 1 \in DOMAIN nodes
        BY <1>2, <3>5, PipeBefore, Zenon
      <4>2. p - 1 # p
        BY <1>2
      <4> QED
        BY <1>9, <3>1, <3>2, <3>3, <3>5, <4>1, <4>2
    <3>6. CASE node.in_file = "" /\ ~(p > 1)
      BY <3>1, <3>2, <3>3, <3>6
    <3> QED
      BY <3>4, <3>5, <3>6
  <2> QED
    BY <2>1, <2>2
<1>14. text \o more \in Text
  BY <1>5, <1>6, ConcatProperties DEF Text
<1>15. ((text \o more) \o child'.left) \o LeftInput' = StageText(s, node')
  <2>1. child'.left = Tail(child.left)
    BY <1>10
  <2>2. (text \o more) \o Tail(child.left) = text \o (more \o Tail(child.left))
    BY <1>7, TextAssociates
  <2> QED
    BY <1>5, <1>6, <1>11, <1>13, <2>1, <2>2
<1>16. Running(s)'
  <2>1. child'.pc = "write" /\ child'.in = child.in /\ child'.out = child.out
    BY <1>3, <1>10
  <2>2. \E t \in Text : /\ Matches(Written(s, node, IsLast, t), p)'
                        /\ (t \o child'.left) \o LeftInput' = StageText(s, node')
    BY <1>9, <1>14, <1>15
  <2> QED
    BY <1>4, <1>11, <2>1, <2>2 DEF Running
<1>17. Waiting(s)'
  <2>1. /\ child'.pc = "write" /\ child'.pos \in Nat /\ child'.left \in Text
        /\ child' = [pc |-> child'.pc, in |-> child'.in, out |-> child'.out, fds |-> child'.fds,
                     pos |-> child'.pos, left |-> child'.left]
    BY <1>3, <1>4, <1>7, <1>10
  <2> QED
    BY <1>11, <1>16, <2>1 DEF Waiting
<1> QED
  BY <1>1, <1>2, <1>3, <1>9, <1>17, ChildStep

LEMMA OutStutter ==
  ASSUME OutInv, UNCHANGED vars
  PROVE  OutInv'
<1>1. /\ UNCHANGED <<history, history_count, entered, nodes, before, pc, p, std, fds, files, pipes, term>>
      /\ UNCHANGED <<child, cwd, pending, nofork>>
  BY DEF vars, recordVars, lineVars, shellVars, outVars
<1>2. TextInv'
  BY <1>1 DEF OutInv, TextInv, InLine
<1>3. LeavesRest \/ AtReference => (LeavesRest \/ AtReference)'
  BY <1>1 DEF AtReference, Reference, LeavesRest, LastLines
<1>4. SingleBuiltin => SingleBuiltin'
  BY <1>1 DEF SingleBuiltin, node
<1>5. Redirected => Redirected'
  BY <1>1, <1>4 DEF Redirected, node, FileAt
<1>6. StageInv => StageInv'
  <2> SUFFICES ASSUME StageInv PROVE StageInv'
    OBVIOUS
  <2>1. PICK s \in States :
          /\ Reaches(s, LineStart, nodes, nofork, p - 1) /\ nofork \subseteq 1 .. p - 1
          /\ IF pc = "line" THEN Matches(s, p - 1) ELSE Waiting(s)
    BY DEF StageInv
  <2>2. Matches(s, p - 1) => Matches(s, p - 1)'
    BY <1>1 DEF Matches
  <2>3. Waiting(s) => Waiting(s)'
    <3>1. /\ node' = node /\ IsLast' = IsLast /\ IsExternal' = IsExternal /\ LeftInput' = LeftInput
          /\ ChildIn' = ChildIn /\ ChildOut' = ChildOut
      BY <1>1 DEF node, IsLast, IsExternal, LeftInput, Input, ChildIn, ChildOut, FileAt
    <3>2. \A w, k : Matches(w, k) => /\ files' = w.files /\ cwd' = w.cwd /\ term' = w.term
                                     /\ k = 0 => w.input = << >>
                                     /\ k \in 1 .. Len(nodes') - 1 => pipes'[k] = w.input
                                     /\ \A j \in DOMAIN nodes' : j > k => pipes'[j] = << >>
      BY <1>1 DEF Matches
    <3> QED
      BY <1>1, <2>2, <3>1, <3>2 DEF Waiting, Running, Matches
  <2>4. LineStart' = LineStart
    BY <1>1 DEF LineStart
  <2> QED
    BY <1>1, <2>1, <2>2, <2>3, <2>4 DEF StageInv
<1> QED
  BY <1>1, <1>2, <1>3, <1>4, <1>5, <1>6 DEF OutInv

-----------------------------------------------------------------------------
LEMMA OutNext == OutInv /\ CleanInv /\ RecordInv /\ [Next]_vars => OutInv'
<1> SUFFICES ASSUME OutInv, CleanInv, RecordInv, [Next]_vars PROVE OutInv'
  OBVIOUS
<1>1. ASSUME NEW line \in Lines, read_line(line) PROVE OutInv'
  BY <1>1, OutRead
<1>2. ASSUME NEW line \in Lines, IgnoreLine(line) PROVE OutInv'
  BY <1>2, OutIgnored
<1>3. CASE EmptyCommand
  BY <1>3 DEF EmptyCommand, Goto, OutInv, TextInv, InLine, lineVars, outVars
<1>4. CASE BuiltinNoFile
  BY <1>4 DEF BuiltinNoFile, Goto, OutInv, TextInv, InLine, lineVars, outVars
<1>5. CASE BuiltinRedirect
  BY <1>5, OutRedirect
<1>6. CASE execBuiltInCommand
  BY <1>6, OutBuiltin
<1>7. CASE Restore
  BY <1>7, OutRestore
<1>8. CASE spawn_proc
  BY <1>8, OutSpawn
<1>9. CASE ForkFails
  BY <1>9, OutForkFails
<1>10. CASE waitpid
  BY <1>10, OutWaitpid
<1>11. CASE Flush
  BY <1>11, OutFlush
<1>12. CASE Child
  BY <1>12, OutNoFile, OutExec, OutCatRead, OutCatEnd, OutChildWrite, OutWritten DEF Child
<1>13. CASE UNCHANGED vars
  BY <1>13, OutStutter
<1> QED
  BY <1>1, <1>2, <1>3, <1>4, <1>5, <1>6, <1>7, <1>8, <1>9, <1>10, <1>11, <1>12, <1>13
  DEF Next, shell

(***************************************************************************)
(* Every line, of any stages that succeed or fail, leaves the files, the   *)
(* directory and the terminal as its stages do one after the other,        *)
(* however the items go through the pipes; except a redirected builtin     *)
(* whose text does not end in a newline, whose rest goes to the terminal.  *)
(***************************************************************************)
THEOREM OutputsAreRight == Spec => []OutputsRight
<1>1. OutInv => OutputsRight
  <2> SUFFICES ASSUME OutInv, pc = "prompt", nodes # << >>, ~LeavesRest
               PROVE  files = Reference.files /\ cwd = Reference.cwd /\ term = Reference.term
    BY DEF OutputsRight
  <2>1. AtReference /\ pending = << >> /\ term \in Text
    BY DEF OutInv, TextInv
  <2> QED
    BY <2>1, ConcatEmptySeq DEF AtReference, Text
<1>2. Init => OutInv /\ CleanInv /\ RecordInv
  BY OutInit, CleanInit, RecordInit
<1>3. OutInv /\ CleanInv /\ RecordInv /\ [Next]_vars => (OutInv /\ CleanInv /\ RecordInv)'
  BY OutNext, CleanNext, RecordNext
<1> QED
  BY <1>1, <1>2, <1>3, PTL DEF Spec

=============================================================================
