--------------------------- MODULE ProcInfoProofs ---------------------------
(***************************************************************************)
(* The /proc file of lab3/3 for any processes, matrices and lengths: one   *)
(* inductive invariant, ProcInv, from which its safety properties follow.  *)
(* At the end, the matrix multiplication of lab3/2 and lab3/3: MatInv, and *)
(* that what is written is the product.                                    *)
(***************************************************************************)
EXTENDS ProcInfo, FiniteSetTheorems, SequenceTheorems, WellFoundedInduction, TLAPS

(* Where a thread computes, and where it greets; a thread of 3_2 is in its *)
(* critical section at the places of Critical.                             *)
Computing == {"lock", "load", "store", "unlock", "add", "print"}
Writing == {"copy_from_user", "scnprintf"}
ReadingOut == {"copy_to_user", "memset"}
Critical == {"fopen", "write", "read", "spin_unlock"} \cup Writing \cup ReadingOut
Greetings == {"spin_init", "spin_lock"} \cup Critical
ThreadPlaces == {"none", "exit"} \cup Computing \cup Greetings
MainReads == {"read", "for_each_thread", "sprintf", "terminate"} \cup ReadingOut
MainPlaces == {"none", "create", "join", "print", "done", "crashed"} \cup MainReads

Greeters == {"3_2", "3_2_one"}
Modules == {"3_1", "3_2"}

Cells == {NUL} \cup {Line(p, t) : p \in Processes, t \in Threads}
               \cup {Hello(p, t) : p \in Processes, t \in Threads}
               \cup {Info(p, t) : p \in Processes, t \in Threads}
Locals == [off : 0 .. BUFSIZE, len : 0 .. BUFSIZE, n : Nat, left : Nat]

Types ==
  /\ prog \in [Processes -> Programs]
  /\ pc \in [Processes -> [0 .. 2 -> ThreadPlaces \cup MainPlaces]]
  /\ turn \in [Processes -> [Threads -> Nat]]
  /\ locked \in [Processes -> BOOLEAN] /\ reinit \in [Processes -> BOOLEAN]
  /\ fptr \in [Processes -> BOOLEAN]
  /\ loc \in [Processes -> [0 .. 2 -> Locals]]
  /\ got \in [Processes -> [0 .. 2 -> Seq(Cells)]]
  /\ buf \in [0 .. (BUFSIZE - 1) -> Cells]

(***************************************************************************)
(* PlacesOK: which places go together in a process.  A program whose main  *)
(* has ended has no thread that could still run.                           *)
(***************************************************************************)
PlacesOK(p) ==
  /\ pc[p][0] \in MainPlaces /\ \A t \in Threads : pc[p][t] \in ThreadPlaces
  /\ pc[p][0] = "none" => \A t \in Threads : pc[p][t] = "none"
  /\ prog[p] = "none" => pc[p][0] = "none"
  /\ pc[p][0] \in MainReads => prog[p] = "3_1"
  /\ \A t \in Threads \ ThreadsOf(p) : pc[p][t] = "none"
  /\ pc[p][0] \in MainReads \cup {"join"} => \A t \in ThreadsOf(p) : pc[p][t] # "none"
  /\ pc[p][0] \in {"print", "done"} => \A t \in ThreadsOf(p) : pc[p][t] = "exit"
  /\ \A t \in Threads : pc[p][t] \in Greetings => prog[p] \in Greeters

(***************************************************************************)
(* FilesOK: while a program runs the entry stays the one it has opened, so *)
(* a handler in progress is one of the module that is loaded; Mywrite of   *)
(* 3_1 never comes back.  A writer ends its text inside the buffer.        *)
(***************************************************************************)
FilesOK(p) ==
  Running(p) =>
    /\ prog[p] \in UsesProc => entry # "stale" /\ fptr[p] = (entry \in Modules)
    /\ \A t \in 0 .. 2 :
         /\ pc[p][t] \in {"for_each_thread", "sprintf", "terminate"} =>
              entry = "3_1" /\ loc[p][t].off < loc[p][t].n
         /\ pc[p][t] \in {"sprintf", "terminate"} => loc[p][t].n \in Threads
         /\ pc[p][t] \in Writing \cup ReadingOut => entry = "3_2"
         /\ pc[p][t] \in Writing =>
              loc[p][t].n <= loc[p][t].left /\ loc[p][t].len + loc[p][t].n < BUFSIZE
    /\ \A t \in Threads :
         /\ pc[p][t] = "write" => entry # "none"
         /\ pc[p][t] \in {"read", "spin_unlock"} => entry # "3_1"

(* Whose entry there is: the one of the module that is loaded, unless      *)
(* there is none or 3_1's module left it behind.                           *)
EntryOwned ==
  /\ kernel = "3_2" => entry = "3_2"
  /\ entry \in Modules => kernel = entry
  /\ last = "3_2" => entry \in {"3_2", "none"}

Places == \A p \in Processes : PlacesOK(p) /\ FilesOK(p)
Base == Types /\ Places /\ EntryOwned /\ BufTerminated
(***************************************************************************)
(* GreetsOK: what a thread of 3_2 that has the file and the lock for       *)
(* itself finds in the buffer: nothing, then its greeting, then the info   *)
(* line behind it, which it reads back and clears.                         *)
(***************************************************************************)
HelloLen == Min({HELLO_LEN, BUFSIZE - 1})
InfoLen == Min({INFO_LEN, BUFSIZE - 1 - HelloLen})
HelloBuf(p, t) == [o \in 0 .. (BUFSIZE - 1) |-> IF o < HelloLen THEN Hello(p, t) ELSE NUL]
GreetedBuf(p, t) ==
  [o \in 0 .. (BUFSIZE - 1) |-> IF o < HelloLen THEN Hello(p, t)
                                ELSE IF o < HelloLen + InfoLen THEN Info(p, t) ELSE NUL]
Sole(p) == Alone(p) /\ prog[p] \in Greeters

Phase(p, t, at, l, read, b) ==
  /\ at \in {"none", "add", "exit"} \cup Greetings
  /\ at \in {"none", "add", "spin_init", "spin_lock"} => l.off = 0
  /\ at = "fopen" => b = EmptyBuf /\ l.off = 0
  /\ at = "write" => /\ l.off = 0
                     /\ \/ b = EmptyBuf /\ l.left = HELLO_LEN
                        \/ b = GreetedBuf(p, t) /\ HelloLen = BUFSIZE - 1
  /\ at \in Writing => l.off = 0 /\ l.len = 0 /\ l.n = HelloLen /\ l.left = HELLO_LEN
  /\ at = "copy_from_user" => b = EmptyBuf
  /\ at = "scnprintf" => b = HelloBuf(p, t)
  /\ at = "read" => \/ l.off = 0 /\ b = GreetedBuf(p, t)
                    \/ l.off > 0 /\ b = EmptyBuf /\ read = Greeted(p, t)
  /\ at \in ReadingOut => l.off = 0 /\ l.len = HelloLen + InfoLen /\ b = GreetedBuf(p, t)
  /\ at = "memset" => read = Greeted(p, t)
  /\ at = "spin_unlock" => b = EmptyBuf /\ read = Greeted(p, t)
  /\ at = "exit" => read = Greeted(p, t)

(* The lock is held by the one thread that is in its critical section.     *)
InCritical(p, t) == pc[p][t] \in Critical
Exclusion(p) ==
  /\ \A t, u \in Threads : InCritical(p, t) /\ InCritical(p, u) => t = u
  /\ locked[p] <=> \E t \in Threads : InCritical(p, t)
  /\ ~locked[p] => buf = EmptyBuf

ThreadPhase(p, t) == Phase(p, t, pc[p][t], loc[p][t], got[p][t], buf)
Untouched(p) == buf = EmptyBuf /\ ~locked[p] /\ \A t \in Threads : loc[p][t].off = 0
GreetedAll(p) == \A t \in Threads : pc[p][t] = "exit" => got[p][t] = Greeted(p, t)
GreetsOK(p) ==
  Sole(p) =>
    /\ pc[p][0] = "none" => Untouched(p)
    /\ Running(p) /\ fptr[p] /\ ~reinit[p] =>
         Exclusion(p) /\ \A t \in Threads : ThreadPhase(p, t)
    /\ fptr[p] /\ ~reinit[p] => GreetedAll(p)

(***************************************************************************)
(* ListsOK: a read gives main of 3_1 no more than two lines.  If it is     *)
(* alone, it has put into the buffer, or has read, a line for each thread  *)
(* that it has come to and that still runs.                                *)
(***************************************************************************)
Lists(p) == {<< >>, <<Line(p, 1)>>, <<Line(p, 2)>>, <<Line(p, 1), Line(p, 2)>>}
Has(lines, line) == \E m \in DOMAIN lines : lines[m] = line
LinesOf(p, n, lines, alive) ==
  /\ lines \in Lists(p)
  /\ \A t \in Threads : t < n /\ t \in alive => Has(lines, Line(p, t))
  /\ \A t \in Threads : t >= n => ~Has(lines, Line(p, t))
Text(b, n) == [o \in 1 .. n |-> b[o - 1]]
ListPhase(p, at, l, read) ==
  /\ Len(read) <= 2
  /\ at = "create" \/ (at = "read" /\ l.off = 0) => l.off = 0 /\ read = << >>
  /\ at \in {"for_each_thread", "sprintf", "terminate"} =>
       read = << >> /\ l.n \in 1 .. 3 /\ l.off \in Nat /\ l.off < l.n
OwnPhase(p, at, l, read, b, alive) ==
  /\ read \in Lists(p)
  /\ at \in {"for_each_thread", "sprintf"} => LinesOf(p, l.n, Text(b, l.off), alive)
  /\ at = "terminate" => LinesOf(p, l.n + 1, Text(b, l.off + 1), alive)
  /\ at \in {"join", "print"} \/ (at = "read" /\ l.off > 0) => LinesOf(p, 3, read, alive)

Listing(p) == prog[p] = "3_1" /\ entry = "3_1" /\ Running(p)
AliveOf(p) == {t \in Threads : Alive(p, t)}
MainPhase(p) ==
  /\ ListPhase(p, pc[p][0], loc[p][0], got[p][0])
  /\ Alone(p) => OwnPhase(p, pc[p][0], loc[p][0], got[p][0], buf, AliveOf(p))
ListsOK(p) ==
  /\ prog[p] = "3_1" /\ pc[p][0] = "none" => loc[p][0].off = 0 /\ got[p][0] = << >>
  /\ Listing(p) => MainPhase(p)

ProcInv == Base /\ \A p \in Processes : GreetsOK(p) /\ ListsOK(p)

-----------------------------------------------------------------------------
(* Minima: of two numbers, of a set, and the length of the string in buf.  *)
LEMMA MinOfTwo ==
  ASSUME NEW a \in Int, NEW b \in Int
  PROVE  Min({a, b}) = IF a <= b THEN a ELSE b
<1> DEFINE m == IF a <= b THEN a ELSE b
<1>1. m \in {a, b} /\ \A c \in {a, b} : m <= c
  OBVIOUS
<1>2. \A c \in {a, b} : (\A d \in {a, b} : c <= d) => c = m
  OBVIOUS
<1> QED
  BY <1>1, <1>2 DEF Min

(* The minimum of a set of numbers is one of them, and the least. *)
LEMMA FirstOf ==
  ASSUME NEW S \in SUBSET Nat, S # {}
  PROVE  Min(S) \in S /\ \A n \in S : Min(S) <= n
<1>1. PICK m \in S : \A n \in S : ~ (<<n, m>> \in OpToRel(<, Nat))
  BY NatLessThanWellFounded, WFMin
<1>2. \A n \in S : ~ (n < m)
  BY <1>1, Zenon DEF OpToRel
<1>3. \A n \in S : m <= n
  BY <1>2
<1> QED
  BY <1>3 DEF Min

(* strnlen is the offset of the first NUL, or BUFSIZE. *)
LEMMA StrnlenFacts ==
  ASSUME buf \in [0 .. (BUFSIZE - 1) -> Cells]
  PROVE  /\ strnlen \in 0 .. BUFSIZE
         /\ strnlen = BUFSIZE \/ buf[strnlen] = NUL
         /\ \A o \in 0 .. BUFSIZE : o = BUFSIZE \/ buf[o] = NUL => strnlen <= o
<1> DEFINE S == {o \in 0 .. BUFSIZE : o = BUFSIZE \/ buf[o] = NUL}
<1>1. BUFSIZE \in S /\ S \in SUBSET Nat
  BY BufferAssumption
<1>2. Min(S) \in S /\ \A o \in S : Min(S) <= o
  BY <1>1, FirstOf
<1>3. strnlen \in S /\ \A o \in S : strnlen <= o
  BY <1>2 DEF strnlen
<1> HIDE DEF S
<1> QED
  BY <1>3 DEF S

(* What a read returns is a text of cells. *)
LEMMA BytesFacts ==
  ASSUME buf \in [0 .. (BUFSIZE - 1) -> Cells], NEW n \in 0 .. BUFSIZE
  PROVE  Bytes(n) \in Seq(Cells) /\ Len(Bytes(n)) = n
<1>1. Bytes(n) \in [1 .. n -> Cells]
  BY BufferAssumption DEF Bytes
<1> QED
  BY <1>1, BufferAssumption, SeqDef DEF Bytes

(* The lengths, and the empty buffer, have their types. *)
LEMMA LengthsAreNats ==
  /\ BUFSIZE \in Nat /\ BUFSIZE > 2 /\ HELLO_LEN \in Nat \ {0} /\ INFO_LEN \in Nat \ {0}
  /\ EmptyBuf \in [0 .. (BUFSIZE - 1) -> Cells]
BY BufferAssumption DEF EmptyBuf, Cells

(* Where a thread goes at the end of a turn. *)
LEMMA AfterTurnsFacts ==
  ASSUME NEW p \in Processes, prog[p] \in Programs \ {"none"}, NEW t \in Threads, NEW n \in Nat
  PROVE  /\ AfterTurns(p, t, n) \in {"lock", "add", "print", "spin_init", "exit"}
         /\ AfterTurns(p, t, n) = "spin_init" => prog[p] \in Greeters
         /\ prog[p] \in Greeters => AfterTurns(p, t, n) \in {"add", "spin_init"}
<1>1. Length(RowsOf(p, t)) \in Int /\ Terms(p, t) \in Int
  BY MatricesAssumption DEF Length, RowsOf, Terms, InnerOf
<1>2. Turns(p, t) \in Int
  BY <1>1, MatricesAssumption DEF Turns
<1>3. n < Turns(p, t) \/ n >= Turns(p, t)
  BY <1>2
<1> QED
  BY <1>2, <1>3 DEF AfterTurns, Programs, OneThread, UsesProc, Greeters

-----------------------------------------------------------------------------
(* A process moves: one of its threads goes to another place, and nothing  *)
(* of the other processes changes.                                         *)
AnyPlace == ThreadPlaces \cup MainPlaces
Still(p) ==
  /\ prog' = prog /\ entry' = entry /\ kernel' = kernel /\ last' = last
  /\ \A q \in Processes \ {p} :
       /\ pc'[q] = pc[q] /\ loc'[q] = loc[q] /\ fptr'[q] = fptr[q] /\ got'[q] = got[q]
       /\ locked'[q] = locked[q] /\ reinit'[q] = reinit[q]

(* A process that another one leaves alone keeps its part of Places. *)
LEMMA OthersStayOK ==
  ASSUME NEW p \in Processes, Still(p), NEW q \in Processes \ {p}, PlacesOK(q), FilesOK(q)
  PROVE  PlacesOK(q)' /\ FilesOK(q)'
BY DEF Still, PlacesOK, FilesOK, Running, ThreadsOf

(* pc after Goto. *)
LEMMA GotoFacts ==
  ASSUME pc \in [Processes -> [0 .. 2 -> AnyPlace]],
         NEW p \in Processes, NEW t \in 0 .. 2, NEW to \in AnyPlace, Goto(p, t, to)
  PROVE  /\ pc' \in [Processes -> [0 .. 2 -> AnyPlace]]
         /\ pc'[p][t] = to /\ \A u \in 0 .. 2 : u # t => pc'[p][u] = pc[p][u]
         /\ \A q \in Processes \ {p} : pc'[q] = pc[q]
BY DEF Goto

(* Records of locals are replaced one at a time. *)
SetLoc(p, t, l) == loc' = [loc EXCEPT ![p] = [loc[p] EXCEPT ![t] = l]]
(* loc after SetLoc. *)
LEMMA SetLocFacts ==
  ASSUME loc \in [Processes -> [0 .. 2 -> Locals]],
         NEW p \in Processes, NEW t \in 0 .. 2, NEW l \in Locals, SetLoc(p, t, l)
  PROVE  /\ loc' \in [Processes -> [0 .. 2 -> Locals]]
         /\ loc'[p][t] = l /\ \A u \in 0 .. 2 : u # t => loc'[p][u] = loc[p][u]
         /\ \A q \in Processes \ {p} : loc'[q] = loc[q]
BY DEF SetLoc

(* A step that sets n and off sets the record once. *)
LEMMA SetTwoFields ==
  ASSUME loc \in [Processes -> [0 .. 2 -> Locals]],
         NEW p \in Processes, NEW t \in 0 .. 2, NEW n, NEW off,
         loc' = [loc EXCEPT ![p][t].n = n, ![p][t].off = off]
  PROVE  SetLoc(p, t, [[loc[p][t] EXCEPT !.n = n] EXCEPT !.off = off])
BY DEF SetLoc

SetGot(p, t, s) == got' = [got EXCEPT ![p] = [got[p] EXCEPT ![t] = s]]
(* got after SetGot. *)
LEMMA SetGotFacts ==
  ASSUME got \in [Processes -> [0 .. 2 -> Seq(Cells)]],
         NEW p \in Processes, NEW t \in 0 .. 2, NEW s \in Seq(Cells), SetGot(p, t, s)
  PROVE  /\ got' \in [Processes -> [0 .. 2 -> Seq(Cells)]]
         /\ got'[p][t] = s /\ \A u \in 0 .. 2 : u # t => got'[p][u] = got[p][u]
         /\ \A q \in Processes \ {p} : got'[q] = got[q]
BY DEF SetGot

(* A thread, or main of 3_1 in its handler, goes on inside its program.    *)
LEMMA ThreadMoves ==
  ASSUME pc \in [Processes -> [0 .. 2 -> AnyPlace]], NEW p \in Processes, prog' = prog,
         PlacesOK(p), NEW t \in Threads, pc[p][t] \notin {"none", "exit"},
         NEW to \in ThreadPlaces \ {"none"}, to \in Greetings => prog[p] \in Greeters,
         Goto(p, t, to)
  PROVE  PlacesOK(p)'
<1>1. /\ pc'[p][t] = to /\ \A u \in 0 .. 2 : u # t => pc'[p][u] = pc[p][u]
  BY GotoFacts DEF AnyPlace, Threads
<1> QED
  BY <1>1 DEF PlacesOK, Threads, ThreadsOf, ThreadPlaces, MainPlaces, MainReads

(* main of 3_1 goes from a place of its handler to another, or ends it. *)
LEMMA MainMoves ==
  ASSUME pc \in [Processes -> [0 .. 2 -> AnyPlace]], NEW p \in Processes, prog' = prog,
         PlacesOK(p), pc[p][0] \in MainReads, NEW to \in MainReads \cup {"join", "crashed"},
         Goto(p, 0, to)
  PROVE  PlacesOK(p)'
<1>1. /\ pc'[p][0] = to /\ \A u \in 0 .. 2 : u # 0 => pc'[p][u] = pc[p][u]
  BY GotoFacts DEF AnyPlace, MainPlaces
<1> QED
  BY <1>1 DEF PlacesOK, Threads, ThreadsOf, MainPlaces, MainReads, ReadingOut

-----------------------------------------------------------------------------
(* What a step of process p keeps; the rest of Base follows.               *)
Kept(p) == Types' /\ Still(p) /\ PlacesOK(p)' /\ FilesOK(p)' /\ BufTerminated'

(* The other processes keep their part, so Base holds again. *)
LEMMA KeptIsEnough ==
  ASSUME Base, NEW p \in Processes, Kept(p)
  PROVE  Base'
<1>1. \A q \in Processes \ {p} : PlacesOK(q)' /\ FilesOK(q)'
  BY OthersStayOK, Zenon DEF Kept, Base, Places
<1>2. Places'
  BY <1>1, Zenon DEF Kept, Places
<1>3. EntryOwned'
  BY DEF Base, Kept, Still, EntryOwned
<1> QED
  BY <1>2, <1>3, Zenon DEF Kept, Base

(* A thread that is under way belongs to a program that runs. *)
LEMMA ThreadRuns ==
  ASSUME Base, NEW p \in Processes, NEW t \in Threads, pc[p][t] \notin {"none", "exit"},
         pc[p][0] # "crashed"
  PROVE  Running(p) /\ prog[p] \in Programs \ {"none"}
BY DEF Base, Types, Places, PlacesOK, Running, Threads, ThreadsOf, ThreadPlaces, MainPlaces

(* A thread moves and changes no locals: what FilesOK asks of its place.   *)
LEMMA ThreadMovesKept ==
  ASSUME Base, NEW p \in Processes, NEW t \in Threads, pc[p][t] \notin {"none", "exit"},
         pc[p][0] # "crashed",
         NEW to \in ThreadPlaces \ {"none"}, to \in Greetings => prog[p] \in Greeters,
         Goto(p, t, to), UNCHANGED <<prog, kernel, entry, last, fptr>>,
         loc' \in [Processes -> [0 .. 2 -> Locals]], \A q \in Processes \ {p} : loc'[q] = loc[q],
         \A u \in 0 .. 2 : u # t => loc'[p][u] = loc[p][u],
         to \in Writing \cup ReadingOut => entry = "3_2",
         to \in Writing => /\ loc'[p][t].n <= loc'[p][t].left
                           /\ loc'[p][t].len + loc'[p][t].n < BUFSIZE,
         to = "write" => entry # "none", to \in {"read", "spin_unlock"} => entry # "3_1",
         got' \in [Processes -> [0 .. 2 -> Seq(Cells)]], \A q \in Processes \ {p} : got'[q] = got[q],
         buf' \in [0 .. (BUFSIZE - 1) -> Cells], kernel = "3_2" => buf'[BUFSIZE - 1] = NUL,
         locked' \in [Processes -> BOOLEAN], \A q \in Processes \ {p} : locked'[q] = locked[q],
         reinit' \in [Processes -> BOOLEAN], \A q \in Processes \ {p} : reinit'[q] = reinit[q],
         turn' \in [Processes -> [Threads -> Nat]]
  PROVE  Kept(p)
<1>1. /\ pc' \in [Processes -> [0 .. 2 -> AnyPlace]]
      /\ pc'[p][t] = to /\ \A u \in 0 .. 2 : u # t => pc'[p][u] = pc[p][u]
      /\ \A q \in Processes \ {p} : pc'[q] = pc[q]
  <2>1. pc \in [Processes -> [0 .. 2 -> AnyPlace]] /\ t \in 0 .. 2 /\ to \in AnyPlace
    BY DEF Base, Types, AnyPlace, Threads
  <2> QED
    BY <2>1, GotoFacts
<1>2. Types'
  BY <1>1, Zenon DEF Base, Types, AnyPlace
<1>3. PlacesOK(p)'
  <2>1. pc \in [Processes -> [0 .. 2 -> AnyPlace]] /\ PlacesOK(p) /\ prog' = prog
    BY DEF Base, Types, AnyPlace, Places
  <2> QED
    BY <2>1, ThreadMoves
<1>4. Still(p)
  BY <1>1 DEF Still
<1>5. FilesOK(p)'
  <2>1. Running(p) /\ FilesOK(p) /\ 0 # t
    BY ThreadRuns DEF Base, Places, Threads
  <2>2. to \notin {"for_each_thread", "sprintf", "terminate"}
    BY DEF ThreadPlaces, Computing, Greetings, Critical, Writing, ReadingOut
  <2> QED
    BY <1>1, <2>1, <2>2 DEF FilesOK, Threads
<1>6. BufTerminated'
  BY DEF BufTerminated
<1> QED
  BY <1>2, <1>3, <1>4, <1>5, <1>6 DEF Kept

(* The threads that multiply. *)
LEMMA MatThreadKept ==
  ASSUME Base, NEW p \in Processes, NEW t \in Threads, pc[p][0] # "crashed",
         MatThread(p, t), UNCHANGED procVars
  PROVE  Kept(p)
<1> USE DEF procVars
<1>0. /\ turn \in [Processes -> [Threads -> Nat]]
      /\ loc \in [Processes -> [0 .. 2 -> Locals]]
      /\ got \in [Processes -> [0 .. 2 -> Seq(Cells)]]
      /\ buf \in [0 .. (BUFSIZE - 1) -> Cells] /\ (kernel = "3_2" => buf[BUFSIZE - 1] = NUL)
      /\ locked \in [Processes -> BOOLEAN] /\ reinit \in [Processes -> BOOLEAN]
  BY DEF Base, Types, BufTerminated
<1>1. ASSUME NEW to \in {"load", "store", "unlock", "exit"}, Goto(p, t, to),
             pc[p][t] \notin {"none", "exit"}, UNCHANGED <<prog, turn>>,
             locked' \in [Processes -> BOOLEAN], \A q \in Processes \ {p} : locked'[q] = locked[q]
      PROVE  Kept(p)
  <2>1. /\ to \in ThreadPlaces \ {"none"}
        /\ to \notin Greetings /\ to \notin Writing \cup ReadingOut
        /\ to # "write" /\ to \notin {"read", "spin_unlock"}
    BY DEF ThreadPlaces, Computing, Greetings, Critical, Writing, ReadingOut
  <2> QED
    BY <1>0, <1>1, <2>1, ThreadMovesKept
<1>2. ASSUME pc[p][t] \notin {"none", "exit"}, NextTurn(p, t), UNCHANGED prog,
             locked' \in [Processes -> BOOLEAN], \A q \in Processes \ {p} : locked'[q] = locked[q]
      PROVE  Kept(p)
  <2> DEFINE to == AfterTurns(p, t, turn[p][t] + 1)
  <2>1. turn[p][t] + 1 \in Nat /\ turn' \in [Processes -> [Threads -> Nat]] /\ Goto(p, t, to)
    BY <1>0, <1>2 DEF NextTurn
  <2>2. /\ to \in {"lock", "add", "print", "spin_init", "exit"}
        /\ to = "spin_init" => prog[p] \in Greeters
    BY <1>2, <2>1, ThreadRuns, AfterTurnsFacts
  <2> HIDE DEF to
  <2>3. /\ to \in ThreadPlaces \ {"none"}
        /\ to \in Greetings => prog[p] \in Greeters
        /\ to \notin Writing \cup ReadingOut
        /\ to # "write" /\ to \notin {"read", "spin_unlock"}
    BY <2>2 DEF ThreadPlaces, Computing, Greetings, Critical, Writing, ReadingOut
  <2> QED
    BY <1>0, <1>2, <2>1, <2>3, ThreadMovesKept
<1>3. CASE Lock(p, t)
  BY <1>0, <1>1, <1>3 DEF Lock
<1>4. CASE Load(p, t)
  BY <1>0, <1>1, <1>4 DEF Load
<1>5. CASE Store(p, t)
  BY <1>0, <1>1, <1>5 DEF Store
<1>6. CASE Unlock(p, t)
  BY <1>0, <1>2, <1>6 DEF Unlock
<1>7. CASE Add(p, t)
  BY <1>0, <1>2, <1>7 DEF Add
<1>8. CASE ThreadPrint(p, t)
  BY <1>0, <1>1, <1>8 DEF ThreadPrint
<1> QED
  BY <1>3, <1>4, <1>5, <1>6, <1>7, <1>8 DEF MatThread

-----------------------------------------------------------------------------
(* The greeting under the lock. *)
LEMMA PlacesOfGreeting ==
  ASSUME Base, NEW p \in Processes, NEW t \in Threads, pc[p][0] # "crashed",
         pc[p][t] \in Greetings
  PROVE  /\ pc[p][t] \notin {"none", "exit"} /\ Running(p) /\ prog[p] \in Greeters
         /\ FilesOK(p) /\ t \in 0 .. 2
<1>1. pc[p][t] \notin {"none", "exit"}
  BY DEF Greetings, Critical, Writing, ReadingOut
<1> QED
  BY <1>1, ThreadRuns DEF Base, Places, PlacesOK, Threads

(* Types, one variable at a time. *)
LEMMA VariablesOf ==
  ASSUME Types
  PROVE  /\ turn \in [Processes -> [Threads -> Nat]]
         /\ loc \in [Processes -> [0 .. 2 -> Locals]]
         /\ got \in [Processes -> [0 .. 2 -> Seq(Cells)]]
         /\ buf \in [0 .. (BUFSIZE - 1) -> Cells]
         /\ locked \in [Processes -> BOOLEAN] /\ reinit \in [Processes -> BOOLEAN]
BY DEF Types

(* What the steps of a handler have in common: a thread goes to another    *)
(* place with the locals l.                                                *)
Frame(p) ==
  /\ locked' \in [Processes -> BOOLEAN] /\ \A q \in Processes \ {p} : locked'[q] = locked[q]
  /\ reinit' \in [Processes -> BOOLEAN] /\ \A q \in Processes \ {p} : reinit'[q] = reinit[q]
  /\ got' \in [Processes -> [0 .. 2 -> Seq(Cells)]]
  /\ \A q \in Processes \ {p} : got'[q] = got[q]
  /\ buf' \in [0 .. (BUFSIZE - 1) -> Cells] /\ (kernel = "3_2" => buf'[BUFSIZE - 1] = NUL)
LocalsTo(p, t, l) == l \in Locals /\ (SetLoc(p, t, l) \/ (UNCHANGED loc /\ l = loc[p][t]))
StepTo(p, t, from, to, l) ==
  /\ Step(p, t, from, to) /\ LocalsTo(p, t, l) /\ Frame(p)
  /\ to \in Writing \cup ReadingOut => entry = "3_2"
  /\ to \in Writing => l.n <= l.left /\ l.len + l.n < BUFSIZE
  /\ to = "write" => entry # "none"
  /\ to \in {"read", "spin_unlock"} => entry # "3_1"

(* A step of a thread from a handler's place to the next keeps Base. *)
LEMMA StepKept ==
  ASSUME Base, NEW p \in Processes, NEW t \in Threads, pc[p][0] # "crashed",
         NEW from \in Greetings, NEW to \in Greetings \cup {"exit"}, NEW l,
         StepTo(p, t, from, to, l)
  PROVE  Kept(p)
<1>1. /\ pc[p][t] \notin {"none", "exit"} /\ prog[p] \in Greeters /\ t \in 0 .. 2
      /\ Goto(p, t, to) /\ UNCHANGED <<prog, kernel, entry, last, fptr, turn>>
  BY PlacesOfGreeting DEF Step, StepTo
<1>2. to \in ThreadPlaces \ {"none"}
  BY DEF ThreadPlaces, Greetings, Critical, Writing, ReadingOut
<1>3. /\ loc \in [Processes -> [0 .. 2 -> Locals]] /\ l \in Locals
      /\ turn' \in [Processes -> [Threads -> Nat]]
  BY <1>1, VariablesOf DEF Base, StepTo, LocalsTo
<1>4. /\ loc' \in [Processes -> [0 .. 2 -> Locals]]
      /\ loc'[p][t] = l /\ \A u \in 0 .. 2 : u # t => loc'[p][u] = loc[p][u]
      /\ \A q \in Processes \ {p} : loc'[q] = loc[q]
  BY <1>1, <1>3, SetLocFacts DEF StepTo, LocalsTo
<1> QED
  BY <1>1, <1>2, <1>3, <1>4, ThreadMovesKept DEF StepTo, Frame

(* The fields of a record of locals. *)
LEMMA LocalsFacts ==
  ASSUME NEW l \in Locals
  PROVE  l.off \in 0 .. BUFSIZE /\ l.len \in 0 .. BUFSIZE /\ l.n \in Nat /\ l.left \in Nat
BY DEF Locals

(* Replacing n or left keeps the record one of locals. *)
LEMMA LocalsWithCount ==
  ASSUME NEW l \in Locals, NEW n \in Nat
  PROVE  [l EXCEPT !.n = n] \in Locals /\ [l EXCEPT !.left = n] \in Locals
BY DEF Locals

(* A record of which len and n are replaced. *)
LEMMA LocalsWithLength ==
  ASSUME NEW l \in Locals, NEW n, NEW len
  PROVE  [l EXCEPT !.len = len, !.n = n] = [off |-> l.off, len |-> len, n |-> n, left |-> l.left]
<1> DEFINE k == [l EXCEPT !.len = len]
<1>1. k = [off |-> l.off, len |-> len, n |-> l.n, left |-> l.left]
  BY DEF Locals
<1>2. [k EXCEPT !.n = n] = [off |-> k.off, len |-> k.len, n |-> n, left |-> k.left]
  <2>1. k = [off |-> k.off, len |-> k.len, n |-> k.n, left |-> k.left]
    BY <1>1
  <2> HIDE DEF k
  <2> QED
    BY <2>1
<1>3. [l EXCEPT !.len = len, !.n = n] = [k EXCEPT !.n = n]
  OBVIOUS
<1> HIDE DEF k
<1> QED
  BY <1>1, <1>2, <1>3

(* Bytes and a terminator written inside the buffer. *)
LEMMA BufferWritten ==
  ASSUME buf \in [0 .. (BUFSIZE - 1) -> Cells], kernel = "3_2" => buf[BUFSIZE - 1] = NUL,
         NEW at \in Nat, NEW n \in Nat, at + n < BUFSIZE, NEW c \in Cells,
         buf' = [o \in 0 .. (BUFSIZE - 1) |-> IF o \in at .. (at + n - 1) THEN c
                                             ELSE IF o = at + n THEN NUL ELSE buf[o]]
  PROVE  /\ buf' \in [0 .. (BUFSIZE - 1) -> Cells]
         /\ kernel = "3_2" => buf'[BUFSIZE - 1] = NUL
<1> DEFINE end == BUFSIZE - 1
<1>1. NUL \in Cells
  BY DEF Cells
<1>2. end \in Nat /\ BUFSIZE \in Nat /\ end \in 0 .. end
  BY BufferAssumption
<1>3. end \notin at .. (at + n - 1)
  BY <1>2
<1> HIDE DEF end
<1>4. /\ buf \in [0 .. end -> Cells] /\ (kernel = "3_2" => buf[end] = NUL)
      /\ buf' = [o \in 0 .. end |-> IF o \in at .. (at + n - 1) THEN c
                                    ELSE IF o = at + n THEN NUL ELSE buf[o]]
  BY DEF end
<1>5. buf' \in [0 .. end -> Cells]
  BY <1>1, <1>4
<1>6. kernel = "3_2" => buf'[end] = NUL
  BY <1>2, <1>3, <1>4
<1> QED
  BY <1>5, <1>6 DEF end

(* A handler that changes neither the buffer nor what has been read. *)
LEMMA FrameFacts ==
  ASSUME Base, NEW p \in Processes, UNCHANGED <<got, buf, kernel>>,
         NEW b \in BOOLEAN, NEW r \in BOOLEAN,
         locked' = [locked EXCEPT ![p] = b] \/ UNCHANGED locked,
         reinit' = [reinit EXCEPT ![p] = r] \/ UNCHANGED reinit
  PROVE  Frame(p)
BY VariablesOf DEF Base, Frame, BufTerminated

(* Every step of a thread of 3_2 on its greeting keeps Base. *)
LEMMA GreetingKept ==
  ASSUME Base, NEW p \in Processes, NEW t \in Threads, pc[p][0] # "crashed", Greeting(p, t)
  PROVE  Kept(p)
<1> USE LengthsAreNats
<1> DEFINE l == loc[p][t]
<1>0. /\ loc \in [Processes -> [0 .. 2 -> Locals]] /\ t \in 0 .. 2
      /\ got \in [Processes -> [0 .. 2 -> Seq(Cells)]]
      /\ buf \in [0 .. (BUFSIZE - 1) -> Cells] /\ (kernel = "3_2" => buf[BUFSIZE - 1] = NUL)
      /\ locked \in [Processes -> BOOLEAN] /\ reinit \in [Processes -> BOOLEAN]
      /\ (entry = "3_2" => kernel = "3_2")
      /\ l \in Locals
  <2>1. /\ loc \in [Processes -> [0 .. 2 -> Locals]] /\ t \in 0 .. 2
    BY VariablesOf DEF Base, Threads
  <2> QED
    BY <2>1, VariablesOf DEF Base, BufTerminated, EntryOwned, Modules
<1>1. /\ strnlen \in 0 .. BUFSIZE
      /\ CopyLen(p, t) = IF l.left <= BUFSIZE - strnlen - 1 THEN l.left ELSE BUFSIZE - strnlen - 1
      /\ CopyLen(p, t) \in Int
  <2>1. strnlen \in 0 .. BUFSIZE
    BY <1>0, StrnlenFacts
  <2> HIDE DEF l
  <2>2. l.left \in Int /\ BUFSIZE - strnlen - 1 \in Int
    BY <1>0, <2>1 DEF Locals
  <2>3. Min({l.left, BUFSIZE - strnlen - 1})
          = IF l.left <= BUFSIZE - strnlen - 1 THEN l.left ELSE BUFSIZE - strnlen - 1
    BY <2>2, MinOfTwo
  <2> QED
    BY <2>1, <2>2, <2>3 DEF CopyLen, l
<1>2. CASE SpinInit(p, t)
  <2>1. StepTo(p, t, "spin_init", "spin_lock", l)
    BY <1>0, <1>2, FrameFacts DEF SpinInit, StepTo, LocalsTo, Writing, ReadingOut, Step
  <2> QED
    BY <2>1, StepKept DEF Greetings
<1>3. CASE SpinLock(p, t)
  <2>1. StepTo(p, t, "spin_lock", "fopen", l)
    BY <1>0, <1>3, FrameFacts DEF SpinLock, StepTo, LocalsTo, Writing, ReadingOut, Step
  <2> QED
    BY <2>1, StepKept DEF Greetings, Critical
<1>4. CASE Fopen(p, t)
  <2> DEFINE to == IF entry = "none" THEN "read" ELSE "write"
  <2>1. [l EXCEPT !.left = HELLO_LEN] \in Locals
    BY <1>0 DEF Locals
  <2>2. SetLoc(p, t, [l EXCEPT !.left = HELLO_LEN])
    BY <1>0, <1>4 DEF Fopen, SetLoc
  <2>3. StepTo(p, t, "fopen", to, [l EXCEPT !.left = HELLO_LEN])
    BY <1>0, <1>4, <2>1, <2>2, FrameFacts DEF Fopen, StepTo, LocalsTo, Writing, ReadingOut, Step
  <2> QED
    BY <2>3, StepKept DEF Greetings, Critical
<1>5. CASE MywriteNoSpace(p, t)
  <2>1. StepTo(p, t, "write", "read", l)
    BY <1>0, <1>5, FrameFacts DEF MywriteNoSpace, StepTo, LocalsTo, Writing, ReadingOut, Step
  <2> QED
    BY <2>1, StepKept DEF Greetings, Critical
<1>6. CASE MywriteStart(p, t)
  <2> DEFINE k == [off |-> l.off, len |-> strnlen, n |-> CopyLen(p, t), left |-> l.left]
  <2>1. /\ k \in Locals /\ k.left = l.left /\ k.len = strnlen /\ k.n = CopyLen(p, t)
        /\ CopyLen(p, t) <= l.left /\ strnlen + CopyLen(p, t) < BUFSIZE
    <3> HIDE DEF l
    <3>1. CopyLen(p, t) \in Nat /\ strnlen \in 0 .. BUFSIZE /\ l.left \in Nat
      BY <1>0, <1>1, <1>6, LocalsFacts DEF MywriteStart
    <3>2. CopyLen(p, t) <= l.left /\ strnlen + CopyLen(p, t) < BUFSIZE
      BY <1>1, <3>1
    <3>3. l.off \in 0 .. BUFSIZE
      BY <1>0, LocalsFacts
    <3>4. k \in Locals
      BY <3>1, <3>3 DEF Locals
    <3> QED
      BY <3>2, <3>4
  <2>2. SetLoc(p, t, k)
    <3> DEFINE m == [l EXCEPT !.len = strnlen, !.n = CopyLen(p, t)]
    <3>1. SetLoc(p, t, m)
      BY <1>0, <1>6 DEF MywriteStart, SetLoc
    <3>2. m = k
      BY <1>0, LocalsWithLength
    <3> HIDE DEF m, k
    <3> QED
      BY <3>1, <3>2
  <2> HIDE DEF k
  <2>3. StepTo(p, t, "write", "copy_from_user", k)
    BY <1>0, <1>6, <2>1, <2>2, FrameFacts
       DEF MywriteStart, StepTo, LocalsTo, Writing, ReadingOut, Step
  <2> QED
    BY <2>3, StepKept DEF Greetings, Critical, Writing
<1>7. CASE MywriteCopy(p, t)
  <2>1. pc[p][t] = "copy_from_user" /\ pc[p][t] \in Greetings
    BY <1>7 DEF MywriteCopy, Step, Greetings, Critical, Writing
  <2>2. entry = "3_2" /\ l.n <= l.left /\ l.len + l.n < BUFSIZE
    BY <2>1, PlacesOfGreeting DEF FilesOK, Writing
  <2>3. /\ buf' \in [0 .. (BUFSIZE - 1) -> Cells]
        /\ kernel = "3_2" => buf'[BUFSIZE - 1] = NUL
    <3> HIDE DEF l
    <3>1. l.len \in Nat /\ l.n \in Nat
      BY <1>0 DEF Locals
    <3>2. buf' = [o \in 0 .. (BUFSIZE - 1) |-> IF o \in l.len .. (l.len + l.n - 1)
                                              THEN Hello(p, t) ELSE buf[o]]
      BY <1>0, <1>7 DEF MywriteCopy, l
    <3>3. Hello(p, t) \in Cells
      BY DEF Cells
    <3> QED
      BY <1>0, <2>2, <3>1, <3>2, <3>3
  <2>4. Frame(p)
    BY <1>0, <1>7, <2>3 DEF MywriteCopy, Frame
  <2>5. StepTo(p, t, "copy_from_user", "scnprintf", l)
    BY <1>0, <1>7, <2>2, <2>4 DEF MywriteCopy, StepTo, LocalsTo, Writing, ReadingOut, Step
  <2> QED
    BY <2>5, StepKept DEF Greetings, Critical, Writing
<1>8. CASE MywriteInfo(p, t)
  <2>1. pc[p][t] = "scnprintf" /\ pc[p][t] \in Greetings
    BY <1>8 DEF MywriteInfo, Step, Greetings, Critical, Writing
  <2>2. entry = "3_2" /\ l.n <= l.left /\ l.len + l.n < BUFSIZE
    BY <2>1, PlacesOfGreeting DEF FilesOK, Writing
  <2> HIDE DEF l
  <2> DEFINE at == l.len + l.n
             n == Min({INFO_LEN, BUFSIZE - at - 1})
             k == [l EXCEPT !.left = l.left - l.n]
             to == IF l.left > l.n THEN "write" ELSE "read"
  <2>3. l.len \in Nat /\ l.n \in Nat /\ l.left \in Nat /\ k \in Locals
    <3>1. l.len \in Nat /\ l.n \in Nat /\ l.left \in Nat
      <4> HIDE DEF at, n, k, to
      <4> QED
        BY <1>0, LocalsFacts
    <3>2. l.left - l.n \in Nat
      BY <2>2, <3>1
    <3> QED
      BY <1>0, <3>1, <3>2, LocalsWithCount
  <2>4. n \in Nat /\ at + n < BUFSIZE
    <3>1. INFO_LEN \in Nat /\ BUFSIZE - at - 1 \in Nat
      BY <2>2, <2>3
    <3> HIDE DEF at
    <3>2. n = IF INFO_LEN <= BUFSIZE - at - 1 THEN INFO_LEN ELSE BUFSIZE - at - 1
      BY <3>1, MinOfTwo
    <3> QED
      BY <2>2, <2>3, <3>1, <3>2 DEF at
  <2>5. /\ buf' \in [0 .. (BUFSIZE - 1) -> Cells]
        /\ kernel = "3_2" => buf'[BUFSIZE - 1] = NUL
    <3>1. buf' = [o \in 0 .. (BUFSIZE - 1) |-> IF o \in at .. (at + n - 1) THEN Info(p, t)
                                              ELSE IF o = at + n THEN NUL ELSE buf[o]]
      BY <1>0, <1>8 DEF MywriteInfo, l
    <3>2. Info(p, t) \in Cells /\ at \in Nat
      BY <2>3 DEF Cells
    <3> HIDE DEF at, n
    <3> QED
      BY <1>0, <2>4, <3>1, <3>2, BufferWritten
  <2>6. Frame(p)
    BY <1>0, <1>8, <2>5 DEF MywriteInfo, Frame
  <2>7. SetLoc(p, t, k)
    BY <1>0, <1>8 DEF MywriteInfo, SetLoc, l
  <2>8. Step(p, t, "scnprintf", to)
    BY <1>8 DEF MywriteInfo, l
  <2> HIDE DEF k
  <2>9. StepTo(p, t, "scnprintf", to, k)
    BY <2>2, <2>3, <2>6, <2>7, <2>8 DEF StepTo, LocalsTo, Writing, ReadingOut
  <2> QED
    BY <2>9, StepKept DEF Greetings, Critical, Writing
<1>9. CASE SpinUnlock(p, t)
  <2>1. CASE prog[p] # "3_2_one"
    <3>1. StepTo(p, t, "spin_unlock", "exit", l)
      BY <1>0, <1>9, <2>1, FrameFacts DEF SpinUnlock, StepTo, LocalsTo, Writing, ReadingOut, Step
    <3> QED
      BY <3>1, StepKept DEF Greetings, Critical
  <2>2. CASE prog[p] = "3_2_one"
    <3>1. /\ pc[p][t] = "spin_unlock"
          /\ pc' = [pc EXCEPT ![p][t] = "exit", ![p][0] = "done"]
          /\ UNCHANGED <<prog, turn, kernel, entry, last, fptr, loc, got, buf, reinit>>
          /\ locked' = [locked EXCEPT ![p] = FALSE]
      BY <1>9, <2>2 DEF SpinUnlock
    <3>2. pc \in [Processes -> [0 .. 2 -> AnyPlace]] /\ PlacesOK(p) /\ t # 0
      BY DEF Base, Types, AnyPlace, Places, Threads
    <3>3. "exit" \in AnyPlace /\ "done" \in AnyPlace
      BY DEF AnyPlace, ThreadPlaces, MainPlaces
    <3>4. /\ pc' \in [Processes -> [0 .. 2 -> AnyPlace]]
          /\ pc'[p][t] = "exit" /\ pc'[p][0] = "done"
          /\ \A u \in 0 .. 2 : u # t /\ u # 0 => pc'[p][u] = pc[p][u]
          /\ \A q \in Processes \ {p} : pc'[q] = pc[q]
      BY <1>0, <3>1, <3>2, <3>3
    <3>5. ThreadsOf(p) = {1} /\ ThreadsOf(p)' = {1} /\ t = 1
      BY <2>2, <3>1, <3>2 DEF ThreadsOf, OneThread, PlacesOK, Threads
    <3>6. PlacesOK(p)'
      BY <3>1, <3>2, <3>4, <3>5
         DEF PlacesOK, Threads, ThreadPlaces, MainPlaces, MainReads, ReadingOut, Greetings,
             Critical, Writing
    <3>7. Still(p) /\ BufTerminated'
      BY <1>0, <3>1, <3>4 DEF Still, BufTerminated
    <3>8. Types'
      BY <1>0, <3>1, <3>4 DEF Types, Base, AnyPlace
    <3>9. FilesOK(p)'
      BY <3>4 DEF FilesOK, Running
    <3> QED
      BY <3>6, <3>7, <3>8, <3>9 DEF Kept
  <2> QED
    BY <2>1, <2>2
<1> QED
  BY <1>2, <1>3, <1>4, <1>5, <1>6, <1>7, <1>8, <1>9 DEF Greeting

-----------------------------------------------------------------------------
(* Reading: main of 3_1, and the threads of 3_2 under their lock.          *)
MainTo(p, from, to, l) ==
  /\ Step(p, 0, from, to) /\ LocalsTo(p, 0, l) /\ Frame(p)
  /\ to \in {"for_each_thread", "sprintf", "terminate"} => entry = "3_1" /\ l.off < l.n
  /\ to \in {"sprintf", "terminate"} => l.n \in Threads
  /\ to \in ReadingOut => entry = "3_2"

(* A step of main of 3_1 in Myread keeps Base. *)
LEMMA MainStepKept ==
  ASSUME Base, NEW p \in Processes,
         NEW from \in MainReads, NEW to \in MainReads \cup {"join", "crashed"}, NEW l,
         MainTo(p, from, to, l)
  PROVE  Kept(p)
<1>1. /\ pc \in [Processes -> [0 .. 2 -> AnyPlace]] /\ PlacesOK(p) /\ FilesOK(p)
      /\ loc \in [Processes -> [0 .. 2 -> Locals]] /\ l \in Locals
      /\ turn \in [Processes -> [Threads -> Nat]]
  BY VariablesOf DEF Base, Types, AnyPlace, Places, MainTo, LocalsTo
<1>2. /\ pc[p][0] = from /\ Goto(p, 0, to) /\ to \in AnyPlace /\ 0 \in 0 .. 2
      /\ UNCHANGED <<prog, kernel, entry, last, fptr, turn>>
  BY DEF MainTo, Step, AnyPlace, MainPlaces
<1>3. /\ pc' \in [Processes -> [0 .. 2 -> AnyPlace]]
      /\ pc'[p][0] = to /\ \A u \in 0 .. 2 : u # 0 => pc'[p][u] = pc[p][u]
      /\ \A q \in Processes \ {p} : pc'[q] = pc[q]
  BY <1>1, <1>2, GotoFacts
<1>4. /\ loc' \in [Processes -> [0 .. 2 -> Locals]]
      /\ loc'[p][0] = l /\ \A u \in 0 .. 2 : u # 0 => loc'[p][u] = loc[p][u]
      /\ \A q \in Processes \ {p} : loc'[q] = loc[q]
  BY <1>1, <1>2, SetLocFacts DEF MainTo, LocalsTo
<1>5. PlacesOK(p)'
  BY <1>1, <1>2, MainMoves
<1>6. Types' /\ Still(p) /\ BufTerminated'
  <2>1. /\ prog \in [Processes -> Programs] /\ fptr \in [Processes -> BOOLEAN]
        /\ turn' \in [Processes -> [Threads -> Nat]]
        /\ pc' \in [Processes -> [0 .. 2 -> ThreadPlaces \cup MainPlaces]]
    BY <1>1, <1>2, <1>3 DEF Base, Types, AnyPlace
  <2>2. Types'
    BY <1>2, <1>4, <2>1 DEF MainTo, Frame, Types
  <2> QED
    BY <1>2, <1>3, <1>4, <2>2 DEF MainTo, Frame, Still, BufTerminated
<1>7. FilesOK(p)'
  <2>1. Running(p) /\ to \notin Writing
    BY <1>2 DEF Running, MainReads, ReadingOut, Writing
  <2> QED
    BY <1>1, <1>2, <1>3, <1>4, <2>1 DEF FilesOK, MainTo, Threads
<1> QED
  BY <1>5, <1>6, <1>7 DEF Kept

(* Main and the threads of 3_2 do the same in Myread of 3_2.               *)
LEMMA ReadStepKept ==
  ASSUME Base, NEW p \in Processes, NEW t \in 0 .. 2, t # 0 => pc[p][0] # "crashed",
         NEW from \in {"read"} \cup ReadingOut, NEW to \in {"read", EndOfLoop(t)} \cup ReadingOut,
         NEW l, Step(p, t, from, to), LocalsTo(p, t, l), Frame(p),
         to \in ReadingOut => entry = "3_2", to \notin ReadingOut /\ t # 0 => entry # "3_1"
  PROVE  Kept(p)
<1>1. CASE t = 0
  <2>1. /\ from \in MainReads /\ to \in MainReads \cup {"join", "crashed"}
        /\ to \notin {"for_each_thread", "sprintf", "terminate"}
    BY <1>1 DEF MainReads, ReadingOut, EndOfLoop
  <2>2. MainTo(p, from, to, l)
    BY <1>1, <2>1 DEF MainTo
  <2> QED
    BY <2>1, <2>2, MainStepKept
<1>2. CASE t # 0
  <2>1. /\ from \in Greetings /\ to \in Greetings \cup {"exit"} /\ to \notin Writing
        /\ to # "write" /\ t \in Threads
    BY <1>2 DEF Greetings, Critical, ReadingOut, Writing, EndOfLoop, Threads
  <2>2. to \in {"read", "spin_unlock"} => entry # "3_1"
    BY <1>2 DEF ReadingOut
  <2>3. StepTo(p, t, from, to, l)
    BY <2>1, <2>2 DEF StepTo
  <2> QED
    BY <1>2, <2>1, <2>3, StepKept
<1> QED
  BY <1>1, <1>2

(* Every step of fgets, of main or of a thread, keeps Base. *)
LEMMA ReadingKept ==
  ASSUME Base, NEW p \in Processes, NEW t \in 0 .. 2, t # 0 => pc[p][0] # "crashed", Reading(p, t)
  PROVE  Kept(p)
<1> USE LengthsAreNats
<1> DEFINE l == loc[p][t]
<1>0. /\ loc \in [Processes -> [0 .. 2 -> Locals]]
      /\ got \in [Processes -> [0 .. 2 -> Seq(Cells)]]
      /\ buf \in [0 .. (BUFSIZE - 1) -> Cells] /\ (kernel = "3_2" => buf[BUFSIZE - 1] = NUL)
      /\ locked \in [Processes -> BOOLEAN] /\ reinit \in [Processes -> BOOLEAN]
      /\ PlacesOK(p) /\ FilesOK(p) /\ (entry \in Modules => kernel = entry)
  BY VariablesOf DEF Base, BufTerminated, Places, EntryOwned, Modules
<1>1. l \in Locals
  BY <1>0
<1>2. l.off \in 0 .. BUFSIZE /\ l.len \in 0 .. BUFSIZE /\ l.n \in Nat /\ l.left \in Nat
  <2> HIDE DEF l
  <2> QED
    BY <1>1, LocalsFacts
(* Where a thread that reads can be. *)
<1>3. ASSUME pc[p][t] \in MainReads
      PROVE  /\ Running(p)
             /\ t # 0 => pc[p][t] \notin {"for_each_thread", "sprintf", "terminate"}
             /\ t # 0 /\ pc[p][t] = "read" => entry # "3_1"
             /\ pc[p][t] \in ReadingOut => entry = "3_2"
             /\ pc[p][t] \in {"for_each_thread", "sprintf", "terminate"} =>
                  entry = "3_1" /\ l.off < l.n
             /\ pc[p][t] \in {"sprintf", "terminate"} => l.n \in Threads
  <2>1. t = 0 \/ t \in Threads
    BY DEF Threads
  <2>2. Running(p)
    BY <1>0, <1>3, <2>1
       DEF Running, PlacesOK, Threads, ThreadsOf, MainReads, MainPlaces, ReadingOut
  <2>3. t # 0 => pc[p][t] \notin {"for_each_thread", "sprintf", "terminate"}
    BY <1>0, <2>1
       DEF PlacesOK, ThreadPlaces, Computing, Greetings, Critical, Writing, ReadingOut
  <2> QED
    BY <1>0, <2>1, <2>2, <2>3 DEF FilesOK
<1>4. CASE ReadNull(p, t)
  <2>1. LocalsTo(p, t, l) /\ Frame(p)
    BY <1>0, <1>1, <1>4, FrameFacts DEF ReadNull, Step, LocalsTo
  <2>2. Step(p, t, "read", IF t = 0 THEN "crashed" ELSE "spin_unlock") /\ pc[p][t] = "read"
    BY <1>4 DEF ReadNull, Step
  <2>3. CASE t = 0
    <3>1. MainTo(p, "read", "crashed", l)
      BY <2>1, <2>2, <2>3 DEF MainTo, ReadingOut
    <3> QED
      BY <3>1, MainStepKept DEF MainReads
  <2>4. CASE t # 0
    <3>1. EndOfLoop(t) = "spin_unlock" /\ EndOfLoop(t) \notin ReadingOut
      BY <2>4 DEF EndOfLoop, ReadingOut
    <3> QED
      BY <1>3, <2>1, <2>2, <2>4, <3>1, ReadStepKept DEF MainReads
  <2> QED
    BY <2>3, <2>4
<1>5. CASE ReadEnd(p, t)
  <2>1. LocalsTo(p, t, l) /\ Frame(p)
    BY <1>0, <1>1, <1>5, FrameFacts DEF ReadEnd, Step, LocalsTo
  <2>2. Step(p, t, "read", EndOfLoop(t)) /\ pc[p][t] = "read"
    BY <1>5 DEF ReadEnd, Step
  <2>3. EndOfLoop(t) \notin ReadingOut
    BY DEF EndOfLoop, ReadingOut
  <2> QED
    BY <1>3, <2>1, <2>2, <2>3, ReadStepKept DEF MainReads
<1>6. CASE MyreadStart_3_1(p, t)
  <2>1. pc[p][t] = "read" /\ entry = "3_1" /\ l.off = 0
    BY <1>6 DEF MyreadStart_3_1, Step
  <2>2. t = 0
    BY <1>3, <2>1 DEF MainReads
  <2> HIDE DEF l
  <2> DEFINE k == [l EXCEPT !.n = 1]
  <2>3. k \in Locals /\ k.off < k.n
    BY <1>1, <2>1 DEF Locals
  <2>4. SetLoc(p, t, k)
    BY <1>0, <1>6 DEF MyreadStart_3_1, SetLoc, l
  <2> HIDE DEF k
  <2>5. Frame(p)
    BY <1>0, <1>6, FrameFacts DEF MyreadStart_3_1, Step
  <2>6. MainTo(p, "read", "for_each_thread", k)
    BY <1>6, <2>1, <2>2, <2>3, <2>4, <2>5 DEF MyreadStart_3_1, MainTo, LocalsTo, ReadingOut
  <2> QED
    BY <2>6, MainStepKept DEF MainReads
<1>12. CASE MyreadNext_3_1(p, t)
  <2> DEFINE to == IF Alive(p, l.n) THEN "sprintf" ELSE "for_each_thread"
             n == IF Alive(p, l.n) THEN l.n ELSE l.n + 1
             k == [l EXCEPT !.n = n]
  <2>1. pc[p][t] = "for_each_thread" /\ l.n \in Threads /\ Step(p, t, "for_each_thread", to)
    BY <1>12 DEF MyreadNext_3_1, Step
  <2>2. t = 0 /\ entry = "3_1" /\ l.off < l.n
    BY <1>3, <2>1 DEF MainReads
  <2>3. SetLoc(p, t, k)
    BY <1>0, <1>12 DEF MyreadNext_3_1, SetLoc
  <2>4. n \in Nat /\ l.off < n /\ (to = "sprintf" => n \in Threads)
        /\ to \in {"sprintf", "for_each_thread"}
    <3> HIDE DEF l
    <3> QED
      BY <1>2, <2>1, <2>2
  <2> HIDE DEF l, n, to
  <2>5. k \in Locals /\ k.off = l.off /\ k.n = n
    BY <1>1, <2>4 DEF Locals
  <2> HIDE DEF k
  <2>6. Frame(p)
    BY <1>0, <1>12, FrameFacts DEF MyreadNext_3_1, Step
  <2>7. MainTo(p, "for_each_thread", to, k)
    BY <2>1, <2>2, <2>3, <2>4, <2>5, <2>6 DEF MainTo, LocalsTo, ReadingOut
  <2> QED
    BY <2>4, <2>7, MainStepKept DEF MainReads
<1>7. CASE MyreadLine_3_1(p, t)
  <2>1. pc[p][t] = "sprintf" /\ Step(p, t, "sprintf", "terminate") /\ UNCHANGED loc
    BY <1>7 DEF MyreadLine_3_1, Step
  <2>2. t = 0 /\ entry = "3_1" /\ l.off < l.n /\ l.n \in Threads /\ kernel = "3_1"
    BY <1>0, <1>3, <2>1 DEF MainReads, Modules
  <2>3. buf' = [buf EXCEPT ![l.off] = Line(p, l.n)] /\ Line(p, l.n) \in Cells
    BY <1>7, <2>2 DEF MyreadLine_3_1, Cells
  <2>4. Frame(p)
    BY <1>0, <1>7, <2>1, <2>2, <2>3 DEF MyreadLine_3_1, Frame, Step
  <2>5. MainTo(p, "sprintf", "terminate", l)
    BY <1>1, <2>1, <2>2, <2>4 DEF MainTo, LocalsTo, ReadingOut
  <2> QED
    BY <2>5, MainStepKept DEF MainReads
<1>13. CASE MyreadNul_3_1(p, t)
  <2> DEFINE k == [[l EXCEPT !.n = l.n + 1] EXCEPT !.off = l.off + 1]
  <2>1. pc[p][t] = "terminate" /\ Step(p, t, "terminate", "for_each_thread")
    BY <1>13 DEF MyreadNul_3_1, Step
  <2>2. t = 0 /\ entry = "3_1" /\ l.off < l.n /\ l.n \in Threads /\ kernel = "3_1"
    BY <1>0, <1>3, <2>1 DEF MainReads, Modules
  <2>3. buf' = [buf EXCEPT ![l.off + 1] = NUL] /\ NUL \in Cells
    BY <1>13 DEF MyreadNul_3_1, Cells
  <2>4. SetLoc(p, t, k)
    <3>1. loc' = [loc EXCEPT ![p][t].n = l.n + 1, ![p][t].off = l.off + 1]
      BY <1>13 DEF MyreadNul_3_1
    <3> QED
      BY <1>0, <3>1, SetTwoFields
  <2> HIDE DEF l
  <2>5. l.off \in 0 .. 1 /\ l.off + 1 \in 0 .. BUFSIZE /\ l.n + 1 \in Nat
    BY <1>2, <2>2 DEF Threads
  <2>6. k \in Locals /\ k.off = l.off + 1 /\ k.n = l.n + 1
    <3> DEFINE m == [l EXCEPT !.n = l.n + 1]
    <3>1. m \in Locals /\ m.n = l.n + 1
      BY <1>1, <2>5 DEF Locals
    <3> HIDE DEF m
    <3>2. [m EXCEPT !.off = l.off + 1] \in Locals
      BY <2>5, <3>1 DEF Locals
    <3>3. [m EXCEPT !.off = l.off + 1].off = l.off + 1 /\ [m EXCEPT !.off = l.off + 1].n = l.n + 1
      BY <3>1 DEF Locals
    <3> QED
      BY <3>2, <3>3 DEF m
  <2> HIDE DEF k
  <2>7. k.off < k.n
    BY <1>2, <2>2, <2>6
  <2>8. Frame(p)
    BY <1>0, <1>13, <2>1, <2>2, <2>3 DEF MyreadNul_3_1, Frame, Step
  <2>9. MainTo(p, "terminate", "for_each_thread", k)
    BY <2>1, <2>2, <2>4, <2>6, <2>7, <2>8 DEF MainTo, LocalsTo, ReadingOut
  <2> QED
    BY <2>9, MainStepKept DEF MainReads
<1>8. CASE MyreadCopy_3_1(p, t)
  <2> DEFINE to == IF l.off = 0 THEN EndOfLoop(t) ELSE "read"
  <2>1. pc[p][t] = "for_each_thread" /\ Step(p, t, "for_each_thread", to)
    BY <1>8 DEF MyreadCopy_3_1, Step
  <2>2. t = 0
    BY <1>3, <2>1 DEF MainReads
  <2>3. to \in {"read", "join"}
    BY <2>2 DEF EndOfLoop
  <2> HIDE DEF to
  <2>4. SetGot(p, t, Bytes(l.off)) /\ Bytes(l.off) \in Seq(Cells)
    BY <1>0, <1>2, <1>8, BytesFacts DEF MyreadCopy_3_1, SetGot
  <2>5. Frame(p)
    BY <1>0, <1>8, <2>1, <2>4, SetGotFacts DEF MyreadCopy_3_1, Frame, Step
  <2>6. LocalsTo(p, t, l)
    BY <1>1, <1>8 DEF MyreadCopy_3_1, LocalsTo
  <2>7. MainTo(p, "for_each_thread", to, l)
    BY <2>1, <2>2, <2>3, <2>5, <2>6 DEF MainTo, ReadingOut
  <2> QED
    BY <2>3, <2>7, MainStepKept DEF MainReads
<1>9. CASE MyreadStart_3_2(p, t)
  <2> DEFINE k == [l EXCEPT !.len = strnlen]
  <2>1. SetLoc(p, t, k) /\ Step(p, t, "read", "copy_to_user") /\ entry = "3_2" /\ kernel' = kernel
    BY <1>0, <1>9 DEF MyreadStart_3_2, SetLoc, Step
  <2>2. strnlen \in 0 .. BUFSIZE
    BY <1>0, StrnlenFacts
  <2> HIDE DEF l
  <2>3. k \in Locals
    BY <1>1, <2>2 DEF Locals
  <2> HIDE DEF k
  <2>4. LocalsTo(p, t, k) /\ Frame(p)
    BY <1>0, <1>9, <2>1, <2>3, FrameFacts DEF MyreadStart_3_2, LocalsTo
  <2> QED
    BY <2>1, <2>4, ReadStepKept DEF ReadingOut
<1>10. CASE MyreadCopy_3_2(p, t)
  <2>1. Step(p, t, "copy_to_user", "memset") /\ pc[p][t] = "copy_to_user"
    BY <1>10 DEF MyreadCopy_3_2, Step
  <2>2. entry = "3_2"
    BY <1>3, <2>1 DEF MainReads, ReadingOut
  <2>3. SetGot(p, t, Bytes(l.len)) /\ Bytes(l.len) \in Seq(Cells)
    BY <1>0, <1>2, <1>10, BytesFacts DEF MyreadCopy_3_2, SetGot
  <2>4. Frame(p)
    BY <1>0, <1>10, <2>1, <2>3, SetGotFacts DEF MyreadCopy_3_2, Frame, Step
  <2>5. LocalsTo(p, t, l)
    BY <1>1, <1>10 DEF MyreadCopy_3_2, LocalsTo
  <2> QED
    BY <2>1, <2>2, <2>4, <2>5, ReadStepKept DEF ReadingOut
<1>11. CASE MyreadClear_3_2(p, t)
  <2> DEFINE k == [l EXCEPT !.off = l.len]
             to == IF l.len = 0 THEN EndOfLoop(t) ELSE "read"
  <2>1. Step(p, t, "memset", to) /\ pc[p][t] = "memset"
    BY <1>11 DEF MyreadClear_3_2, Step
  <2>2. entry = "3_2"
    BY <1>3, <2>1 DEF MainReads, ReadingOut
  <2>3. SetLoc(p, t, k)
    BY <1>0, <1>11 DEF MyreadClear_3_2, SetLoc
  <2> HIDE DEF l
  <2>4. k \in Locals
    BY <1>1, <1>2 DEF Locals
  <2> HIDE DEF k
  <2>5. Frame(p)
    BY <1>0, <1>11, <2>1 DEF MyreadClear_3_2, Frame, Step, EmptyBuf
  <2>6. LocalsTo(p, t, k) /\ to \in {"read", EndOfLoop(t)}
    BY <2>3, <2>4 DEF LocalsTo
  <2> HIDE DEF to
  <2> QED
    BY <2>1, <2>2, <2>5, <2>6, ReadStepKept DEF ReadingOut
<1> QED
  BY <1>4, <1>5, <1>6, <1>7, <1>8, <1>9, <1>10, <1>11, <1>12, <1>13 DEF Reading

-----------------------------------------------------------------------------
(* main creates its threads, joins them and writes the result.             *)
LEMMA MainKept ==
  ASSUME Base, NEW p \in Processes, MatMain(p) \/ Finish(p), UNCHANGED procVars
  PROVE  Kept(p)
<1> USE DEF procVars
<1>0. /\ pc \in [Processes -> [0 .. 2 -> AnyPlace]] /\ PlacesOK(p) /\ FilesOK(p)
      /\ prog[p] \in Programs
  BY DEF Base, Types, AnyPlace, Places
<1>1. ASSUME NEW t \in 0 .. 2, NEW to \in AnyPlace, Goto(p, t, to),
             UNCHANGED <<prog, turn, locked>>, PlacesOK(p)', FilesOK(p)'
      PROVE  Kept(p)
  <2>1. /\ pc' \in [Processes -> [0 .. 2 -> AnyPlace]]
        /\ \A q \in Processes \ {p} : pc'[q] = pc[q]
    BY <1>0, <1>1, GotoFacts
  <2>2. Types'
    BY <1>1, <2>1 DEF Base, Types, AnyPlace
  <2>3. Still(p) /\ BufTerminated'
    BY <1>1, <2>1 DEF Still, Base, BufTerminated
  <2> QED
    BY <1>1, <2>2, <2>3 DEF Kept
(* Main goes on to a place outside the handlers. *)
<1>2. ASSUME NEW to \in {"read", "join", "print", "done", "crashed"}, Goto(p, 0, to), Running(p),
             UNCHANGED <<prog, turn, locked>>, PlacesOK(p)'
      PROVE  Kept(p)
  <2>1. /\ 0 \in 0 .. 2 /\ to \in AnyPlace
    BY DEF AnyPlace, MainPlaces, MainReads
  <2>2. pc'[p][0] = to /\ \A u \in 0 .. 2 : u # 0 => pc'[p][u] = pc[p][u]
    BY <1>0, <1>2, <2>1, GotoFacts
  <2>3. FilesOK(p)'
    BY <1>0, <1>2, <2>2 DEF FilesOK, Threads, Writing, ReadingOut
  <2> QED
    BY <1>1, <1>2, <2>1, <2>3
<1>3. CASE Create(p)
  <2>1. NotCreated(p) \in SUBSET Nat /\ NotCreated(p) # {}
    BY <1>3 DEF Create, NotCreated, ThreadsOf, Threads
  <2>2. PICK t : t = Min(NotCreated(p)) /\ t \in NotCreated(p)
    BY <2>1, FirstOf
  <2> DEFINE to == AfterTurns(p, t, 0)
  <2>3. /\ t \in Threads /\ t \in ThreadsOf(p) /\ pc[p][t] = "none" /\ pc[p][0] = "create"
        /\ Goto(p, t, to) /\ UNCHANGED <<prog, turn, locked>>
    BY <1>3, <2>2 DEF Create, NotCreated, ThreadsOf, Threads, OneThread
  <2>4. prog[p] \in Programs \ {"none"}
    BY <1>0, <2>3 DEF PlacesOK
  <2>5. /\ to \in {"lock", "add", "print", "spin_init", "exit"}
        /\ to = "spin_init" => prog[p] \in Greeters
    BY <2>3, <2>4, AfterTurnsFacts
  <2> HIDE DEF to
  <2>6. t \in 0 .. 2 /\ to \in AnyPlace
    BY <2>3, <2>5 DEF AnyPlace, ThreadPlaces, Computing, Greetings, Threads
  <2>7. pc'[p][t] = to /\ \A u \in 0 .. 2 : u # t => pc'[p][u] = pc[p][u]
    BY <1>0, <2>3, <2>6, GotoFacts
  <2>8. PlacesOK(p)'
    BY <1>0, <2>3, <2>5, <2>7
       DEF PlacesOK, Threads, ThreadsOf, ThreadPlaces, Computing, Greetings, Critical, Writing,
           ReadingOut, MainReads
  <2>9. FilesOK(p)'
    BY <1>0, <2>3, <2>5, <2>7 DEF FilesOK, Running, Threads, Writing, ReadingOut
  <2> QED
    BY <1>1, <2>3, <2>6, <2>8, <2>9
<1>4. CASE Created(p)
  <2> DEFINE to == IF prog[p] = "3_1" THEN "read" ELSE "join"
  <2>1. /\ pc[p][0] = "create" /\ \A t \in ThreadsOf(p) : pc[p][t] # "none"
        /\ Goto(p, 0, to) /\ UNCHANGED <<prog, turn, locked>>
    BY <1>4 DEF Created, NotCreated
  <2>2. /\ 0 \in 0 .. 2 /\ to \in AnyPlace /\ to \in {"read", "join"}
    BY DEF AnyPlace, MainPlaces, MainReads
  <2>3. pc'[p][0] = to /\ \A u \in 0 .. 2 : u # 0 => pc'[p][u] = pc[p][u]
    BY <1>0, <2>1, <2>2, GotoFacts
  <2>4. PlacesOK(p)'
    BY <1>0, <2>1, <2>2, <2>3
       DEF PlacesOK, Threads, ThreadsOf, MainPlaces, MainReads, ReadingOut, OneThread
  <2> HIDE DEF to
  <2> QED
    BY <1>2, <2>1, <2>2, <2>4 DEF Running
<1>5. CASE Join(p)
  <2> DEFINE to == IF prog[p] = "2_1" THEN "done" ELSE "print"
  <2>1. /\ pc[p][0] = "join" /\ \A t \in ThreadsOf(p) : pc[p][t] = "exit"
        /\ Goto(p, 0, to) /\ UNCHANGED <<prog, turn, locked>>
    BY <1>5 DEF Join
  <2>2. /\ 0 \in 0 .. 2 /\ to \in AnyPlace /\ to \in {"print", "done"}
    BY DEF AnyPlace, MainPlaces, MainReads
  <2>3. pc'[p][0] = to /\ \A u \in 0 .. 2 : u # 0 => pc'[p][u] = pc[p][u]
    BY <1>0, <2>1, <2>2, GotoFacts
  <2> HIDE DEF to
  <2>4. PlacesOK(p)'
    BY <1>0, <2>1, <2>2, <2>3
       DEF PlacesOK, Threads, ThreadsOf, MainPlaces, MainReads, ReadingOut, OneThread
  <2> QED
    BY <1>2, <2>1, <2>2, <2>4 DEF Running
<1>6. CASE Finish(p)
  <2>1. PICK to \in {"done", "crashed"} :
          pc[p][0] = "print" /\ Goto(p, 0, to) /\ UNCHANGED <<prog, turn, locked>>
    BY <1>6 DEF Finish, WriteResult
  <2>2. 0 \in 0 .. 2 /\ to \in AnyPlace
    BY DEF AnyPlace, MainPlaces
  <2>3. pc'[p][0] = to /\ \A u \in 0 .. 2 : u # 0 => pc'[p][u] = pc[p][u]
    BY <1>0, <2>1, <2>2, GotoFacts
  <2>4. PlacesOK(p)'
    BY <1>0, <2>1, <2>3
       DEF PlacesOK, Threads, ThreadsOf, MainPlaces, MainReads, ReadingOut, OneThread
  <2> QED
    BY <1>2, <2>1, <2>4 DEF Running
<1> QED
  BY <1>3, <1>4, <1>5, <1>6 DEF MatMain

(* A program that starts keeps Base: it opens the entry that is there. *)
LEMMA StartKept ==
  ASSUME Base, NEW p \in Processes, Start(p)
  PROVE  Kept(p)
<1> DEFINE to == IF prog[p] \in UsesProc /\ entry = "stale" THEN "crashed" ELSE "create"
<1>1. /\ pc \in [Processes -> [0 .. 2 -> AnyPlace]] /\ PlacesOK(p)
      /\ fptr \in [Processes -> BOOLEAN]
  BY DEF Base, Types, AnyPlace, Places
<1>2. /\ prog[p] # "none" /\ pc[p][0] = "none" /\ Goto(p, 0, to)
      /\ fptr' = [fptr EXCEPT ![p] = prog[p] \in UsesProc /\ entry \in {"3_1", "3_2"}]
      /\ UNCHANGED <<prog, turn, locked, kernel, entry, last, buf, loc, got, reinit>>
  BY DEF Start
<1>3. /\ 0 \in 0 .. 2 /\ to \in AnyPlace /\ to \in {"crashed", "create"}
      /\ prog[p] \in UsesProc /\ entry = "stale" => to = "crashed"
  BY DEF AnyPlace, MainPlaces
<1> HIDE DEF to
<1>4. /\ pc' \in [Processes -> [0 .. 2 -> AnyPlace]]
      /\ pc'[p][0] = to /\ \A u \in 0 .. 2 : u # 0 => pc'[p][u] = pc[p][u]
      /\ \A q \in Processes \ {p} : pc'[q] = pc[q]
  BY <1>1, <1>2, <1>3, GotoFacts
<1>5. PlacesOK(p)'
  BY <1>1, <1>2, <1>3, <1>4
     DEF PlacesOK, Threads, ThreadsOf, MainPlaces, MainReads, ReadingOut, Greetings, Critical, Writing
<1>6. /\ fptr' \in [Processes -> BOOLEAN]
      /\ fptr'[p] = (prog[p] \in UsesProc /\ entry \in {"3_1", "3_2"})
      /\ \A q \in Processes \ {p} : fptr'[q] = fptr[q]
  BY <1>1, <1>2
<1>7. FilesOK(p)'
  <2>1. \A t \in Threads : pc'[p][t] = "none"
    BY <1>1, <1>2, <1>4 DEF PlacesOK, Threads
  <2>2. prog[p] \in UsesProc => (entry # "stale" /\ fptr'[p] = (entry \in Modules)) \/ ~Running(p)'
    BY <1>3, <1>4, <1>6 DEF Modules, Running
  <2> QED
    BY <1>2, <1>3, <1>4, <2>1, <2>2 DEF FilesOK, Threads, Writing, ReadingOut, Running
<1>8. Types'
  BY <1>2, <1>4, <1>6 DEF Base, Types, AnyPlace
<1>9. Still(p) /\ BufTerminated'
  BY <1>2, <1>4, <1>6 DEF Still, Base, BufTerminated
<1> QED
  BY <1>5, <1>7, <1>8, <1>9 DEF Kept

-----------------------------------------------------------------------------
(* Modules come and go while no program runs. *)
LEMMA RootKept ==
  ASSUME Base, Root
  PROVE  Base'
<1>1. /\ Idle /\ UNCHANGED <<matVars, fptr, loc, got, reinit>> /\ buf' = EmptyBuf /\ EntryOwned'
  BY DEF Root, Insmod_3_1, Rmmod_3_1, Insmod_3_2, Rmmod_3_2, remove_proc_entry, proc_create,
         EntryOwned, Modules, Base
<1>2. Types'
  BY <1>1, LengthsAreNats DEF Base, Types, matVars
<1>3. Places'
  BY <1>1 DEF Base, Places, PlacesOK, FilesOK, Idle, Running, ThreadsOf, matVars
<1>4. BufTerminated'
  BY <1>1, LengthsAreNats DEF BufTerminated, EmptyBuf
<1> QED
  BY <1>1, <1>2, <1>3, <1>4 DEF Base

(* Base holds before any module is loaded. *)
LEMMA BaseInit == Init => Base
<1> SUFFICES ASSUME Init PROVE Base
  OBVIOUS
<1>1. /\ prog \in [Processes -> Programs]
      /\ pc = [p \in Processes |-> [t \in 0 .. 2 |-> "none"]]
      /\ turn = [p \in Processes |-> [t \in Threads |-> 0]]
      /\ locked = [p \in Processes |-> FALSE] /\ reinit = [p \in Processes |-> FALSE]
      /\ fptr = [p \in Processes |-> FALSE]
      /\ loc = [p \in Processes |-> [t \in 0 .. 2 |-> Fresh]]
      /\ got = [p \in Processes |-> [t \in 0 .. 2 |-> << >>]]
      /\ buf = EmptyBuf /\ kernel = "none" /\ entry = "none" /\ last = "none"
  BY MatricesAssumption DEF Init, MatInit
<1>2. Fresh \in Locals /\ << >> \in Seq(Cells) /\ "none" \in ThreadPlaces \cup MainPlaces
  BY LengthsAreNats DEF Fresh, Locals, ThreadPlaces
<1>3. Types
  BY <1>1, <1>2, LengthsAreNats DEF Types
<1>4. \A p \in Processes, t \in 0 .. 2 : pc[p][t] = "none"
  BY <1>1
<1>5. Places
  BY <1>4 DEF Places, PlacesOK, FilesOK, Running, Threads, ThreadPlaces, MainPlaces, MainReads,
              ReadingOut, Greetings, Critical, Writing
<1>6. EntryOwned /\ BufTerminated
  BY <1>1 DEF EntryOwned, Modules, BufTerminated
<1> QED
  BY <1>3, <1>5, <1>6 DEF Base

(* Base is inductive. *)
LEMMA BaseNext == Base /\ [Next]_allVars => Base'
<1> SUFFICES ASSUME Base, [Next]_allVars PROVE Base'
  OBVIOUS
<1>1. CASE Root
  BY <1>1, RootKept
<1>2. ASSUME NEW p \in Processes, Start(p) PROVE Base'
  BY <1>2, StartKept, KeptIsEnough
<1>3. ASSUME NEW p \in Processes, MainStep(p) PROVE Base'
  BY <1>3, MainKept, ReadingKept, KeptIsEnough DEF MainStep
<1>4. ASSUME NEW p \in Processes, NEW t \in Threads, ThreadStep(p, t) PROVE Base'
  <2>1. t \in 0 .. 2
    BY DEF Threads
  <2> QED
    BY <1>4, <2>1, MatThreadKept, GreetingKept, ReadingKept, KeptIsEnough DEF ThreadStep
<1>5. CASE UNCHANGED allVars
  BY <1>5 DEF allVars, matVars, procVars, Base, Types, Places, PlacesOK, FilesOK, Running,
              ThreadsOf, EntryOwned, BufTerminated
<1> QED
  BY <1>1, <1>2, <1>3, <1>4, <1>5 DEF Next

-----------------------------------------------------------------------------
(* The texts of 3_2 in the buffer. *)
LEMMA TextLengths ==
  /\ HelloLen \in Nat /\ HelloLen > 0 /\ HelloLen < BUFSIZE /\ HelloLen <= HELLO_LEN
  /\ HelloLen < HELLO_LEN => HelloLen = BUFSIZE - 1
  /\ InfoLen = Min({INFO_LEN, BUFSIZE - HelloLen - 1})
  /\ InfoLen \in Nat /\ HelloLen + InfoLen < BUFSIZE
<1> USE BufferAssumption
<1>1. HelloLen = IF HELLO_LEN <= BUFSIZE - 1 THEN HELLO_LEN ELSE BUFSIZE - 1
  <2>1. HELLO_LEN \in Int /\ BUFSIZE - 1 \in Int
    OBVIOUS
  <2> QED
    BY <2>1, MinOfTwo DEF HelloLen
<1>2. /\ HelloLen \in Nat /\ HelloLen > 0 /\ HelloLen < BUFSIZE /\ HelloLen <= HELLO_LEN
      /\ HelloLen < HELLO_LEN => HelloLen = BUFSIZE - 1
  BY <1>1
<1>3. BUFSIZE - 1 - HelloLen = BUFSIZE - HelloLen - 1
  BY <1>2
<1>4. InfoLen = Min({INFO_LEN, BUFSIZE - HelloLen - 1})
  BY <1>3 DEF InfoLen
<1>5. INFO_LEN \in Nat /\ BUFSIZE - HelloLen - 1 \in Nat
  BY <1>2
<1>6. InfoLen = IF INFO_LEN <= BUFSIZE - HelloLen - 1 THEN INFO_LEN ELSE BUFSIZE - HelloLen - 1
  BY <1>4, <1>5, MinOfTwo
<1> QED
  BY <1>2, <1>4, <1>5, <1>6

(* The texts of 3_2 have no NUL in them. *)
LEMMA TextsAreText ==
  ASSUME NEW p, NEW t
  PROVE  Hello(p, t) # NUL /\ Info(p, t) # NUL
BY DEF Hello, Info, NUL

(* strnlen of a buffer with n bytes before its first NUL. *)
LEMMA StrnlenIs ==
  ASSUME buf \in [0 .. (BUFSIZE - 1) -> Cells], NEW n \in Nat, n < BUFSIZE, buf[n] = NUL,
         \A o \in Nat : o < n => buf[o] # NUL
  PROVE  strnlen = n
<1>1. n \in 0 .. BUFSIZE /\ BUFSIZE \in Nat
  BY BufferAssumption
<1>2. strnlen <= n /\ strnlen \in Nat
  BY <1>1, StrnlenFacts
<1>3. strnlen # BUFSIZE
  BY <1>1, <1>2
<1>4. buf[strnlen] = NUL
  BY <1>3, StrnlenFacts
<1>5. ~(strnlen < n)
  BY <1>2, <1>4
<1> QED
  BY <1>2, <1>5

(* strnlen before and after a greeting is written. *)
LEMMA StrnlenOfTexts ==
  ASSUME Base, NEW p \in Processes, NEW t \in Threads
  PROVE  /\ buf = EmptyBuf => strnlen = 0
         /\ buf = GreetedBuf(p, t) => strnlen = HelloLen + InfoLen
<1> USE BufferAssumption
<1>0. buf \in [0 .. (BUFSIZE - 1) -> Cells]
  BY VariablesOf DEF Base
<1>1. ASSUME buf = EmptyBuf PROVE strnlen = 0
  BY <1>0, <1>1, StrnlenIs DEF EmptyBuf
<1>2. ASSUME buf = GreetedBuf(p, t) PROVE strnlen = HelloLen + InfoLen
  <2> DEFINE n == HelloLen + InfoLen
  <2>1. n \in Nat /\ n < BUFSIZE /\ HelloLen \in Nat
    BY TextLengths
  <2>2. buf[n] = NUL
    BY <1>2, <2>1, TextLengths DEF GreetedBuf
  <2>3. ASSUME NEW o \in Nat, o < n PROVE buf[o] # NUL
    BY <1>2, <2>1, <2>3, TextsAreText DEF GreetedBuf
  <2> HIDE DEF n
  <2> QED
    BY <1>0, <2>1, <2>2, <2>3, StrnlenIs DEF n
<1> QED
  BY <1>1, <1>2

(* What write() and read() make of the buffer. *)
LEMMA TextsWritten ==
  ASSUME NEW p \in Processes, NEW t \in Threads
  PROVE  /\ buf = EmptyBuf =>
              HelloBuf(p, t) = [o \in DOMAIN buf |-> IF o \in 0 .. (0 + HelloLen - 1)
                                                     THEN Hello(p, t) ELSE buf[o]]
         /\ buf = HelloBuf(p, t) =>
              GreetedBuf(p, t) = [o \in DOMAIN buf |->
                  IF o \in HelloLen .. (HelloLen + InfoLen - 1) THEN Info(p, t)
                  ELSE IF o = HelloLen + InfoLen THEN NUL ELSE buf[o]]
         /\ buf = GreetedBuf(p, t) => Bytes(HelloLen + InfoLen) = Greeted(p, t)
<1> USE BufferAssumption, TextLengths
<1>1. ASSUME buf = EmptyBuf
      PROVE  HelloBuf(p, t) = [o \in DOMAIN buf |-> IF o \in 0 .. (0 + HelloLen - 1)
                                                     THEN Hello(p, t) ELSE buf[o]]
  BY <1>1 DEF HelloBuf, EmptyBuf
<1>2. ASSUME buf = HelloBuf(p, t)
      PROVE  GreetedBuf(p, t) = [o \in DOMAIN buf |->
                  IF o \in HelloLen .. (HelloLen + InfoLen - 1) THEN Info(p, t)
                  ELSE IF o = HelloLen + InfoLen THEN NUL ELSE buf[o]]
  BY <1>2 DEF HelloBuf, GreetedBuf
<1>3. ASSUME buf = GreetedBuf(p, t) PROVE Bytes(HelloLen + InfoLen) = Greeted(p, t)
  <2>1. Greeted(p, t) = [o \in 1 .. (HelloLen + InfoLen) |->
                            IF o <= HelloLen THEN Hello(p, t) ELSE Info(p, t)]
    BY DEF Greeted, HelloLen, InfoLen
  <2>2. ASSUME NEW o \in 1 .. (HelloLen + InfoLen)
        PROVE  buf[o - 1] = IF o <= HelloLen THEN Hello(p, t) ELSE Info(p, t)
    BY <1>3 DEF GreetedBuf
  <2> QED
    BY <2>1, <2>2 DEF Bytes
<1> QED
  BY <1>1, <1>2, <1>3

(* A process that is alone is the only one that moves. *)
LEMMA OthersRest ==
  ASSUME Base, NEW p \in Processes, Alone(p), NEW q \in Processes \ {p}
  PROVE  ~Start(q) /\ ~MainStep(q) /\ \A t \in Threads : ~ThreadStep(q, t)
<1>1. prog[q] = "none" /\ PlacesOK(q)
  BY DEF Alone, Base, Places
<1>2. pc[q][0] = "none" /\ \A t \in Threads : pc[q][t] = "none"
  BY <1>1 DEF PlacesOK
<1>3. ~Start(q)
  BY <1>1 DEF Start
<1>4. ASSUME NEW t \in 0 .. 2, pc[q][t] = "none" PROVE ~Reading(q, t)
  BY <1>4 DEF Reading, ReadNull, ReadEnd, MyreadStart_3_1, MyreadNext_3_1, MyreadLine_3_1,
              MyreadNul_3_1, MyreadCopy_3_1,
              MyreadStart_3_2, MyreadCopy_3_2, MyreadClear_3_2, Step
<1>5. ~MainStep(q)
  BY <1>2, <1>4 DEF MainStep, MatMain, Create, Created, Join, Finish, WriteResult
<1>6. ASSUME NEW t \in Threads PROVE ~ThreadStep(q, t)
  <2>1. t \in 0 .. 2
    BY DEF Threads
  <2>2. ~MatThread(q, t)
    BY <1>2 DEF MatThread, Lock, Load, Store, Unlock, Add, ThreadPrint
  <2>3. ~Greeting(q, t)
    BY <1>2 DEF Greeting, SpinInit, SpinLock, Fopen, MywriteNoSpace, MywriteStart, MywriteCopy,
                MywriteInfo, SpinUnlock, Step
  <2> QED
    BY <1>2, <1>4, <2>1, <2>2, <2>3 DEF ThreadStep
<1> QED
  BY <1>3, <1>5, <1>6

-----------------------------------------------------------------------------
(* One thread of 3_2 moves to another place; the other keeps its own.      *)
GreetInv(p) == Exclusion(p) /\ \A t \in Threads : ThreadPhase(p, t)
ThreadTo(p, t, to) ==
  /\ pc'[p][t] = to
  /\ \A u \in Threads \ {t} :
       pc'[p][u] = pc[p][u] /\ loc'[p][u] = loc[p][u] /\ got'[p][u] = got[p][u]
PhaseAt(p, t, to) == Phase(p, t, to, loc'[p][t], got'[p][t], buf')

(* Outside the critical section the phase does not depend on buf. *)
LEMMA OthersOutside ==
  ASSUME NEW p \in Processes, NEW u \in Threads, ~InCritical(p, u), ThreadPhase(p, u),
         pc'[p][u] = pc[p][u], loc'[p][u] = loc[p][u], got'[p][u] = got[p][u]
  PROVE  ThreadPhase(p, u)'
BY DEF ThreadPhase, Phase, InCritical, Critical, Writing, ReadingOut

(* A step inside the critical section. *)
LEMMA StepInside ==
  ASSUME NEW p \in Processes, NEW t \in Threads, GreetInv(p), InCritical(p, t),
         NEW to \in Critical, ThreadTo(p, t, to), PhaseAt(p, t, to), locked'[p] = locked[p]
  PROVE  GreetInv(p)'
<1>1. \A u \in Threads \ {t} : ~InCritical(p, u)
  BY DEF GreetInv, Exclusion
<1>2. \A u \in Threads : InCritical(p, u)' <=> u = t
  BY <1>1 DEF InCritical, ThreadTo
<1>3. Exclusion(p)'
  BY <1>2 DEF GreetInv, Exclusion
<1>4. ThreadPhase(p, t)'
  BY DEF ThreadPhase, PhaseAt, ThreadTo
<1>5. \A u \in Threads \ {t} : ThreadPhase(p, u)'
  BY <1>1, OthersOutside DEF GreetInv, ThreadTo
<1> QED
  BY <1>3, <1>4, <1>5 DEF GreetInv

(* A step outside it. *)
LEMMA StepOutside ==
  ASSUME NEW p \in Processes, NEW t \in Threads, GreetInv(p), ~InCritical(p, t),
         NEW to, to \notin Critical, ThreadTo(p, t, to), PhaseAt(p, t, to),
         locked'[p] = locked[p], buf' = buf
  PROVE  GreetInv(p)'
<1>1. \A u \in Threads : InCritical(p, u)' <=> InCritical(p, u)
  BY DEF InCritical, ThreadTo
<1>2. Exclusion(p)'
  BY <1>1 DEF GreetInv, Exclusion
<1>3. ThreadPhase(p, t)'
  BY DEF ThreadPhase, PhaseAt, ThreadTo
<1>4. \A u \in Threads \ {t} : ThreadPhase(p, u)'
  BY DEF GreetInv, ThreadTo, ThreadPhase
<1> QED
  BY <1>2, <1>3, <1>4 DEF GreetInv

(* The step that enters it with the lock. *)
LEMMA StepIn ==
  ASSUME NEW p \in Processes, NEW t \in Threads, GreetInv(p), ~locked[p],
         NEW to \in Critical, ThreadTo(p, t, to), PhaseAt(p, t, to), locked'[p] = TRUE
  PROVE  GreetInv(p)'
<1>1. \A u \in Threads : ~InCritical(p, u)
  BY DEF GreetInv, Exclusion
<1>2. \A u \in Threads : InCritical(p, u)' <=> u = t
  BY <1>1 DEF InCritical, ThreadTo
<1>3. Exclusion(p)'
  BY <1>2 DEF GreetInv, Exclusion
<1>4. ThreadPhase(p, t)'
  BY DEF ThreadPhase, PhaseAt, ThreadTo
<1>5. \A u \in Threads \ {t} : ThreadPhase(p, u)'
  BY <1>1, OthersOutside DEF GreetInv, ThreadTo
<1> QED
  BY <1>3, <1>4, <1>5 DEF GreetInv

(* The step that leaves it and gives the lock back. *)
LEMMA StepOut ==
  ASSUME NEW p \in Processes, NEW t \in Threads, GreetInv(p), InCritical(p, t),
         NEW to, to \notin Critical, ThreadTo(p, t, to), PhaseAt(p, t, to),
         locked'[p] = FALSE, buf' = EmptyBuf
  PROVE  GreetInv(p)'
<1>1. \A u \in Threads \ {t} : ~InCritical(p, u)
  BY DEF GreetInv, Exclusion
<1>2. \A u \in Threads : ~InCritical(p, u)'
  BY <1>1 DEF InCritical, ThreadTo
<1>3. Exclusion(p)'
  BY <1>2 DEF GreetInv, Exclusion
<1>4. ThreadPhase(p, t)'
  BY DEF ThreadPhase, PhaseAt, ThreadTo
<1>5. \A u \in Threads \ {t} : ThreadPhase(p, u)'
  BY <1>1, OthersOutside DEF GreetInv, ThreadTo
<1> QED
  BY <1>3, <1>4, <1>5 DEF GreetInv

(* What the lemmas about the steps of a thread start from.                 *)
Greets(p) == Sole(p) /\ Running(p) /\ fptr[p] /\ ~reinit[p] /\ GreetInv(p)

(* The types and places behind Greets, as the step lemmas use them. *)
LEMMA GreetsFacts ==
  ASSUME Base, NEW p \in Processes, NEW t \in Threads, Greets(p)
  PROVE  /\ prog[p] \in Greeters /\ entry \in Modules /\ kernel = entry
         /\ pc \in [Processes -> [0 .. 2 -> AnyPlace]]
         /\ loc \in [Processes -> [0 .. 2 -> Locals]] /\ loc[p][t] \in Locals
         /\ got \in [Processes -> [0 .. 2 -> Seq(Cells)]]
         /\ buf \in [0 .. (BUFSIZE - 1) -> Cells]
         /\ locked \in [Processes -> BOOLEAN] /\ reinit \in [Processes -> BOOLEAN]
         /\ t \in 0 .. 2 /\ pc[p][t] \in {"none", "add", "exit"} \cup Greetings
         /\ ThreadPhase(p, t) /\ FilesOK(p) /\ pc[p][0] # "crashed"
<1>1. prog[p] \in Greeters /\ prog[p] \in UsesProc /\ FilesOK(p)
  BY DEF Greets, Sole, Greeters, UsesProc, Base, Places
<1>2. entry \in Modules
  BY <1>1 DEF Greets, FilesOK
<1>3. /\ pc \in [Processes -> [0 .. 2 -> AnyPlace]] /\ kernel = entry /\ t \in 0 .. 2
      /\ ThreadPhase(p, t) /\ pc[p][0] # "crashed"
  BY <1>2 DEF Base, Types, AnyPlace, EntryOwned, Modules, Threads, Greets, GreetInv, Running
<1>4. pc[p][t] \in {"none", "add", "exit"} \cup Greetings
  BY <1>3 DEF ThreadPhase, Phase
<1> QED
  BY <1>1, <1>2, <1>3, <1>4, VariablesOf DEF Base

(* A thread goes on by Goto and changes its own locals and text.           *)
LEMMA GotoThread ==
  ASSUME Base, NEW p \in Processes, NEW t \in Threads, NEW to \in AnyPlace, Goto(p, t, to),
         \A u \in Threads \ {t} : loc'[p][u] = loc[p][u] /\ got'[p][u] = got[p][u]
  PROVE  ThreadTo(p, t, to)
<1>1. pc \in [Processes -> [0 .. 2 -> AnyPlace]] /\ t \in 0 .. 2 /\ Threads \subseteq 0 .. 2
  BY DEF Base, Types, AnyPlace, Threads
<1> QED
  BY <1>1, GotoFacts DEF ThreadTo

(* A thread of 3_2 that still computes. *)
LEMMA AddGreets ==
  ASSUME Base, NEW p \in Processes, NEW t \in Threads, Greets(p), MatThread(p, t),
         UNCHANGED procVars
  PROVE  GreetInv(p)'
<1>1. pc[p][t] = "add" /\ Add(p, t)
  <2>1. pc[p][t] \in {"none", "add", "exit"} \cup Greetings
    BY GreetsFacts
  <2>2. pc[p][t] \notin {"lock", "load", "store", "unlock", "print"}
    BY <2>1 DEF Greetings, Critical, Writing, ReadingOut
  <2> QED
    BY <2>2 DEF MatThread, Lock, Load, Store, Unlock, Add, ThreadPrint
<1> DEFINE to == AfterTurns(p, t, turn[p][t] + 1)
<1>2. /\ Goto(p, t, to) /\ UNCHANGED <<locked, buf, loc, got>> /\ turn[p][t] + 1 \in Nat
      /\ prog[p] \in Programs \ {"none"} /\ prog[p] \in Greeters
  <2>1. turn \in [Processes -> [Threads -> Nat]]
    BY VariablesOf DEF Base
  <2>2. prog[p] \in Programs \ {"none"} /\ prog[p] \in Greeters
    BY GreetsFacts DEF Greeters, Programs, UsesProc, OneThread
  <2> QED
    BY <1>1, <2>1, <2>2 DEF Add, NextTurn, procVars
<1>3. to \in {"add", "spin_init"}
  BY <1>2, AfterTurnsFacts
<1>4. PhaseAt(p, t, to)
  BY <1>1, <1>2, <1>3, GreetsFacts
     DEF PhaseAt, ThreadPhase, Phase, Greetings, Critical, Writing, ReadingOut
<1>5. to \in AnyPlace /\ to \notin Critical /\ ~InCritical(p, t)
  BY <1>1, <1>3
     DEF AnyPlace, ThreadPlaces, Computing, Greetings, Critical, Writing, ReadingOut, InCritical
<1> HIDE DEF to
<1>6. ThreadTo(p, t, to)
  BY <1>2, <1>5, GotoThread
<1> QED
  BY <1>2, <1>4, <1>5, <1>6, StepOutside DEF Greets

(* The steps of the greeting, from the lock to the unlock. *)
LEMMA GreetingGreets ==
  ASSUME Base, NEW p \in Processes, NEW t \in Threads, Greets(p), Greeting(p, t), ~reinit'[p]
  PROVE  GreetInv(p)'
<1> DEFINE l == loc[p][t]
           k == loc'[p][t]
<1>0. /\ entry \in Modules /\ kernel = entry
      /\ loc \in [Processes -> [0 .. 2 -> Locals]] /\ l \in Locals
      /\ got \in [Processes -> [0 .. 2 -> Seq(Cells)]]
      /\ locked \in [Processes -> BOOLEAN] /\ reinit \in [Processes -> BOOLEAN]
      /\ t \in 0 .. 2 /\ t # 0 /\ ThreadPhase(p, t) /\ GreetInv(p) /\ ~reinit[p]
      /\ \A u \in Threads \ {t} : u \in 0 .. 2 /\ u # t
  BY GreetsFacts DEF Threads, Greets
<1>1. ASSUME NEW from, NEW to \in Greetings \cup {"exit"}, Step(p, t, from, to),
             \A u \in Threads \ {t} : loc'[p][u] = loc[p][u], got' = got
      PROVE  ThreadTo(p, t, to) /\ pc[p][t] = from
  <2>1. to \in AnyPlace
    BY DEF AnyPlace, ThreadPlaces
  <2>2. Goto(p, t, to) /\ pc[p][t] = from
    BY <1>1 DEF Step
  <2> QED
    BY <1>1, <2>1, <2>2, GotoThread
<1>2. CASE SpinInit(p, t)
  <2>1. /\ ~locked[p] /\ locked'[p] = locked[p] /\ UNCHANGED <<loc, got, buf>>
    BY <1>0, <1>2 DEF SpinInit
  <2>2. ThreadTo(p, t, "spin_lock") /\ pc[p][t] = "spin_init"
    BY <1>1, <1>2, <2>1 DEF SpinInit, Greetings
  <2>3. PhaseAt(p, t, "spin_lock")
    BY <1>0, <2>1, <2>2
       DEF PhaseAt, ThreadPhase, Phase, Greetings, Critical, Writing, ReadingOut
  <2> QED
    BY <1>0, <2>1, <2>2, <2>3, StepOutside DEF InCritical, Critical, Writing, ReadingOut
<1>3. CASE SpinLock(p, t)
  <2>1. /\ ~locked[p] /\ locked'[p] = TRUE /\ UNCHANGED <<loc, got, buf>>
    BY <1>0, <1>3 DEF SpinLock
  <2>2. ThreadTo(p, t, "fopen") /\ pc[p][t] = "spin_lock"
    BY <1>1, <1>3, <2>1 DEF SpinLock, Greetings, Critical
  <2>3. PhaseAt(p, t, "fopen")
    BY <1>0, <2>1, <2>2
       DEF PhaseAt, ThreadPhase, Phase, Greetings, Critical, Writing, ReadingOut, GreetInv, Exclusion
  <2> QED
    BY <1>0, <2>1, <2>2, <2>3, StepIn DEF Critical
<1>4. CASE Fopen(p, t)
  <2>1. /\ entry # "none" /\ UNCHANGED <<locked, got, buf>>
        /\ k.left = HELLO_LEN /\ k.off = l.off
        /\ \A u \in Threads \ {t} : loc'[p][u] = loc[p][u]
    BY <1>0, <1>4 DEF Fopen, Modules, Locals
  <2>2. ThreadTo(p, t, "write") /\ pc[p][t] = "fopen"
    BY <1>1, <1>4, <2>1 DEF Fopen, Greetings, Critical
  <2>3. PhaseAt(p, t, "write")
    BY <1>0, <2>1, <2>2
       DEF PhaseAt, ThreadPhase, Phase, Greetings, Critical, Writing, ReadingOut
  <2> QED
    BY <1>0, <2>1, <2>2, <2>3, StepInside DEF InCritical, Critical
(* How much of the greeting fits. *)
<1>10. /\ CopyLen(p, t) = Min({l.left, BUFSIZE - strnlen - 1})
       /\ buf = EmptyBuf /\ l.left = HELLO_LEN =>
            strnlen = 0 /\ strnlen < BUFSIZE /\ CopyLen(p, t) = HelloLen
       /\ buf = GreetedBuf(p, t) /\ HelloLen = BUFSIZE - 1 =>
            strnlen = BUFSIZE - 1 /\ CopyLen(p, t) = 0
  <2>1. CopyLen(p, t) = Min({l.left, BUFSIZE - strnlen - 1})
    BY DEF CopyLen
  <2>2. ASSUME buf = EmptyBuf, l.left = HELLO_LEN
        PROVE  strnlen = 0 /\ strnlen < BUFSIZE /\ CopyLen(p, t) = HelloLen
    <3>1. strnlen = 0 /\ BUFSIZE - strnlen - 1 = BUFSIZE - 1 /\ strnlen < BUFSIZE
      BY <2>2, StrnlenOfTexts, BufferAssumption
    <3> QED
      BY <2>1, <2>2, <3>1 DEF HelloLen
  <2>3. ASSUME buf = GreetedBuf(p, t), HelloLen = BUFSIZE - 1
        PROVE  strnlen = BUFSIZE - 1 /\ CopyLen(p, t) = 0
    <3>1. strnlen = BUFSIZE - 1
      BY <2>3, StrnlenOfTexts, TextLengths, BufferAssumption
    <3>2. BUFSIZE - strnlen - 1 = 0 /\ l.left \in Nat
      BY <1>0, <3>1, LocalsFacts, BufferAssumption
    <3>3. Min({l.left, 0}) = 0
      <4> HIDE DEF l
      <4>1. l.left \in Int /\ 0 \in Int /\ (l.left <= 0 => l.left = 0)
        BY <3>2
      <4> QED
        BY <4>1, MinOfTwo
    <3> QED
      BY <2>1, <3>1, <3>2, <3>3
  <2> QED
    BY <2>1, <2>2, <2>3
<1>5. CASE MywriteNoSpace(p, t)
  <2>1. /\ UNCHANGED <<locked, loc, got, buf>>
        /\ strnlen = BUFSIZE \/ CopyLen(p, t) = 0
    BY <1>5 DEF MywriteNoSpace
  <2>2. ThreadTo(p, t, "read") /\ pc[p][t] = "write"
    BY <1>1, <1>5, <2>1 DEF MywriteNoSpace, Greetings, Critical
  <2>3. ~(buf = EmptyBuf /\ l.left = HELLO_LEN)
    BY <1>10, <2>1, TextLengths
  <2>4. PhaseAt(p, t, "read")
    BY <1>0, <2>1, <2>2, <2>3
       DEF PhaseAt, ThreadPhase, Phase, Greetings, Critical, Writing, ReadingOut
  <2> QED
    BY <1>0, <2>1, <2>2, <2>4, StepInside DEF InCritical, Critical
<1>6. CASE MywriteStart(p, t)
  <2>1. /\ UNCHANGED <<locked, got, buf>> /\ CopyLen(p, t) > 0
        /\ \A u \in Threads \ {t} : loc'[p][u] = loc[p][u]
    BY <1>0, <1>6 DEF MywriteStart
  <2>2. ThreadTo(p, t, "copy_from_user") /\ pc[p][t] = "write"
    BY <1>1, <1>6, <2>1 DEF MywriteStart, Greetings, Critical, Writing
  <2>3. buf = EmptyBuf /\ l.left = HELLO_LEN /\ l.off = 0
    <3>1. CopyLen(p, t) # 0
      BY <2>1
    <3> QED
      BY <1>0, <1>10, <2>2, <3>1 DEF ThreadPhase, Phase
  <2>4. k = [l EXCEPT !.len = strnlen, !.n = CopyLen(p, t)]
    BY <1>0, <1>6 DEF MywriteStart
  <2>5. k = [off |-> l.off, len |-> strnlen, n |-> CopyLen(p, t), left |-> l.left]
    BY <1>0, <2>4, LocalsWithLength
  <2>6. k.off = 0 /\ k.len = 0 /\ k.n = HelloLen /\ k.left = HELLO_LEN
    BY <1>10, <2>3, <2>5
  <2>7. PhaseAt(p, t, "copy_from_user")
    BY <2>1, <2>3, <2>6 DEF PhaseAt, Phase, Greetings, Critical, Writing, ReadingOut
  <2> QED
    BY <1>0, <2>1, <2>2, <2>7, StepInside DEF InCritical, Critical, Writing
<1>7. CASE MywriteCopy(p, t)
  <2>1. UNCHANGED <<locked, loc, got>>
    BY <1>7 DEF MywriteCopy
  <2>2. ThreadTo(p, t, "scnprintf") /\ pc[p][t] = "copy_from_user"
    BY <1>1, <1>7, <2>1 DEF MywriteCopy, Greetings, Critical, Writing
  <2>3. /\ l.off = 0 /\ l.len = 0 /\ l.n = HelloLen /\ l.left = HELLO_LEN /\ buf = EmptyBuf
    BY <1>0, <2>2 DEF ThreadPhase, Phase, Writing
  <2>4. buf' = [o \in DOMAIN buf |-> IF o \in 0 .. (0 + HelloLen - 1) THEN Hello(p, t) ELSE buf[o]]
    BY <1>7, <2>3 DEF MywriteCopy
  <2>5. buf' = HelloBuf(p, t)
    BY <2>3, <2>4, TextsWritten
  <2>6. PhaseAt(p, t, "scnprintf")
    BY <2>1, <2>3, <2>5 DEF PhaseAt, Phase, Greetings, Critical, Writing, ReadingOut
  <2> QED
    BY <1>0, <2>1, <2>2, <2>6, StepInside DEF InCritical, Critical, Writing
<1>8. CASE MywriteInfo(p, t)
  <2> DEFINE to == IF l.left > l.n THEN "write" ELSE "read"
  <2>1. /\ UNCHANGED <<locked, got>>
        /\ \A u \in Threads \ {t} : loc'[p][u] = loc[p][u]
    BY <1>0, <1>8 DEF MywriteInfo
  <2>2. to \in Greetings /\ to \in Critical
    BY DEF Greetings, Critical
  <2>3. ThreadTo(p, t, to) /\ pc[p][t] = "scnprintf"
    BY <1>1, <1>8, <2>1, <2>2 DEF MywriteInfo
  <2>4. /\ l.off = 0 /\ l.len = 0 /\ l.n = HelloLen /\ l.left = HELLO_LEN
        /\ buf = HelloBuf(p, t)
    BY <1>0, <2>3 DEF ThreadPhase, Phase, Writing
  <2>5. buf' = GreetedBuf(p, t)
    <3> DEFINE at == l.len + l.n
               n == Min({INFO_LEN, BUFSIZE - at - 1})
    <3>1. at = HelloLen
      BY <2>4, TextLengths
    <3>2. n = InfoLen
      BY <3>1, TextLengths
    <3>3. buf' = [o \in DOMAIN buf |-> IF o \in at .. (at + n - 1) THEN Info(p, t)
                                      ELSE IF o = at + n THEN NUL ELSE buf[o]]
      BY <1>8 DEF MywriteInfo
    <3> HIDE DEF at, n
    <3>4. buf' = [o \in DOMAIN buf |->
                    IF o \in HelloLen .. (HelloLen + InfoLen - 1) THEN Info(p, t)
                    ELSE IF o = HelloLen + InfoLen THEN NUL ELSE buf[o]]
      BY <3>1, <3>2, <3>3
    <3> QED
      BY <2>4, <3>4, TextsWritten
  <2>6. k.off = 0
    BY <1>0, <1>8, <2>4 DEF MywriteInfo, Locals
  <2>7. to = "write" => HelloLen = BUFSIZE - 1
    BY <2>4, TextLengths, BufferAssumption
  <2>8. PhaseAt(p, t, to)
    BY <2>2, <2>5, <2>6, <2>7 DEF PhaseAt, Phase, Greetings, Critical, Writing, ReadingOut
  <2> HIDE DEF to
  <2> QED
    BY <1>0, <2>1, <2>2, <2>3, <2>8, StepInside DEF InCritical, Critical, Writing
<1>9. CASE SpinUnlock(p, t)
  <2>1. /\ UNCHANGED <<loc, got, buf>> /\ locked'[p] = FALSE /\ pc[p][t] = "spin_unlock"
    BY <1>0, <1>9 DEF SpinUnlock, Step
  <2>2. ThreadTo(p, t, "exit")
    <3>1. CASE prog[p] = "3_2_one"
      <4>1. /\ pc' = [pc EXCEPT ![p][t] = "exit", ![p][0] = "done"]
            /\ pc \in [Processes -> [0 .. 2 -> AnyPlace]]
        BY <1>9, <3>1, GreetsFacts DEF SpinUnlock
      <4> QED
        BY <1>0, <2>1, <4>1 DEF ThreadTo
    <3>2. CASE prog[p] # "3_2_one"
      BY <1>1, <1>9, <2>1, <3>2 DEF SpinUnlock
    <3> QED
      BY <3>1, <3>2
  <2>3. buf = EmptyBuf /\ got[p][t] = Greeted(p, t)
    BY <1>0, <2>1 DEF ThreadPhase, Phase
  <2>4. PhaseAt(p, t, "exit")
    BY <2>1, <2>3 DEF PhaseAt, Phase, Greetings, Critical, Writing, ReadingOut
  <2> QED
    BY <1>0, <2>1, <2>2, <2>3, <2>4, StepOut DEF InCritical, Critical, Writing, ReadingOut
<1> QED
  BY <1>2, <1>3, <1>4, <1>5, <1>6, <1>7, <1>8, <1>9 DEF Greeting

(* The steps of the thread's fgets, which reads and clears the buffer. *)
LEMMA ReadingGreets ==
  ASSUME Base, NEW p \in Processes, NEW t \in Threads, Greets(p), Reading(p, t)
  PROVE  GreetInv(p)'
<1> DEFINE l == loc[p][t]
           k == loc'[p][t]
<1>0. /\ loc \in [Processes -> [0 .. 2 -> Locals]] /\ l \in Locals
      /\ got \in [Processes -> [0 .. 2 -> Seq(Cells)]]
      /\ t \in 0 .. 2 /\ t # 0 /\ ThreadPhase(p, t) /\ GreetInv(p) /\ fptr[p]
      /\ \A u \in Threads \ {t} : u \in 0 .. 2 /\ u # t
      /\ EndOfLoop(t) = "spin_unlock"
      /\ pc[p][t] \notin {"for_each_thread", "sprintf", "terminate"}
      /\ pc[p][t] = "read" => entry # "3_1"
  <2>1. pc[p][t] \in {"none", "add", "exit"} \cup Greetings /\ FilesOK(p) /\ Running(p) /\ fptr[p]
    BY GreetsFacts DEF Greets
  <2>2. pc[p][t] \notin {"for_each_thread", "sprintf", "terminate"}
    BY <2>1 DEF Greetings, Critical, Writing, ReadingOut
  <2>3. pc[p][t] = "read" => entry # "3_1"
    BY <2>1 DEF FilesOK
  <2>4. t # 0 /\ \A u \in Threads \ {t} : u \in 0 .. 2 /\ u # t
    BY DEF Threads
  <2> QED
    BY <2>1, <2>2, <2>3, <2>4, GreetsFacts DEF Greets, EndOfLoop
<1>1. ASSUME NEW from, NEW to \in Critical, Step(p, t, from, to),
             \A u \in Threads \ {t} : loc'[p][u] = loc[p][u] /\ got'[p][u] = got[p][u]
      PROVE  ThreadTo(p, t, to) /\ pc[p][t] = from
  <2>1. to \in AnyPlace
    BY DEF AnyPlace, ThreadPlaces, Greetings
  <2>2. Goto(p, t, to) /\ pc[p][t] = from
    BY <1>1 DEF Step
  <2> QED
    BY <1>1, <2>1, <2>2, GotoThread
<1>2. CASE ReadEnd(p, t)
  <2>1. UNCHANGED <<locked, loc, got, buf>> /\ l.off > 0
    BY <1>2 DEF ReadEnd
  <2>2. ThreadTo(p, t, "spin_unlock") /\ pc[p][t] = "read"
    BY <1>0, <1>1, <1>2, <2>1 DEF ReadEnd, Critical
  <2>3. buf = EmptyBuf /\ got[p][t] = Greeted(p, t)
    <3>1. l.off # 0
      BY <2>1
    <3> QED
      BY <1>0, <2>2, <3>1 DEF ThreadPhase, Phase
  <2>4. PhaseAt(p, t, "spin_unlock")
    BY <2>1, <2>3 DEF PhaseAt, Phase, Greetings, Critical, Writing, ReadingOut
  <2> QED
    BY <1>0, <2>1, <2>2, <2>4, StepInside DEF InCritical, Critical
<1>3. CASE MyreadStart_3_2(p, t)
  <2>1. /\ UNCHANGED <<locked, got, buf>> /\ l.off = 0
        /\ \A u \in Threads \ {t} : loc'[p][u] = loc[p][u]
        /\ k.off = l.off /\ k.len = strnlen
    BY <1>0, <1>3 DEF MyreadStart_3_2, Locals
  <2>2. ThreadTo(p, t, "copy_to_user") /\ pc[p][t] = "read"
    BY <1>1, <1>3, <2>1 DEF MyreadStart_3_2, Critical, ReadingOut
  <2>3. buf = GreetedBuf(p, t)
    BY <1>0, <2>1, <2>2 DEF ThreadPhase, Phase
  <2>4. k.len = HelloLen + InfoLen /\ k.off = 0
    BY <2>1, <2>3, StrnlenOfTexts
  <2>5. PhaseAt(p, t, "copy_to_user")
    BY <2>1, <2>3, <2>4 DEF PhaseAt, Phase, Greetings, Critical, Writing, ReadingOut
  <2> QED
    BY <1>0, <2>1, <2>2, <2>5, StepInside DEF InCritical, Critical, ReadingOut
<1>4. CASE MyreadCopy_3_2(p, t)
  <2>1. /\ UNCHANGED <<locked, loc, buf>> /\ got'[p][t] = Bytes(l.len)
        /\ \A u \in Threads \ {t} : got'[p][u] = got[p][u]
    BY <1>0, <1>4 DEF MyreadCopy_3_2
  <2>2. ThreadTo(p, t, "memset") /\ pc[p][t] = "copy_to_user"
    BY <1>1, <1>4, <2>1 DEF MyreadCopy_3_2, Critical, ReadingOut
  <2>3. l.off = 0 /\ l.len = HelloLen + InfoLen /\ buf = GreetedBuf(p, t)
    BY <1>0, <2>2 DEF ThreadPhase, Phase, ReadingOut
  <2>4. got'[p][t] = Greeted(p, t)
    BY <2>1, <2>3, TextsWritten
  <2>5. PhaseAt(p, t, "memset")
    BY <2>1, <2>3, <2>4 DEF PhaseAt, Phase, Greetings, Critical, Writing, ReadingOut
  <2> QED
    BY <1>0, <2>1, <2>2, <2>5, StepInside DEF InCritical, Critical, ReadingOut
<1>5. CASE MyreadClear_3_2(p, t)
  <2>1. /\ UNCHANGED <<locked, got>> /\ buf' = EmptyBuf /\ k.off = l.len
        /\ \A u \in Threads \ {t} : loc'[p][u] = loc[p][u]
        /\ pc[p][t] = "memset"
    BY <1>0, <1>5 DEF MyreadClear_3_2, Locals, Step
  <2>2. l.len = HelloLen + InfoLen /\ got[p][t] = Greeted(p, t)
    BY <1>0, <2>1 DEF ThreadPhase, Phase, ReadingOut
  <2>3. l.len > 0 /\ l.len # 0
    BY <2>2, TextLengths
  <2>4. ThreadTo(p, t, "read")
    BY <1>1, <1>5, <2>1, <2>3 DEF MyreadClear_3_2, Critical
  <2>5. PhaseAt(p, t, "read")
    BY <2>1, <2>2, <2>3 DEF PhaseAt, Phase, Greetings, Critical, Writing, ReadingOut
  <2> QED
    BY <1>0, <2>1, <2>4, <2>5, StepInside DEF InCritical, Critical, ReadingOut
<1>6. ~ReadNull(p, t)
  BY <1>0 DEF ReadNull
<1>7. /\ ~MyreadStart_3_1(p, t) /\ ~MyreadNext_3_1(p, t) /\ ~MyreadLine_3_1(p, t)
      /\ ~MyreadNul_3_1(p, t) /\ ~MyreadCopy_3_1(p, t)
  BY <1>0 DEF MyreadStart_3_1, MyreadNext_3_1, MyreadLine_3_1, MyreadNul_3_1, MyreadCopy_3_1, Step
<1> QED
  BY <1>2, <1>3, <1>4, <1>5, <1>6, <1>7 DEF Reading

-----------------------------------------------------------------------------
(* What every step of a program that runs has in common.                   *)
RunStep(p) ==
  /\ Running(p) /\ pc'[p][0] # "none"
  /\ UNCHANGED <<prog, fptr, entry, kernel>> /\ (reinit[p] => reinit'[p])

(* No step takes main back to the place before its start. *)
LEMMA GotoRuns ==
  ASSUME Base, NEW p \in Processes, NEW t \in 0 .. 2, NEW to, to # "none", pc[p][0] # "none",
         Goto(p, t, to)
  PROVE  pc'[p][0] # "none"
<1>1. pc \in [Processes -> [0 .. 2 -> AnyPlace]] /\ 0 \in 0 .. 2
  BY DEF Base, Types, AnyPlace
<1> QED
  BY <1>1 DEF Goto

(* A step of fgets comes from a place of a reader and keeps the rest. *)
LEMMA ReadingRuns ==
  ASSUME Base, NEW p \in Processes, NEW t \in 0 .. 2, pc[p][0] # "none", Reading(p, t)
  PROVE  /\ pc[p][t] \in MainReads /\ pc'[p][0] # "none"
         /\ UNCHANGED <<prog, fptr, entry, kernel, reinit>>
<1>1. PICK from, to : from \in MainReads /\ Step(p, t, from, to) /\ to # "none" /\ reinit' = reinit
  BY DEF Reading, ReadNull, ReadEnd, MyreadStart_3_1, MyreadNext_3_1, MyreadLine_3_1,
         MyreadNul_3_1, MyreadCopy_3_1,
         MyreadStart_3_2, MyreadCopy_3_2, MyreadClear_3_2, EndOfLoop, MainReads, ReadingOut
<1> QED
  BY <1>1, GotoRuns DEF Step

(* Every step of a thread. *)
LEMMA ThreadStepRuns ==
  ASSUME Base, NEW p \in Processes, NEW t \in Threads, ThreadStep(p, t)
  PROVE  RunStep(p)
<1>0. /\ pc \in [Processes -> [0 .. 2 -> AnyPlace]] /\ PlacesOK(p) /\ t \in 0 .. 2 /\ t # 0
      /\ reinit \in [Processes -> BOOLEAN] /\ turn \in [Processes -> [Threads -> Nat]]
  BY VariablesOf DEF Base, Types, AnyPlace, Places, Threads
<1>1. pc[p][t] \notin {"none", "exit"}
  BY DEF ThreadStep, MatThread, Lock, Load, Store, Unlock, Add, ThreadPrint, Greeting, SpinInit,
         SpinLock, Fopen, MywriteNoSpace, MywriteStart, MywriteCopy, MywriteInfo, SpinUnlock,
         Step, Reading, ReadNull, ReadEnd, MyreadStart_3_1, MyreadNext_3_1, MyreadLine_3_1,
         MyreadNul_3_1, MyreadCopy_3_1,
         MyreadStart_3_2, MyreadCopy_3_2, MyreadClear_3_2
<1>2. Running(p) /\ prog[p] \in Programs \ {"none"} /\ pc[p][0] # "none"
  BY <1>1, ThreadRuns DEF ThreadStep, Running
<1>3. CASE MatThread(p, t) /\ UNCHANGED procVars
  <2>1. PICK to : Goto(p, t, to) /\ to # "none" /\ prog' = prog
    <3>1. AfterTurns(p, t, turn[p][t] + 1) # "none"
      <4>1. turn[p][t] + 1 \in Nat
        BY <1>0
      <4>2. AfterTurns(p, t, turn[p][t] + 1) \in {"lock", "add", "print", "spin_init", "exit"}
        BY <1>2, <4>1, AfterTurnsFacts
      <4> QED
        BY <4>2
    <3> QED
      BY <1>3, <3>1 DEF MatThread, Lock, Load, Store, Unlock, Add, ThreadPrint, NextTurn
  <2> QED
    BY <1>0, <1>2, <1>3, <2>1, GotoRuns DEF RunStep, procVars
<1>4. CASE Greeting(p, t)
  <2>1. CASE SpinUnlock(p, t) /\ prog[p] = "3_2_one"
    BY <1>0, <1>2, <2>1 DEF SpinUnlock, RunStep
  <2>2. CASE SpinInit(p, t)
    <3>1. Goto(p, t, "spin_lock") /\ UNCHANGED <<prog, fptr, entry, kernel>>
      BY <2>2 DEF SpinInit, Step
    <3>2. reinit[p] => reinit'[p]
      BY <1>0, <2>2 DEF SpinInit
    <3> QED
      BY <1>0, <1>2, <3>1, <3>2, GotoRuns DEF RunStep
  <2>3. CASE ~(SpinUnlock(p, t) /\ prog[p] = "3_2_one") /\ ~SpinInit(p, t)
    <3>1. PICK from, to : Step(p, t, from, to) /\ to # "none" /\ reinit' = reinit
      BY <1>4, <2>3
         DEF Greeting, SpinLock, Fopen, MywriteNoSpace, MywriteStart, MywriteCopy, MywriteInfo,
             SpinUnlock
    <3> QED
      BY <1>0, <1>2, <3>1, GotoRuns DEF Step, RunStep
  <2> QED
    BY <2>1, <2>2, <2>3
<1>5. CASE Reading(p, t)
  BY <1>0, <1>2, <1>5, ReadingRuns DEF RunStep
<1> QED
  BY <1>3, <1>4, <1>5 DEF ThreadStep

(* Every step of main. *)
LEMMA MainStepRuns ==
  ASSUME Base, NEW p \in Processes, MainStep(p)
  PROVE  RunStep(p)
<1>0. pc \in [Processes -> [0 .. 2 -> AnyPlace]] /\ PlacesOK(p) /\ 0 \in 0 .. 2
  BY DEF Base, Types, AnyPlace, Places
<1>1. CASE Reading(p, 0)
  <2>1. pc[p][0] # "none"
    BY <1>1 DEF Reading, ReadNull, ReadEnd, MyreadStart_3_1, MyreadNext_3_1, MyreadLine_3_1,
                MyreadNul_3_1, MyreadCopy_3_1,
                MyreadStart_3_2, MyreadCopy_3_2, MyreadClear_3_2, Step
  <2> QED
    BY <1>0, <1>1, <2>1, ReadingRuns DEF RunStep, Running, MainReads, ReadingOut
<1>2. CASE (MatMain(p) \/ Finish(p)) /\ UNCHANGED procVars
  <2>1. /\ UNCHANGED <<prog, fptr, entry, kernel, reinit>>
        /\ pc[p][0] \in {"create", "join", "print"}
    BY <1>2 DEF MatMain, Create, Created, Join, Finish, WriteResult, procVars
  <2>2. CASE Create(p)
    <3>1. Min(NotCreated(p)) \in NotCreated(p)
      <4>1. NotCreated(p) \in SUBSET Nat /\ NotCreated(p) # {}
        BY <2>2 DEF Create, NotCreated, ThreadsOf, Threads
      <4> QED
        BY <4>1, FirstOf
    <3> DEFINE t == Min(NotCreated(p))
    <3>2. t \in 0 .. 2 /\ t # 0
      BY <3>1 DEF NotCreated, ThreadsOf, Threads
    <3> QED
      BY <1>0, <2>1, <2>2, <3>2 DEF Create, Goto, RunStep, Running
  <2>3. CASE ~Create(p)
    <3>1. PICK to \in {"read", "join", "print", "done", "crashed"} : Goto(p, 0, to)
      BY <1>2, <2>3 DEF MatMain, Created, Join, Finish, WriteResult
    <3> QED
      BY <1>0, <2>1, <3>1, GotoRuns DEF RunStep, Running
  <2> QED
    BY <2>2, <2>3
<1> QED
  BY <1>1, <1>2 DEF MainStep

-----------------------------------------------------------------------------
(* main of 3_2 and the lock. *)
LEMMA MainGreets ==
  ASSUME Base, NEW p \in Processes, Greets(p), MatMain(p) \/ Finish(p), UNCHANGED procVars
  PROVE  GreetInv(p)'
<1> USE DEF procVars
<1>0. /\ pc \in [Processes -> [0 .. 2 -> AnyPlace]] /\ 0 \in 0 .. 2 /\ GreetInv(p)
      /\ Threads \subseteq 0 .. 2 /\ 0 \notin Threads
      /\ prog[p] \in Programs \ {"none"} /\ prog[p] \in Greeters
  BY DEF Base, Types, AnyPlace, Greets, Sole, Threads, Greeters, Programs, UsesProc, OneThread
<1>1. CASE Create(p)
  <2>1. NotCreated(p) \in SUBSET Nat /\ NotCreated(p) # {}
    BY <1>1 DEF Create, NotCreated, ThreadsOf, Threads
  <2>2. PICK t : t = Min(NotCreated(p)) /\ t \in NotCreated(p)
    BY <2>1, FirstOf
  <2> DEFINE to == AfterTurns(p, t, 0)
  <2>3. /\ t \in Threads /\ pc[p][t] = "none" /\ Goto(p, t, to) /\ UNCHANGED locked
    BY <1>1, <2>2 DEF Create, NotCreated, ThreadsOf, Threads, OneThread
  <2>4. to \in {"add", "spin_init"}
    BY <1>0, <2>3, AfterTurnsFacts
  <2>5. PhaseAt(p, t, to)
    BY <1>0, <2>3, <2>4
       DEF GreetInv, PhaseAt, ThreadPhase, Phase, Greetings, Critical, Writing, ReadingOut
  <2>6. to \in AnyPlace /\ to \notin Critical /\ ~InCritical(p, t)
    BY <2>3, <2>4
       DEF AnyPlace, ThreadPlaces, Computing, Greetings, Critical, Writing, ReadingOut, InCritical
  <2> HIDE DEF to
  <2>7. ThreadTo(p, t, to)
    BY <2>3, <2>6, GotoThread
  <2> QED
    BY <1>0, <2>3, <2>5, <2>6, <2>7, StepOutside
<1>2. CASE Created(p) \/ Join(p) \/ Finish(p)
  <2>1. PICK to : Goto(p, 0, to) /\ UNCHANGED locked
    BY <1>2 DEF Created, Join, Finish, WriteResult
  <2>2. \A t \in Threads : pc'[p][t] = pc[p][t]
    BY <1>0, <2>1 DEF Goto
  <2> QED
    BY <1>0, <2>1, <2>2 DEF GreetInv, Exclusion, InCritical, ThreadPhase
<1> QED
  BY <1>1, <1>2 DEF MatMain

(* A program of 3_2 starts with an empty buffer and a free lock. *)
LEMMA StartGreets ==
  ASSUME Base, NEW p \in Processes, Start(p), Untouched(p)
  PROVE  GreetInv(p)' /\ GreetedAll(p)'
<1>1. /\ pc \in [Processes -> [0 .. 2 -> AnyPlace]] /\ 0 \in 0 .. 2
      /\ \A t \in Threads : pc[p][t] = "none" /\ t \in 0 .. 2 /\ t # 0
      /\ UNCHANGED <<locked, buf, loc, got>>
  BY DEF Base, Types, AnyPlace, Places, PlacesOK, Start, Threads
<1>2. \A t \in Threads : pc'[p][t] = "none"
  BY <1>1 DEF Start, Goto
<1>3. \A t \in Threads : ThreadPhase(p, t)'
  BY <1>1, <1>2
     DEF Untouched, ThreadPhase, Phase, Greetings, Critical, Writing, ReadingOut
<1>4. Exclusion(p)'
  BY <1>1, <1>2 DEF Untouched, Exclusion, InCritical, Critical, Writing, ReadingOut
<1>5. GreetedAll(p)'
  BY <1>2 DEF GreetedAll
<1> QED
  BY <1>3, <1>4, <1>5 DEF GreetInv

(* A thread that has ended in its phase has read its greeting. *)
LEMMA GreetInvGreeted ==
  ASSUME NEW p \in Processes, GreetInv(p)'
  PROVE  GreetedAll(p)'
BY DEF GreetInv, ThreadPhase, Phase, GreetedAll

(* GreetsOK is kept by every step. *)
LEMMA GreetsNext ==
  ASSUME Base, [Next]_allVars, NEW p \in Processes, GreetsOK(p)
  PROVE  GreetsOK(p)'
<1> SUFFICES ASSUME Sole(p)'
             PROVE  /\ pc'[p][0] = "none" => Untouched(p)'
                    /\ Running(p)' /\ fptr'[p] /\ ~reinit'[p] => GreetInv(p)'
                    /\ fptr'[p] /\ ~reinit'[p] => GreetedAll(p)'
  BY DEF GreetsOK, GreetInv
<1>0. prog' = prog /\ Sole(p) /\ PlacesOK(p) /\ prog[p] \in Greeters
  <2>1. prog' = prog
    <3>1. CASE Root
      BY <3>1 DEF Root, Insmod_3_1, Rmmod_3_1, Insmod_3_2, Rmmod_3_2, matVars
    <3>2. CASE UNCHANGED allVars
      BY <3>2 DEF allVars, matVars
    <3>3. ASSUME NEW q \in Processes, Start(q) PROVE prog' = prog
      BY <3>3 DEF Start
    <3> QED
      BY <3>1, <3>2, <3>3, ThreadStepRuns, MainStepRuns DEF Next, RunStep
  <2> QED
    BY <2>1 DEF Sole, Alone, Base, Places
<1>1. /\ pc[p][0] = "none" => Untouched(p)
      /\ Running(p) /\ fptr[p] /\ ~reinit[p] => Greets(p)
      /\ fptr[p] /\ ~reinit[p] => GreetedAll(p)
  BY <1>0 DEF GreetsOK, Greets, GreetInv
<1>2. CASE Root
  <2>1. /\ UNCHANGED <<matVars, fptr, loc, got, reinit>> /\ ~Running(p) /\ buf' = EmptyBuf
    BY <1>2 DEF Root, Insmod_3_1, Rmmod_3_1, Insmod_3_2, Rmmod_3_2, Idle
  <2> QED
    BY <1>1, <2>1 DEF matVars, Untouched, GreetedAll, Running
<1>3. CASE UNCHANGED allVars
  BY <1>1, <1>3
     DEF allVars, matVars, procVars, Greets, GreetInv, GreetedAll, Untouched, Exclusion,
         InCritical, ThreadPhase, Running
<1>4. CASE Start(p)
  <2>1. pc'[p][0] # "none" /\ pc[p][0] = "none"
    <3>1. pc \in [Processes -> [0 .. 2 -> AnyPlace]]
      BY DEF Base, Types, AnyPlace
    <3> QED
      BY <1>4, <3>1 DEF Start, Goto
  <2> QED
    BY <1>1, <1>4, <2>1, StartGreets
(* Every other step of p is one of a program that runs. *)
<1>5. ASSUME RunStep(p), Greets(p) /\ ~reinit'[p] => GreetInv(p)'
      PROVE  /\ pc'[p][0] = "none" => Untouched(p)'
             /\ Running(p)' /\ fptr'[p] /\ ~reinit'[p] => GreetInv(p)'
             /\ fptr'[p] /\ ~reinit'[p] => GreetedAll(p)'
  BY <1>1, <1>5, GreetInvGreeted DEF RunStep
<1>6. CASE MainStep(p)
  <2>1. RunStep(p)
    BY <1>6, MainStepRuns
  <2>2. ~Reading(p, 0)
    <3>1. pc[p][0] \notin MainReads /\ pc[p][0] # "none"
      BY <1>0, <2>1 DEF PlacesOK, Greeters, RunStep, Running
    <3> QED
      BY <3>1, ReadingRuns
  <2>3. (MatMain(p) \/ Finish(p)) /\ UNCHANGED procVars
    BY <1>6, <2>2 DEF MainStep
  <2> QED
    BY <1>5, <2>1, <2>3, MainGreets
<1>7. ASSUME NEW t \in Threads, ThreadStep(p, t)
      PROVE  /\ pc'[p][0] = "none" => Untouched(p)'
             /\ Running(p)' /\ fptr'[p] /\ ~reinit'[p] => GreetInv(p)'
             /\ fptr'[p] /\ ~reinit'[p] => GreetedAll(p)'
  <2>1. RunStep(p)
    BY <1>7, ThreadStepRuns
  <2>2. ASSUME Greets(p), ~reinit'[p] PROVE GreetInv(p)'
    BY <1>7, <2>2, AddGreets, GreetingGreets, ReadingGreets DEF ThreadStep
  <2> QED
    BY <1>5, <2>1, <2>2
<1> QED
  BY <1>0, <1>2, <1>3, <1>4, <1>6, <1>7, OthersRest DEF Next, Sole

-----------------------------------------------------------------------------
(* The list that main of 3_1 makes grows by a line at its end.             *)
LEMMA LinesDiffer ==
  ASSUME NEW p
  PROVE  Line(p, 1) # Line(p, 2)
BY DEF Line

(* The empty list has no line. *)
LEMMA HasNone ==
  ASSUME NEW c
  PROVE  ~Has(<< >>, c)
BY DEF Has

(* A list of one line. *)
LEMMA HasOne ==
  ASSUME NEW a, NEW c
  PROVE  Has(<<a>>, c) <=> c = a
<1>1. DOMAIN <<a>> = {1} /\ <<a>>[1] = a
  OBVIOUS
<1> QED
  BY <1>1 DEF Has

(* A list of two lines. *)
LEMMA HasTwo ==
  ASSUME NEW a, NEW b, NEW c
  PROVE  Has(<<a, b>>, c) <=> c = a \/ c = b
<1>1. DOMAIN <<a, b>> = {1, 2} /\ <<a, b>>[1] = a /\ <<a, b>>[2] = b
  OBVIOUS
<1> QED
  BY <1>1 DEF Has

(* The first bytes of a buffer, when they are few. *)
LEMMA ShortTexts ==
  ASSUME NEW b
  PROVE  /\ [o \in 1 .. 0 |-> b[o - 1]] = << >>
         /\ [o \in 1 .. 1 |-> b[o - 1]] = <<b[0]>>
         /\ [o \in 1 .. 2 |-> b[o - 1]] = <<b[0], b[1]>>
<1>1. [o \in 1 .. 0 |-> b[o - 1]] = << >>
  OBVIOUS
<1>2. [o \in 1 .. 1 |-> b[o - 1]] = <<b[0]>>
  OBVIOUS
<1>3. [o \in 1 .. 2 |-> b[o - 1]] = <<b[0], b[1]>>
  OBVIOUS
<1> QED
  BY <1>1, <1>2, <1>3

(* A list of one line is a line of one of the threads. *)
LEMMA ListsDiffer ==
  ASSUME NEW p, NEW c, <<c>> \in Lists(p)
  PROVE  c \in {Line(p, 1), Line(p, 2)}
<1>1. Len(<<c>>) = 1 /\ <<c>>[1] = c
  OBVIOUS
<1>2. <<c>> # << >> /\ <<c>> # <<Line(p, 1), Line(p, 2)>>
  <2>1. Len(<< >>) = 0 /\ Len(<<Line(p, 1), Line(p, 2)>>) = 2
    OBVIOUS
  <2> QED
    BY <1>1, <2>1
<1>3. <<c>> = <<Line(p, 1)>> \/ <<c>> = <<Line(p, 2)>>
  BY <1>2 DEF Lists
<1>4. <<Line(p, 1)>>[1] = Line(p, 1) /\ <<Line(p, 2)>>[1] = Line(p, 2)
  OBVIOUS
<1> QED
  BY <1>1, <1>3, <1>4

(* The line of thread n behind those of the threads before it. *)
LEMMA LineAdded ==
  ASSUME NEW p, NEW n \in Threads, NEW off \in Nat, off < n, NEW b, NEW c, NEW alive,
         b \in [0 .. (BUFSIZE - 1) -> Cells], c = [b EXCEPT ![off] = Line(p, n)],
         LinesOf(p, n, Text(b, off), alive)
  PROVE  LinesOf(p, n + 1, Text(c, off + 1), alive)
<1>0. 0 \in 0 .. (BUFSIZE - 1) /\ 1 \in 0 .. (BUFSIZE - 1) /\ n \in 1 .. 2
  BY BufferAssumption DEF Threads
<1>1. CASE n = 1
  <2>1. Text(c, off + 1) = <<Line(p, 1)>>
    <3>1. off = 0 /\ off + 1 = 1 /\ c[0] = Line(p, 1)
      BY <1>0, <1>1
    <3> QED
      BY <3>1, ShortTexts DEF Text
  <2>2. <<Line(p, 1)>> \in Lists(p)
    BY DEF Lists
  <2>3. ~Has(<<Line(p, 1)>>, Line(p, 2)) /\ Has(<<Line(p, 1)>>, Line(p, 1))
    BY HasOne, LinesDiffer, Zenon
  <2> QED
    BY <1>1, <2>1, <2>2, <2>3 DEF LinesOf, Threads
<1>2. CASE n = 2 /\ off = 0
  <2>1. Text(c, off + 1) = <<Line(p, 2)>>
    <3>1. off + 1 = 1 /\ c[0] = Line(p, 2)
      BY <1>0, <1>2
    <3> QED
      BY <3>1, ShortTexts DEF Text
  <2>2. Text(b, off) = << >>
    BY <1>2, ShortTexts DEF Text
  <2>3. 1 \notin alive
    <3>1. ~Has(<< >>, Line(p, 1))
      BY HasNone, Zenon
    <3> QED
      BY <1>2, <2>2, <3>1 DEF LinesOf, Threads
  <2>4. <<Line(p, 2)>> \in Lists(p) /\ Has(<<Line(p, 2)>>, Line(p, 2))
    BY HasOne, Zenon DEF Lists
  <2> QED
    BY <1>2, <2>1, <2>3, <2>4 DEF LinesOf, Threads
<1>3. CASE n = 2 /\ off = 1
  <2>1. Text(b, off) = <<b[0]>>
    BY <1>3, ShortTexts DEF Text
  <2>2. b[0] = Line(p, 1)
    <3>1. b[0] \in {Line(p, 1), Line(p, 2)}
      BY <2>1, ListsDiffer DEF LinesOf
    <3>2. ~Has(<<b[0]>>, Line(p, 2))
      BY <1>3, <2>1 DEF LinesOf, Threads
    <3> QED
      BY <3>1, <3>2, HasOne, Zenon
  <2>3. Text(c, off + 1) = <<Line(p, 1), Line(p, 2)>>
    <3>1. off + 1 = 2 /\ c[0] = Line(p, 1) /\ c[1] = Line(p, 2)
      BY <1>0, <1>3, <2>2
    <3> QED
      BY <3>1, ShortTexts DEF Text
  <2>4. <<Line(p, 1), Line(p, 2)>> \in Lists(p)
    BY DEF Lists
  <2>5. Has(<<Line(p, 1), Line(p, 2)>>, Line(p, 1))
    BY HasTwo
  <2>6. Has(<<Line(p, 1), Line(p, 2)>>, Line(p, 2))
    BY HasTwo
  <2> QED
    BY <1>3, <2>3, <2>4, <2>5, <2>6 DEF LinesOf, Threads
<1> QED
  BY <1>0, <1>1, <1>2, <1>3

(* Threads that end take no line back and ask for none. *)
LEMMA LinesStay ==
  ASSUME NEW p, NEW n, NEW s, NEW alive, LinesOf(p, n, s, alive), NEW less \in SUBSET alive
  PROVE  LinesOf(p, n, s, less)
BY DEF LinesOf

(* A thread that has ended needs no line. *)
LEMMA LineSkipped ==
  ASSUME NEW p, NEW n \in Threads, NEW s, NEW alive, LinesOf(p, n, s, alive), n \notin alive
  PROVE  LinesOf(p, n + 1, s, alive)
BY DEF LinesOf, Threads

-----------------------------------------------------------------------------
(* Threads that end leave the phase of main as it is. *)
LEMMA OwnPhaseStays ==
  ASSUME NEW p, NEW at, NEW l, NEW read, NEW b, NEW alive, OwnPhase(p, at, l, read, b, alive),
         NEW less \in SUBSET alive
  PROVE  OwnPhase(p, at, l, read, b, less)
BY LinesStay DEF OwnPhase

-----------------------------------------------------------------------------
(* main of 3_1: what it has read so far is nothing. *)
LEMMA NothingListed ==
  ASSUME NEW p, NEW at, NEW l, NEW b, NEW alive, l.off = 0,
         at \notin {"for_each_thread", "sprintf", "terminate", "join", "print"}
  PROVE  ListPhase(p, at, l, << >>) /\ OwnPhase(p, at, l, << >>, b, alive)
<1>1. Len(<< >>) = 0
  OBVIOUS
<1>2. << >> \in Lists(p)
  BY DEF Lists
<1> QED
  BY <1>1, <1>2 DEF ListPhase, OwnPhase

(* main creates, joins and prints. *)
LEMMA MatMainLists ==
  ASSUME Base, NEW p \in Processes, Listing(p), MainPhase(p), MatMain(p) \/ Finish(p),
         UNCHANGED procVars
  PROVE  MainPhase(p)'
<1> USE DEF procVars
<1>0. /\ pc \in [Processes -> [0 .. 2 -> AnyPlace]] /\ 0 \in 0 .. 2 /\ 0 \notin Threads
      /\ Threads \subseteq 0 .. 2
  BY DEF Base, Types, AnyPlace, Threads
<1>1. CASE Create(p)
  <2>1. NotCreated(p) \in SUBSET Nat /\ NotCreated(p) # {}
    BY <1>1 DEF Create, NotCreated, ThreadsOf, Threads
  <2>2. PICK t : t = Min(NotCreated(p)) /\ t \in NotCreated(p)
    BY <2>1, FirstOf
  <2>3. t \in 0 .. 2 /\ t # 0 /\ pc[p][0] = "create"
    BY <1>1, <2>2 DEF Create, NotCreated, ThreadsOf, Threads
  <2>4. pc'[p][0] = "create"
    BY <1>0, <1>1, <2>2, <2>3 DEF Create, Goto
  <2>5. loc[p][0].off = 0 /\ got[p][0] = << >>
    BY <2>3 DEF MainPhase, ListPhase
  <2>6. loc'[p][0].off = 0 /\ got'[p][0] = << >>
    BY <2>5
  <2> QED
    BY <2>4, <2>6, NothingListed DEF MainPhase
<1>2. CASE Created(p)
  <2>1. pc[p][0] = "create" /\ pc'[p][0] = "read"
    BY <1>0, <1>2 DEF Created, Goto, Listing
  <2>2. loc[p][0].off = 0 /\ got[p][0] = << >>
    BY <2>1 DEF MainPhase, ListPhase
  <2>3. loc'[p][0].off = 0 /\ got'[p][0] = << >>
    BY <2>2
  <2> QED
    BY <2>1, <2>3, NothingListed DEF MainPhase
<1>3. CASE Join(p) \/ Finish(p)
  <2>1. /\ pc[p][0] \in {"join", "print"} /\ pc'[p][0] \in {"print", "done", "crashed"}
        /\ UNCHANGED prog
        /\ \A t \in Threads : pc'[p][t] = pc[p][t]
    <3>1. PICK to \in {"print", "done", "crashed"} :
            pc[p][0] \in {"join", "print"} /\ Goto(p, 0, to) /\ UNCHANGED prog
      BY <1>3 DEF Join, Finish, WriteResult, Listing
    <3> QED
      BY <1>0, <3>1 DEF Goto
  <2>2. AliveOf(p)' = AliveOf(p)
    BY <2>1 DEF AliveOf, Alive
  <2>3. Alone(p)' <=> Alone(p)
    BY <2>1 DEF Alone
  <2> QED
    BY <2>1, <2>2, <2>3 DEF MainPhase, ListPhase, OwnPhase
<1> QED
  BY <1>1, <1>2, <1>3 DEF MatMain

(* The steps of Myread of 3_1, one line at a time, and the copy. *)
LEMMA ReadingLists ==
  ASSUME Base, NEW p \in Processes, Listing(p), MainPhase(p), Reading(p, 0)
  PROVE  MainPhase(p)'
<1> DEFINE l == loc[p][0]
<1>0. /\ pc \in [Processes -> [0 .. 2 -> AnyPlace]] /\ 0 \in 0 .. 2 /\ 0 \notin Threads
      /\ Threads \subseteq 0 .. 2 /\ PlacesOK(p) /\ FilesOK(p)
      /\ loc \in [Processes -> [0 .. 2 -> Locals]]
      /\ got \in [Processes -> [0 .. 2 -> Seq(Cells)]]
      /\ buf \in [0 .. (BUFSIZE - 1) -> Cells]
      /\ UNCHANGED prog
  BY VariablesOf, ReadingRuns DEF Base, Types, AnyPlace, Places, Threads, Listing, Running
<1>1. l \in Locals /\ l.n \in Nat /\ l.off \in Nat
  <2>1. l \in Locals
    BY <1>0
  <2> HIDE DEF l
  <2> QED
    BY <2>1, LocalsFacts
(* The handler is the one of 3_1, and main has the file. *)
<1>2. pc[p][0] \notin ReadingOut /\ fptr[p]
  BY <1>0 DEF FilesOK, Listing, UsesProc, Modules
(* Main goes to another place; the threads stay where they are. *)
<1>3. ASSUME NEW to, Goto(p, 0, to)
      PROVE  /\ pc'[p][0] = to /\ AliveOf(p)' = AliveOf(p)
             /\ Alone(p)' <=> Alone(p)
  <2>1. pc'[p][0] = to /\ \A t \in Threads : pc'[p][t] = pc[p][t]
    BY <1>0, <1>3 DEF Goto
  <2>2. AliveOf(p)' = AliveOf(p)
    BY <2>1 DEF AliveOf, Alive
  <2>3. Alone(p)' <=> Alone(p)
    BY <1>0 DEF Alone
  <2> QED
    BY <2>1, <2>2, <2>3
<1>4. CASE ReadEnd(p, 0)
  <2>1. /\ Goto(p, 0, "join") /\ UNCHANGED <<buf, loc, got>>
        /\ pc[p][0] = "read" /\ l.off > 0
    BY <1>4 DEF ReadEnd, Step, EndOfLoop
  <2> QED
    BY <1>3, <2>1 DEF MainPhase, ListPhase, OwnPhase
<1>5. CASE MyreadStart_3_1(p, 0)
  <2>1. /\ Goto(p, 0, "for_each_thread") /\ UNCHANGED <<buf, got>> /\ l.off = 0
        /\ pc[p][0] = "read"
    BY <1>5 DEF MyreadStart_3_1, Step
  <2>2. got[p][0] = << >>
    BY <2>1 DEF MainPhase, ListPhase
  <2>3. loc'[p][0].n = 1 /\ loc'[p][0].off = 0
    <3> DEFINE k == [l EXCEPT !.n = 1]
    <3>1. SetLoc(p, 0, k)
      BY <1>0, <1>5 DEF MyreadStart_3_1, SetLoc
    <3> HIDE DEF l
    <3>2. k \in Locals /\ k.n = 1 /\ k.off = 0
      BY <1>1, <2>1 DEF Locals
    <3> HIDE DEF k
    <3> QED
      BY <1>0, <3>1, <3>2, SetLocFacts
  <2>5. LinesOf(p, 1, Text(buf', 0), AliveOf(p)')
    <3>1. Text(buf', 0) = << >> /\ << >> \in Lists(p)
      BY ShortTexts DEF Text, Lists
    <3> QED
      BY <3>1, HasNone DEF LinesOf, Threads
  <2>6. Len(<< >>) = 0 /\ << >> \in Lists(p)
    BY DEF Lists
  <2> QED
    BY <1>3, <2>1, <2>2, <2>3, <2>5, <2>6 DEF MainPhase, ListPhase, OwnPhase
<1>6. CASE MyreadNext_3_1(p, 0)
  <2> DEFINE to == IF Alive(p, l.n) THEN "sprintf" ELSE "for_each_thread"
             n == IF Alive(p, l.n) THEN l.n ELSE l.n + 1
             k == [l EXCEPT !.n = n]
  <2>1. /\ Goto(p, 0, to) /\ UNCHANGED <<got, buf>>
        /\ pc[p][0] = "for_each_thread" /\ l.n \in Threads
        /\ to \in {"sprintf", "for_each_thread"}
    BY <1>6 DEF MyreadNext_3_1, Step
  <2>2. /\ got[p][0] = << >> /\ l.off < l.n
        /\ Alone(p) => LinesOf(p, l.n, Text(buf, l.off), AliveOf(p))
    BY <2>1 DEF MainPhase, ListPhase, OwnPhase
  <2>3. Alone(p) => LinesOf(p, n, Text(buf, l.off), AliveOf(p))
    <3>1. l.n \notin AliveOf(p) <=> ~Alive(p, l.n)
      BY <2>1 DEF AliveOf
    <3> QED
      BY <2>1, <2>2, <3>1, LineSkipped
  <2>4. SetLoc(p, 0, k)
    BY <1>0, <1>6 DEF MyreadNext_3_1, SetLoc
  <2>5. n \in 1 .. 3 /\ l.off < n
    <3> HIDE DEF l
    <3> QED
      BY <1>1, <2>1, <2>2 DEF Threads
  <2> HIDE DEF l, n, to
  <2>6. k \in Locals /\ k.n = n /\ k.off = l.off
    BY <1>1, <2>5 DEF Locals
  <2> HIDE DEF k
  <2>7. loc'[p][0] = k
    BY <1>0, <2>4, <2>6, SetLocFacts
  <2>8. Len(<< >>) = 0 /\ << >> \in Lists(p)
    BY DEF Lists
  <2> QED
    BY <1>1, <1>3, <2>1, <2>2, <2>3, <2>5, <2>6, <2>7, <2>8 DEF MainPhase, ListPhase, OwnPhase
<1>9. CASE MyreadLine_3_1(p, 0)
  <2>1. /\ Goto(p, 0, "terminate") /\ UNCHANGED <<got, loc>> /\ pc[p][0] = "sprintf"
        /\ buf' = [buf EXCEPT ![l.off] = Line(p, l.n)]
    BY <1>9 DEF MyreadLine_3_1, Step
  <2>2. /\ got[p][0] = << >> /\ l.off < l.n /\ l.n \in 1 .. 3
        /\ Alone(p) => LinesOf(p, l.n, Text(buf, l.off), AliveOf(p))
    BY <2>1 DEF MainPhase, ListPhase, OwnPhase
  <2>3. l.n \in Threads
    BY <1>0, <2>1 DEF FilesOK, Listing
  <2>4. Alone(p) => LinesOf(p, l.n + 1, Text(buf', l.off + 1), AliveOf(p))
    BY <1>0, <1>1, <2>1, <2>2, <2>3, LineAdded
  <2>5. Len(<< >>) = 0 /\ << >> \in Lists(p) /\ loc'[p][0] = l
    BY <2>1 DEF Lists
  <2> HIDE DEF l
  <2> QED
    BY <1>1, <1>3, <2>1, <2>2, <2>4, <2>5 DEF MainPhase, ListPhase, OwnPhase
<1>10. CASE MyreadNul_3_1(p, 0)
  <2> DEFINE k == [[l EXCEPT !.n = l.n + 1] EXCEPT !.off = l.off + 1]
  <2>1. /\ Goto(p, 0, "for_each_thread") /\ UNCHANGED got /\ pc[p][0] = "terminate"
        /\ buf' = [buf EXCEPT ![l.off + 1] = NUL]
        /\ loc' = [loc EXCEPT ![p][0].n = l.n + 1, ![p][0].off = l.off + 1]
    BY <1>10 DEF MyreadNul_3_1, Step
  <2>2. /\ got[p][0] = << >> /\ l.off < l.n
        /\ Alone(p) => LinesOf(p, l.n + 1, Text(buf, l.off + 1), AliveOf(p))
    BY <2>1 DEF MainPhase, ListPhase, OwnPhase
  <2>3. l.n \in Threads
    BY <1>0, <2>1 DEF FilesOK, Listing
  <2>4. SetLoc(p, 0, k)
    BY <1>0, <2>1, SetTwoFields
  <2> HIDE DEF l
  <2>5. l.n \in 1 .. 2 /\ l.off \in 0 .. 1
    BY <1>1, <2>2, <2>3 DEF Threads
  <2>6. k \in Locals /\ k.n = l.n + 1 /\ k.off = l.off + 1
    <3> DEFINE m == [l EXCEPT !.n = l.n + 1]
    <3>1. m \in Locals /\ m.n = l.n + 1
      BY <1>1 DEF Locals
    <3> HIDE DEF m
    <3>2. l.off + 1 \in 0 .. BUFSIZE
      BY <2>5, BufferAssumption
    <3>3. [m EXCEPT !.off = l.off + 1] \in Locals
      BY <3>1, <3>2 DEF Locals
    <3>4. [m EXCEPT !.off = l.off + 1].off = l.off + 1 /\ [m EXCEPT !.off = l.off + 1].n = l.n + 1
      BY <3>1 DEF Locals
    <3> QED
      BY <3>3, <3>4 DEF m
  <2> HIDE DEF k
  <2>7. loc'[p][0] = k
    BY <1>0, <2>4, <2>6, SetLocFacts
  <2>8. Text(buf', l.off + 1) = Text(buf, l.off + 1)
    <3>1. \A o \in 1 .. (l.off + 1) : o - 1 \in 0 .. (BUFSIZE - 1) /\ o - 1 # l.off + 1
      BY <2>5, BufferAssumption
    <3>2. \A o \in 1 .. (l.off + 1) : buf'[o - 1] = buf[o - 1]
      BY <1>0, <2>1, <3>1
    <3> QED
      BY <3>2 DEF Text
  <2>9. Len(<< >>) = 0 /\ << >> \in Lists(p)
    BY DEF Lists
  <2> QED
    BY <1>3, <2>1, <2>2, <2>5, <2>6, <2>7, <2>8, <2>9 DEF MainPhase, ListPhase, OwnPhase
<1>7. CASE MyreadCopy_3_1(p, 0)
  <2> DEFINE to == IF l.off = 0 THEN "join" ELSE "read"
             s == Text(buf, l.off)
  <2>1. /\ Goto(p, 0, to) /\ UNCHANGED <<loc, buf>> /\ SetGot(p, 0, s)
        /\ pc[p][0] = "for_each_thread" /\ l.n \notin Threads
    BY <1>0, <1>7 DEF MyreadCopy_3_1, Step, EndOfLoop, Text, Bytes, SetGot
  <2>2. /\ l.n \in 1 .. 3 /\ l.off < l.n
        /\ Alone(p) => LinesOf(p, l.n, s, AliveOf(p))
    BY <2>1 DEF MainPhase, ListPhase, OwnPhase
  <2> HIDE DEF l
  <2>3. l.n = 3 /\ l.off \in 0 .. 2
    BY <1>1, <2>1, <2>2 DEF Threads
  <2>4. s \in Seq(Cells) /\ Len(s) = l.off
    <3>1. s = Bytes(l.off) /\ l.off \in 0 .. BUFSIZE
      BY <2>3, BufferAssumption DEF Text, Bytes
    <3> QED
      BY <1>0, <3>1, BytesFacts
  <2>6. got'[p][0] = s
    <3> HIDE DEF s
    <3> QED
      BY <1>0, <2>1, <2>4, SetGotFacts
  <2>7. to \in {"join", "read"} /\ (l.off = 0 <=> to = "join")
    BY DEF to
  <2>8. loc'[p][0] = l
    BY <2>1 DEF l
  <2>9. Alone(p) => LinesOf(p, 3, s, AliveOf(p)) /\ s \in Lists(p)
    BY <2>2, <2>3 DEF LinesOf
  <2> HIDE DEF s, to
  <2> QED
    BY <1>3, <2>1, <2>3, <2>4, <2>6, <2>7, <2>8, <2>9 DEF MainPhase, ListPhase, OwnPhase
<1>8. ~ReadNull(p, 0) /\ ~MyreadStart_3_2(p, 0) /\ ~MyreadCopy_3_2(p, 0) /\ ~MyreadClear_3_2(p, 0)
  BY <1>2 DEF ReadNull, MyreadStart_3_2, MyreadCopy_3_2, MyreadClear_3_2, Step, ReadingOut, Listing
<1> QED
  BY <1>4, <1>5, <1>6, <1>7, <1>8, <1>9, <1>10 DEF Reading

(* The threads of 3_1 compute and end. *)
LEMMA ThreadLists ==
  ASSUME Base, NEW p \in Processes, Listing(p), MainPhase(p), NEW t \in Threads, ThreadStep(p, t)
  PROVE  MainPhase(p)'
<1>0. /\ pc \in [Processes -> [0 .. 2 -> AnyPlace]] /\ 0 \in 0 .. 2 /\ t \in 0 .. 2 /\ t # 0
      /\ Threads \subseteq 0 .. 2 /\ PlacesOK(p)
  BY DEF Base, Types, AnyPlace, Places, Threads
<1>1. pc[p][t] \in ThreadPlaces \ Greetings
  BY <1>0 DEF PlacesOK, Listing, Greeters
<1>2. ~Greeting(p, t)
  BY <1>1
     DEF Greeting, SpinInit, SpinLock, Fopen, MywriteNoSpace, MywriteStart, MywriteCopy,
         MywriteInfo, SpinUnlock, Step, Greetings, Critical, Writing, ReadingOut
<1>3. ~Reading(p, t)
  <2>1. pc[p][t] \notin MainReads
    BY <1>1 DEF ThreadPlaces, Computing, Greetings, Critical, Writing, ReadingOut, MainReads
  <2> QED
    BY <1>0, <2>1, ReadingRuns DEF Listing, Running
<1>4. MatThread(p, t) /\ UNCHANGED procVars
  BY <1>2, <1>3 DEF ThreadStep
<1>5. PICK to : Goto(p, t, to) /\ prog' = prog /\ pc[p][t] \notin {"none", "exit"}
  BY <1>4 DEF MatThread, Lock, Load, Store, Unlock, Add, ThreadPrint, NextTurn
<1>6. pc'[p][0] = pc[p][0] /\ \A u \in Threads : u # t => pc'[p][u] = pc[p][u]
  BY <1>0, <1>5 DEF Goto
<1>7. AliveOf(p)' \in SUBSET AliveOf(p)
  BY <1>5, <1>6 DEF AliveOf, Alive
<1>8. Alone(p)' <=> Alone(p)
  BY <1>5 DEF Alone
<1>9. UNCHANGED <<loc, got, buf>>
  BY <1>4 DEF procVars
<1> QED
  BY <1>6, <1>7, <1>8, <1>9, OwnPhaseStays DEF MainPhase

(* The steps of other processes. *)
LEMMA OthersKeepLists ==
  ASSUME Base, NEW p \in Processes, ListsOK(p), NEW q \in Processes \ {p}, Still(q),
         ~Alone(p)
  PROVE  ListsOK(p)'
<1>1. /\ pc'[p] = pc[p] /\ loc'[p] = loc[p] /\ got'[p] = got[p] /\ prog' = prog /\ entry' = entry
  BY DEF Still
<1>2. ~Alone(p)'
  BY <1>1 DEF Alone
<1>3. Listing(p)' => Listing(p)
  BY <1>1 DEF Listing, Running
<1>4. Listing(p)' => MainPhase(p)'
  BY <1>1, <1>2, <1>3 DEF ListsOK, MainPhase, Listing
<1> QED
  BY <1>1, <1>4 DEF ListsOK

(* ListsOK is kept by every step. *)
LEMMA ListsNext ==
  ASSUME Base, [Next]_allVars, NEW p \in Processes, ListsOK(p)
  PROVE  ListsOK(p)'
<1>0. pc \in [Processes -> [0 .. 2 -> AnyPlace]] /\ 0 \in 0 .. 2
  BY DEF Base, Types, AnyPlace
<1>1. CASE Root
  <2>1. UNCHANGED <<matVars, fptr, loc, got, reinit>> /\ ~Running(p)
    BY <1>1 DEF Root, Insmod_3_1, Rmmod_3_1, Insmod_3_2, Rmmod_3_2, Idle
  <2> QED
    BY <2>1 DEF matVars, ListsOK, Listing, Running
<1>2. CASE UNCHANGED allVars
  BY <1>2 DEF allVars, matVars, procVars, ListsOK, Listing, Running, MainPhase, Alone, AliveOf, Alive
<1>3. CASE Start(p)
  <2>1. pc'[p][0] \in {"create", "crashed"} /\ pc[p][0] = "none" /\ UNCHANGED <<prog, loc, got>>
    BY <1>0, <1>3 DEF Start, Goto
  <2>2. prog[p] = "3_1" => loc'[p][0].off = 0 /\ got'[p][0] = << >>
    BY <2>1 DEF ListsOK
  <2> QED
    BY <2>1, <2>2, NothingListed DEF ListsOK, Listing, MainPhase
(* Every other step of p is one of a program that runs. *)
<1>4. ASSUME RunStep(p), Listing(p) => MainPhase(p)' PROVE ListsOK(p)'
  BY <1>4 DEF RunStep, ListsOK, Listing
<1>5. CASE MainStep(p)
  BY <1>4, <1>5, MainStepRuns, MatMainLists, ReadingLists DEF MainStep, ListsOK
<1>6. ASSUME NEW t \in Threads, ThreadStep(p, t) PROVE ListsOK(p)'
  BY <1>4, <1>6, ThreadStepRuns, ThreadLists DEF ListsOK
<1>7. ASSUME NEW q \in Processes \ {p}, Start(q) PROVE ListsOK(p)'
  <2>1. Still(q)
    BY <1>7, StartKept DEF Kept
  <2>2. ~Alone(p)
    BY <1>7 DEF Start, Alone
  <2> QED
    BY <2>1, <2>2, OthersKeepLists
<1>8. ASSUME NEW q \in Processes \ {p}, MainStep(q) \/ \E t \in Threads : ThreadStep(q, t)
      PROVE  ListsOK(p)'
  <2>1. ~Alone(p)
    BY <1>8, OthersRest
  <2>2. Still(q)
    <3>1. CASE MainStep(q)
      BY <3>1, MainKept, ReadingKept DEF MainStep, Kept
    <3>2. ASSUME NEW t \in Threads, ThreadStep(q, t) PROVE Still(q)
      <4>1. t \in 0 .. 2
        BY DEF Threads
      <4> QED
        BY <3>2, <4>1, MatThreadKept, GreetingKept, ReadingKept DEF ThreadStep, Kept
    <3> QED
      BY <1>8, <3>1, <3>2
  <2> QED
    BY <2>1, <2>2, OthersKeepLists
<1> QED
  BY <1>1, <1>2, <1>3, <1>5, <1>6, <1>7, <1>8 DEF Next

-----------------------------------------------------------------------------
(* ProcInv holds at first and every step keeps it. *)
LEMMA ProcInvInit == Init => ProcInv
<1> SUFFICES ASSUME Init PROVE ProcInv
  OBVIOUS
<1>1. Base
  BY BaseInit
<1>2. ASSUME NEW p \in Processes PROVE GreetsOK(p) /\ ListsOK(p)
  <2>1. /\ \A t \in 0 .. 2 : pc[p][t] = "none" /\ loc[p][t] = Fresh /\ got[p][t] = << >>
        /\ locked[p] = FALSE /\ fptr[p] = FALSE /\ buf = EmptyBuf
    BY DEF Init, MatInit
  <2>2. Fresh.off = 0 /\ ~Running(p) /\ Threads \subseteq 0 .. 2
    BY <2>1 DEF Fresh, Running, Threads
  <2>3. GreetsOK(p)
    BY <2>1, <2>2 DEF GreetsOK, Untouched
  <2>4. ListsOK(p)
    BY <2>1, <2>2 DEF ListsOK, Listing
  <2> QED
    BY <2>3, <2>4
<1> QED
  BY <1>1, <1>2 DEF ProcInv

(* Base, GreetsOK and ListsOK together are inductive. *)
LEMMA ProcInvNext == ProcInv /\ [Next]_allVars => ProcInv'
<1> SUFFICES ASSUME ProcInv, [Next]_allVars PROVE ProcInv'
  OBVIOUS
<1>1. Base'
  BY BaseNext DEF ProcInv
<1>2. ASSUME NEW p \in Processes PROVE GreetsOK(p)' /\ ListsOK(p)'
  BY <1>2, GreetsNext, ListsNext DEF ProcInv
<1> QED
  BY <1>1, <1>2 DEF ProcInv

(* So ProcInv holds in every behaviour. *)
LEMMA ProcInvAlways == Spec => []ProcInv
BY ProcInvInit, ProcInvNext, PTL DEF Spec

-----------------------------------------------------------------------------
(***************************************************************************)
(* From an insmod of 3_2's module on, also if proc_create fails in it, no  *)
(* entry leads into a module that is gone, whatever 3_1's module left, and *)
(* a program that runs has the file exactly if 3_2's module is there.      *)
(***************************************************************************)
THEOREM EntryAlwaysServes == Spec => []EntryServes
<1>1. ASSUME ProcInv PROVE EntryServes
  <2> SUFFICES ASSUME last = "3_2"
               PROVE  /\ entry # "stale"
                      /\ \A p \in Processes : Running(p) /\ prog[p] \in UsesProc =>
                                               fptr[p] = (kernel = "3_2")
    BY DEF EntryServes
  <2>1. EntryOwned /\ entry \in {"3_2", "none"}
    BY <1>1 DEF ProcInv, Base, EntryOwned
  <2>2. entry \in Modules <=> kernel = "3_2"
    BY <2>1 DEF EntryOwned, Modules
  <2>3. ASSUME NEW p \in Processes, Running(p), prog[p] \in UsesProc
        PROVE  fptr[p] = (entry \in Modules)
    BY <1>1, <2>3 DEF ProcInv, Base, Places, FilesOK
  <2> QED
    BY <2>1, <2>2, <2>3
<1> QED
  BY <1>1, ProcInvAlways, PTL

(***************************************************************************)
(* Mywrite and Myread of 3_2's module leave a NUL at the end of the buffer *)
(* for any number of processes and for texts and buffers of any length:    *)
(* strnlen stays below BUFSIZE although every handler works at a length    *)
(* that was read before the steps of others.                               *)
(***************************************************************************)
THEOREM BufferStaysTerminated == Spec => []BufTerminated
<1>1. ProcInv => BufTerminated
  BY DEF ProcInv, Base
<1> QED
  BY <1>1, ProcInvAlways, PTL

(***************************************************************************)
(* A thread of 3_2 that has the file to its program and whose lock is not  *)
(* initialised under it reads back its own greeting and info line, cut to  *)
(* the buffer, and nothing of the other thread.                            *)
(***************************************************************************)
THEOREM HellosAreRead == Spec => []HellosRead
<1>1. ASSUME ProcInv PROVE HellosRead
  <2> SUFFICES ASSUME NEW p \in Processes, Alone(p), prog[p] \in Greeters, fptr[p], ~reinit[p],
                      NEW t \in ThreadsOf(p), pc[p][t] = "exit"
               PROVE  got[p][t] = Greeted(p, t)
    BY DEF HellosRead, Greeters
  <2>1. GreetsOK(p)
    BY <1>1 DEF ProcInv
  <2>2. GreetedAll(p) /\ t \in Threads
    BY <2>1 DEF GreetsOK, Sole, ThreadsOf, Threads
  <2> QED
    BY <2>2 DEF GreetedAll
<1> QED
  BY <1>1, ProcInvAlways, PTL

(***************************************************************************)
(* Myread of 3_1's module gives main one line, in order, for every thread  *)
(* of its program that is still there when the read is over, whichever of  *)
(* them end while it is under way.  With other programs on the same buffer *)
(* it gets no more lines than it has threads.                              *)
(***************************************************************************)
THEOREM ThreadsAreListed == Spec => []ListsThreads
<1>1. ASSUME ProcInv PROVE ListsThreads
  <2> SUFFICES ASSUME NEW p \in Processes, prog[p] = "3_1", entry = "3_1", Running(p)
               PROVE  /\ Len(got[p][0]) <= Cardinality(ThreadsOf(p))
                      /\ Alone(p) =>
                           /\ got[p][0] \in Lists(p)
                           /\ pc[p][0] \in {"join", "print"}
                                \/ (pc[p][0] = "read" /\ loc[p][0].off > 0) =>
                                \A t \in Threads : Alive(p, t) => Has(got[p][0], Line(p, t))
    BY DEF ListsThreads, Lists, Has
  <2>1. MainPhase(p)
    BY <1>1 DEF ProcInv, ListsOK, Listing
  <2>2. Len(got[p][0]) <= 2
    BY <2>1 DEF MainPhase, ListPhase
  <2>3. Cardinality(ThreadsOf(p)) = 2
    <3>1. ThreadsOf(p) = 1 .. 2
      BY DEF ThreadsOf, Threads, OneThread
    <3>2. 1 \in Int /\ 2 \in Int /\ (IF 1 > 2 THEN 0 ELSE 2 - 1 + 1) = 2
      OBVIOUS
    <3> QED
      BY <3>1, <3>2, FS_Interval, Zenon
  <2>5. ASSUME Alone(p)
        PROVE  /\ got[p][0] \in Lists(p)
               /\ pc[p][0] \in {"join", "print"} \/ (pc[p][0] = "read" /\ loc[p][0].off > 0) =>
                    \A t \in Threads : Alive(p, t) => Has(got[p][0], Line(p, t))
    <3>1. OwnPhase(p, pc[p][0], loc[p][0], got[p][0], buf, AliveOf(p))
      BY <2>1, <2>5 DEF MainPhase
    <3>2. \A t \in Threads : t < 3
      BY DEF Threads
    <3> QED
      BY <3>1, <3>2 DEF OwnPhase, LinesOf, AliveOf
  <2> QED
    BY <2>2, <2>3, <2>5
<1> QED
  BY <1>1, ProcInvAlways, PTL

-----------------------------------------------------------------------------
(***************************************************************************)
(* The matrices.  MatInv says what is in z: of every entry the sum of the  *)
(* terms whose turn a thread has made.  A thread adds the terms of its     *)
(* rows and of its part of the dot products one by one, so after its last  *)
(* turn it has added them all, and those of two threads are not the same.  *)
(***************************************************************************)
(* The sums.  FoldSet is a recursive function on sets, so what it does is  *)
(* shown with a smallest counterexample: a set of numbers has a minimum.   *)

(* Inner is finite. *)
LEMMA TermSets ==
  /\ \A S \in SUBSET Inner : IsFiniteSet(S) /\ Cardinality(S) \in Nat
                             /\ Cardinality(S) <= Cardinality(Inner)
  /\ \A S \in SUBSET Inner : Cardinality(S) = 0 <=> S = {}
  /\ \A S \in SUBSET Inner : \A k \in S : Cardinality(S \ {k}) = Cardinality(S) - 1
  /\ Cardinality(Inner) \in Nat
<1>1. IsFiniteSet(Inner)
  BY MatricesAssumption, FS_Interval DEF Inner
<1>2. \A S \in SUBSET Inner : IsFiniteSet(S) /\ Cardinality(S) <= Cardinality(Inner)
  BY <1>1, FS_Subset
<1>3. \A S \in SUBSET Inner : Cardinality(S) \in Nat
  BY <1>2, FS_CardinalityType
<1> QED
  BY <1>1, <1>2, <1>3, FS_CardinalityType, FS_EmptySet, FS_RemoveElement

(* A family of sets of terms has a set in it that loses its place with *)
(* any of its terms.                                                   *)
LEMMA MinimalSet ==
  ASSUME NEW B \in SUBSET SUBSET Inner, B # {}
  PROVE  \E S \in B : \A k \in S : S \ {k} \notin B
<1> DEFINE Cards == {Cardinality(S) : S \in B}
<1>1. Cards \in SUBSET Nat /\ Cards # {}
  BY TermSets
<1>2. PICK n \in Cards : \A m \in Cards : n <= m
  <2> HIDE DEF Cards
  <2> QED
    BY <1>1, FirstOf
<1>3. PICK S \in B : n = Cardinality(S)
  BY <1>2
<1>4. ASSUME NEW k \in S, S \ {k} \in B PROVE FALSE
  <2>1. n <= Cardinality(S \ {k}) /\ Cardinality(S \ {k}) = Cardinality(S) - 1
    BY <1>2, <1>4, TermSets
  <2> QED
    BY <1>3, <2>1, TermSets
<1> QED
  BY <1>4

Term(i, j, k) == x[i][k] * y[k][j]
Sum(i, j, S) == FoldSet(LAMBDA k, s : s + x[i][k] * y[k][j], 0, S)
First(S) == CHOOSE k \in S : TRUE

(* One turn of the fold of a sum. *)
SumStep(i, j, g, S) == IF S = {} THEN 0 ELSE g[S \ {First(S)}] + Term(i, j, First(S))

(* The term a fold takes is one of the set. *)
LEMMA FirstIn == ASSUME NEW S, S # {} PROVE First(S) \in S
BY DEF First

(* Terms are integers. *)
LEMMA TermType ==
  ASSUME NEW i \in Rows, NEW j \in Cols, NEW k \in Inner
  PROVE  Term(i, j, k) \in Int
<1>1. x[i][k] \in Int /\ y[k][j] \in Int
  BY MatricesAssumption
<1> QED
  BY <1>1 DEF Term

(* The fold, as it is defined. *)
LEMMA SumIs ==
  ASSUME NEW i, NEW j, NEW S
  PROVE  Sum(i, j, S) = (CHOOSE g : g = [s \in SUBSET S |-> SumStep(i, j, g, s)])[S]
BY DEF Sum, FoldSet, MapThenFoldSet, SumStep, Term, First

(* There is a function that folds every set of terms, by induction on how  *)
(* many terms it is to fold.                                               *)
Few(m) == {S \in SUBSET Inner : Cardinality(S) <= m}

(* The function for m + 1 terms takes one step more than that for m. *)
LEMMA SumsExist ==
  ASSUME NEW i \in Rows, NEW j \in Cols
  PROVE  \E g \in [SUBSET Inner -> Int] : \A S \in SUBSET Inner : g[S] = SumStep(i, j, g, S)
<1> DEFINE Exists(m) == \E g \in [Few(m) -> Int] : \A S \in Few(m) : g[S] = SumStep(i, j, g, S)
<1>1. Exists(0)
  <2>1. Few(0) = {{}}
    BY TermSets DEF Few
  <2>2. [S \in {{}} |-> 0] \in [Few(0) -> Int]
    BY <2>1
  <2> QED
    BY <2>1, <2>2 DEF SumStep
<1>2. ASSUME NEW m \in Nat, Exists(m) PROVE Exists(m + 1)
  <2>1. PICK g \in [Few(m) -> Int] : \A S \in Few(m) : g[S] = SumStep(i, j, g, S)
    BY <1>2
  <2> DEFINE h == [S \in Few(m + 1) |-> SumStep(i, j, g, S)]
  <2>2. \A S \in Few(m + 1) : S # {} => First(S) \in Inner /\ S \ {First(S)} \in Few(m)
    BY FirstIn, TermSets DEF Few
  <2>3. h \in [Few(m + 1) -> Int]
    BY <2>2, TermType DEF SumStep
  <2>4. \A S \in Few(m) : S \in Few(m + 1) /\ h[S] = g[S]
    BY <2>1, TermSets DEF Few
  <2>5. \A S \in Few(m + 1) : h[S] = SumStep(i, j, h, S)
    <3> SUFFICES ASSUME NEW S \in Few(m + 1) PROVE h[S] = SumStep(i, j, h, S)
      OBVIOUS
    <3>1. h[S] = SumStep(i, j, g, S)
      OBVIOUS
    <3> HIDE DEF h
    <3>2. CASE S = {}
      BY <3>1, <3>2 DEF SumStep
    <3>3. CASE S # {}
      BY <2>2, <2>4, <3>1, <3>3 DEF SumStep
    <3> QED
      BY <3>2, <3>3
  <2> QED
    BY <2>3, <2>5
<1>3. \A m \in Nat : Exists(m)
  <2> DEFINE B == {m \in Nat : ~Exists(m)}
  <2> HIDE DEF Exists
  <2> SUFFICES ASSUME B # {} PROVE FALSE
    OBVIOUS
  <2>1. PICK m \in B : \A n \in B : m <= n
    BY FirstOf
  <2>2. m # 0 /\ m - 1 \in Nat
    BY <1>1, <2>1
  <2>3. Exists(m - 1)
    BY <2>1, <2>2
  <2>4. Exists((m - 1) + 1)
    BY <1>2, <2>2, <2>3
  <2> QED
    BY <2>1, <2>4
<1>4. Cardinality(Inner) \in Nat /\ Few(Cardinality(Inner)) = SUBSET Inner
  BY TermSets DEF Few
<1> QED
  BY <1>3, <1>4

(* Any function that folds every set gives the sums. *)
LEMMA SumIsSums ==
  ASSUME NEW i \in Rows, NEW j \in Cols,
         NEW g \in [SUBSET Inner -> Int], \A S \in SUBSET Inner : g[S] = SumStep(i, j, g, S),
         NEW S \in SUBSET Inner
  PROVE  Sum(i, j, S) = g[S]
<1> DEFINE Rec(f) == f = [s \in SUBSET S |-> SumStep(i, j, f, s)]
           iter == CHOOSE f : Rec(f)
           h == [s \in SUBSET S |-> g[s]]
<1>1. Sum(i, j, S) = iter[S]
  BY SumIs
<1>2. Rec(h)
  <2>1. \A s \in SUBSET S : h[s] = SumStep(i, j, h, s)
    <3> SUFFICES ASSUME NEW s \in SUBSET S PROVE h[s] = SumStep(i, j, h, s)
      OBVIOUS
    <3>1. h[s] = SumStep(i, j, g, s)
      OBVIOUS
    <3>2. s \ {First(s)} \in SUBSET S /\ h[s \ {First(s)}] = g[s \ {First(s)}]
      OBVIOUS
    <3> QED
      BY <3>1, <3>2 DEF SumStep
  <2> QED
    BY <2>1
<1>3. Rec(iter)
  <2> HIDE DEF Rec, h
  <2> QED
    BY <1>2
<1> HIDE DEF iter
<1>4. \A s \in SUBSET S : iter[s] = SumStep(i, j, iter, s)
  BY <1>3
<1> DEFINE B == {s \in SUBSET S : iter[s] # g[s]}
<1>5. ASSUME B # {} PROVE FALSE
  <2>1. PICK s \in B : \A k \in s : s \ {k} \notin B
    <3>1. B \in SUBSET SUBSET Inner
      OBVIOUS
    <3> QED
      BY <1>5, <3>1, MinimalSet
  <2>2. s # {}
    BY <1>4 DEF SumStep
  <2>3. First(s) \in s
    BY <2>2, FirstIn
  <2>4. iter[s \ {First(s)}] = g[s \ {First(s)}]
    BY <2>1, <2>3
  <2>5. iter[s] = g[s]
    BY <1>4, <2>2, <2>4 DEF SumStep
  <2> QED
    BY <2>5
<1> QED
  BY <1>1, <1>5

(* A sum of one more term. *)
LEMMA SumFacts ==
  ASSUME NEW i \in Rows, NEW j \in Cols
  PROVE  /\ Sum(i, j, {}) = 0
         /\ \A S \in SUBSET Inner : Sum(i, j, S) \in Int
         /\ \A S \in SUBSET Inner : \A k \in Inner \ S :
              Sum(i, j, S \cup {k}) = Sum(i, j, S) + Term(i, j, k)
<1>1. PICK g \in [SUBSET Inner -> Int] : \A S \in SUBSET Inner : g[S] = SumStep(i, j, g, S)
  BY SumsExist
<1>2. \A S \in SUBSET Inner : Sum(i, j, S) = g[S]
  BY <1>1, SumIsSums
<1> DEFINE Adds(S) == \A k \in Inner \ S : g[S \cup {k}] = g[S] + Term(i, j, k)
           B == {S \in SUBSET Inner : ~Adds(S)}
<1>3. ASSUME B # {} PROVE FALSE
  <2>1. PICK S \in B : \A k \in S : S \ {k} \notin B
    BY <1>3, MinimalSet
  <2>2. PICK k \in Inner \ S : g[S \cup {k}] # g[S] + Term(i, j, k)
    BY <2>1
  <2>3. PICK c \in S \cup {k} : c = First(S \cup {k})
    BY FirstIn
  <2>4. g[S \cup {k}] = g[(S \cup {k}) \ {c}] + Term(i, j, c)
    BY <1>1, <2>1, <2>2, <2>3 DEF SumStep
  <2>5. CASE c = k
    <3>1. (S \cup {k}) \ {c} = S
      BY <2>2, <2>5
    <3> QED
      BY <2>2, <2>4, <2>5, <3>1
  <2>6. CASE c # k
    <3>1. c \in S /\ c \in Inner /\ S \ {c} \in SUBSET Inner
      BY <2>1, <2>3, <2>6
    <3>2. Adds(S \ {c})
      BY <2>1, <3>1
    <3>3. (S \cup {k}) \ {c} = (S \ {c}) \cup {k} /\ (S \ {c}) \cup {c} = S
          /\ k \in Inner \ (S \ {c}) /\ c \in Inner \ (S \ {c})
      BY <2>2, <2>6, <3>1
    <3>4. /\ g[(S \cup {k}) \ {c}] = g[S \ {c}] + Term(i, j, k)
          /\ g[S] = g[S \ {c}] + Term(i, j, c)
      BY <3>2, <3>3
    <3>5. g[S \ {c}] \in Int /\ Term(i, j, k) \in Int /\ Term(i, j, c) \in Int
      BY <2>2, <3>1, TermType
    <3> QED
      BY <2>2, <2>4, <3>4, <3>5
  <2> QED
    BY <2>5, <2>6
<1>4. \A S \in SUBSET Inner : \A k \in Inner \ S : g[S \cup {k}] = g[S] + Term(i, j, k)
  BY <1>3
<1>5. \A S \in SUBSET Inner : \A k \in Inner \ S : S \cup {k} \in SUBSET Inner
  OBVIOUS
<1>6. g[{}] = 0
  BY <1>1 DEF SumStep
<1> QED
  BY <1>2, <1>4, <1>5, <1>6

-----------------------------------------------------------------------------
(* The place of a term in the order a thread adds them in, and the terms   *)
(* of an entry that the threads have added.                                *)
Part(p, t, i, k) ==
  i \in RowsOf(p, t)[1] .. RowsOf(p, t)[2] /\ k \in InnerOf(p, t)[1] .. InnerOf(p, t)[2]
Index(p, t, i, j, k) ==
  ((i - RowsOf(p, t)[1]) * matrix_col_y + (j - 1)) * Terms(p, t) + (k - InnerOf(p, t)[1])
Count(p, t) == turn[p][t] + (IF pc[p][t] = "unlock" THEN 1 ELSE 0)
Added(p, i, j) ==
  {k \in Inner : \E t \in Threads : Part(p, t, i, k) /\ Index(p, t, i, j, k) < Count(p, t)}

Locked == {"load", "store", "unlock"}
Turning == {"lock", "add"} \cup Locked

(* A thread has turns left as long as it is in its loops. *)
TurnOK(p, t) ==
  /\ pc[p][t] = "none" => turn[p][t] = 0
  /\ pc[p][t] \in Turning => turn[p][t] < Turns(p, t)
  /\ pc[p][t] \notin Turning \cup {"none"} => turn[p][t] >= Turns(p, t)
  /\ pc[p][t] \in {"lock"} \cup Locked => prog[p] = "2_2"
  /\ pc[p][t] = "add" => prog[p] # "2_2"
  /\ pc[p][t] = "print" => prog[p] = "2_1"
TurnsOK(p) == \A t \in Threads : TurnOK(p, t)

(* The threads of 2_2 take turns with an entry. *)
LockOK(p) ==
  prog[p] = "2_2" =>
    /\ \A t \in Threads : pc[p][t] \in Locked => locked[p]
    /\ \A t, u \in Threads : pc[p][t] \in Locked /\ pc[p][u] \in Locked => t = u
    /\ \A t \in Threads : pc[p][t] = "store" => reg[p][t] = EntryOf(p, t)

SumsOK(p) ==
  \A i \in Rows : \A j \in Cols : z[p][i][j] = Sum(i, j, Added(p, i, j))

(* Who has written the result. *)
PrintedOK(p) ==
  /\ prog[p] = "2_1" => pc[p][0] # "print" /\ (pc[p][1] = "exit" => printed[p] = Product)
  /\ prog[p] = "3_2_one" =>
       /\ printed[p] = << >> /\ pc[p][0] # "print"
       /\ pc[p][1] = "exit" => pc[p][0] = "done"
  /\ prog[p] # "3_2_one" /\ pc[p][0] = "done" => printed[p] = Product

Multiplies(p) == TurnsOK(p) /\ LockOK(p) /\ SumsOK(p) /\ PrintedOK(p)
MatTypes ==
  /\ reg \in [Processes -> [Threads -> Int]]
  /\ z \in [Processes -> [Rows -> [Cols -> Int]]]
  /\ printed \in [Processes -> {<< >>, Product}]

-----------------------------------------------------------------------------
(* The turns of three loops, one inside the other. *)
LEMMA Division ==
  ASSUME NEW m \in Nat \ {0}, NEW n \in Nat
  PROVE  n \div m \in Nat /\ n % m \in 0 .. (m - 1) /\ n = m * (n \div m) + (n % m)
OBVIOUS

(* Quotient and remainder are the only ones. *)
LEMMA DivisionUnique ==
  ASSUME NEW m \in Nat \ {0}, NEW q \in Nat, NEW r \in 0 .. (m - 1)
  PROVE  (q * m + r) \div m = q /\ (q * m + r) % m = r
OBVIOUS

(* A larger factor makes room for another m. *)
LEMMA ProductGrows ==
  ASSUME NEW a \in Nat, NEW b \in Nat, NEW m \in Nat, a < b
  PROVE  a * m + m <= b * m
<1>1. PICK d \in Nat : b = a + 1 + d
  <2>1. b - a - 1 \in Nat
    OBVIOUS
  <2> QED
    BY <2>1
<1>2. b * m = a * m + m + d * m /\ d * m \in Nat
  BY <1>1
<1>3. a * m \in Nat
  OBVIOUS
<1> QED
  BY <1>2, <1>3

(* The n-th turn of three loops with R, C and T turns. *)
IsTurn(R, C, T, n) ==
  /\ n \div (C * T) \in 0 .. (R - 1)
  /\ (n \div T) % C \in 0 .. (C - 1)
  /\ n % T \in 0 .. (T - 1)
  /\ ((n \div (C * T)) * C + ((n \div T) % C)) * T + (n % T) = n

(* Every turn is at such a place. *)
LEMMA LoopTurn ==
  ASSUME NEW R \in Nat, NEW C \in Nat, NEW T \in Nat, NEW n \in Nat, n < R * C * T
  PROVE  IsTurn(R, C, T, n)
<1>1. C > 0 /\ T > 0
  <2>1. C # 0
    OBVIOUS
  <2>2. T # 0
    OBVIOUS
  <2> QED
    BY <2>1, <2>2
<1>2. PICK q \in Nat, r \in 0 .. (T - 1) : q = n \div T /\ r = n % T /\ n = T * q + r
  BY <1>1, Division
<1>3. PICK a \in Nat, b \in 0 .. (C - 1) : a = q \div C /\ b = q % C /\ q = C * a + b
  BY <1>1, Division
<1>4. PICK m \in Nat \ {0} : m = C * T
  BY <1>1
<1>5. n = a * m + (b * T + r)
  <2>1. T * q = T * (C * a) + T * b
    BY <1>3
  <2>2. T * (C * a) = a * m /\ T * b = b * T
    BY <1>4
  <2> QED
    BY <1>2, <2>1, <2>2
<1>6. b * T + r \in 0 .. (m - 1)
  <2>1. b * T + T <= C * T /\ b * T \in Nat
    BY ProductGrows
  <2> QED
    BY <1>4, <2>1
<1>7. n \div m = a
  BY <1>5, <1>6, DivisionUnique
<1>8. a < R
  <2> SUFFICES ASSUME a >= R PROVE FALSE
    OBVIOUS
  <2>1. R * m <= a * m
    <3>1. PICK d \in Nat : a = R + d
      <4>1. a - R \in Nat
        OBVIOUS
      <4> QED
        BY <4>1
    <3>2. a * m = R * m + d * m /\ d * m \in Nat /\ R * m \in Nat
      BY <3>1
    <3> QED
      BY <3>2
  <2>2. R * C * T = R * m
    BY <1>4
  <2>3. a * m \in Nat /\ R * m \in Nat
    OBVIOUS
  <2> QED
    BY <1>5, <1>6, <2>1, <2>2, <2>3
<1>9. (a * C + b) * T + r = n
  <2>1. a * C + b = q
    BY <1>3
  <2>2. q * T = T * q
    OBVIOUS
  <2> QED
    BY <1>2, <2>1, <2>2
<1> QED
  BY <1>1, <1>2, <1>3, <1>4, <1>7, <1>8, <1>9 DEF IsTurn

(* Different turns are at different places. *)
LEMMA LoopTurnUnique ==
  ASSUME NEW C \in Nat, NEW T \in Nat,
         NEW a \in Nat, NEW b \in 0 .. (C - 1), NEW r \in 0 .. (T - 1),
         NEW a2 \in Nat, NEW b2 \in 0 .. (C - 1), NEW r2 \in 0 .. (T - 1),
         (a * C + b) * T + r = (a2 * C + b2) * T + r2
  PROVE  a = a2 /\ b = b2 /\ r = r2
<1>1. C \in Nat \ {0} /\ T \in Nat \ {0}
  OBVIOUS
<1>2. PICK q \in Nat : q = a * C + b
  OBVIOUS
<1>3. PICK q2 \in Nat : q2 = a2 * C + b2
  OBVIOUS
<1>4. q * T + r = q2 * T + r2
  BY <1>2, <1>3
<1>5. q = q2 /\ r = r2
  <2>1. (q * T + r) \div T = q /\ (q * T + r) % T = r
    BY <1>1, DivisionUnique
  <2>2. (q2 * T + r2) \div T = q2 /\ (q2 * T + r2) % T = r2
    BY <1>1, DivisionUnique
  <2> QED
    BY <1>4, <2>1, <2>2
<1>6. a = a2 /\ b = b2
  <2>1. (a * C + b) \div C = a /\ (a * C + b) % C = b
    BY <1>1, DivisionUnique
  <2>2. (a2 * C + b2) \div C = a2 /\ (a2 * C + b2) % C = b2
    BY <1>1, DivisionUnique
  <2> QED
    BY <1>2, <1>3, <1>5, <2>1, <2>2
<1> QED
  BY <1>5, <1>6

(* After all turns every term has had its own. *)
LEMMA LoopsDone ==
  ASSUME NEW R \in Nat, NEW C \in Nat, NEW T \in Nat,
         NEW a \in 0 .. (R - 1), NEW b \in 0 .. (C - 1), NEW r \in 0 .. (T - 1)
  PROVE  (a * C + b) * T + r < R * C * T
<1>1. a * C + C <= R * C /\ a * C \in Nat /\ R * C \in Nat
  BY ProductGrows
<1>2. PICK q \in Nat : q = a * C + b
  BY <1>1
<1>3. PICK m \in Nat : m = R * C
  BY <1>1
<1>4. q < m
  BY <1>1, <1>2, <1>3
<1>5. q * T + T <= m * T /\ q * T \in Nat /\ m * T \in Nat
  BY <1>4, ProductGrows
<1> QED
  BY <1>2, <1>3, <1>5

-----------------------------------------------------------------------------
(* The rows and terms of a thread. *)
LEMMA PartFacts ==
  ASSUME NEW p \in Processes, NEW t \in Threads
  PROVE  /\ RowsOf(p, t)[1] \in Nat \ {0} /\ RowsOf(p, t)[2] \in 0 .. matrix_row_x
         /\ InnerOf(p, t)[1] \in Nat \ {0} /\ InnerOf(p, t)[2] \in 0 .. matrix_row_y
         /\ Length(RowsOf(p, t)) = RowsOf(p, t)[2] - RowsOf(p, t)[1] + 1
         /\ Length(RowsOf(p, t)) \in Nat
         /\ Terms(p, t) = InnerOf(p, t)[2] - InnerOf(p, t)[1] + 1 /\ Terms(p, t) \in Nat
<1>1. \A n \in Nat : n \div 2 \in 0 .. n
  OBVIOUS
<1>2. matrix_row_x \div 2 \in 0 .. matrix_row_x /\ matrix_row_y \div 2 \in 0 .. matrix_row_y
  BY <1>1, MatricesAssumption
<1>3. /\ RowsOf(p, t)[1] \in Nat \ {0} /\ RowsOf(p, t)[2] \in 0 .. matrix_row_x
      /\ RowsOf(p, t)[1] <= RowsOf(p, t)[2] + 1
  BY <1>2, MatricesAssumption DEF RowsOf
<1>4. /\ InnerOf(p, t)[1] \in Nat \ {0} /\ InnerOf(p, t)[2] \in 0 .. matrix_row_y
      /\ InnerOf(p, t)[1] <= InnerOf(p, t)[2] + 1
  BY <1>2, MatricesAssumption DEF InnerOf
<1> QED
  BY <1>3, <1>4 DEF Length, Terms

(* A place of the part, counted from where the part begins. *)
LEMMA PartBounds ==
  ASSUME NEW p \in Processes, NEW t \in Threads, NEW i, NEW k, Part(p, t, i, k)
  PROVE  /\ i \in Rows /\ k \in Inner
         /\ i - RowsOf(p, t)[1] \in 0 .. (Length(RowsOf(p, t)) - 1)
         /\ k - InnerOf(p, t)[1] \in 0 .. (Terms(p, t) - 1)
<1> DEFINE lo == RowsOf(p, t)[1]
           hi == RowsOf(p, t)[2]
           from == InnerOf(p, t)[1]
           to == InnerOf(p, t)[2]
<1>1. i \in lo .. hi /\ k \in from .. to
  BY DEF Part
<1>2. /\ lo \in Nat \ {0} /\ hi \in 0 .. matrix_row_x /\ Length(RowsOf(p, t)) = hi - lo + 1
      /\ from \in Nat \ {0} /\ to \in 0 .. matrix_row_y /\ Terms(p, t) = to - from + 1
  BY PartFacts
<1> HIDE DEF lo, hi, from, to
<1>3. i - lo \in 0 .. (Length(RowsOf(p, t)) - 1) /\ k - from \in 0 .. (Terms(p, t) - 1)
  BY <1>1, <1>2, MatricesAssumption
<1>4. i \in Rows /\ k \in Inner
  BY <1>1, <1>2, MatricesAssumption DEF Rows, Inner
<1> QED
  BY <1>3, <1>4 DEF lo, from

(* Every term of a thread's part has a turn of its own, *)
LEMMA IndexFacts ==
  ASSUME NEW p \in Processes, NEW t \in Threads, NEW i, NEW j \in Cols, NEW k, Part(p, t, i, k)
  PROVE  /\ i \in Rows /\ k \in Inner
         /\ Index(p, t, i, j, k) \in Nat /\ Index(p, t, i, j, k) < Turns(p, t)
<1> DEFINE R == Length(RowsOf(p, t))
           T == Terms(p, t)
           C == matrix_col_y
<1>1. R \in Nat /\ T \in Nat /\ C \in Nat
  BY PartFacts, MatricesAssumption
<1>2. PICK a \in 0 .. (R - 1), r \in 0 .. (T - 1) :
        a = i - RowsOf(p, t)[1] /\ r = k - InnerOf(p, t)[1]
  BY PartBounds
<1>6. PICK b \in 0 .. (C - 1) : b = j - 1
  BY <1>1 DEF Cols
<1>3. Index(p, t, i, j, k) = (a * C + b) * T + r /\ Turns(p, t) = R * C * T
  BY <1>2, <1>6 DEF Index, Turns
<1> HIDE DEF R, T, C
<1>4. (a * C + b) * T + r < R * C * T
  BY <1>1, LoopsDone
<1>5. (a * C + b) * T + r \in Nat
  BY <1>1
<1> QED
  BY <1>3, <1>4, <1>5, PartBounds

(* no two terms have the same turn, *)
LEMMA IndexUnique ==
  ASSUME NEW p \in Processes, NEW t \in Threads,
         NEW i, NEW j \in Cols, NEW k, Part(p, t, i, k),
         NEW i2, NEW j2 \in Cols, NEW k2, Part(p, t, i2, k2),
         Index(p, t, i, j, k) = Index(p, t, i2, j2, k2)
  PROVE  i = i2 /\ j = j2 /\ k = k2
<1> DEFINE T == Terms(p, t)
           C == matrix_col_y
           lo == RowsOf(p, t)[1]
           from == InnerOf(p, t)[1]
<1>1. T \in Nat /\ C \in Nat /\ lo \in Nat /\ from \in Nat
  BY PartFacts, MatricesAssumption
<1>2. /\ i - lo \in Nat /\ k - from \in 0 .. (T - 1)
      /\ i2 - lo \in Nat /\ k2 - from \in 0 .. (T - 1)
      /\ i \in Int /\ i2 \in Int /\ k \in Int /\ k2 \in Int
  BY PartFacts, PartBounds DEF Rows, Inner
<1>3. ((i - lo) * C + (j - 1)) * T + (k - from) = ((i2 - lo) * C + (j2 - 1)) * T + (k2 - from)
  BY DEF Index
<1>4. Cols = 1 .. C
  BY DEF Cols
<1> HIDE DEF T, C, lo, from
<1>5. PICK a \in Nat, b \in 0 .. (C - 1), r \in 0 .. (T - 1) :
        a = i - lo /\ b = j - 1 /\ r = k - from
  BY <1>1, <1>2, <1>4
<1>6. PICK a2 \in Nat, b2 \in 0 .. (C - 1), r2 \in 0 .. (T - 1) :
        a2 = i2 - lo /\ b2 = j2 - 1 /\ r2 = k2 - from
  BY <1>1, <1>2, <1>4
<1>7. (a * C + b) * T + r = (a2 * C + b2) * T + r2
  BY <1>3, <1>5, <1>6
<1>8. a = a2 /\ b = b2 /\ r = r2
  BY <1>1, <1>7, LoopTurnUnique
<1> QED
  BY <1>1, <1>2, <1>4, <1>5, <1>6, <1>8

(* and every turn adds a term of the part. *)
LEMMA TurnFacts ==
  ASSUME NEW p \in Processes, NEW t \in Threads, NEW n \in Nat, n < Turns(p, t)
  PROVE  /\ Part(p, t, RowAt(p, t, n), TermAt(p, t, n)) /\ ColAt(p, t, n) \in Cols
         /\ Index(p, t, RowAt(p, t, n), ColAt(p, t, n), TermAt(p, t, n)) = n
<1> DEFINE R == Length(RowsOf(p, t))
           T == Terms(p, t)
           C == matrix_col_y
           lo == RowsOf(p, t)[1]
           hi == RowsOf(p, t)[2]
           from == InnerOf(p, t)[1]
           to == InnerOf(p, t)[2]
<1>1. /\ R \in Nat /\ T \in Nat /\ C \in Nat /\ lo \in Nat /\ from \in Nat
      /\ hi \in Nat /\ to \in Nat /\ R = hi - lo + 1 /\ T = to - from + 1
  BY PartFacts, MatricesAssumption
<1>2. n < R * C * T
  BY DEF Turns
<1>3. /\ RowAt(p, t, n) = lo + n \div (C * T) /\ ColAt(p, t, n) = 1 + ((n \div T) % C)
      /\ TermAt(p, t, n) = from + (n % T)
  BY DEF RowAt, ColAt, TermAt
<1>4. \A i, j, k : /\ Index(p, t, i, j, k) = ((i - lo) * C + (j - 1)) * T + (k - from)
                   /\ Part(p, t, i, k) <=> i \in lo .. hi /\ k \in from .. to
  BY DEF Index, Part
<1>5. Cols = 1 .. C
  BY DEF Cols
<1> HIDE DEF R, T, C, lo, hi, from, to
<1> DEFINE a == n \div (C * T)
           b == (n \div T) % C
           r == n % T
<1>6. /\ a \in 0 .. (R - 1) /\ b \in 0 .. (C - 1) /\ r \in 0 .. (T - 1)
      /\ (a * C + b) * T + r = n
  <2>1. R \in Nat
    BY <1>1
  <2>2. C \in Nat
    BY <1>1
  <2>3. T \in Nat
    BY <1>1
  <2>4. IsTurn(R, C, T, n)
    BY <1>2, <2>1, <2>2, <2>3, LoopTurn, Zenon
  <2> QED
    BY <2>4 DEF IsTurn
<1>9. RowAt(p, t, n) = lo + a /\ ColAt(p, t, n) = 1 + b /\ TermAt(p, t, n) = from + r
  BY <1>3
<1> HIDE DEF a, b, r
<1>7. /\ RowAt(p, t, n) \in lo .. hi /\ ColAt(p, t, n) \in 1 .. C /\ TermAt(p, t, n) \in from .. to
      /\ RowAt(p, t, n) - lo = a /\ ColAt(p, t, n) - 1 = b /\ TermAt(p, t, n) - from = r
  BY <1>1, <1>6, <1>9
<1> QED
  BY <1>4, <1>5, <1>6, <1>7

(* The parts of a program's threads are the terms of all entries, once.    *)
LEMMA PartsDiffer ==
  ASSUME NEW p \in Processes, NEW t \in ThreadsOf(p), NEW u \in ThreadsOf(p), t # u,
         prog[p] \in Programs \ {"none"}, NEW i, NEW k
  PROVE  ~(Part(p, t, i, k) /\ Part(p, u, i, k))
<1>1. prog[p] \in {"3_1", "3_2", "2_2"} /\ ((t = 1 /\ u = 2) \/ (t = 2 /\ u = 1))
  BY DEF ThreadsOf, Threads, Programs, OneThread, UsesProc
<1>2. PICK h \in Nat, l \in Nat : h = matrix_row_x \div 2 /\ l = matrix_row_y \div 2
  BY MatricesAssumption
<1>3. ~(Part(p, 1, i, k) /\ Part(p, 2, i, k))
  <2>1. CASE prog[p] \in {"3_1", "3_2"}
    <3>1. RowsOf(p, 1) = <<1, h>> /\ RowsOf(p, 2) = <<h + 1, matrix_row_x>>
      BY <1>2, <2>1 DEF RowsOf
    <3>2. ~(i \in 1 .. h /\ i \in h + 1 .. matrix_row_x)
      BY MatricesAssumption
    <3> QED
      BY <3>1, <3>2 DEF Part
  <2>2. CASE prog[p] = "2_2"
    <3>1. InnerOf(p, 1) = <<1, l>> /\ InnerOf(p, 2) = <<l + 1, matrix_row_y>>
      BY <1>2, <2>2 DEF InnerOf
    <3>2. ~(k \in 1 .. l /\ k \in l + 1 .. matrix_row_y)
      BY MatricesAssumption
    <3> QED
      BY <3>1, <3>2 DEF Part
  <2> QED
    BY <1>1, <2>1, <2>2
<1> QED
  BY <1>1, <1>3

(* Every term is of the part of some thread. *)
LEMMA PartsCover ==
  ASSUME NEW p \in Processes, prog[p] \in Programs \ {"none"}, NEW i \in Rows, NEW k \in Inner
  PROVE  \E t \in ThreadsOf(p) : Part(p, t, i, k)
<1>1. matrix_row_x \div 2 \in Nat /\ matrix_row_y \div 2 \in Nat
  BY MatricesAssumption
<1>2. CASE prog[p] \in {"3_1", "3_2"}
  <2>1. ThreadsOf(p) = {1, 2} /\ \A t \in {1, 2} : InnerOf(p, t) = <<1, matrix_row_y>>
    BY <1>2 DEF ThreadsOf, OneThread, InnerOf, Threads
  <2>2. /\ RowsOf(p, 1) = <<1, matrix_row_x \div 2>>
        /\ RowsOf(p, 2) = <<matrix_row_x \div 2 + 1, matrix_row_x>>
    BY <1>2 DEF RowsOf
  <2>3. i \in 1 .. matrix_row_x \div 2 \/ i \in matrix_row_x \div 2 + 1 .. matrix_row_x
    BY <1>1, MatricesAssumption DEF Rows
  <2> QED
    BY <2>1, <2>2, <2>3 DEF Part, Inner
<1>3. CASE prog[p] = "2_2"
  <2>1. ThreadsOf(p) = {1, 2} /\ \A t \in {1, 2} : RowsOf(p, t) = <<1, matrix_row_x>>
    BY <1>3 DEF ThreadsOf, OneThread, RowsOf, Threads
  <2>2. /\ InnerOf(p, 1) = <<1, matrix_row_y \div 2>>
        /\ InnerOf(p, 2) = <<matrix_row_y \div 2 + 1, matrix_row_y>>
    BY <1>3 DEF InnerOf
  <2>3. k \in 1 .. matrix_row_y \div 2 \/ k \in matrix_row_y \div 2 + 1 .. matrix_row_y
    BY <1>1, MatricesAssumption DEF Inner
  <2> QED
    BY <2>1, <2>2, <2>3 DEF Part, Rows
<1>4. CASE prog[p] \in OneThread
  BY <1>4 DEF ThreadsOf, OneThread, Part, RowsOf, InnerOf, Rows, Inner
<1> QED
  BY <1>2, <1>3, <1>4 DEF Programs, OneThread, UsesProc

-----------------------------------------------------------------------------
(* What depends on the program alone stays. *)
LEMMA PartsStay ==
  ASSUME prog' = prog, NEW p \in Processes
  PROVE  /\ ThreadsOf(p)' = ThreadsOf(p)
         /\ \A t \in Threads : Turns(p, t)' = Turns(p, t)
         /\ \A t \in Threads : \A i, k : Part(p, t, i, k)' <=> Part(p, t, i, k)
         /\ \A t \in Threads : \A i, j, k : Index(p, t, i, j, k)' = Index(p, t, i, j, k)
<1>1. \A t \in Threads : RowsOf(p, t)' = RowsOf(p, t) /\ InnerOf(p, t)' = InnerOf(p, t)
  BY DEF RowsOf, InnerOf
<1>2. \A t \in Threads : Terms(p, t)' = Terms(p, t)
  BY <1>1 DEF Terms, Length
<1> QED
  BY <1>1, <1>2 DEF ThreadsOf, Turns, Length, Part, Index

(* The entry that a thread stores to gets one term more, the others none.  *)
LEMMA TermAdded ==
  ASSUME NEW p \in Processes, prog[p] \in Programs \ {"none"}, prog' = prog,
         turn \in [Processes -> [Threads -> Nat]],
         \A u \in Threads \ ThreadsOf(p) : Count(p, u) = 0,
         NEW t \in ThreadsOf(p), Count(p, t) < Turns(p, t), Count(p, t)' = Count(p, t) + 1,
         \A u \in Threads \ {t} : Count(p, u)' = Count(p, u),
         NEW i0, NEW j0, NEW k0, i0 = RowAt(p, t, Count(p, t)),
         j0 = ColAt(p, t, Count(p, t)), k0 = TermAt(p, t, Count(p, t))
  PROVE  /\ i0 \in Rows /\ j0 \in Cols /\ k0 \in Inner \ Added(p, i0, j0)
         /\ \A i \in Rows, j \in Cols :
              Added(p, i, j)' = Added(p, i, j) \cup (IF i = i0 /\ j = j0 THEN {k0} ELSE {})
<1> DEFINE n == Count(p, t)
<1>1. t \in Threads /\ n \in Nat
  BY DEF Count, ThreadsOf, Threads
<1>2. Part(p, t, i0, k0) /\ j0 \in Cols /\ Index(p, t, i0, j0, k0) = n
  BY <1>1, TurnFacts
<1>3. i0 \in Rows /\ k0 \in Inner
  BY <1>1, <1>2, PartBounds
<1>4. ASSUME NEW u \in Threads, Part(p, u, i0, k0), Index(p, u, i0, j0, k0) < Count(p, u)
      PROVE  FALSE
  <2>1. u # t
    BY <1>1, <1>2, <1>4
  <2>2. CASE u \in ThreadsOf(p)
    BY <1>2, <1>4, <2>1, <2>2, PartsDiffer
  <2>3. CASE u \notin ThreadsOf(p)
    <3>1. Index(p, u, i0, j0, k0) \in Nat /\ Count(p, u) = 0
      BY <1>2, <1>4, <2>3, IndexFacts
    <3> QED
      BY <1>4, <3>1
  <2> QED
    BY <2>2, <2>3
<1>5. ASSUME NEW i \in Rows, NEW j \in Cols
      PROVE  Added(p, i, j)' = Added(p, i, j) \cup (IF i = i0 /\ j = j0 THEN {k0} ELSE {})
  <2>1. ASSUME NEW k \in Inner, NEW u \in Threads \ {t}
        PROVE  Part(p, u, i, k)' /\ Index(p, u, i, j, k)' < Count(p, u)'
                 <=> Part(p, u, i, k) /\ Index(p, u, i, j, k) < Count(p, u)
    BY PartsStay
  <2>2. ASSUME NEW k \in Inner
        PROVE  Part(p, t, i, k)' /\ Index(p, t, i, j, k)' < Count(p, t)'
                 <=> \/ Part(p, t, i, k) /\ Index(p, t, i, j, k) < n
                     \/ i = i0 /\ j = j0 /\ k = k0
    <3>1. Part(p, t, i, k)' <=> Part(p, t, i, k)
      BY <1>1, PartsStay
    <3>2. Index(p, t, i, j, k)' = Index(p, t, i, j, k)
      BY <1>1, PartsStay
    <3>3. ASSUME Part(p, t, i, k)
          PROVE  /\ Index(p, t, i, j, k) \in Nat
                 /\ Index(p, t, i, j, k) = n <=> i = i0 /\ j = j0 /\ k = k0
      <4>1. Index(p, t, i, j, k) \in Nat
        BY <1>1, <3>3, IndexFacts
      <4>2. ASSUME Index(p, t, i, j, k) = Index(p, t, i0, j0, k0)
            PROVE  i = i0 /\ j = j0 /\ k = k0
        <5>1. j0 \in Cols /\ Part(p, t, i0, k0)
          BY <1>2
        <5> QED
          BY <1>1, <3>3, <4>2, <5>1, IndexUnique
      <4> QED
        BY <1>2, <4>1, <4>2
    <3>4. Count(p, t)' = n + 1
      OBVIOUS
    <3> HIDE DEF n
    <3> QED
      BY <1>1, <1>2, <3>1, <3>2, <3>3, <3>4
  <2>3. \A k \in Inner :
          k \in Added(p, i, j)' <=> k \in Added(p, i, j) \/ (i = i0 /\ j = j0 /\ k = k0)
    <3> SUFFICES ASSUME NEW k \in Inner
                 PROVE  k \in Added(p, i, j)'
                          <=> k \in Added(p, i, j) \/ (i = i0 /\ j = j0 /\ k = k0)
      OBVIOUS
    <3> DEFINE A(u) == Part(p, u, i, k) /\ Index(p, u, i, j, k) < Count(p, u)
               B(u) == Part(p, u, i, k)' /\ Index(p, u, i, j, k)' < Count(p, u)'
    <3>1. /\ k \in Added(p, i, j)' <=> \E u \in Threads : B(u)
          /\ k \in Added(p, i, j) <=> \E u \in Threads : A(u)
      BY DEF Added, Threads, Inner
    <3>2. \A u \in Threads \ {t} : B(u) <=> A(u)
      BY <2>1
    <3>3. B(t) <=> A(t) \/ (i = i0 /\ j = j0 /\ k = k0)
      BY <2>2
    <3> HIDE DEF A, B
    <3> QED
      BY <1>1, <3>1, <3>2, <3>3
  <2>4. Added(p, i, j) \subseteq Inner /\ Added(p, i, j)' \subseteq Inner
    BY DEF Added, Inner
  <2> QED
    BY <1>3, <2>3, <2>4
<1>6. k0 \notin Added(p, i0, j0)
  BY <1>4 DEF Added
<1> QED
  BY <1>2, <1>3, <1>5, <1>6

(* An addition to an entry, with the value the entry has, keeps the sums. *)
LEMMA SumAdded ==
  ASSUME NEW p \in Processes, prog[p] \in Programs \ {"none"}, prog' = prog, SumsOK(p),
         turn \in [Processes -> [Threads -> Nat]], z \in [Processes -> [Rows -> [Cols -> Int]]],
         \A u \in Threads \ ThreadsOf(p) : Count(p, u) = 0,
         NEW t \in ThreadsOf(p), turn[p][t] < Turns(p, t), Count(p, t) = turn[p][t],
         Count(p, t)' = Count(p, t) + 1,
         \A u \in Threads \ {t} : Count(p, u)' = Count(p, u),
         AddTerm(p, t, EntryOf(p, t))
  PROVE  /\ SumsOK(p)' /\ z' \in [Processes -> [Rows -> [Cols -> Int]]]
         /\ \A q \in Processes \ {p} : z'[q] = z[q]
<1> DEFINE i0 == RowAt(p, t, turn[p][t])
           j0 == ColAt(p, t, turn[p][t])
           k0 == TermAt(p, t, turn[p][t])
<1>1. /\ i0 \in Rows /\ j0 \in Cols /\ k0 \in Inner \ Added(p, i0, j0)
      /\ \A i \in Rows, j \in Cols :
           Added(p, i, j)' = Added(p, i, j) \cup (IF i = i0 /\ j = j0 THEN {k0} ELSE {})
  <2>1. Count(p, t) < Turns(p, t)
    OBVIOUS
  <2>2. /\ i0 = RowAt(p, t, Count(p, t)) /\ j0 = ColAt(p, t, Count(p, t))
        /\ k0 = TermAt(p, t, Count(p, t))
    OBVIOUS
  <2> HIDE DEF i0, j0, k0
  <2> QED
    BY <2>1, <2>2, TermAdded
<1>2. z' = [z EXCEPT ![p][i0][j0] = z[p][i0][j0] + Term(i0, j0, k0)]
  BY DEF AddTerm, EntryOf, Term
<1> HIDE DEF i0, j0, k0
<1>3. z[p][i0][j0] \in Int /\ Term(i0, j0, k0) \in Int
  BY <1>1, TermType
<1>4. PICK e \in Int : e = z[p][i0][j0] + Term(i0, j0, k0)
  BY <1>3
<1>5. z' = [z EXCEPT ![p][i0][j0] = e]
  BY <1>2, <1>4
<1>6. z' \in [Processes -> [Rows -> [Cols -> Int]]] /\ \A q \in Processes \ {p} : z'[q] = z[q]
  BY <1>1, <1>5
<1>7. \A i \in Rows, j \in Cols : z'[p][i][j] = IF i = i0 /\ j = j0 THEN e ELSE z[p][i][j]
  BY <1>1, <1>5
<1>8. ASSUME NEW i \in Rows, NEW j \in Cols PROVE z'[p][i][j] = Sum(i, j, Added(p, i, j)')
  <2>1. z[p][i][j] = Sum(i, j, Added(p, i, j)) /\ Added(p, i, j) \in SUBSET Inner
    BY DEF SumsOK, Added
  <2>2. CASE i = i0 /\ j = j0
    <3>1. Added(p, i, j)' = Added(p, i, j) \cup {k0} /\ k0 \in Inner \ Added(p, i, j)
      BY <1>1, <2>2
    <3>2. Sum(i, j, Added(p, i, j) \cup {k0}) = Sum(i, j, Added(p, i, j)) + Term(i, j, k0)
      BY <2>1, <3>1, SumFacts
    <3> QED
      BY <1>4, <1>7, <2>1, <2>2, <3>1, <3>2
  <2>3. CASE ~(i = i0 /\ j = j0)
    <3>1. Added(p, i, j)' = Added(p, i, j) \cup (IF i = i0 /\ j = j0 THEN {k0} ELSE {})
      BY <1>1
    <3>2. Added(p, i, j)' = Added(p, i, j)
      BY <2>3, <3>1
    <3> QED
      BY <1>7, <2>1, <2>3, <3>2
  <2> QED
    BY <2>2, <2>3
<1>9. SumsOK(p)'
  <2> SUFFICES ASSUME NEW i \in Rows, NEW j \in Cols
               PROVE  z'[p][i][j] = Sum(i, j, Added(p, i, j))'
    BY DEF SumsOK, Rows, Cols
  <2> QED
    BY <1>8
<1> QED
  BY <1>6, <1>9

(* When the threads are done, z is the product. *)
LEMMA AllAdded ==
  ASSUME NEW p \in Processes, prog[p] \in Programs \ {"none"}, SumsOK(p),
         turn \in [Processes -> [Threads -> Nat]], z \in [Processes -> [Rows -> [Cols -> Int]]],
         \A t \in ThreadsOf(p) : turn[p][t] >= Turns(p, t)
  PROVE  z[p] = Product
<1>1. ASSUME NEW i \in Rows, NEW j \in Cols PROVE z[p][i][j] = Product[i][j]
  <2>1. ASSUME NEW k \in Inner PROVE k \in Added(p, i, j)
    <3>1. PICK t \in ThreadsOf(p) : Part(p, t, i, k)
      BY PartsCover
    <3>2. t \in Threads
      BY DEF ThreadsOf, Threads
    <3>3. Index(p, t, i, j, k) \in Nat /\ Index(p, t, i, j, k) < Turns(p, t)
      BY <3>1, <3>2, IndexFacts
    <3>4. turn[p][t] \in Nat /\ turn[p][t] >= Turns(p, t) /\ Turns(p, t) \in Nat
      BY <3>2, PartFacts, MatricesAssumption DEF Turns
    <3>5. Index(p, t, i, j, k) < Count(p, t)
      BY <3>3, <3>4 DEF Count
    <3> QED
      BY <3>1, <3>2, <3>5 DEF Added
  <2>2. Added(p, i, j) = Inner
    BY <2>1 DEF Added
  <2>3. z[p][i][j] = Sum(i, j, Inner)
    BY <2>2 DEF SumsOK
  <2> QED
    BY <2>3 DEF Product, Sum
<1>2. z[p] \in [Rows -> [Cols -> Int]]
  OBVIOUS
<1>3. Product = [i \in Rows |-> [j \in Cols |-> z[p][i][j]]]
  BY <1>1 DEF Product
<1> QED
  BY <1>2, <1>3

-----------------------------------------------------------------------------
(* A thread that is not of its program, or not there yet, has added        *)
(* nothing; one that is behind its loops has added all its terms.          *)
LEMMA CountFacts ==
  ASSUME NEW p \in Processes, PlacesOK(p), TurnsOK(p)
  PROVE  /\ \A u \in Threads \ ThreadsOf(p) : Count(p, u) = 0
         /\ \A u \in ThreadsOf(p) : pc[p][u] \in {"print", "exit"} => turn[p][u] >= Turns(p, u)
<1>1. \A u \in Threads : TurnOK(p, u)
  BY DEF TurnsOK
<1>2. \A u \in Threads \ ThreadsOf(p) : pc[p][u] = "none"
  BY DEF PlacesOK
<1>3. \A u \in ThreadsOf(p) : u \in Threads
  BY DEF ThreadsOf, Threads
<1> QED
  BY <1>1, <1>2, <1>3 DEF TurnOK, Count, Turning, Locked

(* Sums stay when nothing is stored and no turn is counted. *)
LEMMA SumsStay ==
  ASSUME prog' = prog, NEW p \in Processes, SumsOK(p), z'[p] = z[p],
         \A t \in Threads : Count(p, t)' = Count(p, t)
  PROVE  SumsOK(p)'
<1>1. ASSUME NEW i, NEW j PROVE Added(p, i, j)' = Added(p, i, j)
  <2>1. \A k : \A t \in Threads : Part(p, t, i, k)' /\ Index(p, t, i, j, k)' < Count(p, t)'
                                   <=> Part(p, t, i, k) /\ Index(p, t, i, j, k) < Count(p, t)
    BY PartsStay
  <2> QED
    BY <2>1 DEF Added, Inner, Threads
<1> SUFFICES ASSUME NEW i \in Rows, NEW j \in Cols
             PROVE  z'[p][i][j] = Sum(i, j, Added(p, i, j))'
  BY DEF SumsOK, Rows, Cols
<1>2. z[p][i][j] = Sum(i, j, Added(p, i, j))
  BY DEF SumsOK
<1> QED
  BY <1>1, <1>2

(* What a thread that stands still keeps. *)
LEMMA TurnStays ==
  ASSUME prog' = prog, NEW p \in Processes, NEW t \in Threads, TurnOK(p, t),
         pc'[p][t] = pc[p][t], turn'[p][t] = turn[p][t]
  PROVE  TurnOK(p, t)' /\ Count(p, t)' = Count(p, t)
<1>1. Turns(p, t)' = Turns(p, t)
  BY PartsStay
<1> QED
  BY <1>1 DEF TurnOK, Count

(* The entry of a thread's turn stays when nothing is stored. *)
LEMMA EntryStays ==
  ASSUME prog' = prog, NEW p \in Processes, NEW t \in Threads,
         turn'[p][t] = turn[p][t], z'[p] = z[p]
  PROVE  EntryOf(p, t)' = EntryOf(p, t)
<1>1. RowsOf(p, t)' = RowsOf(p, t) /\ InnerOf(p, t)' = InnerOf(p, t)
  BY DEF RowsOf, InnerOf
<1> QED
  BY <1>1 DEF EntryOf, RowAt, ColAt, Terms, Length

(* Another process moves. *)
Rests(q) ==
  /\ pc'[q] = pc[q] /\ turn'[q] = turn[q] /\ reg'[q] = reg[q] /\ z'[q] = z[q]
  /\ locked'[q] = locked[q] /\ printed'[q] = printed[q]

(* A process whose variables do not change keeps its part of the *)
(* invariant.                                                    *)
LEMMA RestsMultiplies ==
  ASSUME prog' = prog, NEW q \in Processes, Rests(q), Multiplies(q)
  PROVE  Multiplies(q)'
<1>1. \A t \in Threads : TurnOK(q, t)' /\ Count(q, t)' = Count(q, t)
  BY TurnStays DEF Rests, Multiplies, TurnsOK
<1>2. TurnsOK(q)'
  BY <1>1 DEF TurnsOK, Threads
<1>3. SumsOK(q)'
  BY <1>1, SumsStay DEF Rests, Multiplies
<1>4. LockOK(q)'
  <2>1. \A t \in Threads : EntryOf(q, t)' = EntryOf(q, t)
    BY EntryStays DEF Rests
  <2> QED
    BY <2>1 DEF LockOK, Rests, Multiplies, Threads
<1>5. PrintedOK(q)'
  BY DEF PrintedOK, Rests, Multiplies
<1> QED
  BY <1>2, <1>3, <1>4, <1>5 DEF Multiplies

(* The places of a thread outside its loops. *)
Outside(at) == at \notin Turning \cup {"none", "print"}

(* A process whose threads do not leave or enter their loops. *)
LEMMA OutsideMultiplies ==
  ASSUME prog' = prog, NEW p \in Processes, Multiplies(p),
         turn'[p] = turn[p], reg'[p] = reg[p], z'[p] = z[p],
         prog[p] = "2_2" => locked'[p] = locked[p],
         \A t \in Threads : pc'[p][t] = pc[p][t] \/ (Outside(pc[p][t]) /\ Outside(pc'[p][t]))
  PROVE  TurnsOK(p)' /\ LockOK(p)' /\ SumsOK(p)'
<1>1. \A t \in Threads : TurnOK(p, t)' /\ Count(p, t)' = Count(p, t)
  <2> SUFFICES ASSUME NEW t \in Threads PROVE TurnOK(p, t)' /\ Count(p, t)' = Count(p, t)
    OBVIOUS
  <2>1. Turns(p, t)' = Turns(p, t) /\ TurnOK(p, t)
    BY PartsStay DEF Multiplies, TurnsOK
  <2>2. CASE pc'[p][t] = pc[p][t]
    BY <2>1, <2>2, TurnStays
  <2>3. CASE Outside(pc[p][t]) /\ Outside(pc'[p][t])
    BY <2>1, <2>3 DEF TurnOK, Count, Outside, Turning, Locked
  <2> QED
    BY <2>2, <2>3
<1>2. TurnsOK(p)'
  BY <1>1 DEF TurnsOK, Threads
<1>3. SumsOK(p)'
  BY <1>1, SumsStay DEF Multiplies
<1>4. LockOK(p)'
  <2>1. \A t \in Threads : EntryOf(p, t)' = EntryOf(p, t)
    BY EntryStays
  <2>2. \A t \in Threads : /\ pc'[p][t] \in Locked <=> pc[p][t] \in Locked
                           /\ pc'[p][t] = "store" <=> pc[p][t] = "store"
    BY DEF Outside, Turning, Locked
  <2> QED
    BY <2>1, <2>2 DEF LockOK, Multiplies, Threads
<1> QED
  BY <1>2, <1>3, <1>4

-----------------------------------------------------------------------------
(* One thread moves, the others stand still. *)
Moves(p, t, to) ==
  /\ prog' = prog /\ pc'[p][t] = to
  /\ \A u \in (0 .. 2) \ {t} : pc'[p][u] = pc[p][u]
  /\ \A u \in Threads \ {t} : turn'[p][u] = turn[p][u]

(* Goto moves one thread. *)
LEMMA GotoMoves ==
  ASSUME Types, NEW p \in Processes, NEW t \in 0 .. 2, NEW to, Goto(p, t, to),
         prog' = prog, \A u \in Threads \ {t} : turn'[p][u] = turn[p][u]
  PROVE  Moves(p, t, to) /\ \A q \in Processes \ {p} : pc'[q] = pc[q]
<1>1. pc \in [Processes -> [0 .. 2 -> AnyPlace]]
  BY DEF Types, AnyPlace
<1> QED
  BY <1>1 DEF Goto, Moves

(* It is enough to look at the thread that moves. *)
LEMMA OneMoves ==
  ASSUME NEW p \in Processes, TurnsOK(p), NEW t \in Threads, NEW to, Moves(p, t, to),
         TurnOK(p, t)'
  PROVE  /\ TurnsOK(p)' /\ \A u \in Threads \ {t} : Count(p, u)' = Count(p, u)
<1>1. Threads \subseteq 0 .. 2
  BY DEF Threads
<1>2. \A u \in Threads \ {t} : TurnOK(p, u)' /\ Count(p, u)' = Count(p, u)
  BY <1>1, TurnStays DEF Moves, TurnsOK
<1> QED
  BY <1>2 DEF TurnsOK, Threads

(* Only this thread has the lock, before and after its step. *)
LEMMA SoleLock ==
  ASSUME NEW p \in Processes, NEW t \in Threads, NEW to, Moves(p, t, to),
         prog[p] = "2_2" =>
           /\ \A u \in Threads \ {t} : pc[p][u] \notin Locked
           /\ to \in Locked => locked'[p]
           /\ to = "store" => reg'[p][t] = EntryOf(p, t)'
  PROVE  LockOK(p)'
<1>1. Threads \subseteq 0 .. 2
  BY DEF Threads
<1>2. \A u \in Threads \ {t} : pc'[p][u] = pc[p][u]
  BY <1>1 DEF Moves
<1>3. prog'[p] = prog[p] /\ pc'[p][t] = to
  BY DEF Moves
<1>4. prog[p] = "2_2" => \A u \in Threads : pc'[p][u] \in Locked => u = t
  BY <1>2
<1>5. prog[p] = "2_2" => \A u \in Threads : pc'[p][u] = "store" => u = t
  BY <1>4 DEF Locked
<1> QED
  BY <1>3, <1>4, <1>5 DEF LockOK, Threads, Locked

(* Nothing is written, and a thread that ends is not one that writes.      *)
LEMMA ThreadKeepsPrinted ==
  ASSUME NEW p \in Processes, NEW t \in Threads, NEW to, Moves(p, t, to), PrintedOK(p),
         printed' = printed, to = "exit" => prog[p] \notin {"2_1", "3_2_one"}
  PROVE  PrintedOK(p)'
<1>1. /\ 0 \in (0 .. 2) \ {t} /\ prog'[p] = prog[p] /\ printed'[p] = printed[p]
      /\ pc'[p][0] = pc[p][0]
  BY DEF Moves, Threads
<1>2. prog[p] \in {"2_1", "3_2_one"} /\ pc'[p][1] = "exit" => pc[p][1] = "exit"
  BY DEF Moves, Threads
<1> QED
  BY <1>1, <1>2 DEF PrintedOK

(* Where a thread goes after n turns. *)
LEMMA AfterTurnsOK ==
  ASSUME NEW p \in Processes, prog[p] \in Programs \ {"none"}, NEW t \in Threads, NEW n \in Nat,
         prog' = prog, pc'[p][t] = AfterTurns(p, t, n), turn'[p][t] = n
  PROVE  /\ TurnOK(p, t)' /\ Count(p, t)' = n
         /\ AfterTurns(p, t, n) = "exit" => prog[p] \notin {"2_1", "3_2_one"}
         /\ AfterTurns(p, t, n) \notin Locked
<1>1. Turns(p, t) \in Nat /\ Turns(p, t)' = Turns(p, t)
  BY PartFacts, PartsStay, MatricesAssumption DEF Turns
<1>2. CASE n < Turns(p, t)
  <2>1. AfterTurns(p, t, n) = IF prog[p] = "2_2" THEN "lock" ELSE "add"
    BY <1>1, <1>2 DEF AfterTurns
  <2> QED
    BY <1>1, <1>2, <2>1 DEF TurnOK, Count, Turning, Locked
<1>3. CASE n >= Turns(p, t)
  <2>1. /\ AfterTurns(p, t, n) \in {"print", "spin_init", "exit"}
        /\ AfterTurns(p, t, n) = "print" => prog[p] = "2_1"
        /\ AfterTurns(p, t, n) = "exit" => prog[p] \notin {"2_1", "3_2_one"}
    BY <1>1, <1>3 DEF AfterTurns, Programs, OneThread, UsesProc
  <2> QED
    BY <1>1, <1>3, <2>1 DEF TurnOK, Count, Turning, Locked
<1> QED
  BY <1>1, <1>2, <1>3

-----------------------------------------------------------------------------
(* The steps of the threads that multiply. *)
MatKept(p) == Multiplies(p)' /\ MatTypes' /\ \A q \in Processes \ {p} : Rests(q)
(* Taking the lock, and loading the entry under it. *)
LEMMA LockMultiplies ==
  ASSUME Base, MatTypes, NEW p \in Processes, NEW t \in Threads, Multiplies(p),
         Lock(p, t) \/ Load(p, t)
  PROVE  MatKept(p)
<1>0. Types /\ t \in 0 .. 2 /\ TurnOK(p, t)
  BY DEF Base, Threads, Multiplies, TurnsOK
<1>1. CASE Lock(p, t)
  <2>1. Moves(p, t, "load") /\ \A q \in Processes \ {p} : pc'[q] = pc[q]
    BY <1>0, <1>1, GotoMoves DEF Lock
  <2>2. TurnOK(p, t)' /\ Count(p, t)' = Count(p, t)
    BY <1>0, <1>1, <2>1, PartsStay DEF Lock, Moves, TurnOK, Turning, Locked, Count
  <2>3. TurnsOK(p)' /\ SumsOK(p)'
    BY <1>1, <2>1, <2>2, OneMoves, SumsStay DEF Multiplies, Lock
  <2>4. locked'[p] /\ \A q \in Processes \ {p} : locked'[q] = locked[q]
    BY <1>0, <1>1 DEF Lock, Types
  <2>5. LockOK(p)'
    <3>1. prog[p] = "2_2" => \A u \in Threads : pc[p][u] \notin Locked
      BY <1>1 DEF Lock, Multiplies, LockOK
    <3> QED
      BY <2>1, <2>4, <3>1, SoleLock
  <2>6. PrintedOK(p)'
    BY <1>1, <2>1, ThreadKeepsPrinted DEF Multiplies, Lock
  <2> QED
    BY <1>1, <2>1, <2>3, <2>4, <2>5, <2>6 DEF MatKept, Multiplies, MatTypes, Rests, Lock
<1>2. CASE Load(p, t)
  <2>1. Moves(p, t, "store") /\ \A q \in Processes \ {p} : pc'[q] = pc[q]
    BY <1>0, <1>2, GotoMoves DEF Load
  <2>2. TurnOK(p, t)' /\ Count(p, t)' = Count(p, t)
    BY <1>0, <1>2, <2>1, PartsStay DEF Load, Moves, TurnOK, Turning, Locked, Count
  <2>3. TurnsOK(p)' /\ SumsOK(p)'
    BY <1>2, <2>1, <2>2, OneMoves, SumsStay DEF Multiplies, Load
  <2>4. EntryOf(p, t) \in Int
    <3>1. turn[p][t] \in Nat /\ turn[p][t] < Turns(p, t)
      BY <1>0, <1>2, VariablesOf DEF Load, TurnOK, Turning, Locked
    <3>2. RowAt(p, t, turn[p][t]) \in Rows /\ ColAt(p, t, turn[p][t]) \in Cols
      BY <3>1, TurnFacts, PartBounds
    <3> QED
      BY <3>2 DEF EntryOf, MatTypes
  <2>5. /\ reg' \in [Processes -> [Threads -> Int]] /\ reg'[p][t] = EntryOf(p, t)
        /\ \A q \in Processes \ {p} : reg'[q] = reg[q]
    BY <1>2, <2>4 DEF Load, MatTypes
  <2>6. LockOK(p)'
    <3>1. prog[p] = "2_2" /\ locked'[p] /\ \A u \in Threads \ {t} : pc[p][u] \notin Locked
      BY <1>0, <1>2 DEF Load, Multiplies, LockOK, TurnOK, Locked
    <3>2. EntryOf(p, t)' = EntryOf(p, t)
      BY <1>2, EntryStays DEF Load
    <3> QED
      BY <2>1, <2>5, <3>1, <3>2, SoleLock
  <2>7. PrintedOK(p)'
    BY <1>2, <2>1, ThreadKeepsPrinted DEF Multiplies, Load
  <2> QED
    BY <1>2, <2>1, <2>3, <2>5, <2>6, <2>7 DEF MatKept, Multiplies, MatTypes, Rests, Load
<1> QED
  BY <1>1, <1>2

(* Storing an entry with one term more, under the lock or without one. *)
LEMMA StoreMultiplies ==
  ASSUME Base, MatTypes, NEW p \in Processes, NEW t \in Threads, Multiplies(p),
         prog[p] \in Programs \ {"none"}, Store(p, t) \/ Add(p, t)
  PROVE  MatKept(p)
<1>0. /\ Types /\ t \in 0 .. 2 /\ TurnOK(p, t) /\ PlacesOK(p) /\ TurnsOK(p)
      /\ turn \in [Processes -> [Threads -> Nat]] /\ z \in [Processes -> [Rows -> [Cols -> Int]]]
      /\ SumsOK(p)
  BY VariablesOf DEF Base, Threads, Multiplies, TurnsOK, Places, MatTypes
<1>1. pc[p][t] \in {"store", "add"} /\ t \in ThreadsOf(p) /\ turn[p][t] < Turns(p, t)
      /\ Count(p, t) = turn[p][t] /\ turn[p][t] \in Nat /\ prog' = prog
  BY <1>0 DEF Store, Add, PlacesOK, TurnOK, Turning, Locked, Count
<1>2. CASE Store(p, t)
  <2>1. Moves(p, t, "unlock") /\ \A q \in Processes \ {p} : pc'[q] = pc[q]
    BY <1>0, <1>2, GotoMoves DEF Store
  <2>2. TurnOK(p, t)' /\ Count(p, t)' = Count(p, t) + 1
    BY <1>0, <1>1, <1>2, <2>1, PartsStay DEF Store, Moves, TurnOK, Turning, Locked, Count
  <2>3. TurnsOK(p)' /\ \A u \in Threads \ {t} : Count(p, u)' = Count(p, u)
    BY <1>0, <2>1, <2>2, OneMoves
  <2>4. AddTerm(p, t, EntryOf(p, t)) /\ prog[p] = "2_2" /\ locked[p]
        /\ \A u \in Threads \ {t} : pc[p][u] \notin Locked
    BY <1>0, <1>2 DEF Store, Multiplies, LockOK, TurnOK, Locked
  <2>5. /\ SumsOK(p)' /\ z' \in [Processes -> [Rows -> [Cols -> Int]]]
        /\ \A q \in Processes \ {p} : z'[q] = z[q]
    BY <1>0, <1>1, <2>2, <2>3, <2>4, CountFacts, SumAdded
  <2>6. LockOK(p)'
    BY <1>2, <2>1, <2>4, SoleLock DEF Store
  <2>7. PrintedOK(p)'
    BY <1>2, <2>1, ThreadKeepsPrinted DEF Multiplies, Store
  <2> QED
    BY <1>2, <2>1, <2>3, <2>5, <2>6, <2>7 DEF MatKept, Multiplies, MatTypes, Rests, Store
<1>3. CASE Add(p, t)
  <2> DEFINE to == AfterTurns(p, t, turn[p][t] + 1)
  <2>1. /\ turn'[p][t] = turn[p][t] + 1 /\ Goto(p, t, to)
        /\ \A u \in Threads \ {t} : turn'[p][u] = turn[p][u]
        /\ \A q \in Processes \ {p} : turn'[q] = turn[q]
    BY <1>0, <1>3 DEF Add, NextTurn
  <2> HIDE DEF to
  <2>2. Moves(p, t, to) /\ \A q \in Processes \ {p} : pc'[q] = pc[q]
    BY <1>0, <1>1, <2>1, GotoMoves
  <2>3. /\ TurnOK(p, t)' /\ Count(p, t)' = turn[p][t] + 1
        /\ to = "exit" => prog[p] \notin {"2_1", "3_2_one"}
    <3>1. turn[p][t] + 1 \in Nat /\ pc'[p][t] = AfterTurns(p, t, turn[p][t] + 1)
      BY <1>1, <2>2 DEF Moves, to
    <3> QED
      BY <1>1, <2>1, <3>1, AfterTurnsOK DEF to
  <2>4. TurnsOK(p)' /\ \A u \in Threads \ {t} : Count(p, u)' = Count(p, u)
    BY <1>0, <2>2, <2>3, OneMoves
  <2>5. AddTerm(p, t, EntryOf(p, t)) /\ prog[p] # "2_2"
    BY <1>0, <1>3 DEF Add, TurnOK
  <2>6. /\ SumsOK(p)' /\ z' \in [Processes -> [Rows -> [Cols -> Int]]]
        /\ \A q \in Processes \ {p} : z'[q] = z[q]
    BY <1>0, <1>1, <2>3, <2>4, <2>5, CountFacts, SumAdded
  <2>7. LockOK(p)'
    BY <2>2, <2>5, SoleLock
  <2>8. PrintedOK(p)'
    BY <1>3, <2>2, <2>3, ThreadKeepsPrinted DEF Multiplies, Add
  <2> QED
    BY <1>3, <2>1, <2>2, <2>4, <2>6, <2>7, <2>8 DEF MatKept, Multiplies, MatTypes, Rests, Add
<1> QED
  BY <1>2, <1>3

(* Giving the lock back and going on to the next turn. *)
LEMMA UnlockMultiplies ==
  ASSUME Base, MatTypes, NEW p \in Processes, NEW t \in Threads, Multiplies(p),
         prog[p] \in Programs \ {"none"}, Unlock(p, t)
  PROVE  MatKept(p)
<1> DEFINE to == AfterTurns(p, t, turn[p][t] + 1)
<1>0. /\ Types /\ t \in 0 .. 2 /\ TurnOK(p, t) /\ TurnsOK(p)
      /\ turn \in [Processes -> [Threads -> Nat]] /\ locked \in [Processes -> BOOLEAN]
  BY VariablesOf DEF Base, Threads, Multiplies, TurnsOK
<1>1. /\ turn'[p][t] = turn[p][t] + 1 /\ Goto(p, t, to) /\ turn[p][t] + 1 \in Nat
      /\ \A u \in Threads \ {t} : turn'[p][u] = turn[p][u]
      /\ \A q \in Processes \ {p} : turn'[q] = turn[q] /\ locked'[q] = locked[q]
      /\ prog' = prog /\ Count(p, t) = turn[p][t] + 1
  BY <1>0 DEF Unlock, NextTurn, Count
<1> HIDE DEF to
<1>2. Moves(p, t, to) /\ \A q \in Processes \ {p} : pc'[q] = pc[q]
  BY <1>0, <1>1, GotoMoves
<1>3. /\ TurnOK(p, t)' /\ Count(p, t)' = turn[p][t] + 1
      /\ to = "exit" => prog[p] \notin {"2_1", "3_2_one"}
      /\ to \notin Locked
  <2>1. pc'[p][t] = AfterTurns(p, t, turn[p][t] + 1)
    BY <1>2 DEF Moves, to
  <2> QED
    BY <1>1, <2>1, AfterTurnsOK DEF to
<1>4. TurnsOK(p)' /\ \A u \in Threads \ {t} : Count(p, u)' = Count(p, u)
  BY <1>0, <1>2, <1>3, OneMoves
<1>5. SumsOK(p)'
  BY <1>1, <1>3, <1>4, SumsStay DEF Unlock, Multiplies
<1>6. LockOK(p)'
  <2>1. prog[p] = "2_2" => \A u \in Threads \ {t} : pc[p][u] \notin Locked
    BY <1>0 DEF Unlock, Multiplies, LockOK, Locked
  <2>2. to # "store"
    BY <1>3 DEF Locked
  <2> QED
    BY <1>2, <1>3, <2>1, <2>2, SoleLock
<1>7. PrintedOK(p)'
  BY <1>2, <1>3, ThreadKeepsPrinted DEF Multiplies, Unlock
<1> QED
  BY <1>1, <1>2, <1>4, <1>5, <1>6, <1>7 DEF MatKept, Multiplies, MatTypes, Rests, Unlock

(* The thread of 2_1 writes when it has made all its turns. *)
LEMMA ThreadPrintMultiplies ==
  ASSUME Base, MatTypes, NEW p \in Processes, NEW t \in Threads, Multiplies(p),
         prog[p] \in Programs \ {"none"}, ThreadPrint(p, t)
  PROVE  MatKept(p)
<1>0. /\ Types /\ t \in 0 .. 2 /\ TurnOK(p, t) /\ TurnsOK(p) /\ PlacesOK(p) /\ SumsOK(p)
      /\ turn \in [Processes -> [Threads -> Nat]] /\ z \in [Processes -> [Rows -> [Cols -> Int]]]
  BY VariablesOf DEF Base, Places, Threads, Multiplies, TurnsOK, MatTypes
<1>1. /\ prog[p] = "2_1" /\ t \in ThreadsOf(p) /\ ThreadsOf(p) = {1}
      /\ turn[p][t] >= Turns(p, t)
  BY <1>0 DEF ThreadPrint, TurnOK, PlacesOK, ThreadsOf, OneThread, Turning, Locked
<1>2. z[p] = Product
  BY <1>0, <1>1, AllAdded
<1>3. Moves(p, t, "exit") /\ \A q \in Processes \ {p} : pc'[q] = pc[q]
  BY <1>0, GotoMoves DEF ThreadPrint
<1>4. TurnOK(p, t)' /\ Count(p, t)' = Count(p, t)
  BY <1>0, <1>3, PartsStay DEF ThreadPrint, Moves, TurnOK, Turning, Locked, Count
<1>5. TurnsOK(p)' /\ SumsOK(p)'
  BY <1>0, <1>3, <1>4, OneMoves, SumsStay DEF ThreadPrint
<1>6. LockOK(p)'
  BY <1>1, <1>3, SoleLock
<1>7. /\ printed' \in [Processes -> {<< >>, Product}] /\ printed'[p] = Product
      /\ \A q \in Processes \ {p} : printed'[q] = printed[q]
  BY <1>2 DEF ThreadPrint, MatTypes
<1>8. PrintedOK(p)'
  <2>1. pc'[p][0] = pc[p][0] /\ prog'[p] = prog[p]
    BY <1>0, <1>3 DEF Moves, Threads
  <2> QED
    BY <1>1, <1>7, <2>1 DEF PrintedOK, Multiplies
<1> QED
  BY <1>3, <1>5, <1>6, <1>7, <1>8 DEF MatKept, Multiplies, MatTypes, Rests, ThreadPrint


(* Every step of a thread that multiplies. *)
LEMMA MatThreadMultiplies ==
  ASSUME Base, MatTypes, NEW p \in Processes, NEW t \in Threads, Multiplies(p),
         pc[p][0] # "crashed", MatThread(p, t)
  PROVE  MatKept(p)
<1>1. pc[p][t] \notin {"none", "exit"}
  BY DEF MatThread, Lock, Load, Store, Unlock, Add, ThreadPrint
<1>2. prog[p] \in Programs \ {"none"}
  BY <1>1, ThreadRuns
<1> QED
  BY <1>2, LockMultiplies, StoreMultiplies, UnlockMultiplies, ThreadPrintMultiplies DEF MatThread

-----------------------------------------------------------------------------
(* The steps of main. *)
LEMMA MainMultiplies ==
  ASSUME Base, MatTypes, NEW p \in Processes, Multiplies(p), MatMain(p) \/ Finish(p)
  PROVE  MatKept(p)
<1>0. /\ Types /\ TurnsOK(p) /\ PlacesOK(p) /\ SumsOK(p) /\ LockOK(p) /\ PrintedOK(p)
      /\ turn \in [Processes -> [Threads -> Nat]] /\ z \in [Processes -> [Rows -> [Cols -> Int]]]
      /\ 0 \in 0 .. 2 /\ \A t \in Threads : t \in (0 .. 2) \ {0}
  BY VariablesOf DEF Base, Places, Threads, Multiplies, MatTypes
<1>1. prog[p] \in Programs \ {"none"}
  BY <1>0 DEF Types, PlacesOK, MatMain, Create, Created, Join, Finish, WriteResult
<1>2. ASSUME NEW to, Moves(p, 0, to), UNCHANGED <<turn, reg, z, locked>>
      PROVE  TurnsOK(p)' /\ LockOK(p)' /\ SumsOK(p)'
  <2>1. \A t \in Threads : pc'[p][t] = pc[p][t]
    BY <1>0, <1>2 DEF Moves
  <2> QED
    BY <1>2, <2>1, OutsideMultiplies DEF Moves
<1>3. CASE Create(p)
  <2>1. PICK t \in ThreadsOf(p) :
          t \in Threads /\ pc[p][t] = "none" /\ Goto(p, t, AfterTurns(p, t, 0))
    <3>1. NotCreated(p) \in SUBSET Nat /\ NotCreated(p) # {}
      BY <1>3 DEF Create, NotCreated, ThreadsOf, Threads
    <3>2. Min(NotCreated(p)) \in NotCreated(p)
      BY <3>1, FirstOf
    <3> QED
      BY <1>3, <3>2 DEF Create, NotCreated, ThreadsOf, Threads
  <2> DEFINE to == AfterTurns(p, t, 0)
  <2>2. Moves(p, t, to) /\ \A q \in Processes \ {p} : pc'[q] = pc[q]
    BY <1>0, <1>3, <2>1, GotoMoves DEF Create, Threads
  <2>3. turn'[p][t] = 0 /\ Count(p, t) = 0
    BY <1>0, <1>3, <2>1 DEF Create, TurnsOK, TurnOK, Count
  <2>4. /\ TurnOK(p, t)' /\ Count(p, t)' = 0 /\ to \notin Locked
        /\ to = "exit" => prog[p] \notin {"2_1", "3_2_one"}
    <3>1. pc'[p][t] = AfterTurns(p, t, 0) /\ prog' = prog
      BY <2>2 DEF Moves
    <3> QED
      BY <1>1, <2>1, <2>3, <3>1, AfterTurnsOK
  <2> HIDE DEF to
  <2>5. TurnsOK(p)' /\ \A u \in Threads \ {t} : Count(p, u)' = Count(p, u)
    BY <1>0, <2>1, <2>2, <2>4, OneMoves
  <2>6. SumsOK(p)'
    BY <1>0, <1>3, <2>3, <2>4, <2>5, SumsStay DEF Create
  <2>7. LockOK(p)'
    <3>1. \A u \in Threads : pc'[p][u] \in Locked => u # t /\ pc'[p][u] = pc[p][u]
      BY <1>0, <2>1, <2>2, <2>4 DEF Moves
    <3>2. \A u \in Threads : EntryOf(p, u)' = EntryOf(p, u)
      BY <1>3, EntryStays DEF Create
    <3>3. \A u \in Threads : pc'[p][u] = "store" => pc'[p][u] \in Locked
      BY DEF Locked
    <3> QED
      BY <1>0, <1>3, <3>1, <3>2, <3>3 DEF LockOK, Create, Threads
  <2>8. PrintedOK(p)'
    BY <1>0, <1>3, <2>1, <2>2, <2>4, ThreadKeepsPrinted DEF Create
  <2> QED
    BY <1>3, <2>2, <2>5, <2>6, <2>7, <2>8 DEF MatKept, Multiplies, MatTypes, Rests, Create
<1>4. CASE Created(p)
  <2>1. PICK to \in {"read", "join"} : Goto(p, 0, to)
    BY <1>4 DEF Created
  <2>2. Moves(p, 0, to) /\ \A q \in Processes \ {p} : pc'[q] = pc[q]
    BY <1>0, <1>4, <2>1, GotoMoves DEF Created
  <2>3. TurnsOK(p)' /\ LockOK(p)' /\ SumsOK(p)'
    BY <1>2, <1>4, <2>2 DEF Created
  <2>4. PrintedOK(p)'
    <3>1. pc'[p][0] \in {"read", "join"} /\ pc'[p][1] = pc[p][1]
      BY <2>2 DEF Moves
    <3> QED
      BY <1>0, <1>4, <3>1 DEF PrintedOK, Created
  <2> QED
    BY <1>4, <2>2, <2>3, <2>4 DEF MatKept, Multiplies, MatTypes, Rests, Created
<1>5. CASE Join(p)
  <2>1. PICK to : Goto(p, 0, to) /\ to = IF prog[p] = "2_1" THEN "done" ELSE "print"
    BY <1>5 DEF Join
  <2>2. Moves(p, 0, to) /\ \A q \in Processes \ {p} : pc'[q] = pc[q]
    BY <1>0, <1>5, <2>1, GotoMoves DEF Join
  <2>3. TurnsOK(p)' /\ LockOK(p)' /\ SumsOK(p)'
    BY <1>2, <1>5, <2>2 DEF Join
  <2>4. PrintedOK(p)'
    <3>1. pc'[p][0] = to /\ pc'[p][1] = pc[p][1] /\ prog'[p] = prog[p] /\ printed'[p] = printed[p]
      BY <1>5, <2>2 DEF Moves, Join
    <3>2. pc[p][1] = "exit" /\ pc[p][0] = "join"
      BY <1>5 DEF Join, ThreadsOf, Threads
    <3>3. prog[p] # "3_2_one"
      BY <1>0, <3>2 DEF PrintedOK
    <3> QED
      BY <1>0, <2>1, <3>1, <3>2, <3>3 DEF PrintedOK
  <2> QED
    BY <1>5, <2>2, <2>3, <2>4 DEF MatKept, Multiplies, MatTypes, Rests, Join
<1>6. CASE Finish(p)
  <2>0. PICK to \in {"done", "crashed"} : WriteResult(p, to)
    BY <1>6 DEF Finish
  <2>1. Moves(p, 0, to) /\ \A q \in Processes \ {p} : pc'[q] = pc[q]
    BY <1>0, <2>0, GotoMoves DEF WriteResult
  <2>2. TurnsOK(p)' /\ LockOK(p)' /\ SumsOK(p)'
    BY <1>2, <2>0, <2>1 DEF WriteResult
  <2>3. z[p] = Product
    <3>1. \A t \in ThreadsOf(p) : turn[p][t] >= Turns(p, t)
      BY <1>0, <2>0, CountFacts DEF WriteResult, PlacesOK
    <3> QED
      BY <1>0, <1>1, <3>1, AllAdded
  <2>4. /\ printed' \in [Processes -> {<< >>, Product}] /\ printed'[p] = Product
        /\ \A q \in Processes \ {p} : printed'[q] = printed[q]
    BY <2>0, <2>3 DEF WriteResult, MatTypes
  <2>5. PrintedOK(p)'
    <3>1. pc'[p][0] = to /\ prog'[p] = prog[p]
      BY <2>1 DEF Moves
    <3>2. prog[p] # "3_2_one"
      BY <1>0, <2>0 DEF PrintedOK, WriteResult
    <3> QED
      BY <2>4, <3>1, <3>2 DEF PrintedOK
  <2> QED
    BY <2>0, <2>1, <2>2, <2>4, <2>5 DEF MatKept, Multiplies, MatTypes, Rests, WriteResult
<1> QED
  BY <1>3, <1>4, <1>5, <1>6 DEF MatMain

-----------------------------------------------------------------------------
(* The steps that have to do with /proc, and those before the threads. *)
LEMMA GreetingMoves ==
  ASSUME Base, MatTypes, NEW p \in Processes, Multiplies(p),
         UNCHANGED <<prog, turn, reg, z, printed>>,
         \A q \in Processes \ {p} : pc'[q] = pc[q] /\ locked'[q] = locked[q],
         prog[p] = "2_2" => locked'[p] = locked[p],
         \A t \in Threads : pc'[p][t] = pc[p][t] \/ (Outside(pc[p][t]) /\ Outside(pc'[p][t])),
         pc'[p][0] = pc[p][0] \/ pc'[p][0] \notin {"print", "done"} \/ prog[p] = "3_2_one",
         prog[p] = "2_1" => pc'[p][1] = pc[p][1],
         prog[p] = "3_2_one" => pc'[p][0] # "print" /\ (pc'[p][1] = "exit" => pc'[p][0] = "done")
  PROVE  MatKept(p)
<1>1. TurnsOK(p)' /\ LockOK(p)' /\ SumsOK(p)'
  BY OutsideMultiplies
<1>2. PrintedOK(p)'
  BY DEF PrintedOK, Multiplies
<1> QED
  BY <1>1, <1>2 DEF MatKept, Multiplies, MatTypes, Rests

(* The greeting of 3_2, up to the exit in the thread. *)
LEMMA GreetingMultiplies ==
  ASSUME Base, MatTypes, NEW p \in Processes, NEW t \in Threads, Multiplies(p), Greeting(p, t)
  PROVE  MatKept(p)
<1>0. /\ Types /\ PlacesOK(p) /\ PrintedOK(p) /\ locked \in [Processes -> BOOLEAN]
      /\ t \in 0 .. 2 /\ 0 \in (0 .. 2) \ {t} /\ \A u \in Threads : u \in 0 .. 2
  BY VariablesOf DEF Base, Places, Threads, Multiplies
<1>1. UNCHANGED <<prog, turn, reg, z, printed>>
  BY DEF Greeting, SpinInit, SpinLock, Fopen, MywriteNoSpace, MywriteStart, MywriteCopy,
         MywriteInfo, SpinUnlock, Step
<1>2. pc[p][t] \in Greetings
  BY DEF Greeting, SpinInit, SpinLock, Fopen, MywriteNoSpace, MywriteStart, MywriteCopy,
         MywriteInfo, SpinUnlock, Step, Greetings, Critical, Writing
<1>3. prog[p] \in Greeters /\ Outside(pc[p][t])
  BY <1>0, <1>2
     DEF PlacesOK, Greetings, Critical, Writing, ReadingOut, Outside, Turning, Locked
<1>4. \A q \in Processes \ {p} : locked'[q] = locked[q]
  BY <1>0 DEF Greeting, SpinInit, SpinLock, Fopen, MywriteNoSpace, MywriteStart, MywriteCopy,
              MywriteInfo, SpinUnlock, Step
<1>5. CASE SpinUnlock(p, t) /\ prog[p] = "3_2_one"
  <2>1. /\ pc'[p][0] = "done" /\ pc'[p][t] = "exit"
        /\ \A u \in Threads \ {t} : pc'[p][u] = pc[p][u]
        /\ \A q \in Processes \ {p} : pc'[q] = pc[q]
    <3>1. pc \in [Processes -> [0 .. 2 -> AnyPlace]]
      BY <1>0 DEF Types, AnyPlace
    <3> QED
      BY <1>0, <1>5, <3>1 DEF SpinUnlock
  <2>2. Outside("exit")
    BY DEF Outside, Turning, Locked
  <2> QED
    BY <1>1, <1>3, <1>4, <1>5, <2>1, <2>2, GreetingMoves
<1>6. CASE ~(SpinUnlock(p, t) /\ prog[p] = "3_2_one")
  <2>1. PICK to \in Greetings \cup {"exit"} : Goto(p, t, to) /\ (to = "exit" => prog[p] # "3_2_one")
    BY <1>6 DEF Greeting, SpinInit, SpinLock, Fopen, MywriteNoSpace, MywriteStart, MywriteCopy,
                MywriteInfo, SpinUnlock, Step, Greetings, Critical, Writing
  <2>2. Moves(p, t, to) /\ \A q \in Processes \ {p} : pc'[q] = pc[q]
    BY <1>0, <1>1, <2>1, GotoMoves
  <2>3. Outside(to)
    BY DEF Greetings, Critical, Writing, ReadingOut, Outside, Turning, Locked
  <2>4. /\ pc'[p][0] = pc[p][0] /\ pc'[p][t] = to
        /\ \A u \in Threads \ {t} : pc'[p][u] = pc[p][u]
    BY <1>0, <2>2 DEF Moves
  <2>5. prog[p] = "3_2_one" => pc'[p][0] # "print" /\ (pc'[p][1] = "exit" => pc'[p][0] = "done")
    BY <1>0, <2>1, <2>4 DEF PrintedOK, Threads
  <2> QED
    BY <1>1, <1>3, <1>4, <2>2, <2>3, <2>4, <2>5, GreetingMoves DEF Greeters
<1> QED
  BY <1>5, <1>6

(* Reading the file, in main of 3_1 or in a thread of 3_2. *)
LEMMA ReadingMultiplies ==
  ASSUME Base, MatTypes, NEW p \in Processes, NEW t \in 0 .. 2, Multiplies(p), Reading(p, t)
  PROVE  MatKept(p)
<1>0. Types /\ PlacesOK(p) /\ PrintedOK(p) /\ \A u \in Threads : u \in (0 .. 2) \ {0}
  BY DEF Base, Places, Threads, Multiplies
<1>1. UNCHANGED <<prog, turn, reg, z, printed, locked>>
  BY DEF Reading, ReadNull, ReadEnd, MyreadStart_3_1, MyreadNext_3_1, MyreadLine_3_1,
         MyreadNul_3_1, MyreadCopy_3_1,
         MyreadStart_3_2, MyreadCopy_3_2, MyreadClear_3_2, Step
<1>2. PICK from \in MainReads, to \in {"crashed", "spin_unlock", "join"} \cup MainReads :
        Step(p, t, from, to)
  BY DEF Reading, ReadNull, ReadEnd, MyreadStart_3_1, MyreadNext_3_1, MyreadLine_3_1,
         MyreadNul_3_1, MyreadCopy_3_1,
         MyreadStart_3_2, MyreadCopy_3_2, MyreadClear_3_2, EndOfLoop, MainReads, ReadingOut
<1>3. Moves(p, t, to) /\ (\A q \in Processes \ {p} : pc'[q] = pc[q]) /\ pc[p][t] = from
  BY <1>0, <1>1, <1>2, GotoMoves DEF Step
<1>4. Outside(from) /\ Outside(to) /\ to \notin {"print", "done", "exit"}
  BY DEF MainReads, ReadingOut, Outside, Turning, Locked
<1>5. /\ \A u \in Threads : pc'[p][u] = pc[p][u] \/ (Outside(pc[p][u]) /\ Outside(pc'[p][u]))
      /\ pc'[p][0] = pc[p][0] \/ pc'[p][0] \notin {"print", "done"}
  BY <1>0, <1>3, <1>4 DEF Moves
<1>6. prog[p] \in {"3_1", "3_2", "3_2_one"} /\ (t = 0 => prog[p] = "3_1")
  BY <1>0, <1>3
     DEF PlacesOK, MainReads, ReadingOut, ThreadPlaces, Computing, Greetings, Critical, Greeters,
         Threads
<1>7. prog[p] = "3_2_one" => pc'[p][0] # "print" /\ (pc'[p][1] = "exit" => pc'[p][0] = "done")
  BY <1>0, <1>3, <1>4, <1>6 DEF PrintedOK, Moves, Threads
<1> QED
  BY <1>1, <1>3, <1>5, <1>6, <1>7, GreetingMoves

(* The start of main. *)
LEMMA StartMultiplies ==
  ASSUME Base, MatTypes, NEW p \in Processes, Multiplies(p), Start(p)
  PROVE  MatKept(p)
<1>0. Types /\ PlacesOK(p) /\ 0 \in 0 .. 2 /\ \A u \in Threads : u \in (0 .. 2) \ {0}
  BY DEF Base, Places, Threads
<1>1. PICK to \in {"crashed", "create"} : Goto(p, 0, to)
  BY DEF Start
<1>2. Moves(p, 0, to) /\ \A q \in Processes \ {p} : pc'[q] = pc[q]
  BY <1>0, <1>1, GotoMoves DEF Start
<1>3. pc'[p][0] = to /\ \A u \in Threads : pc'[p][u] = pc[p][u] /\ pc[p][u] = "none"
  BY <1>0, <1>2 DEF Moves, PlacesOK, Start
<1>4. 1 \in Threads
  BY DEF Threads
<1> QED
  BY <1>2, <1>3, <1>4, GreetingMoves DEF Start

-----------------------------------------------------------------------------
(* MatInv and ProcInv together are inductive. *)
MatInv == MatTypes /\ \A p \in Processes : Multiplies(p)

(* Nothing has been added in the beginning. *)
LEMMA MatInvInit == Init => MatInv
<1> SUFFICES ASSUME Init PROVE MatInv
  OBVIOUS
<1> USE DEF Init
<1>1. MatTypes
  BY DEF MatInit, MatTypes
<1>2. ASSUME NEW p \in Processes PROVE Multiplies(p)
  <2>1. /\ \A t \in 0 .. 2 : pc[p][t] = "none"
        /\ \A t \in Threads : turn[p][t] = 0
        /\ \A i \in Rows, j \in Cols : z[p][i][j] = 0
        /\ printed[p] = << >> /\ (\A t \in Threads : t \in 0 .. 2) /\ 0 \in 0 .. 2 /\ 1 \in 0 .. 2
    BY DEF MatInit, Threads
  <2>2. TurnsOK(p)
    BY <2>1 DEF TurnsOK, TurnOK, Turning, Locked
  <2>3. LockOK(p)
    BY <2>1 DEF LockOK, Locked
  <2>4. PrintedOK(p)
    BY <2>1 DEF PrintedOK
  <2>5. SumsOK(p)
    <3> SUFFICES ASSUME NEW i \in Rows, NEW j \in Cols PROVE z[p][i][j] = Sum(i, j, Added(p, i, j))
      BY DEF SumsOK
    <3>1. \A t \in Threads : Count(p, t) = 0
      BY <2>1 DEF Count
    <3>2. \A t \in Threads : \A k : Part(p, t, i, k) => ~(Index(p, t, i, j, k) < Count(p, t))
      BY <3>1, IndexFacts
    <3>3. Added(p, i, j) = {}
      BY <3>2 DEF Added
    <3> QED
      BY <2>1, <3>3, SumFacts
  <2> QED
    BY <2>2, <2>3, <2>4, <2>5 DEF Multiplies
<1> QED
  BY <1>1, <1>2 DEF MatInv

(* Every step keeps MatInv. *)
LEMMA MatInvNext == Base /\ MatInv /\ [Next]_allVars => MatInv'
<1> SUFFICES ASSUME Base, MatInv, [Next]_allVars PROVE MatInv'
  OBVIOUS
<1>0. MatTypes /\ \A p \in Processes : Multiplies(p)
  BY DEF MatInv
<1>1. ASSUME UNCHANGED matVars PROVE MatInv'
  <2>1. \A p \in Processes : Rests(p) /\ prog' = prog
    BY <1>1 DEF matVars, Rests
  <2>2. \A p \in Processes : Multiplies(p)'
    BY <1>0, <2>1, RestsMultiplies
  <2>3. MatTypes'
    BY <1>0, <1>1 DEF matVars, MatTypes
  <2> QED
    BY <2>2, <2>3 DEF MatInv
<1>2. ASSUME NEW p \in Processes, MatKept(p), prog' = prog PROVE MatInv'
  <2>1. \A q \in Processes \ {p} : Multiplies(q)'
    BY <1>0, <1>2, RestsMultiplies DEF MatKept
  <2> QED
    BY <1>2, <2>1 DEF MatInv, MatKept
<1>3. CASE Root
  BY <1>1, <1>3 DEF Root, Insmod_3_1, Rmmod_3_1, Insmod_3_2, Rmmod_3_2
<1>4. ASSUME NEW p \in Processes, Start(p) PROVE MatInv'
  BY <1>0, <1>2, <1>4, StartMultiplies DEF Start
<1>5. ASSUME NEW p \in Processes, MainStep(p) PROVE MatInv'
  <2>1. prog' = prog
    BY <1>5, MainStepRuns DEF RunStep
  <2>2. MatKept(p)
    <3>1. 0 \in 0 .. 2
      OBVIOUS
    <3> QED
      BY <1>0, <1>5, <3>1, MainMultiplies, ReadingMultiplies DEF MainStep
  <2> QED
    BY <1>2, <2>1, <2>2
<1>6. ASSUME NEW p \in Processes, NEW t \in Threads, ThreadStep(p, t) PROVE MatInv'
  <2>1. prog' = prog
    BY <1>6, ThreadStepRuns DEF RunStep
  <2>2. MatKept(p)
    <3>1. t \in 0 .. 2
      BY DEF Threads
    <3> QED
      BY <1>0, <1>6, <3>1, MatThreadMultiplies, GreetingMultiplies, ReadingMultiplies DEF ThreadStep
  <2> QED
    BY <1>2, <2>1, <2>2
<1> QED
  BY <1>1, <1>3, <1>4, <1>5, <1>6 DEF Next, allVars

(***************************************************************************)
(* What a program of lab3 writes is the product of its matrices, for       *)
(* matrices of any size and any interleaving of the threads: the spin lock *)
(* of 2_2 keeps every term, the halves of the rows and of the dot products *)
(* leave none out and have none in common, and main writes after the last  *)
(* thread.  A matrix without rows would be written as nothing at all,      *)
(* which the property cannot tell from not having been written.            *)
(***************************************************************************)
THEOREM ProductIsPrinted ==
  ASSUME matrix_row_x > 0
  PROVE  Spec => []PrintsProduct
<1>1. ASSUME Base, MatInv PROVE PrintsProduct
  <2> SUFFICES ASSUME NEW p \in Processes
               PROVE  /\ printed[p] # << >> => printed[p] = Product
                      /\ pc[p][0] = "done" => (printed[p] # << >>) = (prog[p] # "3_2_one")
    BY DEF PrintsProduct
  <2>1. printed[p] \in {<< >>, Product} /\ PrintedOK(p)
    BY <1>1 DEF MatInv, MatTypes, Multiplies
  <2>2. Product # << >>
    <3>1. 1 \in Rows
      BY MatricesAssumption DEF Rows
    <3>2. DOMAIN Product = Rows
      BY DEF Product
    <3>3. DOMAIN << >> = {}
      OBVIOUS
    <3> QED
      BY <3>1, <3>2, <3>3
  <2> QED
    BY <2>1, <2>2 DEF PrintedOK
<1>2. ProcInv => Base
  BY DEF ProcInv
<1>3. Spec => []MatInv
  <2>1. Base /\ MatInv /\ [Next]_allVars => MatInv'
    BY MatInvNext
  <2> QED
    BY <1>2, <2>1, MatInvInit, ProcInvAlways, PTL DEF Spec
<1> QED
  BY <1>1, <1>2, <1>3, ProcInvAlways, PTL

=============================================================================
