------------------------------- MODULE MatMul -------------------------------
(***************************************************************************)
(* The programs of lab3/2 and lab3/3 that multiply two matrices with       *)
(* threads: 2_1 (one thread), 2_2 (two threads that add halves of every    *)
(* dot product under a spin lock), 3_1 and 3_2 (two threads with half of   *)
(* the rows each, or one thread for 3_2).  main creates the threads, joins *)
(* them and appends z to a file.                                           *)
(*                                                                         *)
(* z is accumulated into memory that malloc returned.  Nothing has been    *)
(* freed by then, so the heap gives fresh pages, which are 0.  Entries are *)
(* small: int does not overflow.  The input files are there and well       *)
(* formed.  What 3_1 and 3_2 do with /proc is in module ProcInfo.          *)
(***************************************************************************)
EXTENDS Integers, FiniteSets, FiniteSetsExt

CONSTANTS
  Processes,     \* processes that run one program each
  Workloads,     \* which programs run together: functions on Processes
  matrix_row_x, matrix_row_y, matrix_col_y,
  x, y           \* the matrices of m1.txt and m2.txt

Rows == 1 .. matrix_row_x
Inner == 1 .. matrix_row_y
Cols == 1 .. matrix_col_y

OneThread == {"2_1", "3_2_one"}
UsesProc == {"3_1", "3_2", "3_2_one"}
Programs == OneThread \cup UsesProc \cup {"2_2", "none"}

ASSUME MatricesAssumption ==
  /\ matrix_row_x \in Nat /\ matrix_row_y \in Nat /\ matrix_col_y \in Nat
  /\ x \in [Rows -> [Inner -> Int]]
  /\ y \in [Inner -> [Cols -> Int]]
  /\ Workloads \subseteq [Processes -> Programs]

VARIABLES
  prog,     \* the program of every process
  pc,       \* where its main (0) and its threads 1 and 2 are
  turn,     \* turns a thread has made in the innermost of its three loops
  reg,      \* the register it adds in
  z,        \* the result matrix
  locked,   \* the spin lock
  printed   \* what has been appended to the output file

matVars == <<prog, pc, turn, reg, z, locked, printed>>

Threads == 1 .. 2
ThreadsOf(p) == IF prog[p] \in OneThread THEN {1} ELSE Threads

(* First and last row, and term of the dot products, of a thread. *)
RowsOf(p, t) ==
  IF prog[p] \notin {"3_1", "3_2"} THEN <<1, matrix_row_x>>
  ELSE IF t = 1 THEN <<1, matrix_row_x \div 2>>
  ELSE <<matrix_row_x \div 2 + 1, matrix_row_x>>

InnerOf(p, t) ==
  IF prog[p] # "2_2" THEN <<1, matrix_row_y>>
  ELSE IF t = 1 THEN <<1, matrix_row_y \div 2>>
  ELSE <<matrix_row_y \div 2 + 1, matrix_row_y>>

(* The n-th turn of the loops over i, j and k. *)
Length(range) == range[2] - range[1] + 1
Terms(p, t) == Length(InnerOf(p, t))
Turns(p, t) == Length(RowsOf(p, t)) * matrix_col_y * Terms(p, t)
RowAt(p, t, n) == RowsOf(p, t)[1] + n \div (matrix_col_y * Terms(p, t))
ColAt(p, t, n) == 1 + ((n \div Terms(p, t)) % matrix_col_y)
TermAt(p, t, n) == InnerOf(p, t)[1] + (n % Terms(p, t))

(* Where a thread goes after n turns. *)
AfterTurns(p, t, n) ==
  CASE n < Turns(p, t) -> IF prog[p] = "2_2" THEN "lock" ELSE "add"
    [] n >= Turns(p, t) -> CASE prog[p] = "2_1" -> "print"
                             [] prog[p] \in {"3_2", "3_2_one"} -> "spin_init"
                             [] prog[p] \in {"2_2", "3_1"} -> "exit"

Goto(p, t, to) == pc' = [pc EXCEPT ![p][t] = to]
NextTurn(p, t) ==
  turn' = [turn EXCEPT ![p][t] = @ + 1] /\ Goto(p, t, AfterTurns(p, t, turn[p][t] + 1))

MatInit ==
  /\ prog \in Workloads
  /\ pc = [p \in Processes |-> [t \in 0 .. 2 |-> "none"]]
  /\ turn = [p \in Processes |-> [t \in Threads |-> 0]]
  /\ reg = [p \in Processes |-> [t \in Threads |-> 0]]
  /\ z = [p \in Processes |-> [i \in Rows |-> [j \in Cols |-> 0]]]
  /\ locked = [p \in Processes |-> FALSE]
  /\ printed = [p \in Processes |-> << >>]

-----------------------------------------------------------------------------
(* Mutant: pthread_spin_lock lets every thread through. *)
Lock_Open(p, t) ==
  /\ pc[p][t] = "lock"
  /\ locked' = [locked EXCEPT ![p] = TRUE]
  /\ Goto(p, t, "load")
  /\ UNCHANGED <<prog, turn, reg, z, printed>>

Lock(p, t) ==
  /\ pc[p][t] = "lock" /\ ~locked[p]
  /\ locked' = [locked EXCEPT ![p] = TRUE]
  /\ Goto(p, t, "load")
  /\ UNCHANGED <<prog, turn, reg, z, printed>>

(* z[i][j] += x[i][k] * y[k][j]: entry is the value of z[i][j] it is given. *)
AddTerm(p, t, entry) ==
  LET i == RowAt(p, t, turn[p][t])
      j == ColAt(p, t, turn[p][t])
      k == TermAt(p, t, turn[p][t])
  IN  z' = [z EXCEPT ![p][i][j] = entry + x[i][k] * y[k][j]]

EntryOf(p, t) == z[p][RowAt(p, t, turn[p][t])][ColAt(p, t, turn[p][t])]

(* The threads of 2_2 work on the same entries: a load and a store. *)
Load(p, t) ==
  /\ pc[p][t] = "load"
  /\ reg' = [reg EXCEPT ![p][t] = EntryOf(p, t)]
  /\ Goto(p, t, "store")
  /\ UNCHANGED <<prog, turn, z, locked, printed>>

Store(p, t) ==
  /\ pc[p][t] = "store"
  /\ AddTerm(p, t, reg[p][t])
  /\ Goto(p, t, "unlock")
  /\ UNCHANGED <<prog, turn, reg, locked, printed>>

(* The other programs do without a lock and are to have no entry in        *)
(* common; if they had one it would get too many terms.                    *)
Add(p, t) ==
  /\ pc[p][t] = "add"
  /\ AddTerm(p, t, EntryOf(p, t))
  /\ NextTurn(p, t)
  /\ UNCHANGED <<prog, reg, locked, printed>>

Unlock(p, t) ==
  /\ pc[p][t] = "unlock"
  /\ locked' = [locked EXCEPT ![p] = FALSE]
  /\ NextTurn(p, t)
  /\ UNCHANGED <<prog, reg, z, printed>>

(* The thread of 2_1 writes every entry as soon as it has it; here it      *)
(* writes them together at the end: nobody else adds to them or prints.    *)
ThreadPrint(p, t) ==
  /\ pc[p][t] = "print"
  /\ printed' = [printed EXCEPT ![p] = z[p]]
  /\ Goto(p, t, "exit")
  /\ UNCHANGED <<prog, turn, reg, z, locked>>

-----------------------------------------------------------------------------
(* pthread_create of the next thread. *)
NotCreated(p) == {t \in ThreadsOf(p) : pc[p][t] = "none"}
Create(p) ==
  /\ pc[p][0] = "create" /\ NotCreated(p) # {}
  /\ Goto(p, Min(NotCreated(p)), AfterTurns(p, Min(NotCreated(p)), 0))
  /\ UNCHANGED <<prog, turn, reg, z, locked, printed>>

(* All are there: 3_1 reads its proc file, the others join. *)
Created(p) ==
  /\ pc[p][0] = "create" /\ NotCreated(p) = {}
  /\ Goto(p, 0, IF prog[p] = "3_1" THEN "read" ELSE "join")
  /\ UNCHANGED <<prog, turn, reg, z, locked, printed>>

(* pthread_join of one thread after the other. *)
Join(p) ==
  /\ pc[p][0] = "join"
  /\ \A t \in ThreadsOf(p) : pc[p][t] = "exit"
  /\ Goto(p, 0, IF prog[p] = "2_1" THEN "done" ELSE "print")
  /\ UNCHANGED <<prog, turn, reg, z, locked, printed>>

(* main prints z, closes its files and goes where that takes it. *)
WriteResult(p, to) ==
  /\ pc[p][0] = "print"
  /\ printed' = [printed EXCEPT ![p] = z[p]]
  /\ Goto(p, 0, to)
  /\ UNCHANGED <<prog, turn, reg, z, locked>>

MatMain(p) == Create(p) \/ Created(p) \/ Join(p)
MatThread(p, t) ==
  \/ Lock(p, t) \/ Load(p, t) \/ Store(p, t) \/ Unlock(p, t)
  \/ Add(p, t) \/ ThreadPrint(p, t)

-----------------------------------------------------------------------------
Product == [i \in Rows |-> [j \in Cols |->
              FoldSet(LAMBDA k, s : s + x[i][k] * y[k][j], 0, Inner)]]

(***************************************************************************)
(* PrintsProduct: what a program writes is the product of the matrices:    *)
(* no term is lost between the threads of 2_2, none is added twice at the  *)
(* borders of the halves, and nothing is written before the last thread is *)
(* done.  A program that ends without a crash has written it, but for 3_2  *)
(* with one thread, whose thread calls exit() before main can.             *)
(***************************************************************************)
PrintsProduct ==
  \A p \in Processes :
    /\ printed[p] # << >> => printed[p] = Product
    /\ pc[p][0] = "done" => (printed[p] # << >>) = (prog[p] # "3_2_one")
=============================================================================
