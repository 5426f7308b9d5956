---------------------------- MODULE CounterMain ----------------------------
(***************************************************************************)
(* What lab3/1/1_1/1_1.c and lab3/1/1_2/1_2.c share: main creates two      *)
(* threads, each adds 1 to a ITERS times under a lock, main joins them and *)
(* appends a to 1.txt.  a = a + 1 is a load and a store: a is volatile and *)
(* has no atomic type.  The lock is the subject of the modules that extend *)
(* this one.                                                               *)
(***************************************************************************)
EXTENDS Naturals, Sequences

CONSTANT ITERS  \* rounds of the loop in thread(): 10000 in the code

ASSUME ItersAssumption == ITERS \in Nat \ {0}

Threads == 1 .. 2

VARIABLES
  a,        \* the shared counter
  pc,       \* where each thread is in thread()
  reg,      \* the register each thread adds in
  i,        \* the rounds each thread has finished
  created,  \* threads main has created
  joined,   \* threads main has joined
  out       \* what main has written

mainVars == <<created, joined, out>>
counterVars == <<a, pc, reg, i, created, joined, out>>

CounterInit ==
  /\ a = 0
  /\ pc = [t \in Threads |-> "none"]
  /\ reg = [t \in Threads |-> 0]
  /\ i = [t \in Threads |-> 0]
  /\ created = 0 /\ joined = 0 /\ out = << >>

(* Thread t goes from one place to another. *)
Go(t, from, to) == pc[t] = from /\ pc' = [pc EXCEPT ![t] = to]

Load(t) ==
  /\ Go(t, "load", "store")
  /\ reg' = [reg EXCEPT ![t] = a]
  /\ UNCHANGED <<a, i, mainVars>>

Store(t) ==
  /\ Go(t, "store", "unlock")
  /\ a' = reg[t] + 1
  /\ UNCHANGED <<reg, i, mainVars>>

(* The unlock is the last statement of a round. *)
EndRound(t) ==
  /\ Go(t, "unlock", IF i[t] + 1 < ITERS THEN "lock" ELSE "exit")
  /\ i' = [i EXCEPT ![t] = @ + 1]
  /\ UNCHANGED <<a, reg, mainVars>>

(* pthread_create of the next thread. *)
Create ==
  /\ created < 2
  /\ created' = created + 1
  /\ Go(created', "none", "lock")
  /\ UNCHANGED <<a, reg, i, joined, out>>

(* pthread_join of the next thread. *)
Join ==
  /\ created = 2 /\ joined < 2
  /\ pc[joined + 1] = "exit"
  /\ joined' = joined + 1
  /\ UNCHANGED <<a, pc, reg, i, created, out>>

WriteOut ==
  /\ joined = 2 /\ out = << >>
  /\ out' = Append(out, a)
  /\ UNCHANGED <<a, pc, reg, i, created, joined>>

Main == Create \/ Join \/ WriteOut

-----------------------------------------------------------------------------
(***************************************************************************)
(* PrintsTotal: what main writes counts every round of both threads, as    *)
(* 1_ans.txt expects: no update is lost and main reads a after the last.   *)
(***************************************************************************)
PrintsTotal == out # << >> => out = <<2 * ITERS>>

(***************************************************************************)
(* Finishes: main writes its result.  The locks promise no order, but a    *)
(* thread that is overtaken has at most ITERS rounds of the other to wait. *)
(***************************************************************************)
Finishes == <>(out # << >>)
=============================================================================
