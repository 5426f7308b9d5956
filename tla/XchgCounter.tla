---------------------------- MODULE XchgCounter ----------------------------
(***************************************************************************)
(* lab3/1/1_2/1_2.c: the counter under a lock made of one word and the     *)
(* instruction xchg.  eax and the flags are private to a thread, so mov    *)
(* and xchg, and sub and js, are one step each.                            *)
(***************************************************************************)
EXTENDS CounterMain

LOCK == 0
UNLOCK == 1

VARIABLES
  lock,  \* the word
  eax    \* what each thread's last xchg took from it

vars == <<counterVars, lock, eax>>

Init == CounterInit /\ lock = UNLOCK /\ eax = [t \in Threads |-> 0]

(* Mutant: mov instead of xchg reads the word and does not take it. *)
Exchange_Mov(t) ==
  /\ Go(t, "lock", "js")
  /\ eax' = [eax EXCEPT ![t] = lock]
  /\ UNCHANGED <<lock, a, reg, i, mainVars>>

(* loop: mov $0, %eax; xchg %eax, lock *)
Exchange(t) ==
  /\ Go(t, "lock", "js")
  /\ eax' = [eax EXCEPT ![t] = lock]
  /\ lock' = LOCK
  /\ UNCHANGED <<a, reg, i, mainVars>>

(* sub $1, %eax; js loop: the word was 0 if another thread holds the lock. *)
SubJs(t) ==
  /\ Go(t, "js", IF eax[t] = LOCK THEN "lock" ELSE "load")
  /\ UNCHANGED <<lock, eax, a, reg, i, mainVars>>

(* Mutant: the word that is put back is 0. *)
SpinUnlock_Zero(t) ==
  EndRound(t) /\ lock' = LOCK /\ eax' = [eax EXCEPT ![t] = lock]

(* mov $1, %eax; xchg %eax, lock *)
SpinUnlock(t) ==
  EndRound(t) /\ lock' = UNLOCK /\ eax' = [eax EXCEPT ![t] = lock]

Add(t) == (Load(t) \/ Store(t)) /\ UNCHANGED <<lock, eax>>

Thread(t) == Exchange(t) \/ SubJs(t) \/ Add(t) \/ SpinUnlock(t)

Next ==
  \/ Main /\ UNCHANGED <<lock, eax>>
  \/ \E t \in Threads : Thread(t)

Spec == Init /\ [][Next]_vars

(* The scheduler runs every thread, those that spin among them. *)
FairSpec ==
  Spec /\ WF_vars(Main /\ UNCHANGED <<lock, eax>>) /\ \A t \in Threads : WF_vars(Thread(t))

-----------------------------------------------------------------------------
(* A thread has the lock from the xchg that gave it a 1. *)
Passed(t) == pc[t] = "js" /\ eax[t] # LOCK
Holders == {t \in Threads : Passed(t) \/ pc[t] \in {"load", "store", "unlock"}}
SpinPc == [t \in Threads |->
             IF pc[t] = "js" THEN (IF Passed(t) THEN "load" ELSE "lock") ELSE pc[t]]

Counter == INSTANCE SpinCounter WITH holders <- Holders, pc <- SpinPc

(***************************************************************************)
(* ImplementsSpinLock: the instructions of spin_lock and spin_unlock are a *)
(* spin lock: 1_2.c behaves as 1_1.c, where the lock lets one thread       *)
(* through at a time.                                                      *)
(***************************************************************************)
ImplementsSpinLock == Counter!Spec
=============================================================================
