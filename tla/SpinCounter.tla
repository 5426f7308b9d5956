---------------------------- MODULE SpinCounter ----------------------------
(***************************************************************************)
(* lab3/1/1_1/1_1.c: the counter under a pthread spin lock.                *)
(***************************************************************************)
EXTENDS CounterMain

VARIABLE holders  \* the threads that pthread_spin_lock has let through

vars == <<counterVars, holders>>

Init == CounterInit /\ holders = {}

(* Mutant: the lock lets every thread through. *)
SpinLock_Open(t) ==
  /\ Go(t, "lock", "load")
  /\ holders' = holders \cup {t}
  /\ UNCHANGED <<a, reg, i, mainVars>>

(* pthread_spin_lock: one thread at a time passes. *)
SpinLock(t) ==
  /\ Go(t, "lock", "load")
  /\ holders = {} /\ holders' = {t}
  /\ UNCHANGED <<a, reg, i, mainVars>>

(* Mutant: the lock is never released. *)
SpinUnlock_Skipped(t) == EndRound(t) /\ UNCHANGED holders

SpinUnlock(t) == EndRound(t) /\ holders' = holders \ {t}

Add(t) == (Load(t) \/ Store(t)) /\ UNCHANGED holders

Thread(t) == SpinLock(t) \/ Add(t) \/ SpinUnlock(t)

Next ==
  \/ Main /\ UNCHANGED holders
  \/ \E t \in Threads : Thread(t)

Spec == Init /\ [][Next]_vars

(* The scheduler runs every thread that is not waiting. *)
FairSpec == Spec /\ WF_vars(Main /\ UNCHANGED holders) /\ \A t \in Threads : WF_vars(Thread(t))
=============================================================================
