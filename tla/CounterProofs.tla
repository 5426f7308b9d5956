--------------------------- MODULE CounterProofs ---------------------------
(***************************************************************************)
(* lab3/1 for any number of rounds: under a spin lock main writes 2*ITERS, *)
(* the xchg lock of 1_2.c is a spin lock, and so main of 1_2.c writes the  *)
(* same.                                                                   *)
(***************************************************************************)
EXTENDS XchgCounter, TLAPS

VARIABLE holders  \* of 1_1.c

Spin == INSTANCE SpinCounter

Locked == {"load", "store", "unlock"}
Places == {"none", "lock", "js", "exit"} \cup Locked

CounterTypeOK ==
  /\ a \in Nat /\ reg \in [Threads -> Nat] /\ i \in [Threads -> Nat]
  /\ pc \in [Threads -> Places]
  /\ created \in 0 .. 2 /\ joined \in 0 .. 2

(* The additions of a thread that have reached a. *)
Added(t) == i[t] + (IF pc[t] = "unlock" THEN 1 ELSE 0)

(* A thread leaves its loop after ITERS rounds and not before. *)
Rounds(t) == IF pc[t] = "exit" THEN i[t] = ITERS ELSE i[t] < ITERS

(***************************************************************************)
(* What a lock that lets one thread through at a time gives both programs: *)
(* what that thread has loaded is still in a, a is the sum of the rounds,  *)
(* and main has joined threads that are at their end.                      *)
(***************************************************************************)
Counted ==
  /\ CounterTypeOK
  /\ \A t \in Threads : pc[t] = "store" => reg[t] = a
  /\ \A t \in Threads : Rounds(t)
  /\ a = Added(1) + Added(2)
  /\ joined <= created
  /\ \A t \in Threads : t <= joined => pc[t] = "exit"
  /\ out # << >> => joined = 2 /\ out = <<a>>
OneLocked == \A t, u \in Threads : pc[t] \in Locked /\ pc[u] \in Locked => t = u

LEMMA CountedTotal == Counted => PrintsTotal
BY ItersAssumption DEF Counted, CounterTypeOK, PrintsTotal, Threads, Rounds, Added

LEMMA CountedInit == CounterInit => Counted
BY ItersAssumption
   DEF CounterInit, Counted, CounterTypeOK, Threads, Places, Locked, Rounds, Added

(* The steps that both programs have. *)
LEMMA CountedKept ==
  ASSUME Counted, OneLocked,
         \/ \E t \in Threads : Load(t) \/ Store(t) \/ EndRound(t)
         \/ Main
  PROVE  Counted'
<1>0. a = Added(1) + Added(2) /\ Added(1) \in Nat /\ Added(2) \in Nat /\ ITERS \in Nat
  BY ItersAssumption DEF Counted, CounterTypeOK, Threads, Added
<1>1. ASSUME NEW t \in Threads, Load(t) PROVE Counted'
  <2>1. /\ UNCHANGED <<a, i, mainVars>> /\ reg'[t] = a
        /\ pc[t] = "load" /\ pc'[t] = "store"
        /\ \A u \in Threads \ {t} : pc'[u] = pc[u] /\ reg'[u] = reg[u]
    BY <1>1 DEF Load, Go, Counted, CounterTypeOK
  <2>2. \A u \in Threads : Added(u)' = Added(u) /\ Rounds(u)'
    BY <2>1 DEF Counted, Added, Rounds
  <2>3. CounterTypeOK'
    BY <1>1 DEF Load, Go, Counted, CounterTypeOK, mainVars, Places, Locked
  <2>4. a' = Added(1)' + Added(2)'
    BY <1>0, <2>1, <2>2 DEF Threads
  <2> QED
    BY <2>1, <2>2, <2>3, <2>4 DEF Counted, mainVars, OneLocked, Locked
<1>2. ASSUME NEW t \in Threads, Store(t) PROVE Counted'
  <2>1. /\ UNCHANGED <<reg, i, mainVars>> /\ a' = a + 1
        /\ pc[t] = "store" /\ pc'[t] = "unlock"
        /\ \A u \in Threads \ {t} : pc'[u] = pc[u] /\ pc[u] # "store"
    BY <1>2 DEF Store, Go, Counted, CounterTypeOK, OneLocked, Locked
  <2>2. Added(t)' = Added(t) + 1 /\ \A u \in Threads \ {t} : Added(u)' = Added(u)
    BY <2>1 DEF Counted, CounterTypeOK, Added
  <2>3. \A u \in Threads : Rounds(u)'
    BY <2>1 DEF Counted, Rounds
  <2>4. out = << >>
    BY <2>1 DEF Counted, Threads
  <2>5. CounterTypeOK'
    BY <1>2, <2>1 DEF Store, Go, Counted, CounterTypeOK, mainVars, Places, Locked
  <2>6. a' = Added(1)' + Added(2)'
    BY <1>0, <2>1, <2>2 DEF Threads
  <2> QED
    BY <2>1, <2>3, <2>4, <2>5, <2>6 DEF Counted, mainVars
<1>3. ASSUME NEW t \in Threads, EndRound(t) PROVE Counted'
  <2>1. /\ UNCHANGED <<a, reg, mainVars>> /\ i'[t] = i[t] + 1 /\ i[t] \in Nat /\ i[t] < ITERS
        /\ pc[t] = "unlock" /\ pc'[t] = IF i[t] + 1 < ITERS THEN "lock" ELSE "exit"
        /\ \A u \in Threads \ {t} : pc'[u] = pc[u] /\ i'[u] = i[u]
    BY <1>3 DEF EndRound, Go, Counted, CounterTypeOK, Rounds
  <2>2. Added(t)' = Added(t) /\ \A u \in Threads \ {t} : Added(u)' = Added(u)
    BY <2>1 DEF Added
  <2>3. Rounds(t)' /\ \A u \in Threads \ {t} : Rounds(u)'
    BY <1>0, <2>1 DEF Rounds, Counted
  <2>4. CounterTypeOK'
    BY <1>3, <2>1 DEF EndRound, Go, Counted, CounterTypeOK, mainVars, Places, Locked
  <2>5. a' = Added(1)' + Added(2)'
    BY <1>0, <2>1, <2>2 DEF Threads
  <2> QED
    BY <2>1, <2>2, <2>3, <2>4, <2>5 DEF Counted, mainVars
<1> USE ItersAssumption
    DEF Counted, CounterTypeOK, OneLocked, Threads, Places, Locked, Rounds, Added, mainVars, Go
<1>4. CASE Create
  BY <1>4 DEF Create
<1>5. CASE Join
  BY <1>5 DEF Join
<1>6. CASE WriteOut
  BY <1>6 DEF WriteOut
<1> QED
  BY <1>1, <1>2, <1>3, <1>4, <1>5, <1>6 DEF Main

(* A thread goes on between "lock" and "load" and does nothing else. *)
LEMMA CountedWaits ==
  ASSUME Counted, NEW t \in Threads, pc[t] \in {"lock", "js"}, NEW to \in {"lock", "js", "load"},
         pc' = [pc EXCEPT ![t] = to], UNCHANGED <<a, reg, i, mainVars>>
  PROVE  Counted'
BY ItersAssumption
   DEF Counted, CounterTypeOK, Threads, Places, Locked, Rounds, Added, mainVars

-----------------------------------------------------------------------------
(* 1_1.c: a holder is a thread between pthread_spin_lock and its unlock.   *)
SpinInv ==
  /\ Counted
  /\ holders \in SUBSET Threads
  /\ \A t \in Threads : t \in holders <=> pc[t] \in Locked
  /\ \A t, u \in holders : t = u

LEMMA SpinInitOK == Spin!Init => SpinInv
BY CountedInit
   DEF Spin!Init, Spin!CounterInit, CounterInit, Spin!Threads, SpinInv, Threads, Locked

LEMMA SpinNextOK == SpinInv /\ [Spin!Next]_(Spin!vars) => SpinInv'
<1> SUFFICES ASSUME SpinInv, [Spin!Next]_(Spin!vars) PROVE SpinInv'
  OBVIOUS
<1>0. /\ Counted /\ OneLocked /\ pc \in [Threads -> Places] /\ Spin!Threads = Threads
      /\ holders \in SUBSET Threads
  BY DEF SpinInv, OneLocked, Counted, CounterTypeOK, Spin!Threads, Threads
<1>1. ASSUME NEW t \in Threads, Spin!SpinLock(t) PROVE SpinInv'
  <2>1. /\ pc[t] = "lock" /\ pc' = [pc EXCEPT ![t] = "load"] /\ UNCHANGED <<a, reg, i, mainVars>>
        /\ holders = {} /\ holders' = {t}
    BY <1>1 DEF Spin!SpinLock, Spin!Go, Spin!mainVars, mainVars
  <2>2. Counted'
    BY <1>0, <2>1, CountedWaits
  <2> QED
    BY <1>0, <2>1, <2>2 DEF SpinInv, Locked
<1>2. ASSUME NEW t \in Threads, Spin!Add(t) PROVE SpinInv'
  <2>1. (Load(t) \/ Store(t)) /\ UNCHANGED holders
    BY <1>2 DEF Spin!Add, Spin!Load, Spin!Store, Spin!Go, Spin!mainVars, Load, Store, Go, mainVars
  <2>2. Counted'
    BY <1>0, <2>1, CountedKept
  <2> QED
    BY <1>0, <2>1, <2>2 DEF SpinInv, Locked, Load, Store, Go
<1>3. ASSUME NEW t \in Threads, Spin!SpinUnlock(t) PROVE SpinInv'
  <2>1. EndRound(t) /\ holders' = holders \ {t}
    BY <1>3 DEF Spin!SpinUnlock, Spin!EndRound, Spin!Go, Spin!mainVars, EndRound, Go, mainVars
  <2>2. Counted'
    BY <1>0, <2>1, CountedKept
  <2> QED
    BY <1>0, <2>1, <2>2 DEF SpinInv, Locked, EndRound, Go
<1>4. CASE Spin!Main /\ UNCHANGED holders
  <2>1. Main
    BY <1>4 DEF Spin!Main, Spin!Create, Spin!Join, Spin!WriteOut, Spin!Go, Main, Create, Join,
                WriteOut, Go
  <2>2. Counted'
    BY <1>0, <2>1, CountedKept
  <2> QED
    BY <1>0, <1>4, <2>1, <2>2 DEF SpinInv, Locked, Main, Create, Join, WriteOut, Go
<1>5. CASE UNCHANGED Spin!vars
  BY <1>5
     DEF Spin!vars, Spin!counterVars, SpinInv, Counted, CounterTypeOK, Rounds, Added, Threads
<1> QED
  BY <1>0, <1>1, <1>2, <1>3, <1>4, <1>5 DEF Spin!Next, Spin!Thread

(* Mutual exclusion and the join order leave one result: what main of      *)
(* 1_1.c writes is 2 * ITERS.                                              *)
THEOREM TotalPrinted == Spin!Spec => []PrintsTotal
<1>1. SpinInv => PrintsTotal
  BY CountedTotal DEF SpinInv
<1> QED
  BY <1>1, SpinInitOK, SpinNextOK, PTL DEF Spin!Spec

-----------------------------------------------------------------------------
TypeOK ==
  /\ pc \in [Threads -> Places]
  /\ lock \in {LOCK, UNLOCK}
  /\ eax \in [Threads -> {LOCK, UNLOCK}]
  /\ created \in 0 .. 2 /\ joined \in 0 .. 2

(***************************************************************************)
(* 1_2.c: the 1 is either in the word or with the one thread whose xchg    *)
(* took it.                                                                *)
(***************************************************************************)
IInv ==
  /\ TypeOK
  /\ lock = UNLOCK => Holders = {}
  /\ \A t, u \in Holders : t = u

LEMMA XchgInitOK == Init => IInv /\ Counter!Init
<1> SUFFICES ASSUME Init PROVE IInv /\ Counter!Init
  OBVIOUS
<1>1. pc = [t \in Threads |-> "none"]
  BY DEF Init, CounterInit
<1>2. Holders = {}
  BY <1>1 DEF Holders, Passed
<1>3. SpinPc = pc
  BY <1>1 DEF SpinPc, Passed
<1>4. IInv
  BY <1>1, <1>2 DEF Init, CounterInit, IInv, TypeOK, Places, LOCK, UNLOCK
<1> QED
  BY <1>2, <1>3, <1>4 DEF Init, CounterInit, Counter!Init, Counter!CounterInit, Counter!Threads, Threads

LEMMA XchgNextOK == IInv /\ [Next]_vars => IInv'
<1> SUFFICES ASSUME IInv, [Next]_vars PROVE IInv'
  OBVIOUS
<1> USE DEF IInv, TypeOK, Places, Locked, Holders, Passed, Threads, LOCK, UNLOCK, Go, mainVars
<1>1. ASSUME NEW t \in Threads, Exchange(t) PROVE IInv'
  BY <1>1 DEF Exchange
<1>2. ASSUME NEW t \in Threads, SubJs(t) PROVE IInv'
  BY <1>2 DEF SubJs
<1>3. ASSUME NEW t \in Threads, Add(t) PROVE IInv'
  BY <1>3 DEF Add, Load, Store
<1>4. ASSUME NEW t \in Threads, SpinUnlock(t) PROVE IInv'
  BY <1>4 DEF SpinUnlock, EndRound
<1>5. CASE Main /\ UNCHANGED <<lock, eax>>
  BY <1>5 DEF Main, Create, Join, WriteOut
<1>6. CASE UNCHANGED vars
  BY <1>6 DEF vars, counterVars
<1> QED
  BY <1>1, <1>2, <1>3, <1>4, <1>5, <1>6 DEF Next, Thread

(* Every step is a step of the spin lock or changes nothing it sees.       *)
LEMMA XchgStep == IInv /\ [Next]_vars => [Counter!Next]_(Counter!vars)
<1> SUFFICES ASSUME IInv, [Next]_vars PROVE [Counter!Next]_(Counter!vars)
  OBVIOUS
<1> USE DEF IInv, TypeOK, Places, Locked, Holders, SpinPc, Passed, Threads, LOCK, UNLOCK, Go, mainVars,
            Counter!Threads, Counter!Go, Counter!mainVars, Counter!vars, Counter!counterVars
<1>1. ASSUME NEW t \in Threads, Exchange(t)
      PROVE  Counter!SpinLock(t) \/ UNCHANGED Counter!vars
  <2>1. CASE lock = UNLOCK
    <3>1. /\ pc[t] = "lock" /\ pc' = [pc EXCEPT ![t] = "js"] /\ eax' = [eax EXCEPT ![t] = UNLOCK]
          /\ UNCHANGED <<a, reg, i, mainVars>>
      BY <1>1, <2>1 DEF Exchange
    <3>2. Holders = {}
      BY <2>1
    <3>3. pc'[t] = "js" /\ eax'[t] # LOCK /\ \A u \in Threads \ {t} : pc'[u] = pc[u] /\ eax'[u] = eax[u]
      BY <3>1
    <3>4. Holders' = {t}
      BY <3>2, <3>3
    <3>5. SpinPc[t] = "lock" /\ SpinPc' = [SpinPc EXCEPT ![t] = "load"]
      BY <3>1, <3>3
    <3> QED
      BY <3>1, <3>2, <3>4, <3>5 DEF Counter!SpinLock
  <2>2. CASE lock = LOCK
    BY <1>1, <2>2 DEF Exchange
  <2> QED
    BY <2>1, <2>2
<1>2. ASSUME NEW t \in Threads, SubJs(t) PROVE UNCHANGED Counter!vars
  BY <1>2 DEF SubJs
<1>3. ASSUME NEW t \in Threads, Add(t) PROVE Counter!Add(t)
  <2>1. ASSUME NEW from \in {"load", "store"}, NEW to \in {"store", "unlock"}, Go(t, from, to), UNCHANGED eax
        PROVE  Counter!Go(t, from, to) /\ UNCHANGED Holders
    <3>1. /\ pc[t] = from /\ pc'[t] = to /\ UNCHANGED eax
          /\ \A u \in Threads \ {t} : pc'[u] = pc[u]
      BY <2>1
    <3>2. SpinPc[t] = from /\ SpinPc' = [SpinPc EXCEPT ![t] = to]
      BY <3>1
    <3>3. UNCHANGED Holders
      BY <3>1
    <3> QED
      BY <3>2, <3>3
  <2>2. CASE Load(t)
    BY <1>3, <2>1, <2>2 DEF Add, Load, Counter!Add, Counter!Load
  <2>3. CASE Store(t)
    BY <1>3, <2>1, <2>3 DEF Add, Store, Counter!Add, Counter!Store
  <2> QED
    BY <1>3, <2>2, <2>3 DEF Add
<1>4. ASSUME NEW t \in Threads, SpinUnlock(t) PROVE Counter!SpinUnlock(t)
  BY <1>4 DEF SpinUnlock, EndRound, Counter!SpinUnlock, Counter!EndRound
<1>5. CASE Main /\ UNCHANGED <<lock, eax>>
  <2>1. ASSUME Create, UNCHANGED <<lock, eax>> PROVE Counter!Create /\ UNCHANGED Holders
    <3> DEFINE t == created + 1
    <3>1. t \in Threads /\ created' = t /\ created < 2 /\ Go(t, "none", "lock")
      <4>1. created \in 0 .. 2 /\ created < 2
        BY <2>1 DEF Create
      <4> QED
        BY <2>1, <4>1 DEF Create
    <3> HIDE DEF t
    <3>2. SpinPc' = [SpinPc EXCEPT ![t] = "lock"] /\ SpinPc[t] = "none" /\ UNCHANGED Holders
      BY <2>1, <3>1
    <3> QED
      BY <2>1, <3>1, <3>2 DEF Create, Counter!Create
  <2>2. ASSUME Join, UNCHANGED <<lock, eax>> PROVE Counter!Join /\ UNCHANGED Holders
    BY <2>2 DEF Join, Counter!Join
  <2>3. ASSUME WriteOut, UNCHANGED <<lock, eax>> PROVE Counter!WriteOut /\ UNCHANGED Holders
    BY <2>3 DEF WriteOut, Counter!WriteOut
  <2> QED
    BY <1>5, <2>1, <2>2, <2>3 DEF Main, Counter!Main, Counter!Next
<1>6. CASE UNCHANGED vars
  BY <1>6 DEF vars, counterVars
<1> QED
  BY <1>1, <1>2, <1>3, <1>4, <1>5, <1>6 DEF Next, Thread, Counter!Next, Counter!Thread

(* The program of 1_2.c behaves as that of 1_1.c, whatever the schedule:   *)
(* the xchg lock lets one thread through at a time.                        *)
THEOREM XchgIsSpinLock == Spec => ImplementsSpinLock
BY XchgInitOK, XchgNextOK, XchgStep, PTL DEF Spec, ImplementsSpinLock, Counter!Spec

(* main of 1_2.c writes the same as that of 1_1.c. *)
LEMMA XchgCounted == IInv /\ Counted /\ [Next]_vars => Counted'
<1> SUFFICES ASSUME IInv, Counted, [Next]_vars PROVE Counted'
  OBVIOUS
<1>0. OneLocked
  BY DEF OneLocked, IInv, Holders, Locked
<1>1. ASSUME NEW t \in Threads, Exchange(t) PROVE Counted'
  BY <1>1, CountedWaits DEF Exchange, Go
<1>2. ASSUME NEW t \in Threads, SubJs(t) PROVE Counted'
  BY <1>2, CountedWaits DEF SubJs, Go
<1>3. ASSUME NEW t \in Threads, Add(t) \/ SpinUnlock(t) PROVE Counted'
  BY <1>0, <1>3, CountedKept DEF Add, SpinUnlock
<1>4. CASE Main
  BY <1>0, <1>4, CountedKept
<1>5. CASE UNCHANGED vars
  BY <1>5 DEF vars, counterVars, Counted, CounterTypeOK, Rounds, Added
<1> QED
  BY <1>1, <1>2, <1>3, <1>4, <1>5 DEF Next, Thread

(* No addition is lost under the instructions of spin_lock and spin_unlock *)
(* either, for any number of rounds and any schedule.                      *)
THEOREM XchgTotalPrinted == Spec => []PrintsTotal
<1>1. Init => IInv /\ Counted
  BY XchgInitOK, CountedInit DEF Init
<1>2. IInv /\ Counted /\ [Next]_vars => IInv' /\ Counted'
  BY XchgNextOK, XchgCounted
<1>3. IInv /\ Counted => PrintsTotal
  BY CountedTotal
<1> QED
  BY <1>1, <1>2, <1>3, PTL DEF Spec
=============================================================================
