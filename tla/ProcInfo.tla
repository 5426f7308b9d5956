------------------------------ MODULE ProcInfo ------------------------------
(***************************************************************************)
(* lab3/3: the two kernel modules named My_Kernel, which make the file     *)
(* /proc/Mythread_info, and the programs 3_1 and 3_2 that use it.          *)
(*                                                                         *)
(* Both handlers of a module work on one global buffer and take no lock:   *)
(* their steps interleave, for the kernel is preemptible and has several   *)
(* CPUs.  Modules are loaded and unloaded while no program runs (the make  *)
(* targets load, Prog and unload); only one of the two fits in the kernel  *)
(* at a time, for they have one name.                                      *)
(*                                                                         *)
(* A text is a number of equal bytes: the line of 3_1 is one byte, the     *)
(* greeting and the info line of 3_2 are HELLO_LEN and INFO_LEN bytes.     *)
(* User buffers are valid, so copies do not fault; stdio reads 1024 bytes  *)
(* at a time, so Myread is not called with less room than BUFSIZE.  The    *)
(* task of a thread that ends is not freed while Myread of 3_1 is at it:   *)
(* what the walk without rcu_read_lock would read then is left out.        *)
(***************************************************************************)
EXTENDS MatMul, Sequences

CONSTANTS BUFSIZE, HELLO_LEN, INFO_LEN

ASSUME BufferAssumption ==
  /\ BUFSIZE \in Nat /\ BUFSIZE > 2
  /\ HELLO_LEN \in Nat \ {0} /\ INFO_LEN \in Nat \ {0}

VARIABLES
  kernel,  \* the module that is loaded: "none", "3_1" or "3_2"
  entry,   \* whose entry /proc has; "stale" if its module is gone
  last,    \* history: the module that insmod was last called for
  buf,     \* the module's buffer
  fptr,    \* whether a process has its proc files open
  loc,     \* offset of a thread's FILE and locals of the handler it is in
  got,     \* bytes that read() has returned to a thread
  reinit   \* history: pthread_spin_init has hit a lock that was held

procVars == <<kernel, entry, last, buf, fptr, loc, got, reinit>>
allVars == <<matVars, procVars>>

NUL == <<>>
Line(p, t) == <<p, t, "line">>
Hello(p, t) == <<p, t, "hello">>
Info(p, t) == <<p, t, "info">>

EmptyBuf == [o \in 0 .. (BUFSIZE - 1) |-> NUL]
strnlen == Min({o \in 0 .. BUFSIZE : o = BUFSIZE \/ buf[o] = NUL})
Bytes(n) == [o \in 1 .. n |-> buf[o - 1]]

Fresh == [off |-> 0, len |-> 0, n |-> 0, left |-> 0]
Running(p) == pc[p][0] \notin {"none", "done", "crashed"}

Init ==
  /\ MatInit
  /\ kernel = "none" /\ entry = "none" /\ last = "none" /\ buf = EmptyBuf
  /\ fptr = [p \in Processes |-> FALSE]
  /\ loc = [p \in Processes |-> [t \in 0 .. 2 |-> Fresh]]
  /\ got = [p \in Processes |-> [t \in 0 .. 2 |-> << >>]]
  /\ reinit = [p \in Processes |-> FALSE]

-----------------------------------------------------------------------------
Idle == \A p \in Processes : ~Running(p)

(* Mutant: the entry that is there stays. *)
remove_proc_entry_Skipped(e) == e

(* The entry that is left, and those proc_create may leave: it fails, and  *)
(* changes nothing, if there is one of this name or memory is out.         *)
remove_proc_entry(e) == "none"
proc_create(e, owner) == IF e = "none" THEN {owner, "none"} ELSE {e}

(* insmod of 3_1's module, which does not look at what proc_create does.   *)
Insmod_3_1 ==
  /\ Idle /\ kernel = "none"
  /\ kernel' = "3_1" /\ last' = "3_1" /\ buf' = EmptyBuf
  /\ entry' \in proc_create(entry, "3_1")
  /\ UNCHANGED <<matVars, fptr, loc, got, reinit>>

(* 3_1's module does not remove its entry when it goes. *)
Rmmod_3_1 ==
  /\ Idle /\ kernel = "3_1"
  /\ kernel' = "none" /\ buf' = EmptyBuf
  /\ entry' = IF entry = "none" THEN "none" ELSE "stale"
  /\ UNCHANGED <<matVars, last, fptr, loc, got, reinit>>

(* insmod of 3_2's module, which removes an old entry first and is not     *)
(* loaded if proc_create fails.                                            *)
Insmod_3_2 ==
  /\ Idle /\ kernel = "none"
  /\ last' = "3_2" /\ buf' = EmptyBuf
  /\ entry' \in proc_create(remove_proc_entry(entry), "3_2")
  /\ kernel' = IF entry' = "3_2" THEN "3_2" ELSE "none"
  /\ UNCHANGED <<matVars, fptr, loc, got, reinit>>

Rmmod_3_2 ==
  /\ Idle /\ kernel = "3_2"
  /\ kernel' = "none" /\ entry' = "none" /\ buf' = EmptyBuf
  /\ UNCHANGED <<matVars, last, fptr, loc, got, reinit>>

Root == Insmod_3_1 \/ Rmmod_3_1 \/ Insmod_3_2 \/ Rmmod_3_2

-----------------------------------------------------------------------------
(* main up to the threads.  fopen of a stale entry runs into the memory of *)
(* a module that is gone and kills the process.                            *)
Start(p) ==
  /\ prog[p] # "none" /\ pc[p][0] = "none"
  /\ Goto(p, 0, IF prog[p] \in UsesProc /\ entry = "stale" THEN "crashed" ELSE "create")
  /\ fptr' = [fptr EXCEPT ![p] = prog[p] \in UsesProc /\ entry \in {"3_1", "3_2"}]
  /\ UNCHANGED <<prog, turn, reg, z, locked, printed>>
  /\ UNCHANGED <<kernel, entry, last, buf, loc, got, reinit>>

(* A step of a handler or of a program between two handlers. *)
Step(p, t, from, to) ==
  /\ pc[p][t] = from
  /\ Goto(p, t, to)
  /\ UNCHANGED <<prog, turn, reg, z, printed, kernel, entry, last, fptr>>

(* fgets got NULL: main of 3_1 joins its threads, a thread of 3_2 unlocks. *)
EndOfLoop(t) == IF t = 0 THEN "join" ELSE "spin_unlock"

(* No file: fgets(NULL) of 3_1 crashes, 3_2 tests its FILE. *)
ReadNull(p, t) ==
  /\ ~fptr[p]
  /\ Step(p, t, "read", IF t = 0 THEN "crashed" ELSE "spin_unlock")
  /\ UNCHANGED <<locked, buf, loc, got, reinit>>

(* Both Myreads report the end at an offset that is not 0. *)
ReadEnd(p, t) ==
  /\ fptr[p] /\ loc[p][t].off > 0
  /\ Step(p, t, "read", EndOfLoop(t))
  /\ UNCHANGED <<locked, buf, loc, got, reinit>>

(* Myread of 3_1: one line for each thread of the caller but itself.       *)
MyreadStart_3_1(p, t) ==
  /\ fptr[p] /\ entry = "3_1" /\ loc[p][t].off = 0
  /\ Step(p, t, "read", "for_each_thread")
  /\ loc' = [loc EXCEPT ![p][t].n = 1]
  /\ UNCHANGED <<locked, buf, got, reinit>>

Alive(p, t) == pc[p][t] \notin {"none", "exit"}

(* The next thread of the list. *)
MyreadNext_3_1(p, t) ==
  LET n == loc[p][t].n IN
  /\ n \in Threads
  /\ Step(p, t, "for_each_thread", IF Alive(p, n) THEN "sprintf" ELSE "for_each_thread")
  /\ loc' = [loc EXCEPT ![p][t].n = IF Alive(p, n) THEN n ELSE n + 1]
  /\ UNCHANGED <<locked, buf, got, reinit>>

(* Mutant: every line is written at the start of the buffer. *)
MyreadLine_3_1_Same(p, t) ==
  /\ Step(p, t, "sprintf", "terminate")
  /\ buf' = [buf EXCEPT ![0] = Line(p, loc[p][t].n)]
  /\ UNCHANGED <<locked, loc, got, reinit>>

(* sprintf writes the line and then a NUL behind it, which is where the    *)
(* line of another process may already be.                                 *)
MyreadLine_3_1(p, t) ==
  /\ Step(p, t, "sprintf", "terminate")
  /\ buf' = [buf EXCEPT ![loc[p][t].off] = Line(p, loc[p][t].n)]
  /\ UNCHANGED <<locked, loc, got, reinit>>

MyreadNul_3_1(p, t) ==
  /\ Step(p, t, "terminate", "for_each_thread")
  /\ buf' = [buf EXCEPT ![loc[p][t].off + 1] = NUL]
  /\ loc' = [loc EXCEPT ![p][t].n = @ + 1, ![p][t].off = @ + 1]
  /\ UNCHANGED <<locked, got, reinit>>

(* copy_to_user; 0 bytes are the end of the file. *)
MyreadCopy_3_1(p, t) ==
  LET l == loc[p][t] IN
  /\ l.n \notin Threads
  /\ Step(p, t, "for_each_thread", IF l.off = 0 THEN EndOfLoop(t) ELSE "read")
  /\ got' = [got EXCEPT ![p][t] = Bytes(l.off)]
  /\ UNCHANGED <<locked, buf, loc, reinit>>

-----------------------------------------------------------------------------
(* 3_2 with its module: the greeting under the lock.  Each thread function *)
(* has a lock_initialized of its own, so each initialises the lock.        *)
SpinInit(p, t) ==
  /\ Step(p, t, "spin_init", "spin_lock")
  /\ locked' = [locked EXCEPT ![p] = FALSE]
  /\ reinit' = [reinit EXCEPT ![p] = @ \/ locked[p]]
  /\ UNCHANGED <<buf, loc, got>>

SpinLock(p, t) ==
  /\ ~locked[p]
  /\ Step(p, t, "spin_lock", "fopen")
  /\ locked' = [locked EXCEPT ![p] = TRUE]
  /\ UNCHANGED <<buf, loc, got, reinit>>

(* fopen "w" and fwrite; fclose calls write().  Mywrite of 3_1 returns 0,  *)
(* at which stdio calls it again and again: there is no step for that.     *)
Fopen(p, t) ==
  /\ Step(p, t, "fopen", IF entry = "none" THEN "read" ELSE "write")
  /\ loc' = [loc EXCEPT ![p][t].left = HELLO_LEN]
  /\ UNCHANGED <<locked, buf, got, reinit>>

(* Mutant: no room is left for the terminator. *)
CopyLen_NoTerminator(p, t) == Min({loc[p][t].left, BUFSIZE - strnlen})

(* What Mywrite takes of the bytes it is given. *)
CopyLen(p, t) == Min({loc[p][t].left, BUFSIZE - strnlen - 1})

(* -ENOSPC: stdio drops what is left. *)
MywriteNoSpace(p, t) ==
  /\ entry = "3_2"
  /\ strnlen = BUFSIZE \/ CopyLen(p, t) = 0
  /\ Step(p, t, "write", "read")
  /\ UNCHANGED <<locked, buf, loc, got, reinit>>

MywriteStart(p, t) ==
  /\ entry = "3_2"
  /\ strnlen < BUFSIZE /\ CopyLen(p, t) > 0
  /\ Step(p, t, "write", "copy_from_user")
  /\ loc' = [loc EXCEPT ![p][t].len = strnlen, ![p][t].n = CopyLen(p, t)]
  /\ UNCHANGED <<locked, buf, got, reinit>>

MywriteCopy(p, t) ==
  LET l == loc[p][t] IN
  /\ Step(p, t, "copy_from_user", "scnprintf")
  /\ buf' = [o \in DOMAIN buf |-> IF o \in l.len .. (l.len + l.n - 1)
                                  THEN Hello(p, t) ELSE buf[o]]
  /\ UNCHANGED <<locked, loc, got, reinit>>

(* The terminator, and the info line as far as the buffer goes.  After a   *)
(* short write stdio calls write() with the rest.                          *)
MywriteInfo(p, t) ==
  LET l == loc[p][t]
      at == l.len + l.n
      n == Min({INFO_LEN, BUFSIZE - at - 1})
  IN
  /\ Step(p, t, "scnprintf", IF l.left > l.n THEN "write" ELSE "read")
  /\ buf' = [o \in DOMAIN buf |-> IF o \in at .. (at + n - 1) THEN Info(p, t)
                                  ELSE IF o = at + n THEN NUL ELSE buf[o]]
  /\ loc' = [loc EXCEPT ![p][t].left = @ - l.n]
  /\ UNCHANGED <<locked, got, reinit>>

(* Myread of 3_2: copy what is there, then clear the buffer. *)
MyreadStart_3_2(p, t) ==
  /\ fptr[p] /\ entry = "3_2" /\ loc[p][t].off = 0
  /\ Step(p, t, "read", "copy_to_user")
  /\ loc' = [loc EXCEPT ![p][t].len = strnlen]
  /\ UNCHANGED <<locked, buf, got, reinit>>

MyreadCopy_3_2(p, t) ==
  /\ Step(p, t, "copy_to_user", "memset")
  /\ got' = [got EXCEPT ![p][t] = Bytes(loc[p][t].len)]
  /\ UNCHANGED <<locked, buf, loc, reinit>>

(* Mutant: the buffer is not cleared. *)
MyreadClear_3_2_Keep(p, t) ==
  LET l == loc[p][t] IN
  /\ Step(p, t, "memset", IF l.len = 0 THEN EndOfLoop(t) ELSE "read")
  /\ loc' = [loc EXCEPT ![p][t].off = l.len]
  /\ UNCHANGED <<locked, buf, got, reinit>>

MyreadClear_3_2(p, t) ==
  LET l == loc[p][t] IN
  /\ Step(p, t, "memset", IF l.len = 0 THEN EndOfLoop(t) ELSE "read")
  /\ loc' = [loc EXCEPT ![p][t].off = l.len]
  /\ buf' = EmptyBuf
  /\ UNCHANGED <<locked, got, reinit>>

(* Mutant: the lock is kept. *)
SpinUnlock_Kept(p, t) ==
  /\ Step(p, t, "spin_unlock", "exit")
  /\ UNCHANGED <<locked, buf, loc, got, reinit>>

(* With one thread, exit(0) in the thread ends the process. *)
SpinUnlock(p, t) ==
  /\ IF prog[p] = "3_2_one"
     THEN /\ pc[p][t] = "spin_unlock"
          /\ pc' = [pc EXCEPT ![p][t] = "exit", ![p][0] = "done"]
          /\ UNCHANGED <<prog, turn, reg, z, printed, kernel, entry, last, fptr>>
     ELSE Step(p, t, "spin_unlock", "exit")
  /\ locked' = [locked EXCEPT ![p] = FALSE]
  /\ UNCHANGED <<buf, loc, got, reinit>>

-----------------------------------------------------------------------------
Reading(p, t) ==
  \/ ReadNull(p, t) \/ ReadEnd(p, t)
  \/ MyreadStart_3_1(p, t) \/ MyreadNext_3_1(p, t) \/ MyreadLine_3_1(p, t)
  \/ MyreadNul_3_1(p, t) \/ MyreadCopy_3_1(p, t)
  \/ MyreadStart_3_2(p, t) \/ MyreadCopy_3_2(p, t) \/ MyreadClear_3_2(p, t)

Greeting(p, t) ==
  \/ SpinInit(p, t) \/ SpinLock(p, t) \/ Fopen(p, t)
  \/ MywriteNoSpace(p, t) \/ MywriteStart(p, t) \/ MywriteCopy(p, t) \/ MywriteInfo(p, t)
  \/ SpinUnlock(p, t)

(* The end of main: 3_2 closes its proc files though it may have none, and *)
(* fclose(NULL) kills it when its result is written already.               *)
Finish(p) == WriteResult(p, IF prog[p] \in UsesProc /\ ~fptr[p] THEN "crashed" ELSE "done")

MainStep(p) == ((MatMain(p) \/ Finish(p)) /\ UNCHANGED procVars) \/ Reading(p, 0)
ThreadStep(p, t) ==
  /\ pc[p][0] # "crashed"
  /\ \/ MatThread(p, t) /\ UNCHANGED procVars
     \/ Greeting(p, t) \/ Reading(p, t)

Next ==
  \/ Root
  \/ \E p \in Processes : Start(p) \/ MainStep(p) \/ \E t \in Threads : ThreadStep(p, t)

Spec == Init /\ [][Next]_allVars

(* Threads of a process that runs are scheduled, those that spin too. *)
FairSpec ==
  /\ Spec
  /\ \A p \in Processes :
       WF_allVars(MainStep(p)) /\ \A t \in Threads : WF_allVars(ThreadStep(p, t))

-----------------------------------------------------------------------------
Alone(p) == \A q \in Processes \ {p} : prog[q] = "none"

(***************************************************************************)
(* BufTerminated: the buffer of 3_2's module ends in a NUL whatever writes *)
(* and reads overlap in it, although each of them works at a length that   *)
(* may be stale; so strnlen never reaches BUFSIZE.                         *)
(***************************************************************************)
BufTerminated == kernel = "3_2" => buf[BUFSIZE - 1] = NUL

(***************************************************************************)
(* HellosRead: while nothing but 3_2 uses the file, and unless one thread  *)
(* initialises the lock that the other holds, each thread reads back its   *)
(* own greeting and info line, whole, and nothing of the other thread.     *)
(***************************************************************************)
Greeted(p, t) ==
  LET h == Min({HELLO_LEN, BUFSIZE - 1})
      i == Min({INFO_LEN, BUFSIZE - 1 - h})
  IN [o \in 1 .. (h + i) |-> IF o <= h THEN Hello(p, t) ELSE Info(p, t)]
HellosRead ==
  \A p \in Processes :
    Alone(p) /\ prog[p] \in {"3_2", "3_2_one"} /\ fptr[p] /\ ~reinit[p] =>
      \A t \in ThreadsOf(p) : pc[p][t] = "exit" => got[p][t] = Greeted(p, t)

(***************************************************************************)
(* ListsThreads: a read of 3_1's file gives main a line for every thread   *)
(* that still runs when the read is over, each at most once and in order,  *)
(* though threads end while it is under way.  When two programs share the  *)
(* buffer they overwrite each other's lines, with a NUL as well, and all   *)
(* that is left is that a program gets no more than it has threads.        *)
(***************************************************************************)
ListsThreads ==
  \A p \in Processes : prog[p] = "3_1" /\ entry = "3_1" /\ Running(p) =>
    /\ Len(got[p][0]) <= Cardinality(ThreadsOf(p))
    /\ Alone(p) =>
         /\ got[p][0] \in {<< >>, <<Line(p, 1)>>, <<Line(p, 2)>>, <<Line(p, 1), Line(p, 2)>>}
         /\ pc[p][0] \in {"join", "print"} \/ (pc[p][0] = "read" /\ loc[p][0].off > 0) =>
              \A t \in Threads : Alive(p, t) => \E n \in DOMAIN got[p][0] :
                                                  got[p][0][n] = Line(p, t)

(***************************************************************************)
(* EntryServes: from an insmod of 3_2's module on, even one that fails,    *)
(* and until 3_1's is tried again, no entry leads into a module that is    *)
(* gone, whatever 3_1's module left behind, and a program that runs has    *)
(* the file exactly if 3_2's module is there.                              *)
(***************************************************************************)
EntryServes ==
  last = "3_2" =>
    /\ entry # "stale"
    /\ \A p \in Processes :
         Running(p) /\ prog[p] \in UsesProc => fptr[p] = (kernel = "3_2")

(***************************************************************************)
(* ProgramEnds: a program that starts ends, also when a second thread has  *)
(* initialised the lock under the first; only 3_2 with 3_1's module, whose *)
(* Mywrite takes nothing, does not.                                        *)
(***************************************************************************)
ProgramEnds ==
  \A p \in Processes :
    pc[p][0] = "create" /\ ~(prog[p] \in {"3_2", "3_2_one"} /\ entry = "3_1")
      ~> ~Running(p)
=============================================================================
