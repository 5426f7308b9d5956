---------------------------- MODULE IpcShmProofs ----------------------------
(***************************************************************************)
(* The shared-memory mailbox of lab1 for any input files, any number of    *)
(* launches and segments, and whichever calls fail: one inductive          *)
(* invariant, ShmInv, from which every safety property follows.            *)
(***************************************************************************)
EXTENDS IpcShmProps, SequenceTheorems, FiniteSetTheorems, WellFoundedInduction, TLAPS

(* Where a process uses the mailbox, has taken the token of its slot, has  *)
(* the mutex, and has the segment attached.                                *)
Inside == {"copy", "length", "load", "clear", "unlock"}
Holding == {"lock", "post"} \cup Inside
Looping == {"fopen", "fgets", "empty", "full"} \cup Holding
Attached == {"init", "set_ready", "peer", "cleanup"} \cup Looping
Common == {"off", "shmget", "shmget2", "shmat", "init", "set_ready", "peer", "lock",
           "unlock", "post", "cleanup", "rmid"}
Places(r) == Common \cup IF r = "sender" THEN {"fopen", "fgets", "empty", "copy", "length"}
                         ELSE {"full", "load", "clear"}

Types ==
  /\ TypeOK
  /\ pc \in [Roles -> Common \cup Looping] /\ \A r \in Roles : pc[r] \in Places(r)
  /\ left \in Seq(Text)
  /\ sent \in [Segs -> Seq(Text)] /\ got \in [Segs -> Seq(Text)]

(***************************************************************************)
(* ProcsOK: what a process may rely on at each place.  The creator of a    *)
(* segment is the only one to write it before ready is set.                *)
(***************************************************************************)
FreshBox == [Zeroed EXCEPT !.mutex = 1, !.empty = 1]
ProcOK(r) ==
  /\ addr[r] = IF pc[r] \in Attached THEN shmid[r] ELSE 0
  /\ shmid[r] <= made
  /\ pc[r] \in {"shmat", "rmid"} \cup Attached => shmid[r] # 0
  /\ pc[r] \in {"shmget", "shmget2"} => shmid[r] = 0 /\ ~created[r]
  /\ pc[r] \in {"init", "set_ready"} => created[r]
  /\ created[r] => shmid[r] # 0
  /\ pc[r] \in Looping => seg[shmid[r]].ready
  /\ created[r] /\ pc[r] \in {"shmat", "init"} => ~seg[shmid[r]].ready
  /\ pc[r] = "set_ready" => seg[shmid[r]] = FreshBox
ProcsOK ==
  /\ \A r \in Roles : ProcOK(r)
  /\ ~(created["sender"] /\ created["receiver"] /\ shmid["sender"] = shmid["receiver"])
  /\ key <= made
  /\ \A s \in Segs : s > made => ~seg[s].ready

(***************************************************************************)
(* BoxInv: the token of the slot, the mutex and the message in the slot,   *)
(* for a segment whose users are at snd and rcv ("off" for none), from     *)
(* which gt of the texts st have been taken, while the sender holds tx.    *)
(***************************************************************************)
One(P) == IF P THEN 1 ELSE 0
At(r, s) == IF shmid[r] = s THEN pc[r] ELSE "off"
Stored(box, snd, rcv) ==
  box.full = 1 \/ snd \in {"unlock", "post"} \/ rcv \in {"lock", "load"}
BoxInv(box, snd, rcv, st, gt, tx) ==
  /\ ~box.ready => snd \notin Looping /\ rcv \notin Looping /\ st = << >> /\ gt = << >>
  /\ box.ready =>
       /\ box.empty + box.full + One(snd \in Holding) + One(rcv \in Holding) = 1
       /\ box.mutex + One(snd \in Inside) + One(rcv \in Inside) = 1
       /\ Len(st) = Len(gt) + One(Stored(box, snd, rcv))
       /\ Stored(box, snd, rcv) => box.buffer = st[Len(st)] /\ box.length = st[Len(st)]
       /\ snd = "length" => box.buffer = tx
BoxesOK ==
  \A s \in Segs :
    BoxInv(seg[s], At("sender", s), At("receiver", s), sent[s], got[s], text["sender"])

(***************************************************************************)
(* ExitOK: while a segment can be found and its exit message was taken,    *)
(* the receiver that took it is on its way to remove the segment; no       *)
(* receiver waits in such a segment.                                       *)
(***************************************************************************)
NoExit(s) == \A n \in DOMAIN got[s] : got[s][n] # EXIT_MESSAGE
Waiting == {"shmat", "init", "set_ready", "peer", "full", "lock", "load"}
AfterTake == {"clear", "unlock", "post"}
Took == pc["receiver"] \in AfterTake /\ text["receiver"] = EXIT_MESSAGE
ExitOK ==
  /\ key # 0 => \/ NoExit(key)
                \/ shmid["receiver"] = key /\ (Took \/ pc["receiver"] \in {"cleanup", "rmid"})
  /\ pc["receiver"] \in Waiting => NoExit(shmid["receiver"])
  /\ pc["receiver"] \in AfterTake => NoExit(shmid["receiver"]) \/ Took
  /\ \A s \in Segs : s > made => got[s] = << >>

(***************************************************************************)
(* OnceOK: which segments there are while nothing was started twice, and   *)
(* that a receiver that ended without an error has taken a message.        *)
(***************************************************************************)
Done(r) == pc[r] \in {"cleanup", "rmid"} \/ (pc[r] = "off" /\ launches[r] > 0)
OnceOK ==
  /\ \A r \in Roles : launches[r] = 0 => shmid[r] = 0 /\ pc[r] = "off"
  /\ launches["sender"] = 0 => \A s \in Segs : sent[s] = << >>
  /\ launches["sender"] <= 1 => \A s \in Segs : sent[s] # << >> => shmid["sender"] = s
  /\ pc["receiver"] \in AfterTake => got[shmid["receiver"]] # << >>
  /\ ~failed["receiver"] /\ Done("receiver") =>
       shmid["receiver"] # 0 /\ got[shmid["receiver"]] # << >>
  /\ (\A r \in Roles : launches[r] <= 1) /\ key # 0 => \E r \in Roles : key = shmid[r]

(* The inductive invariant. *)
ShmInv == Types /\ ProcsOK /\ BoxesOK /\ ExitOK /\ ReceiverCleansUp /\ OnceOK

-----------------------------------------------------------------------------
(* A set of numbers that is not empty has a first one.                     *)
LEMMA FirstOf ==
  ASSUME NEW S \in SUBSET Nat, S # {}
  PROVE  Min(S) \in S
<1>1. PICK x \in S : \A y \in S : ~ (<<y, x>> \in OpToRel(<, Nat))
  BY NatLessThanWellFounded, WFMin
<1>2. \A y \in S : ~ (y < x)
  BY <1>1, Zenon DEF OpToRel
<1>3. \A y \in S : x <= y
  BY <1>2
<1> QED
  BY <1>3 DEF Min

(* What the sender makes of a file is a sequence of the texts there are.   *)
LEMMA ScriptTexts ==
  ASSUME NEW file \in Inputs
  PROVE  Script(file) \in Seq(Text)
<1> DEFINE stop == {n \in DOMAIN file : file[n] = "EOF"}
           last == IF stop = {} THEN Len(file) ELSE Min(stop) - 1
           lines == SubSeq(file, 1, last)
           AnyText == STRING \cup {EXIT_MESSAGE}
<1>1. file \in Seq(STRING) /\ Len(file) \in Nat /\ DOMAIN file = 1 .. Len(file)
  BY IpcAssumption, LenProperties
<1>2. last \in 0 .. Len(file)
  <2>1. CASE stop = {}
    BY <1>1, <2>1
  <2>2. CASE stop # {}
    <3>0. stop \in SUBSET (1 .. Len(file))
      BY <1>1
    <3> HIDE DEF stop
    <3>1. Min(stop) \in stop
      BY <1>1, <2>2, <3>0, FirstOf
    <3>2. Min(stop) \in 1 .. Len(file)
      BY <3>0, <3>1
    <3>3. last = Min(stop) - 1
      BY <2>2
    <3> QED
      BY <1>1, <3>2, <3>3
  <2> QED
    BY <2>1, <2>2
<1> HIDE DEF last
<1>3. \A n \in 1 .. last : file[n] \in STRING
  BY <1>1, <1>2
<1>4. lines \in Seq(STRING)
  BY <1>2, <1>3, SubSeqProperties
<1> HIDE DEF lines
<1>5. Script(file) = Append(lines, EXIT_MESSAGE)
  BY DEF Script, lines, last
<1>6. Script(file) \in Seq(AnyText)
  <2>1. lines \in Seq(AnyText)
    BY <1>4, SeqMonotonic
  <2>2. EXIT_MESSAGE \in AnyText
    OBVIOUS
  <2> HIDE DEF AnyText
  <2> QED
    BY <1>5, <2>1, <2>2, AppendProperties
<1>7. \A n \in 1 .. Len(Script(file)) : Script(file)[n] \in Text
  <2>1. ToSet(Script(file)) \subseteq Text
    BY DEF Text
  <2>2. DOMAIN Script(file) = 1 .. Len(Script(file))
    BY <1>6, LenProperties
  <2> QED
    BY <2>1, <2>2 DEF ToSet
<1>8. Len(Script(file)) \in Nat /\ DOMAIN Script(file) = 1 .. Len(Script(file))
  BY <1>6, LenProperties
<1>9. Script(file) \in [1 .. Len(Script(file)) -> AnyText]
  BY <1>6, LenProperties
<1> QED
  BY <1>7, <1>8, <1>9, SeqDef

-----------------------------------------------------------------------------
(* The semaphores, one step each, at the segment they belong to.           *)
BoxType == [ready : BOOLEAN, mutex : 0 .. 1, full : 0 .. 1, empty : 0 .. 1,
            buffer : Text, length : Text]

LEMMA FreshType ==
  /\ Zeroed \in BoxType /\ ~Zeroed.ready
  /\ FreshBox \in BoxType /\ ~FreshBox.ready
  /\ FreshBox.mutex = 1 /\ FreshBox.full = 0 /\ FreshBox.empty = 1
<1>1. NoText \in Text
  BY DEF Text
<1>2. Zeroed \in BoxType /\ ~Zeroed.ready /\ Zeroed.full = 0
  BY <1>1 DEF Zeroed, BoxType
<1> DEFINE b == [Zeroed EXCEPT !.mutex = 1]
<1>3. b \in BoxType /\ b.mutex = 1 /\ b.ready = Zeroed.ready /\ b.full = Zeroed.full
  BY <1>2 DEF BoxType
<1>4. FreshBox = [b EXCEPT !.empty = 1]
  BY DEF FreshBox
<1> HIDE DEF b
<1>5. /\ FreshBox \in BoxType /\ FreshBox.empty = 1
      /\ FreshBox.mutex = b.mutex /\ FreshBox.ready = b.ready /\ FreshBox.full = b.full
  BY <1>3, <1>4 DEF BoxType
<1> QED
  BY <1>2, <1>3, <1>5

(* Where neither process has a token nothing is claimed of their places.   *)
LEMMA BoxQuiet ==
  ASSUME NEW b \in BoxType, NEW snd, NEW rcv, NEW snd2, NEW rcv2, NEW st, NEW gt,
         NEW tx, NEW tx2, BoxInv(b, snd, rcv, st, gt, tx),
         ~b.ready => snd2 \notin Looping /\ rcv2 \notin Looping,
         snd2 = snd \/ (snd \notin Holding /\ snd2 \notin Holding),
         rcv2 = rcv \/ (rcv \notin Holding /\ rcv2 \notin Holding),
         tx2 = tx \/ snd2 # "length"
  PROVE  BoxInv(b, snd2, rcv2, st, gt, tx2)
<1>1. One(snd2 \in Holding) = One(snd \in Holding) /\ One(rcv2 \in Holding) = One(rcv \in Holding)
  BY DEF One
<1>2. One(snd2 \in Inside) = One(snd \in Inside) /\ One(rcv2 \in Inside) = One(rcv \in Inside)
  BY DEF One, Holding
<1>3. Stored(b, snd2, rcv2) = Stored(b, snd, rcv)
  BY DEF Stored, Holding, Inside
<1>4. snd2 = "length" => snd = "length"
  BY DEF Holding, Inside
<1> QED
  BY <1>1, <1>2, <1>3, <1>4 DEF BoxInv

LEMMA BoxMadeReady ==
  ASSUME NEW snd, NEW rcv, NEW snd2, NEW rcv2, NEW st, NEW gt, NEW tx,
         BoxInv(FreshBox, snd, rcv, st, gt, tx),
         snd2 \in {snd, "fopen"}, rcv2 \in {rcv, "full"}
  PROVE  BoxInv([FreshBox EXCEPT !.ready = TRUE], snd2, rcv2, st, gt, tx)
<1>1. /\ ~FreshBox.ready /\ FreshBox.mutex = 1 /\ FreshBox.full = 0 /\ FreshBox.empty = 1
      /\ FreshBox \in BoxType
  BY FreshType
<1>2. snd \notin Looping /\ rcv \notin Looping /\ st = << >> /\ gt = << >>
  BY <1>1 DEF BoxInv
<1>3. snd2 \notin Holding /\ rcv2 \notin Holding
  BY <1>2 DEF Looping, Holding, Inside
<1> DEFINE b == [FreshBox EXCEPT !.ready = TRUE]
<1>4. b.ready /\ b.mutex = 1 /\ b.full = 0 /\ b.empty = 1
  BY <1>1 DEF BoxType
<1> HIDE DEF b
<1>5. One(snd2 \in Holding) = 0 /\ One(rcv2 \in Holding) = 0
      /\ One(snd2 \in Inside) = 0 /\ One(rcv2 \in Inside) = 0
  BY <1>3 DEF One, Holding
<1>6. ~Stored(b, snd2, rcv2) /\ snd2 # "length"
  BY <1>3, <1>4 DEF Stored, Holding, Inside
<1>7. Len(st) = 0 /\ Len(gt) = 0
  BY <1>2
<1> QED
  BY <1>4, <1>5, <1>6, <1>7 DEF BoxInv, One, b

(* What the tokens say of the peer of a process that holds one.            *)
LEMMA BoxSender ==
  ASSUME NEW b \in BoxType, NEW snd, NEW rcv, NEW st, NEW gt, NEW tx,
         BoxInv(b, snd, rcv, st, gt, tx), b.ready
  PROVE  /\ snd \in Holding => b.empty = 0 /\ b.full = 0 /\ rcv \notin Holding
         /\ rcv \in Holding => b.empty = 0 /\ b.full = 0 /\ snd \notin Holding
         /\ b.empty = 1 => b.full = 0 /\ snd \notin Holding /\ rcv \notin Holding
         /\ b.full = 1 => b.empty = 0 /\ snd \notin Holding /\ rcv \notin Holding
         /\ snd \in Inside => b.mutex = 0
         /\ rcv \in Inside => b.mutex = 0
<1>1. b.empty \in 0 .. 1 /\ b.full \in 0 .. 1 /\ b.mutex \in 0 .. 1
  BY DEF BoxType
<1> QED
  BY <1>1 DEF BoxInv, One

-----------------------------------------------------------------------------
(* The semaphore operations of both loops.                                 *)
LEMMA BoxWaitEmpty ==
  ASSUME NEW b \in BoxType, b.ready, NEW rcv, NEW st, NEW gt, NEW tx,
         BoxInv(b, "empty", rcv, st, gt, tx), b.empty > 0
  PROVE  LET b2 == [b EXCEPT !.empty = b.empty - 1]
         IN  b2 \in BoxType /\ b2.ready /\ BoxInv(b2, "lock", rcv, st, gt, tx)
<1> DEFINE b2 == [b EXCEPT !.empty = b.empty - 1]
<1>1. b.empty \in 0 .. 1 /\ b.full \in 0 .. 1 /\ b.mutex \in 0 .. 1
  BY DEF BoxType
<1>2. b.empty - 1 \in 0 .. 1
  BY <1>1, BoxSender DEF Holding, Inside
<1>3. b2 \in BoxType /\ b2.empty = b.empty - 1
      /\ b2.ready = b.ready /\ b2.mutex = b.mutex /\ b2.full = b.full
      /\ b2.buffer = b.buffer /\ b2.length = b.length
  BY <1>2 DEF BoxType
<1> HIDE DEF b2
<1>4. Stored(b2, "lock", rcv) = Stored(b, "empty", rcv)
  BY <1>1, <1>3, BoxSender DEF Stored, Holding, Inside
<1>5. BoxInv(b2, "lock", rcv, st, gt, tx)
  BY <1>1, <1>3, <1>4, BoxSender DEF BoxInv, One, Holding, Inside, Looping
<1> QED
  BY <1>3, <1>5 DEF b2

LEMMA BoxSenderLock ==
  ASSUME NEW b \in BoxType, b.ready, NEW rcv, NEW st, NEW gt, NEW tx,
         BoxInv(b, "lock", rcv, st, gt, tx), b.mutex > 0
  PROVE  LET b2 == [b EXCEPT !.mutex = b.mutex - 1]
         IN  b2 \in BoxType /\ b2.ready /\ BoxInv(b2, "copy", rcv, st, gt, tx)
<1> DEFINE b2 == [b EXCEPT !.mutex = b.mutex - 1]
<1>1. b.empty \in 0 .. 1 /\ b.full \in 0 .. 1 /\ b.mutex \in 0 .. 1
  BY DEF BoxType
<1>2. b.mutex - 1 \in 0 .. 1
  BY <1>1, BoxSender DEF Holding, Inside
<1>3. b2 \in BoxType /\ b2.mutex = b.mutex - 1
      /\ b2.ready = b.ready /\ b2.full = b.full /\ b2.empty = b.empty
      /\ b2.buffer = b.buffer /\ b2.length = b.length
  BY <1>2 DEF BoxType
<1> HIDE DEF b2
<1>4. Stored(b2, "copy", rcv) = Stored(b, "lock", rcv)
  BY <1>1, <1>3, BoxSender DEF Stored, Holding, Inside
<1>5. BoxInv(b2, "copy", rcv, st, gt, tx)
  BY <1>1, <1>3, <1>4, BoxSender DEF BoxInv, One, Holding, Inside, Looping
<1> QED
  BY <1>3, <1>5 DEF b2

LEMMA BoxSenderUnlock ==
  ASSUME NEW b \in BoxType, b.ready, NEW rcv, NEW st, NEW gt, NEW tx,
         BoxInv(b, "unlock", rcv, st, gt, tx)
  PROVE  LET b2 == [b EXCEPT !.mutex = b.mutex + 1]
         IN  b2 \in BoxType /\ b2.ready /\ BoxInv(b2, "post", rcv, st, gt, tx)
<1> DEFINE b2 == [b EXCEPT !.mutex = b.mutex + 1]
<1>1. b.empty \in 0 .. 1 /\ b.full \in 0 .. 1 /\ b.mutex \in 0 .. 1
  BY DEF BoxType
<1>2. b.mutex + 1 \in 0 .. 1
  BY <1>1, BoxSender DEF Holding, Inside
<1>3. b2 \in BoxType /\ b2.mutex = b.mutex + 1
      /\ b2.ready = b.ready /\ b2.full = b.full /\ b2.empty = b.empty
      /\ b2.buffer = b.buffer /\ b2.length = b.length
  BY <1>2 DEF BoxType
<1> HIDE DEF b2
<1>4. Stored(b2, "post", rcv) = Stored(b, "unlock", rcv)
  BY <1>1, <1>3, BoxSender DEF Stored, Holding, Inside
<1>5. BoxInv(b2, "post", rcv, st, gt, tx)
  BY <1>1, <1>3, <1>4, BoxSender DEF BoxInv, One, Holding, Inside, Looping
<1> QED
  BY <1>3, <1>5 DEF b2

LEMMA BoxPostFull ==
  ASSUME NEW b \in BoxType, b.ready, NEW rcv, NEW st, NEW gt, NEW tx,
         BoxInv(b, "post", rcv, st, gt, tx)
  PROVE  LET b2 == [b EXCEPT !.full = b.full + 1]
         IN  b2 \in BoxType /\ b2.ready /\ BoxInv(b2, "fgets", rcv, st, gt, tx)
<1> DEFINE b2 == [b EXCEPT !.full = b.full + 1]
<1>1. b.empty \in 0 .. 1 /\ b.full \in 0 .. 1 /\ b.mutex \in 0 .. 1
  BY DEF BoxType
<1>2. b.full + 1 \in 0 .. 1
  BY <1>1, BoxSender DEF Holding, Inside
<1>3. b2 \in BoxType /\ b2.full = b.full + 1
      /\ b2.ready = b.ready /\ b2.mutex = b.mutex /\ b2.empty = b.empty
      /\ b2.buffer = b.buffer /\ b2.length = b.length
  BY <1>2 DEF BoxType
<1> HIDE DEF b2
<1>4. Stored(b2, "fgets", rcv) = Stored(b, "post", rcv)
  BY <1>1, <1>3, BoxSender DEF Stored, Holding, Inside
<1>5. BoxInv(b2, "fgets", rcv, st, gt, tx)
  BY <1>1, <1>3, <1>4, BoxSender DEF BoxInv, One, Holding, Inside, Looping
<1> QED
  BY <1>3, <1>5 DEF b2

LEMMA BoxWaitFull ==
  ASSUME NEW b \in BoxType, b.ready, NEW snd, NEW st, NEW gt, NEW tx,
         BoxInv(b, snd, "full", st, gt, tx), b.full > 0
  PROVE  LET b2 == [b EXCEPT !.full = b.full - 1]
         IN  b2 \in BoxType /\ b2.ready /\ BoxInv(b2, snd, "lock", st, gt, tx)
<1> DEFINE b2 == [b EXCEPT !.full = b.full - 1]
<1>1. b.empty \in 0 .. 1 /\ b.full \in 0 .. 1 /\ b.mutex \in 0 .. 1
  BY DEF BoxType
<1>2. b.full - 1 \in 0 .. 1
  BY <1>1, BoxSender DEF Holding, Inside
<1>3. b2 \in BoxType /\ b2.full = b.full - 1
      /\ b2.ready = b.ready /\ b2.mutex = b.mutex /\ b2.empty = b.empty
      /\ b2.buffer = b.buffer /\ b2.length = b.length
  BY <1>2 DEF BoxType
<1> HIDE DEF b2
<1>4. Stored(b2, snd, "lock") = Stored(b, snd, "full")
  BY <1>1, <1>3, BoxSender DEF Stored, Holding, Inside
<1>5. BoxInv(b2, snd, "lock", st, gt, tx)
  BY <1>1, <1>3, <1>4, BoxSender DEF BoxInv, One, Holding, Inside, Looping
<1> QED
  BY <1>3, <1>5 DEF b2

LEMMA BoxReceiverLock ==
  ASSUME NEW b \in BoxType, b.ready, NEW snd, NEW st, NEW gt, NEW tx,
         BoxInv(b, snd, "lock", st, gt, tx), b.mutex > 0
  PROVE  LET b2 == [b EXCEPT !.mutex = b.mutex - 1]
         IN  b2 \in BoxType /\ b2.ready /\ BoxInv(b2, snd, "load", st, gt, tx)
<1> DEFINE b2 == [b EXCEPT !.mutex = b.mutex - 1]
<1>1. b.empty \in 0 .. 1 /\ b.full \in 0 .. 1 /\ b.mutex \in 0 .. 1
  BY DEF BoxType
<1>2. b.mutex - 1 \in 0 .. 1
  BY <1>1, BoxSender DEF Holding, Inside
<1>3. b2 \in BoxType /\ b2.mutex = b.mutex - 1
      /\ b2.ready = b.ready /\ b2.full = b.full /\ b2.empty = b.empty
      /\ b2.buffer = b.buffer /\ b2.length = b.length
  BY <1>2 DEF BoxType
<1> HIDE DEF b2
<1>4. Stored(b2, snd, "load") = Stored(b, snd, "lock")
  BY <1>1, <1>3, BoxSender DEF Stored, Holding, Inside
<1>5. BoxInv(b2, snd, "load", st, gt, tx)
  BY <1>1, <1>3, <1>4, BoxSender DEF BoxInv, One, Holding, Inside, Looping
<1> QED
  BY <1>3, <1>5 DEF b2

LEMMA BoxReceiverUnlock ==
  ASSUME NEW b \in BoxType, b.ready, NEW snd, NEW st, NEW gt, NEW tx,
         BoxInv(b, snd, "unlock", st, gt, tx)
  PROVE  LET b2 == [b EXCEPT !.mutex = b.mutex + 1]
         IN  b2 \in BoxType /\ b2.ready /\ BoxInv(b2, snd, "post", st, gt, tx)
<1> DEFINE b2 == [b EXCEPT !.mutex = b.mutex + 1]
<1>1. b.empty \in 0 .. 1 /\ b.full \in 0 .. 1 /\ b.mutex \in 0 .. 1
  BY DEF BoxType
<1>2. b.mutex + 1 \in 0 .. 1
  BY <1>1, BoxSender DEF Holding, Inside
<1>3. b2 \in BoxType /\ b2.mutex = b.mutex + 1
      /\ b2.ready = b.ready /\ b2.full = b.full /\ b2.empty = b.empty
      /\ b2.buffer = b.buffer /\ b2.length = b.length
  BY <1>2 DEF BoxType
<1> HIDE DEF b2
<1>4. Stored(b2, snd, "post") = Stored(b, snd, "unlock")
  BY <1>1, <1>3, BoxSender DEF Stored, Holding, Inside
<1>5. BoxInv(b2, snd, "post", st, gt, tx)
  BY <1>1, <1>3, <1>4, BoxSender DEF BoxInv, One, Holding, Inside, Looping
<1> QED
  BY <1>3, <1>5 DEF b2

LEMMA BoxPostEmpty ==
  ASSUME NEW b \in BoxType, b.ready, NEW snd, NEW next, NEW st, NEW gt, NEW tx,
         BoxInv(b, snd, "post", st, gt, tx), next \in {"full", "cleanup"}
  PROVE  LET b2 == [b EXCEPT !.empty = b.empty + 1]
         IN  b2 \in BoxType /\ b2.ready /\ BoxInv(b2, snd, next, st, gt, tx)
<1> DEFINE b2 == [b EXCEPT !.empty = b.empty + 1]
<1>1. b.empty \in 0 .. 1 /\ b.full \in 0 .. 1 /\ b.mutex \in 0 .. 1
  BY DEF BoxType
<1>2. b.empty + 1 \in 0 .. 1
  BY <1>1, BoxSender DEF Holding, Inside
<1>3. b2 \in BoxType /\ b2.empty = b.empty + 1
      /\ b2.ready = b.ready /\ b2.mutex = b.mutex /\ b2.full = b.full
      /\ b2.buffer = b.buffer /\ b2.length = b.length
  BY <1>2 DEF BoxType
<1> HIDE DEF b2
<1>4. Stored(b2, snd, next) = Stored(b, snd, "post")
  BY <1>1, <1>3, BoxSender DEF Stored, Holding, Inside
<1>5. BoxInv(b2, snd, next, st, gt, tx)
  BY <1>1, <1>3, <1>4, BoxSender DEF BoxInv, One, Holding, Inside, Looping
<1> QED
  BY <1>3, <1>5 DEF b2

(* The text goes into the slot in two steps and comes out in one.          *)
LEMMA BoxCopyText ==
  ASSUME NEW b \in BoxType, b.ready, NEW rcv, NEW st, NEW gt, NEW tx \in Text,
         BoxInv(b, "copy", rcv, st, gt, tx)
  PROVE  LET b2 == [b EXCEPT !.buffer = tx]
         IN  b2 \in BoxType /\ b2.ready /\ BoxInv(b2, "length", rcv, st, gt, tx)
<1> DEFINE b2 == [b EXCEPT !.buffer = tx]
<1>1. b2 \in BoxType /\ b2.buffer = tx /\ b2.length = b.length
      /\ b2.ready = b.ready /\ b2.mutex = b.mutex /\ b2.full = b.full /\ b2.empty = b.empty
  BY DEF BoxType
<1> HIDE DEF b2
<1>2. b.full = 0 /\ rcv \notin Holding
  BY BoxSender DEF Holding, Inside
<1>3. ~Stored(b, "copy", rcv) /\ ~Stored(b2, "length", rcv)
  BY <1>1, <1>2 DEF Stored, Holding, Inside
<1>4. BoxInv(b2, "length", rcv, st, gt, tx)
  BY <1>1, <1>3 DEF BoxInv, One, Holding, Inside, Looping
<1> QED
  BY <1>1, <1>4 DEF b2

LEMMA BoxCopyLength ==
  ASSUME NEW b \in BoxType, b.ready, NEW rcv, NEW st \in Seq(Text), NEW gt \in Seq(Text),
         NEW tx \in Text, BoxInv(b, "length", rcv, st, gt, tx)
  PROVE  LET b2 == [b EXCEPT !.length = tx]
         IN  /\ b2 \in BoxType /\ b2.ready /\ Len(st) = Len(gt)
             /\ BoxInv(b2, "unlock", rcv, Append(st, tx), gt, tx)
<1> DEFINE b2 == [b EXCEPT !.length = tx]
<1>1. b2 \in BoxType /\ b2.length = tx /\ b2.buffer = b.buffer
      /\ b2.ready = b.ready /\ b2.mutex = b.mutex /\ b2.full = b.full /\ b2.empty = b.empty
  BY DEF BoxType
<1> HIDE DEF b2
<1>2. b.full = 0 /\ rcv \notin Holding
  BY BoxSender DEF Holding, Inside
<1>3. ~Stored(b, "length", rcv) /\ Stored(b2, "unlock", rcv)
  BY <1>1, <1>2 DEF Stored, Holding, Inside
<1>4. Len(st) \in Nat /\ Len(gt) \in Nat /\ Len(st) = Len(gt)
  BY <1>3, LenProperties DEF BoxInv, One
<1>5. Len(Append(st, tx)) = Len(st) + 1 /\ Append(st, tx)[Len(st) + 1] = tx
  BY AppendProperties
<1>6. Append(st, tx)[Len(Append(st, tx))] = tx
  BY <1>5
<1>7. /\ b2.empty + b2.full + One("unlock" \in Holding) + One(rcv \in Holding) = 1
      /\ b2.mutex + One("unlock" \in Inside) + One(rcv \in Inside) = 1
  BY <1>1 DEF BoxInv, One, Holding, Inside
<1>8. b.buffer = tx
  BY DEF BoxInv
<1>9. BoxInv(b2, "unlock", rcv, Append(st, tx), gt, tx)
  BY <1>1, <1>3, <1>4, <1>5, <1>6, <1>7, <1>8 DEF BoxInv, One
<1> QED
  BY <1>1, <1>4, <1>9 DEF b2

(* The receiver finds a whole message, the next one that was sent.         *)
LEMMA BoxLoadText ==
  ASSUME NEW b \in BoxType, b.ready, NEW snd, NEW st \in Seq(Text), NEW gt \in Seq(Text),
         NEW tx, BoxInv(b, snd, "load", st, gt, tx)
  PROVE  /\ b.length = b.buffer /\ b.buffer = st[Len(gt) + 1] /\ Len(gt) < Len(st)
         /\ BoxInv(b, snd, "clear", st, Append(gt, b.buffer), tx)
<1>1. b.full = 0 /\ snd \notin Holding /\ b.buffer \in Text
  BY BoxSender DEF Holding, Inside, BoxType
<1>2. Stored(b, snd, "load") /\ ~Stored(b, snd, "clear") /\ snd # "length"
  BY <1>1 DEF Stored, Holding, Inside
<1>3. Len(st) \in Nat /\ Len(gt) \in Nat /\ Len(st) = Len(gt) + 1
  BY <1>2, LenProperties DEF BoxInv, One
<1>4. b.length = b.buffer /\ b.buffer = st[Len(gt) + 1] /\ Len(gt) < Len(st)
  BY <1>2, <1>3 DEF BoxInv
<1>5. Len(Append(gt, b.buffer)) = Len(gt) + 1
  BY <1>1, AppendProperties
<1>6. /\ b.empty + b.full + One(snd \in Holding) + One("clear" \in Holding) = 1
      /\ b.mutex + One(snd \in Inside) + One("clear" \in Inside) = 1
  BY DEF BoxInv, One, Holding, Inside
<1>7. BoxInv(b, snd, "clear", st, Append(gt, b.buffer), tx)
  BY <1>2, <1>3, <1>5, <1>6 DEF BoxInv, One
<1> QED
  BY <1>4, <1>7

LEMMA BoxClear ==
  ASSUME NEW b \in BoxType, b.ready, NEW snd, NEW st, NEW gt, NEW tx,
         BoxInv(b, snd, "clear", st, gt, tx)
  PROVE  LET b2 == [b EXCEPT !.buffer = NoText, !.length = NoText]
         IN  b2 \in BoxType /\ b2.ready /\ BoxInv(b2, snd, "unlock", st, gt, tx)
<1> DEFINE b1 == [b EXCEPT !.buffer = NoText]
           b2 == [b1 EXCEPT !.length = NoText]
<1>1. NoText \in Text
  BY DEF Text
<1>2. b1 \in BoxType
      /\ b1.ready = b.ready /\ b1.mutex = b.mutex /\ b1.full = b.full /\ b1.empty = b.empty
  BY <1>1 DEF BoxType
<1>3. b2 = [b EXCEPT !.buffer = NoText, !.length = NoText]
  OBVIOUS
<1> HIDE DEF b1
<1>4. b2 \in BoxType
      /\ b2.ready = b.ready /\ b2.mutex = b.mutex /\ b2.full = b.full /\ b2.empty = b.empty
  BY <1>1, <1>2 DEF BoxType
<1> HIDE DEF b2
<1>5. b.full = 0 /\ snd \notin Holding
  BY BoxSender DEF Holding, Inside
<1>6. ~Stored(b, snd, "clear") /\ ~Stored(b2, snd, "unlock") /\ snd # "length"
  BY <1>4, <1>5 DEF Stored, Holding, Inside
<1>7. BoxInv(b2, snd, "unlock", st, gt, tx)
  BY <1>4, <1>6 DEF BoxInv, One, Holding, Inside
<1> QED
  BY <1>3, <1>4, <1>7

-----------------------------------------------------------------------------
(* A process that has the segment attached works on the one it found.      *)
LEMMA AttachedBox ==
  ASSUME Types, ProcsOK, NEW r \in Roles, pc[r] \in Attached
  PROVE  /\ addr[r] = shmid[r] /\ shmid[r] \in Segs
         /\ Box(r) = seg[shmid[r]] /\ seg[shmid[r]] \in BoxType
         /\ pc[r] \in Looping => seg[shmid[r]].ready
<1>1. addr[r] = shmid[r] /\ shmid[r] # 0 /\ (pc[r] \in Looping => seg[shmid[r]].ready)
  BY DEF ProcsOK, ProcOK
<1>2. shmid[r] \in Segs
  BY <1>1 DEF Types, TypeOK
<1>3. seg[shmid[r]] \in BoxType
  BY <1>2 DEF Types, TypeOK, BoxType
<1> QED
  BY <1>1, <1>2, <1>3 DEF Box

(* A step of a process that keeps its segment attached and leaves box in   *)
(* it.                                                                     *)
Move(r, to, box) ==
  /\ pc' = [pc EXCEPT ![r] = to]
  /\ seg' = [seg EXCEPT ![shmid[r]] = box]
  /\ UNCHANGED <<input, key, made, shmid, addr, created, launches>>

(* What such a step must not do to the peer's segment.                     *)
Careful(r, to, box) ==
  /\ pc[r] \in Attached \ {"cleanup"} /\ to \in Attached \ {"init"}
  /\ to \in Looping => box.ready
  /\ to = "set_ready" => created[r] /\ box = FreshBox
  /\ seg[shmid[r]].ready => box.ready
  /\ box = seg[shmid[r]] \/ seg[shmid[r]].ready \/ pc[r] \in {"init", "set_ready"}

LEMMA ProcsMove ==
  ASSUME Types, ProcsOK, NEW r \in Roles, NEW to, NEW box \in BoxType,
         Move(r, to, box), Careful(r, to, box)
  PROVE  ProcsOK'
<1>1. shmid[r] \in Segs /\ seg \in [Segs -> BoxType] /\ shmid[r] <= made
  BY AttachedBox DEF Careful, Types, TypeOK, BoxType, ProcsOK, ProcOK
<1>2. /\ seg'[shmid[r]] = box
      /\ \A s \in Segs \ {shmid[r]} : seg'[s] = seg[s]
  BY <1>1 DEF Move
<1>3. pc'[r] = to /\ \A o \in Roles \ {r} : pc'[o] = pc[o]
  BY DEF Move, Types
<1>4. UNCHANGED <<key, made, shmid, addr, created>>
  BY DEF Move
<1>5. ProcOK(r)'
  <2>1. to \notin {"shmat", "init", "shmget", "shmget2", "rmid"}
    BY DEF Careful, Attached, Looping, Holding, Inside
  <2>2. addr[r] = shmid[r]
    BY AttachedBox DEF Careful
  <2> QED
    BY <1>1, <1>2, <1>3, <1>4, <2>1, <2>2 DEF ProcsOK, ProcOK, Careful
<1>6. ASSUME NEW o \in Roles \ {r} PROVE ProcOK(o)'
  <2>1. ProcOK(o) /\ pc'[o] = pc[o]
    BY <1>3 DEF ProcsOK
  <2>2. CASE shmid[o] # shmid[r]
    <3>1. shmid[o] \in Segs => seg'[shmid[o]] = seg[shmid[o]]
      BY <1>2, <2>2
    <3>2. pc[o] \in {"shmat"} \cup Attached => shmid[o] \in Segs
      BY <2>1 DEF ProcOK, Types, TypeOK
    <3> QED
      BY <1>4, <2>1, <3>1, <3>2 DEF ProcOK, Attached
  <2>3. CASE shmid[o] = shmid[r]
    <3>1. ~(created[o] /\ created[r])
      BY <2>3 DEF ProcsOK, Roles
    <3>2. pc[r] \in {"init", "set_ready"} => created[r]
      BY DEF ProcsOK, ProcOK
    <3>3. created[o] => box = seg[shmid[r]] \/ seg[shmid[r]].ready
      BY <3>1, <3>2 DEF Careful
    <3>4. pc[o] \in Looping => box.ready
      BY <2>1, <2>3 DEF ProcOK, Careful
    <3>5. created[o] /\ pc[o] \in {"shmat", "init"} => ~box.ready
      BY <2>1, <2>3, <3>3 DEF ProcOK
    <3>6. pc[o] = "set_ready" => box = FreshBox
      BY <2>1, <2>3, <3>3, FreshType DEF ProcOK
    <3> QED
      BY <1>2, <1>4, <2>1, <2>3, <3>4, <3>5, <3>6 DEF ProcOK
  <2> QED
    BY <2>2, <2>3
<1>7. \A s \in Segs : s > made' => ~seg'[s].ready
  <2>1. made \in Nat /\ \A s \in Segs : s \in Nat
    BY DEF Types, TypeOK, Segs
  <2>2. ASSUME NEW s \in Segs, s > made PROVE s # shmid[r]
    BY <1>1, <2>1, <2>2
  <2> QED
    BY <1>2, <1>4, <2>2 DEF ProcsOK
<1> QED
  BY <1>4, <1>5, <1>6, <1>7 DEF ProcsOK

(* The box of r's segment after the step, and the other boxes.             *)
BoxMoved(r, to, box) ==
  BoxInv(box, IF r = "sender" THEN to ELSE At("sender", shmid[r]),
              IF r = "receiver" THEN to ELSE At("receiver", shmid[r]),
              sent'[shmid[r]], got'[shmid[r]], text["sender"])

LEMMA BoxesMove ==
  ASSUME Types, BoxesOK, NEW r \in Roles, NEW to, NEW box \in BoxType,
         Move(r, to, box), BoxMoved(r, to, box), shmid[r] \in Segs,
         text'["sender"] = text["sender"],
         \A s \in Segs \ {shmid[r]} : sent'[s] = sent[s] /\ got'[s] = got[s]
  PROVE  BoxesOK'
<1>1. seg'[shmid[r]] = box /\ \A s \in Segs \ {shmid[r]} : seg'[s] = seg[s]
  BY DEF Move, Types, TypeOK
<1>2. pc'[r] = to /\ \A o \in Roles \ {r} : pc'[o] = pc[o]
  BY DEF Move, Types
<1>3. ASSUME NEW s \in Segs \ {shmid[r]}
      PROVE  At("sender", s)' = At("sender", s) /\ At("receiver", s)' = At("receiver", s)
  BY <1>2 DEF At, Move, Roles
<1>4. At("sender", shmid[r])' = IF r = "sender" THEN to ELSE At("sender", shmid[r])
  BY <1>2 DEF At, Move, Roles
<1>5. At("receiver", shmid[r])' = IF r = "receiver" THEN to ELSE At("receiver", shmid[r])
  BY <1>2 DEF At, Move, Roles
<1> QED
  BY <1>1, <1>3, <1>4, <1>5 DEF BoxesOK, BoxMoved, Move

(* Places of the receiver that keep what ExitOK says of its segment.       *)
Follows(from, to) ==
  \/ from = to
  \/ from \in Waiting /\ to \in Waiting \cup {"cleanup"}
  \/ from \in AfterTake /\ to \in AfterTake \cup {"cleanup"}
  \/ from \in AfterTake /\ to = "full" /\ ~Took

LEMMA ExitMove ==
  ASSUME Types, ExitOK, UNCHANGED <<key, made, shmid, got>>,
         text'["receiver"] = text["receiver"],
         Follows(pc["receiver"], pc'["receiver"])
  PROVE  ExitOK'
<1>1. \A s : NoExit(s)' = NoExit(s)
  BY DEF NoExit
<1>2. CASE pc'["receiver"] = pc["receiver"]
  BY <1>1, <1>2 DEF ExitOK, Took
<1>3. CASE pc["receiver"] \in Waiting /\ pc'["receiver"] \in Waiting \cup {"cleanup"}
  BY <1>1, <1>3 DEF ExitOK, Took, Waiting, AfterTake
<1>4. CASE pc["receiver"] \in AfterTake /\ pc'["receiver"] \in AfterTake \cup {"cleanup"}
  BY <1>1, <1>4 DEF ExitOK, Took, Waiting, AfterTake
<1>5. CASE pc["receiver"] \in AfterTake /\ pc'["receiver"] = "full" /\ ~Took
  BY <1>1, <1>5 DEF ExitOK, Took, Waiting, AfterTake
<1> QED
  BY <1>2, <1>3, <1>4, <1>5 DEF Follows

LEMMA OnceMove ==
  ASSUME Types, OnceOK, ReceiverCleansUp, NEW r \in Roles, NEW to, NEW box,
         Move(r, to, box), pc[r] # "off", to \notin {"off", "rmid"},
         \A s \in Segs \ {shmid["sender"]} : sent'[s] = sent[s],
         r = "receiver" => sent' = sent,
         \A s \in Segs : got[s] # << >> => got'[s] # << >>,
         r = "receiver" => shmid[r] \in Segs,
         r = "receiver" /\ to \in AfterTake =>
           pc[r] \in AfterTake \/ got'[shmid[r]] # << >>,
         r = "receiver" /\ to = "cleanup" => pc[r] \in AfterTake \/ failed'[r],
         r = "sender" => failed'["receiver"] = failed["receiver"] /\ got' = got
  PROVE  OnceOK' /\ ReceiverCleansUp'
<1>1. pc'[r] = to /\ \A o \in Roles \ {r} : pc'[o] = pc[o]
  BY DEF Move, Types
<1>2. launches[r] # 0
  BY DEF OnceOK
<1>3. UNCHANGED <<key, made, shmid, addr, created, launches>>
  BY DEF Move
<1>4. ReceiverCleansUp'
  BY <1>1, <1>3 DEF ReceiverCleansUp, Roles
<1>5. \A o \in Roles : launches'[o] = 0 => shmid'[o] = 0 /\ pc'[o] = "off"
  BY <1>1, <1>2, <1>3 DEF OnceOK
<1>6. launches'["sender"] = 0 => \A s \in Segs : sent'[s] = << >>
  BY <1>2, <1>3 DEF OnceOK, Roles
<1>7. launches'["sender"] <= 1 => \A s \in Segs : sent'[s] # << >> => shmid'["sender"] = s
  BY <1>3 DEF OnceOK
<1>8. pc'["receiver"] \in AfterTake => got'[shmid'["receiver"]] # << >>
  <2>1. CASE r = "receiver"
    BY <1>1, <1>3, <2>1 DEF OnceOK
  <2>2. CASE r = "sender"
    BY <1>1, <1>3, <2>2 DEF OnceOK, Roles
  <2> QED
    BY <2>1, <2>2 DEF Roles
<1>9. ~failed'["receiver"] /\ Done("receiver")' =>
        shmid'["receiver"] # 0 /\ got'[shmid'["receiver"]] # << >>
  <2>1. CASE r = "receiver"
    BY <1>1, <1>3, <2>1 DEF OnceOK, Done, Segs
  <2>2. CASE r = "sender"
    BY <1>1, <1>3, <2>2 DEF OnceOK, Done, Roles
  <2> QED
    BY <2>1, <2>2 DEF Roles
<1>10. (\A o \in Roles : launches'[o] <= 1) /\ key' # 0 => \E o \in Roles : key' = shmid'[o]
  BY <1>3 DEF OnceOK
<1> QED
  BY <1>4, <1>5, <1>6, <1>7, <1>8, <1>9, <1>10 DEF OnceOK

LEMMA TypesMove ==
  ASSUME Types, NEW r \in Roles, NEW to \in Places(r), NEW box \in BoxType, Move(r, to, box),
         failed' \in [Roles -> BOOLEAN], text' \in [Roles -> Text], left' \in Seq(Text),
         sent' \in [Segs -> Seq(Text)], got' \in [Segs -> Seq(Text)]
  PROVE  Types'
<1>1. seg' \in [Segs -> BoxType]
  BY DEF Types, TypeOK, Move, BoxType
<1>2. TypeOK'
  BY <1>1 DEF Types, TypeOK, Move, BoxType
<1>3. to \in Common \cup Looping
  BY DEF Places, Common, Looping, Holding, Inside
<1>4. pc' \in [Roles -> Common \cup Looping] /\ \A o \in Roles : pc'[o] \in Places(o)
  BY <1>3 DEF Types, Move, Places
<1> QED
  BY <1>2, <1>4 DEF Types

(* Steps that only move the process and change the semaphores or the slot. *)
LEMMA SilentMove ==
  ASSUME ShmInv, NEW r \in Roles, NEW to \in Places(r), NEW box \in BoxType,
         Move(r, to, box), Careful(r, to, box), BoxMoved(r, to, box),
         UNCHANGED <<failed, text, left, sent, got>>,
         r = "receiver" => Follows(pc[r], to),
         r = "receiver" /\ to \in AfterTake \cup {"cleanup"} => pc[r] \in AfterTake
  PROVE  ShmInv'
<1> USE DEF ShmInv
<1>1. pc[r] \in Attached /\ pc[r] # "off" /\ to \notin {"off", "rmid"}
  BY DEF Careful, Attached, Looping, Holding, Inside
<1>2. shmid[r] \in Segs
  BY <1>1, AttachedBox
<1>3. Types'
  BY TypesMove DEF Types, TypeOK
<1>4. ProcsOK'
  BY ProcsMove
<1>5. BoxesOK'
  BY <1>2, BoxesMove
<1>6. Follows(pc["receiver"], pc'["receiver"])
  BY DEF Move, Types, Roles, Follows
<1>7. ExitOK'
  BY <1>6, ExitMove DEF Move
<1>8. OnceOK' /\ ReceiverCleansUp'
  BY <1>1, <1>2, OnceMove
<1> QED
  BY <1>3, <1>4, <1>5, <1>7, <1>8

-----------------------------------------------------------------------------
(* The box of the segment that a process has attached.                     *)
LEMMA OwnBox ==
  ASSUME ShmInv, NEW r \in Roles, pc[r] \in Attached
  PROVE  LET s == shmid[r] IN
         /\ addr[r] = s /\ s \in Segs /\ Box(r) = seg[s] /\ seg[s] \in BoxType
         /\ sent[s] \in Seq(Text) /\ got[s] \in Seq(Text) /\ text[r] \in Text
         /\ At(r, s) = pc[r]
         /\ pc[r] \in Looping => seg[s].ready
         /\ BoxInv(seg[s], At("sender", s), At("receiver", s), sent[s], got[s], text["sender"])
<1>1. /\ addr[r] = shmid[r] /\ shmid[r] \in Segs
      /\ Box(r) = seg[shmid[r]] /\ seg[shmid[r]] \in BoxType
      /\ pc[r] \in Looping => seg[shmid[r]].ready
  BY AttachedBox DEF ShmInv
<1> QED
  BY <1>1 DEF ShmInv, Types, TypeOK, BoxesOK, At

LEMMA WaitEmptyOK == ShmInv /\ WaitEmpty => ShmInv'
<1> SUFFICES ASSUME ShmInv, WaitEmpty PROVE ShmInv'
  OBVIOUS
<1> DEFINE s == shmid["sender"]
           box == [seg[s] EXCEPT !.empty = seg[s].empty - 1]
<1>1. "sender" \in Roles /\ pc["sender"] = "empty" /\ "empty" \in Looping /\ "empty" \in Attached
  BY DEF WaitEmpty, Go, Roles, Looping, Attached
<1>2. /\ s \in Segs /\ addr["sender"] = s /\ Box("sender") = seg[s] /\ seg[s] \in BoxType
      /\ seg[s].ready /\ seg[s].empty > 0
      /\ BoxInv(seg[s], "empty", At("receiver", s), sent[s], got[s], text["sender"])
  BY <1>1, OwnBox DEF WaitEmpty
<1>3. box \in BoxType /\ box.ready
      /\ BoxInv(box, "lock", At("receiver", s), sent[s], got[s], text["sender"])
  BY <1>2, BoxWaitEmpty
<1>4. Move("sender", "lock", box) /\ UNCHANGED <<failed, text, left, sent, got>>
  BY <1>2 DEF WaitEmpty, Go, SetBox, Move, procVars, history
<1> HIDE DEF box
<1>5. Careful("sender", "lock", box) /\ BoxMoved("sender", "lock", box)
  BY <1>1, <1>2, <1>3, <1>4 DEF Careful, BoxMoved, Attached, Looping, Holding
<1>6. "lock" \in Places("sender")
  BY DEF Places, Common
<1> QED
  BY <1>1, <1>3, <1>4, <1>5, <1>6, SilentMove

LEMMA CopyTextOK == ShmInv /\ CopyText => ShmInv'
<1> SUFFICES ASSUME ShmInv, CopyText PROVE ShmInv'
  OBVIOUS
<1> DEFINE s == shmid["sender"]
           box == [seg[s] EXCEPT !.buffer = text["sender"]]
<1>1. "sender" \in Roles /\ pc["sender"] = "copy" /\ "copy" \in Looping /\ "copy" \in Attached
  BY DEF CopyText, Go, Roles, Attached, Looping, Holding, Inside
<1>2. /\ s \in Segs /\ addr["sender"] = s /\ Box("sender") = seg[s] /\ seg[s] \in BoxType
      /\ text["sender"] \in Text /\ seg[s].ready
      /\ BoxInv(seg[s], "copy", At("receiver", s), sent[s], got[s], text["sender"])
  BY <1>1, OwnBox DEF CopyText
<1>3. box \in BoxType /\ box.ready
      /\ BoxInv(box, "length", At("receiver", s), sent[s], got[s], text["sender"])
  BY <1>2, BoxCopyText
<1>4. Move("sender", "length", box) /\ UNCHANGED <<failed, text, left, sent, got>>
  BY <1>2 DEF CopyText, Go, SetBox, Move, procVars, history
<1> HIDE DEF box
<1>5. Careful("sender", "length", box) /\ BoxMoved("sender", "length", box)
  BY <1>1, <1>2, <1>3, <1>4 DEF Careful, BoxMoved, Attached, Looping, Holding, Inside
<1>6. "length" \in Places("sender")
  BY DEF Places, Common
<1> QED
  BY <1>1, <1>3, <1>4, <1>5, <1>6, SilentMove

LEMMA PostFullOK == ShmInv /\ PostFull => ShmInv'
<1> SUFFICES ASSUME ShmInv, PostFull PROVE ShmInv'
  OBVIOUS
<1> DEFINE s == shmid["sender"]
           box == [seg[s] EXCEPT !.full = seg[s].full + 1]
<1>1. "sender" \in Roles /\ pc["sender"] = "post" /\ "post" \in Looping /\ "post" \in Attached
  BY DEF PostFull, Go, Roles, Attached, Looping, Holding, Inside
<1>2. /\ s \in Segs /\ addr["sender"] = s /\ Box("sender") = seg[s] /\ seg[s] \in BoxType
      /\ text["sender"] \in Text /\ seg[s].ready
      /\ BoxInv(seg[s], "post", At("receiver", s), sent[s], got[s], text["sender"])
  BY <1>1, OwnBox DEF PostFull
<1>3. box \in BoxType /\ box.ready
      /\ BoxInv(box, "fgets", At("receiver", s), sent[s], got[s], text["sender"])
  BY <1>2, BoxPostFull
<1>4. Move("sender", "fgets", box) /\ UNCHANGED <<failed, text, left, sent, got>>
  BY <1>2 DEF PostFull, Go, SetBox, Move, procVars, history
<1> HIDE DEF box
<1>5. Careful("sender", "fgets", box) /\ BoxMoved("sender", "fgets", box)
  BY <1>1, <1>2, <1>3, <1>4 DEF Careful, BoxMoved, Attached, Looping, Holding, Inside
<1>6. "fgets" \in Places("sender")
  BY DEF Places, Common
<1> QED
  BY <1>1, <1>3, <1>4, <1>5, <1>6, SilentMove

LEMMA SenderLockOK == ShmInv /\ Lock("sender") => ShmInv'
<1> SUFFICES ASSUME ShmInv, Lock("sender") PROVE ShmInv'
  OBVIOUS
<1> DEFINE s == shmid["sender"]
           box == [seg[s] EXCEPT !.mutex = seg[s].mutex - 1]
<1>1. "sender" \in Roles /\ pc["sender"] = "lock" /\ "lock" \in Looping /\ "lock" \in Attached
  BY DEF Lock, Go, Roles, Attached, Looping, Holding, Inside
<1>2. /\ s \in Segs /\ addr["sender"] = s /\ Box("sender") = seg[s] /\ seg[s] \in BoxType
      /\ text["sender"] \in Text /\ seg[s].ready /\ seg[s].mutex > 0
      /\ BoxInv(seg[s], "lock", At("receiver", s), sent[s], got[s], text["sender"])
  BY <1>1, OwnBox DEF Lock
<1>3. box \in BoxType /\ box.ready
      /\ BoxInv(box, "copy", At("receiver", s), sent[s], got[s], text["sender"])
  BY <1>2, BoxSenderLock
<1>4. Move("sender", "copy", box) /\ UNCHANGED <<failed, text, left, sent, got>>
  BY <1>2 DEF Lock, Go, SetBox, Move, procVars, history
<1> HIDE DEF box
<1>5. Careful("sender", "copy", box) /\ BoxMoved("sender", "copy", box)
  BY <1>1, <1>2, <1>3, <1>4 DEF Careful, BoxMoved, Attached, Looping, Holding, Inside
<1>6. "copy" \in Places("sender")
  BY DEF Places, Common
<1> QED
  BY <1>1, <1>3, <1>4, <1>5, <1>6, SilentMove

LEMMA SenderUnlockOK == ShmInv /\ Unlock("sender") => ShmInv'
<1> SUFFICES ASSUME ShmInv, Unlock("sender") PROVE ShmInv'
  OBVIOUS
<1> DEFINE s == shmid["sender"]
           box == [seg[s] EXCEPT !.mutex = seg[s].mutex + 1]
<1>1. "sender" \in Roles /\ pc["sender"] = "unlock" /\ "unlock" \in Looping /\ "unlock" \in Attached
  BY DEF Unlock, Go, Roles, Attached, Looping, Holding, Inside
<1>2. /\ s \in Segs /\ addr["sender"] = s /\ Box("sender") = seg[s] /\ seg[s] \in BoxType
      /\ text["sender"] \in Text /\ seg[s].ready
      /\ BoxInv(seg[s], "unlock", At("receiver", s), sent[s], got[s], text["sender"])
  BY <1>1, OwnBox DEF Unlock
<1>3. box \in BoxType /\ box.ready
      /\ BoxInv(box, "post", At("receiver", s), sent[s], got[s], text["sender"])
  BY <1>2, BoxSenderUnlock
<1>4. Move("sender", "post", box) /\ UNCHANGED <<failed, text, left, sent, got>>
  BY <1>2 DEF Unlock, Go, SetBox, Move, procVars, history
<1> HIDE DEF box
<1>5. Careful("sender", "post", box) /\ BoxMoved("sender", "post", box)
  BY <1>1, <1>2, <1>3, <1>4 DEF Careful, BoxMoved, Attached, Looping, Holding, Inside
<1>6. "post" \in Places("sender")
  BY DEF Places, Common
<1> QED
  BY <1>1, <1>3, <1>4, <1>5, <1>6, SilentMove

LEMMA WaitFullOK == ShmInv /\ WaitFull => ShmInv'
<1> SUFFICES ASSUME ShmInv, WaitFull PROVE ShmInv'
  OBVIOUS
<1> DEFINE s == shmid["receiver"]
           box == [seg[s] EXCEPT !.full = seg[s].full - 1]
<1>1. "receiver" \in Roles /\ pc["receiver"] = "full" /\ "full" \in Looping /\ "full" \in Attached
  BY DEF WaitFull, Go, Roles, Attached, Looping, Holding, Inside
<1>2. /\ s \in Segs /\ addr["receiver"] = s /\ Box("receiver") = seg[s] /\ seg[s] \in BoxType
      /\ text["receiver"] \in Text /\ seg[s].ready /\ seg[s].full > 0
      /\ BoxInv(seg[s], At("sender", s), "full", sent[s], got[s], text["sender"])
  BY <1>1, OwnBox DEF WaitFull
<1>3. box \in BoxType /\ box.ready
      /\ BoxInv(box, At("sender", s), "lock", sent[s], got[s], text["sender"])
  BY <1>2, BoxWaitFull
<1>4. Move("receiver", "lock", box) /\ UNCHANGED <<failed, text, left, sent, got>>
  BY <1>2 DEF WaitFull, Go, SetBox, Move, procVars, history
<1> HIDE DEF box
<1>5. Careful("receiver", "lock", box) /\ BoxMoved("receiver", "lock", box)
  BY <1>1, <1>2, <1>3, <1>4 DEF Careful, BoxMoved, Attached, Looping, Holding, Inside
<1>6. "lock" \in Places("receiver")
  BY DEF Places, Common
<1>7. Follows("full", "lock")
  BY DEF Follows, Waiting, AfterTake
<1> QED
  BY <1>1, <1>3, <1>4, <1>5, <1>6, <1>7, SilentMove DEF AfterTake

LEMMA ReceiverLockOK == ShmInv /\ Lock("receiver") => ShmInv'
<1> SUFFICES ASSUME ShmInv, Lock("receiver") PROVE ShmInv'
  OBVIOUS
<1> DEFINE s == shmid["receiver"]
           box == [seg[s] EXCEPT !.mutex = seg[s].mutex - 1]
<1>1. "receiver" \in Roles /\ pc["receiver"] = "lock" /\ "lock" \in Looping /\ "lock" \in Attached
  BY DEF Lock, Go, Roles, Attached, Looping, Holding, Inside
<1>2. /\ s \in Segs /\ addr["receiver"] = s /\ Box("receiver") = seg[s] /\ seg[s] \in BoxType
      /\ text["receiver"] \in Text /\ seg[s].ready /\ seg[s].mutex > 0
      /\ BoxInv(seg[s], At("sender", s), "lock", sent[s], got[s], text["sender"])
  BY <1>1, OwnBox DEF Lock
<1>3. box \in BoxType /\ box.ready
      /\ BoxInv(box, At("sender", s), "load", sent[s], got[s], text["sender"])
  BY <1>2, BoxReceiverLock
<1>4. Move("receiver", "load", box) /\ UNCHANGED <<failed, text, left, sent, got>>
  BY <1>2 DEF Lock, Go, SetBox, Move, procVars, history
<1> HIDE DEF box
<1>5. Careful("receiver", "load", box) /\ BoxMoved("receiver", "load", box)
  BY <1>1, <1>2, <1>3, <1>4 DEF Careful, BoxMoved, Attached, Looping, Holding, Inside
<1>6. "load" \in Places("receiver")
  BY DEF Places, Common
<1>7. Follows("lock", "load")
  BY DEF Follows, Waiting, AfterTake
<1> QED
  BY <1>1, <1>3, <1>4, <1>5, <1>6, <1>7, SilentMove DEF AfterTake

LEMMA ClearOK == ShmInv /\ Clear => ShmInv'
<1> SUFFICES ASSUME ShmInv, Clear PROVE ShmInv'
  OBVIOUS
<1> DEFINE s == shmid["receiver"]
           box == [seg[s] EXCEPT !.buffer = NoText, !.length = NoText]
<1>1. "receiver" \in Roles /\ pc["receiver"] = "clear" /\ "clear" \in Looping /\ "clear" \in Attached
  BY DEF Clear, Go, Roles, Attached, Looping, Holding, Inside
<1>2. /\ s \in Segs /\ addr["receiver"] = s /\ Box("receiver") = seg[s] /\ seg[s] \in BoxType
      /\ text["receiver"] \in Text /\ seg[s].ready
      /\ BoxInv(seg[s], At("sender", s), "clear", sent[s], got[s], text["sender"])
  BY <1>1, OwnBox DEF Clear
<1>3. box \in BoxType /\ box.ready
      /\ BoxInv(box, At("sender", s), "unlock", sent[s], got[s], text["sender"])
  BY <1>2, BoxClear
<1>4. Move("receiver", "unlock", box) /\ UNCHANGED <<failed, text, left, sent, got>>
  BY <1>2 DEF Clear, Go, SetBox, Move, procVars, history
<1> HIDE DEF box
<1>5. Careful("receiver", "unlock", box) /\ BoxMoved("receiver", "unlock", box)
  BY <1>1, <1>2, <1>3, <1>4 DEF Careful, BoxMoved, Attached, Looping, Holding, Inside
<1>6. "unlock" \in Places("receiver")
  BY DEF Places, Common
<1>7. Follows("clear", "unlock")
  BY DEF Follows, Waiting, AfterTake
<1> QED
  BY <1>1, <1>3, <1>4, <1>5, <1>6, <1>7, SilentMove DEF AfterTake

LEMMA ReceiverUnlockOK == ShmInv /\ Unlock("receiver") => ShmInv'
<1> SUFFICES ASSUME ShmInv, Unlock("receiver") PROVE ShmInv'
  OBVIOUS
<1> DEFINE s == shmid["receiver"]
           box == [seg[s] EXCEPT !.mutex = seg[s].mutex + 1]
<1>1. "receiver" \in Roles /\ pc["receiver"] = "unlock" /\ "unlock" \in Looping /\ "unlock" \in Attached
  BY DEF Unlock, Go, Roles, Attached, Looping, Holding, Inside
<1>2. /\ s \in Segs /\ addr["receiver"] = s /\ Box("receiver") = seg[s] /\ seg[s] \in BoxType
      /\ text["receiver"] \in Text /\ seg[s].ready
      /\ BoxInv(seg[s], At("sender", s), "unlock", sent[s], got[s], text["sender"])
  BY <1>1, OwnBox DEF Unlock
<1>3. box \in BoxType /\ box.ready
      /\ BoxInv(box, At("sender", s), "post", sent[s], got[s], text["sender"])
  BY <1>2, BoxReceiverUnlock
<1>4. Move("receiver", "post", box) /\ UNCHANGED <<failed, text, left, sent, got>>
  BY <1>2 DEF Unlock, Go, SetBox, Move, procVars, history
<1> HIDE DEF box
<1>5. Careful("receiver", "post", box) /\ BoxMoved("receiver", "post", box)
  BY <1>1, <1>2, <1>3, <1>4 DEF Careful, BoxMoved, Attached, Looping, Holding, Inside
<1>6. "post" \in Places("receiver")
  BY DEF Places, Common
<1>7. Follows("unlock", "post")
  BY DEF Follows, Waiting, AfterTake
<1> QED
  BY <1>1, <1>3, <1>4, <1>5, <1>6, <1>7, SilentMove DEF AfterTake

LEMMA PostEmptyOK == ShmInv /\ PostEmpty => ShmInv'
<1> SUFFICES ASSUME ShmInv, PostEmpty PROVE ShmInv'
  OBVIOUS
<1> DEFINE s == shmid["receiver"]
           box == [seg[s] EXCEPT !.empty = seg[s].empty + 1]
           to == IF text["receiver"] = EXIT_MESSAGE THEN "cleanup" ELSE "full"
<1>1. "receiver" \in Roles /\ pc["receiver"] = "post" /\ "post" \in Looping /\ "post" \in Attached
  BY DEF PostEmpty, Go, Roles, Attached, Looping, Holding, Inside
<1>2. /\ s \in Segs /\ addr["receiver"] = s /\ Box("receiver") = seg[s] /\ seg[s] \in BoxType
      /\ seg[s].ready
      /\ BoxInv(seg[s], At("sender", s), "post", sent[s], got[s], text["sender"])
  BY <1>1, OwnBox DEF PostEmpty
<1>3. to \in {"full", "cleanup"} /\ (to = "full" => ~Took)
  BY DEF Took
<1>4. Move("receiver", to, box) /\ UNCHANGED <<failed, text, left, sent, got>>
  BY <1>2 DEF PostEmpty, Go, SetBox, Move, procVars, history
<1> HIDE DEF to
<1>5. box \in BoxType /\ box.ready
      /\ BoxInv(box, At("sender", s), to, sent[s], got[s], text["sender"])
  BY <1>2, <1>3, BoxPostEmpty
<1> HIDE DEF box
<1>6. Careful("receiver", to, box) /\ BoxMoved("receiver", to, box)
  BY <1>1, <1>2, <1>3, <1>4, <1>5 DEF Careful, BoxMoved, Attached, Looping, Holding, Inside
<1>7. to \in Places("receiver")
  BY <1>3 DEF Places, Common
<1>8. Follows("post", to)
  BY <1>3 DEF Follows, Waiting, AfterTake
<1> QED
  BY <1>1, <1>4, <1>5, <1>6, <1>7, <1>8, SilentMove DEF AfterTake

(* The creator initialises its segment and sets ready; the peer waits for  *)
(* it.                                                                     *)
LEMMA InitSemsOK == ASSUME NEW r \in Roles PROVE ShmInv /\ InitSems(r) => ShmInv'
<1> SUFFICES ASSUME ShmInv, InitSems(r) PROVE ShmInv'
  OBVIOUS
<1> DEFINE s == shmid[r]
<1>1. pc[r] = "init" /\ "init" \in Attached
  BY DEF InitSems, Go, Attached
<1>2. /\ s \in Segs /\ addr[r] = s /\ Box(r) = seg[s] /\ seg[s] \in BoxType /\ At(r, s) = "init"
      /\ BoxInv(seg[s], At("sender", s), At("receiver", s), sent[s], got[s], text["sender"])
  BY <1>1, OwnBox
<1>3. created[r] /\ ~seg[s].ready
  BY <1>1 DEF ShmInv, ProcsOK, ProcOK
<1>4. Move(r, "set_ready", FreshBox) /\ UNCHANGED <<failed, text, left, sent, got>>
  BY <1>2 DEF InitSems, Go, SetBox, Move, procVars, history, FreshBox
<1>5. BoxMoved(r, "set_ready", FreshBox)
  BY <1>2, <1>3, <1>4, FreshType DEF BoxMoved, BoxInv, Looping, Holding, Inside
<1>6. Careful(r, "set_ready", FreshBox)
  BY <1>1, <1>3 DEF Careful, Attached, Looping, Holding, Inside
<1>7. "set_ready" \in Places(r) /\ Follows("init", "set_ready")
  BY DEF Places, Common, Follows, Waiting
<1> QED
  BY <1>1, <1>4, <1>5, <1>6, <1>7, FreshType, SilentMove DEF AfterTake

LEMMA SetReadyOK == ASSUME NEW r \in Roles PROVE ShmInv /\ SetReady(r) => ShmInv'
<1> SUFFICES ASSUME ShmInv, SetReady(r) PROVE ShmInv'
  OBVIOUS
<1> DEFINE s == shmid[r]
           box == [FreshBox EXCEPT !.ready = TRUE]
<1>1. pc[r] = "set_ready" /\ "set_ready" \in Attached
  BY DEF SetReady, Go, Attached
<1>2. /\ s \in Segs /\ addr[r] = s /\ Box(r) = seg[s] /\ At(r, s) = "set_ready"
      /\ BoxInv(seg[s], At("sender", s), At("receiver", s), sent[s], got[s], text["sender"])
  BY <1>1, OwnBox
<1>3. seg[s] = FreshBox
  BY <1>1 DEF ShmInv, ProcsOK, ProcOK
<1>4. box \in BoxType /\ box.ready
  BY FreshType DEF BoxType
<1>5. Move(r, Loop(r), box) /\ UNCHANGED <<failed, text, left, sent, got>>
  BY <1>2, <1>3 DEF SetReady, Go, SetBox, Move, procVars, history
<1>6. BoxMoved(r, Loop(r), box)
  <2>1. CASE r = "sender"
    BY <1>2, <1>3, <1>5, <2>1, BoxMadeReady DEF BoxMoved, Loop
  <2>2. CASE r = "receiver"
    BY <1>2, <1>3, <1>5, <2>2, BoxMadeReady DEF BoxMoved, Loop
  <2> QED
    BY <2>1, <2>2 DEF Roles
<1> HIDE DEF box
<1>7. Careful(r, Loop(r), box)
  BY <1>1, <1>4 DEF Careful, Attached, Looping, Holding, Inside, Loop
<1>8. Loop(r) \in Places(r) /\ Loop(r) \notin AfterTake \cup {"cleanup"}
      /\ (r = "receiver" => Follows("set_ready", Loop(r)))
  BY DEF Places, Common, Follows, Waiting, Loop, Roles, AfterTake
<1> QED
  BY <1>1, <1>4, <1>5, <1>6, <1>7, <1>8, SilentMove

LEMMA AwaitReadyOK == ASSUME NEW r \in Roles PROVE ShmInv /\ AwaitReady(r) => ShmInv'
<1> SUFFICES ASSUME ShmInv, AwaitReady(r) PROVE ShmInv'
  OBVIOUS
<1> DEFINE s == shmid[r]
<1>1. pc[r] = "peer" /\ "peer" \in Attached
  BY DEF AwaitReady, Go, Attached
<1>2. /\ s \in Segs /\ addr[r] = s /\ Box(r) = seg[s] /\ seg[s] \in BoxType /\ At(r, s) = "peer"
      /\ seg[s].ready
      /\ BoxInv(seg[s], At("sender", s), At("receiver", s), sent[s], got[s], text["sender"])
  BY <1>1, OwnBox DEF AwaitReady
<1>3. seg = [seg EXCEPT ![s] = seg[s]]
  BY <1>2 DEF ShmInv, Types, TypeOK
<1>4. Move(r, Loop(r), seg[s]) /\ UNCHANGED <<failed, text, left, sent, got>>
  BY <1>3 DEF AwaitReady, Go, Move, segVars, procVars, history
<1>5. BoxMoved(r, Loop(r), seg[s])
  <2>1. CASE r = "sender"
    <3>1. "peer" \notin Holding /\ "fopen" \notin Holding /\ "fopen" # "length"
      BY DEF Holding, Inside
    <3> QED
      BY <1>2, <1>4, <2>1, <3>1, BoxQuiet DEF BoxMoved, Loop
  <2>2. CASE r = "receiver"
    <3>1. "peer" \notin Holding /\ "full" \notin Holding
      BY DEF Holding, Inside
    <3> QED
      BY <1>2, <1>4, <2>2, <3>1, BoxQuiet DEF BoxMoved, Loop
  <2> QED
    BY <2>1, <2>2 DEF Roles
<1>6. Careful(r, Loop(r), seg[s])
  BY <1>1, <1>2 DEF Careful, Attached, Looping, Holding, Inside, Loop
<1>7. Loop(r) \in Places(r) /\ Loop(r) \notin AfterTake \cup {"cleanup"}
      /\ (r = "receiver" => Follows("peer", Loop(r)))
  BY DEF Places, Common, Follows, Waiting, Loop, Roles, AfterTake
<1> QED
  BY <1>1, <1>2, <1>4, <1>5, <1>6, <1>7, SilentMove

-----------------------------------------------------------------------------
(* The two steps that move a message.                                      *)
LEMMA CopyLengthFacts ==
  ASSUME ShmInv, CopyLength
  PROVE  LET s == shmid["sender"]
             box == [seg[s] EXCEPT !.length = text["sender"]]
         IN  /\ s \in Segs /\ pc["sender"] = "length" /\ text["sender"] \in Text
             /\ sent[s] \in Seq(Text) /\ got[s] \in Seq(Text) /\ Len(sent[s]) = Len(got[s])
             /\ box \in BoxType /\ box.ready /\ seg[s].ready
             /\ BoxInv(box, "unlock", At("receiver", s), Append(sent[s], text["sender"]), got[s],
                       text["sender"])
             /\ Move("sender", "unlock", box)
             /\ sent' = [sent EXCEPT ![s] = Append(@, text["sender"])]
             /\ UNCHANGED <<failed, text, left, got>>
<1> DEFINE s == shmid["sender"]
           box == [seg[s] EXCEPT !.length = text["sender"]]
<1>1. "sender" \in Roles /\ pc["sender"] = "length" /\ "length" \in Looping /\ "length" \in Attached
  BY DEF CopyLength, Go, Roles, Attached, Looping, Holding, Inside
<1>2. /\ s \in Segs /\ addr["sender"] = s /\ Box("sender") = seg[s] /\ seg[s] \in BoxType
      /\ text["sender"] \in Text /\ seg[s].ready
      /\ sent[s] \in Seq(Text) /\ got[s] \in Seq(Text)
      /\ BoxInv(seg[s], "length", At("receiver", s), sent[s], got[s], text["sender"])
  BY <1>1, OwnBox
<1>3. /\ box \in BoxType /\ box.ready /\ Len(sent[s]) = Len(got[s])
      /\ BoxInv(box, "unlock", At("receiver", s), Append(sent[s], text["sender"]), got[s],
                text["sender"])
  BY <1>2, BoxCopyLength
<1>4. /\ Move("sender", "unlock", box)
      /\ sent' = [sent EXCEPT ![s] = Append(@, text["sender"])]
      /\ UNCHANGED <<failed, text, left, got>>
  BY <1>2 DEF CopyLength, Go, SetBox, Move, procVars
<1> QED
  BY <1>1, <1>2, <1>3, <1>4

LEMMA CopyLengthOK == ShmInv /\ CopyLength => ShmInv'
<1> SUFFICES ASSUME ShmInv, CopyLength PROVE ShmInv'
  OBVIOUS
<1> DEFINE s == shmid["sender"]
           box == [seg[s] EXCEPT !.length = text["sender"]]
<1>1. /\ s \in Segs /\ pc["sender"] = "length" /\ text["sender"] \in Text
      /\ sent[s] \in Seq(Text)
      /\ box \in BoxType /\ box.ready /\ seg[s].ready
      /\ BoxInv(box, "unlock", At("receiver", s), Append(sent[s], text["sender"]), got[s],
                text["sender"])
      /\ Move("sender", "unlock", box)
      /\ sent' = [sent EXCEPT ![s] = Append(@, text["sender"])]
      /\ UNCHANGED <<failed, text, left, got>>
  BY CopyLengthFacts
<1> HIDE DEF box
<1> USE DEF ShmInv
<1>2. Append(sent[s], text["sender"]) \in Seq(Text)
  BY <1>1, AppendProperties
<1>3. "sender" \in Roles /\ "unlock" \in Places("sender") /\ pc["sender"] # "off"
  BY <1>1 DEF Roles, Places, Common
<1>4. sent' \in [Segs -> Seq(Text)] /\ sent'[s] = Append(sent[s], text["sender"])
      /\ \A t \in Segs \ {s} : sent'[t] = sent[t]
  BY <1>1, <1>2 DEF Types
<1>5. Types'
  <2>1. /\ failed' \in [Roles -> BOOLEAN] /\ text' \in [Roles -> Text] /\ left' \in Seq(Text)
        /\ got' \in [Segs -> Seq(Text)]
    BY <1>1 DEF Types, TypeOK
  <2> QED
    BY <1>1, <1>3, <1>4, <2>1, TypesMove
<1>6. Careful("sender", "unlock", box)
  BY <1>1 DEF Careful, Attached, Looping, Holding, Inside
<1>7. ProcsOK'
  BY <1>1, <1>3, <1>6, ProcsMove
<1>8. BoxMoved("sender", "unlock", box)
  BY <1>1, <1>4 DEF BoxMoved
<1>9. BoxesOK'
  BY <1>1, <1>3, <1>4, <1>8, BoxesMove
<1>10. ExitOK'
  <2>1. pc'["receiver"] = pc["receiver"]
    BY <1>1 DEF Move, Types, Roles
  <2> QED
    BY <1>1, <2>1, ExitMove DEF Move, Follows
<1>11. OnceOK' /\ ReceiverCleansUp'
  BY <1>1, <1>3, <1>4, OnceMove
<1> QED
  BY <1>5, <1>7, <1>9, <1>10, <1>11

LEMMA LoadTextFacts ==
  ASSUME ShmInv, LoadText
  PROVE  LET s == shmid["receiver"]
             whole == seg[s].buffer
         IN  /\ s \in Segs /\ pc["receiver"] = "load" /\ whole \in Text /\ NoExit(s)
             /\ sent[s] \in Seq(Text) /\ got[s] \in Seq(Text)
             /\ Len(got[s]) < Len(sent[s]) /\ whole = sent[s][Len(got[s]) + 1]
             /\ seg[s] \in BoxType /\ seg[s].ready
             /\ BoxInv(seg[s], At("sender", s), "clear", sent[s], Append(got[s], whole),
                       text["sender"])
             /\ Move("receiver", "clear", seg[s])
             /\ got' = [got EXCEPT ![s] = Append(@, whole)]
             /\ text' = [text EXCEPT !["receiver"] = whole]
             /\ UNCHANGED <<failed, left, sent>>
<1> DEFINE s == shmid["receiver"]
           whole == seg[s].buffer
<1>1. "receiver" \in Roles /\ pc["receiver"] = "load" /\ "load" \in Looping /\ "load" \in Attached
  BY DEF LoadText, Go, Roles, Attached, Looping, Holding, Inside
<1>2. /\ s \in Segs /\ addr["receiver"] = s /\ Box("receiver") = seg[s] /\ seg[s] \in BoxType
      /\ seg[s].ready
      /\ sent[s] \in Seq(Text) /\ got[s] \in Seq(Text)
      /\ BoxInv(seg[s], At("sender", s), "load", sent[s], got[s], text["sender"])
  BY <1>1, OwnBox
<1>3. /\ seg[s].length = whole /\ whole = sent[s][Len(got[s]) + 1] /\ Len(got[s]) < Len(sent[s])
      /\ BoxInv(seg[s], At("sender", s), "clear", sent[s], Append(got[s], whole), text["sender"])
  BY <1>2, BoxLoadText
<1>4. seg = [seg EXCEPT ![s] = seg[s]]
  BY <1>2 DEF ShmInv, Types, TypeOK
<1>5. /\ Move("receiver", "clear", seg[s])
      /\ got' = [got EXCEPT ![s] = Append(@, whole)]
      /\ text' = [text EXCEPT !["receiver"] = whole]
      /\ UNCHANGED <<failed, left, sent>>
  BY <1>2, <1>3, <1>4 DEF LoadText, Go, Move, segVars
<1>6. NoExit(s)
  BY <1>1 DEF ShmInv, ExitOK, Waiting
<1>7. whole \in Text
  BY <1>2 DEF BoxType
<1> QED
  BY <1>1, <1>2, <1>3, <1>5, <1>6, <1>7

(* A text other than e added to texts that are not e.                      *)
LEMMA JoinedExit ==
  ASSUME NEW T, NEW g \in Seq(T), NEW t \in T, NEW e, t # e,
         \A n \in DOMAIN g : g[n] # e
  PROVE  \A n \in DOMAIN Append(g, t) : Append(g, t)[n] # e
<1>1. DOMAIN g = 1 .. Len(g) /\ Len(g) \in Nat
  BY LenProperties
<1>2. DOMAIN Append(g, t) = 1 .. (Len(g) + 1)
  <2>1. Append(g, t) \in Seq(T) /\ Len(Append(g, t)) = Len(g) + 1
    BY AppendProperties
  <2> QED
    BY <2>1, LenProperties
<1>3. Append(g, t)[Len(g) + 1] = t
  BY AppendProperties
<1>4. \A n \in 1 .. Len(g) : Append(g, t)[n] = g[n]
  BY AppendProperties
<1> QED
  BY <1>1, <1>2, <1>3, <1>4

LEMMA LoadTextOK == ShmInv /\ LoadText => ShmInv'
<1> SUFFICES ASSUME ShmInv, LoadText PROVE ShmInv'
  OBVIOUS
<1> DEFINE s == shmid["receiver"]
           whole == seg[s].buffer
<1>1. /\ s \in Segs /\ pc["receiver"] = "load" /\ whole \in Text /\ NoExit(s)
      /\ sent[s] \in Seq(Text) /\ got[s] \in Seq(Text)
      /\ seg[s] \in BoxType /\ seg[s].ready
      /\ BoxInv(seg[s], At("sender", s), "clear", sent[s], Append(got[s], whole), text["sender"])
      /\ Move("receiver", "clear", seg[s])
      /\ got' = [got EXCEPT ![s] = Append(@, whole)]
      /\ text' = [text EXCEPT !["receiver"] = whole]
      /\ UNCHANGED <<failed, left, sent>>
  BY LoadTextFacts
<1> HIDE DEF whole
<1> USE DEF ShmInv
<1>2. Append(got[s], whole) \in Seq(Text) /\ Append(got[s], whole) # << >>
  <2>1. Append(got[s], whole) \in Seq(Text)
    BY <1>1, AppendProperties
  <2>2. Append(got[s], whole) # << >>
    BY <1>1, AppendProperties
  <2> QED
    BY <2>1, <2>2
<1>3. "receiver" \in Roles /\ "clear" \in Places("receiver") /\ pc["receiver"] # "off"
  BY <1>1 DEF Roles, Places, Common
<1>4. got' \in [Segs -> Seq(Text)] /\ got'[s] = Append(got[s], whole)
      /\ \A t \in Segs \ {s} : got'[t] = got[t]
  BY <1>1, <1>2 DEF Types
<1>5. text' \in [Roles -> Text] /\ text'["receiver"] = whole /\ text'["sender"] = text["sender"]
  BY <1>1 DEF Types, TypeOK, Roles
<1>6. pc'["receiver"] = "clear" /\ UNCHANGED <<key, made, shmid>>
  BY <1>1, <1>3 DEF Move, Types
<1>7. Types'
  <2>1. failed' \in [Roles -> BOOLEAN] /\ left' \in Seq(Text) /\ sent' \in [Segs -> Seq(Text)]
    BY <1>1 DEF Types, TypeOK
  <2> QED
    BY <1>1, <1>3, <1>4, <1>5, <2>1, TypesMove
<1>8. Careful("receiver", "clear", seg[s])
  BY <1>1 DEF Careful, Attached, Looping, Holding, Inside
<1>9. ProcsOK'
  BY <1>1, <1>3, <1>8, ProcsMove
<1>10. BoxMoved("receiver", "clear", seg[s])
  BY <1>1, <1>4 DEF BoxMoved
<1>11. BoxesOK'
  BY <1>1, <1>3, <1>4, <1>5, <1>10, BoxesMove
<1>12. ExitOK'
  <2> DEFINE NoneNow(t) == \A n \in DOMAIN got'[t] : got'[t][n] # EXIT_MESSAGE
  <2>1. NoneNow(s) \/ Took'
    <3>1. CASE whole = EXIT_MESSAGE
      BY <1>5, <1>6, <3>1 DEF Took, AfterTake
    <3>2. CASE whole # EXIT_MESSAGE
      BY <1>1, <1>4, <3>2, JoinedExit DEF NoExit
    <3> QED
      BY <3>1, <3>2
  <2>2. \A t \in Segs \ {s} : NoExit(t) => NoneNow(t)
    BY <1>4 DEF NoExit
  <2>3. key # 0 => NoneNow(key) \/ (s = key /\ Took')
    <3>1. CASE key = s
      BY <2>1, <3>1
    <3>2. CASE key # s /\ key # 0
      <4>1. key \in Segs \ {s}
        BY <3>2 DEF Types, TypeOK
      <4>2. NoExit(key)
        BY <3>2 DEF ExitOK
      <4> QED
        BY <2>2, <4>1, <4>2
    <3> QED
      BY <3>1, <3>2
  <2>4. s <= made
    BY <1>3 DEF ProcsOK, ProcOK
  <2>5. \A t \in Segs : t > made' => got'[t] = << >>
    <3>1. \A t \in Segs : t > made => t # s
      BY <1>1, <2>4 DEF Types, TypeOK, Segs
    <3> QED
      BY <1>4, <1>6, <3>1 DEF ExitOK
  <2>6. pc'["receiver"] \notin Waiting
    BY <1>6 DEF Waiting
  <2> QED
    BY <1>6, <2>1, <2>3, <2>5, <2>6 DEF ExitOK, NoExit
<1>13. OnceOK' /\ ReceiverCleansUp'
  <2>1. \A t \in Segs : got[t] # << >> => got'[t] # << >>
    BY <1>2, <1>4
  <2> QED
    BY <1>1, <1>2, <1>3, <1>4, <2>1, OnceMove
<1> QED
  BY <1>7, <1>9, <1>11, <1>12, <1>13

-----------------------------------------------------------------------------
(* Steps that touch no segment: places outside the tokens.                 *)
LEMMA BoxesQuiet ==
  ASSUME Types, BoxesOK, NEW r \in Roles, UNCHANGED <<seg, sent, got>>,
         \A o \in Roles \ {r} : pc'[o] = pc[o] /\ shmid'[o] = shmid[o],
         pc[r] \notin Holding, pc'[r] \notin Holding,
         pc'[r] \in Looping => seg[shmid'[r]].ready,
         text'["sender"] = text["sender"] \/ pc'["sender"] # "length"
  PROVE  BoxesOK'
<1> DEFINE S(s) == At("sender", s)
           R(s) == At("receiver", s)
<1>0. "off" \notin Looping /\ "off" \notin Holding
  BY DEF Looping, Holding, Inside
<1> SUFFICES ASSUME NEW s \in Segs
             PROVE  BoxInv(seg[s], S(s)', R(s)', sent[s], got[s], text'["sender"])
  BY DEF BoxesOK
<1>1. BoxInv(seg[s], S(s), R(s), sent[s], got[s], text["sender"]) /\ seg[s] \in BoxType
  BY DEF BoxesOK, Types, TypeOK, BoxType
<1>2. At(r, s) \notin Holding /\ At(r, s)' \notin Holding
      /\ (~seg[s].ready => At(r, s)' \notin Looping)
  BY <1>0 DEF At
<1>3. text'["sender"] = text["sender"] \/ S(s)' # "length"
  BY DEF At
<1>4. CASE r = "sender"
  <2>1. R(s)' = R(s)
    BY <1>4 DEF At, Roles
  <2>2. ~seg[s].ready => S(s)' \notin Looping /\ R(s)' \notin Looping
    BY <1>1, <1>2, <1>4, <2>1 DEF BoxInv
  <2>3. S(s) \notin Holding /\ S(s)' \notin Holding
    BY <1>2, <1>4
  <2> HIDE DEF S, R
  <2> QED
    BY <1>1, <1>3, <2>1, <2>2, <2>3, BoxQuiet
<1>5. CASE r = "receiver"
  <2>1. S(s)' = S(s)
    BY <1>5 DEF At, Roles
  <2>2. ~seg[s].ready => S(s)' \notin Looping /\ R(s)' \notin Looping
    BY <1>1, <1>2, <1>5, <2>1 DEF BoxInv
  <2>3. R(s) \notin Holding /\ R(s)' \notin Holding
    BY <1>2, <1>5
  <2> HIDE DEF S, R
  <2> QED
    BY <1>1, <1>3, <2>1, <2>2, <2>3, BoxQuiet
<1> QED
  BY <1>4, <1>5 DEF Roles

(* The sender between two messages.                                        *)
LEMMA SenderQuiet ==
  ASSUME ShmInv, NEW to \in {"fgets", "empty", "cleanup"},
         pc["sender"] \in {"fopen", "fgets"},
         pc' = [pc EXCEPT !["sender"] = to],
         UNCHANGED <<input, segVars, shmid, addr, created, launches, sent, got>>,
         failed' \in [Roles -> BOOLEAN], text' \in [Roles -> Text], left' \in Seq(Text),
         failed'["receiver"] = failed["receiver"], text'["receiver"] = text["receiver"]
  PROVE  ShmInv'
<1> DEFINE s == shmid["sender"]
<1> USE DEF ShmInv
<1>1. "sender" \in Roles /\ pc["sender"] \in Attached /\ pc["sender"] \in Looping
  BY DEF Roles, Attached, Looping
<1>2. s \in Segs /\ seg[s] \in BoxType /\ seg[s].ready
  BY <1>1, AttachedBox
<1>3. seg = [seg EXCEPT ![s] = seg[s]]
  BY <1>2 DEF Types, TypeOK
<1>4. Move("sender", to, seg[s])
  BY <1>3 DEF Move, segVars
<1>5. to \in Places("sender") /\ pc'["sender"] = to /\ pc'["receiver"] = pc["receiver"]
  BY DEF Places, Common, Types, Roles
<1>6. Types'
  <2>1. sent' \in [Segs -> Seq(Text)] /\ got' \in [Segs -> Seq(Text)]
    BY DEF Types
  <2> QED
    BY <1>1, <1>2, <1>4, <1>5, <2>1, TypesMove
<1>7. Careful("sender", to, seg[s])
  BY <1>1, <1>2 DEF Careful, Attached, Looping, Holding, Inside
<1>8. ProcsOK'
  BY <1>1, <1>2, <1>4, <1>7, ProcsMove
<1>9. BoxesOK'
  <2>1. pc["sender"] \notin Holding /\ pc'["sender"] \notin Holding /\ pc'["sender"] # "length"
    BY <1>5 DEF Holding, Inside
  <2>2. \A o \in Roles \ {"sender"} : pc'[o] = pc[o] /\ shmid'[o] = shmid[o]
    BY <1>5 DEF Roles
  <2>3. seg[shmid'["sender"]].ready
    BY <1>2
  <2> QED
    BY <1>1, <2>1, <2>2, <2>3, BoxesQuiet DEF segVars
<1>10. ExitOK'
  BY <1>5, ExitMove DEF Follows, segVars
<1>11. OnceOK' /\ ReceiverCleansUp'
  <2>1. pc["sender"] # "off" /\ to \notin {"off", "rmid"}
    OBVIOUS
  <2> QED
    BY <1>1, <1>4, <2>1, OnceMove
<1> QED
  BY <1>6, <1>8, <1>9, <1>10, <1>11

LEMMA OpenOK == ShmInv /\ Open => ShmInv'
<1> SUFFICES ASSUME ShmInv, Open PROVE ShmInv'
  OBVIOUS
<1>1. left' \in Seq(Text)
  BY ScriptTexts DEF ShmInv, Types, TypeOK, Open
<1>2. /\ pc["sender"] = "fopen" /\ pc' = [pc EXCEPT !["sender"] = "fgets"]
      /\ UNCHANGED <<input, segVars, shmid, addr, created, failed, text, launches, sent, got>>
  BY DEF Open, Go, history
<1>3. failed' \in [Roles -> BOOLEAN] /\ text' \in [Roles -> Text]
  BY <1>2 DEF ShmInv, Types, TypeOK
<1> QED
  BY <1>1, <1>2, <1>3, SenderQuiet

LEMMA OpenFailsOK == ShmInv /\ OpenFails => ShmInv'
<1> SUFFICES ASSUME ShmInv, OpenFails PROVE ShmInv'
  OBVIOUS
<1>1. /\ pc["sender"] = "fopen" /\ pc' = [pc EXCEPT !["sender"] = "cleanup"]
      /\ failed' = [failed EXCEPT !["sender"] = TRUE]
      /\ UNCHANGED <<input, segVars, shmid, addr, created, text, left, launches, sent, got>>
  BY DEF OpenFails, Go, history
<1>2. /\ failed' \in [Roles -> BOOLEAN] /\ text' \in [Roles -> Text] /\ left' \in Seq(Text)
      /\ failed'["receiver"] = failed["receiver"]
  BY <1>1 DEF ShmInv, Types, TypeOK, Roles
<1> QED
  BY <1>1, <1>2, SenderQuiet

LEMMA NextMessageOK == ShmInv /\ NextMessage => ShmInv'
<1> SUFFICES ASSUME ShmInv, NextMessage PROVE ShmInv'
  OBVIOUS
<1> DEFINE to == IF left = << >> THEN "cleanup" ELSE "empty"
<1>1. /\ pc["sender"] = "fgets" /\ pc' = [pc EXCEPT !["sender"] = to]
      /\ UNCHANGED <<input, segVars, shmid, addr, created, failed, launches, sent, got>>
  BY DEF NextMessage, Go, history
<1>2. failed' \in [Roles -> BOOLEAN]
  BY <1>1 DEF ShmInv, Types, TypeOK
<1>3. text' \in [Roles -> Text] /\ left' \in Seq(Text) /\ text'["receiver"] = text["receiver"]
  <2>1. CASE left = << >>
    BY <2>1 DEF ShmInv, Types, TypeOK, NextMessage
  <2>2. CASE left # << >>
    <3>1. Head(left) \in Text /\ Tail(left) \in Seq(Text)
      BY <2>2, HeadTailProperties DEF ShmInv, Types
    <3>2. text' = [text EXCEPT !["sender"] = Head(left)] /\ left' = Tail(left)
      BY <2>2 DEF NextMessage
    <3> QED
      BY <3>1, <3>2 DEF ShmInv, Types, TypeOK, Roles
  <2> QED
    BY <2>1, <2>2
<1> QED
  BY <1>1, <1>2, <1>3, SenderQuiet

-----------------------------------------------------------------------------
(* Steps of a process outside its mailbox: it starts, looks for the        *)
(* segment, attaches it, lets it go.                                       *)
Outer(r, to) ==
  /\ pc' = [pc EXCEPT ![r] = to]
  /\ UNCHANGED <<input, seg, text, left, sent, got>>
  /\ key' \in Segs \cup {0} /\ made' \in 0 .. MaxSegs /\ key' <= made' /\ made <= made'
  /\ shmid' \in [Roles -> Segs \cup {0}] /\ addr' \in [Roles -> Segs \cup {0}]
  /\ created' \in [Roles -> BOOLEAN] /\ failed' \in [Roles -> BOOLEAN]
  /\ launches' \in [Roles -> 0 .. Launches]
  /\ \A o \in Roles \ {r} :
       UNCHANGED <<shmid[o], addr[o], created[o], failed[o], launches[o]>>

LEMMA OuterOK ==
  ASSUME Types, ProcsOK, BoxesOK, NEW r \in Roles,
         NEW to \in {"off", "shmget", "shmget2", "shmat", "init", "peer", "rmid"},
         Outer(r, to), pc[r] \notin Holding, ProcOK(r)',
         created'[r] => \A o \in Roles \ {r} : ~created[o] \/ shmid'[r] # shmid[o]
  PROVE  Types' /\ ProcsOK' /\ BoxesOK'
<1>1. pc'[r] = to /\ \A o \in Roles \ {r} : pc'[o] = pc[o]
  BY DEF Outer, Types
<1>2. Types'
  <2>1. TypeOK'
    BY DEF Outer, Types, TypeOK
  <2>2. to \in Common /\ pc' \in [Roles -> Common \cup Looping]
    BY DEF Outer, Types, Common
  <2>3. \A o \in Roles : pc'[o] \in Places(o)
    BY <1>1, <2>2 DEF Types, Places
  <2> QED
    BY <2>1, <2>2, <2>3 DEF Types, Outer
<1>3. ProcsOK'
  <2>1. ASSUME NEW o \in Roles \ {r} PROVE ProcOK(o)'
    <3>1. ProcOK(o) /\ shmid[o] <= made'
      <4>1. ProcOK(o) /\ shmid[o] <= made /\ made <= made'
        BY DEF ProcsOK, ProcOK, Outer
      <4>2. shmid[o] \in Nat /\ made \in Nat /\ made' \in Nat
        BY DEF Types, TypeOK, Outer, Segs
      <4> QED
        BY <4>1, <4>2
    <3> QED
      BY <1>1, <3>1 DEF ProcOK, Outer
  <2>2. ~(created'["sender"] /\ created'["receiver"] /\ shmid'["sender"] = shmid'["receiver"])
    <3>1. CASE r = "sender"
      BY <3>1 DEF Outer, ProcsOK, Roles
    <3>2. CASE r = "receiver"
      BY <3>2 DEF Outer, ProcsOK, Roles
    <3> QED
      BY <3>1, <3>2 DEF Roles
  <2>3. \A s \in Segs : s > made' => ~seg'[s].ready
    <3>1. made \in Nat /\ made' \in Nat /\ made <= made' /\ \A s \in Segs : s \in Nat
      BY DEF Types, TypeOK, Outer, Segs
    <3>2. \A s \in Segs : s > made' => s > made
      BY <3>1
    <3> QED
      BY <3>2 DEF Outer, ProcsOK
  <2> QED
    BY <2>1, <2>2, <2>3 DEF ProcsOK, Outer
<1>4. BoxesOK'
  <2>1. to \notin Looping /\ to \notin Holding /\ to # "length"
    BY DEF Looping, Holding, Inside
  <2> QED
    BY <1>1, <2>1, BoxesQuiet DEF Outer
<1> QED
  BY <1>2, <1>3, <1>4

LEMMA LaunchOK == ASSUME NEW r \in Roles PROVE ShmInv /\ Launch(r) => ShmInv'
<1> SUFFICES ASSUME ShmInv, Launch(r) PROVE ShmInv'
  OBVIOUS
<1> USE DEF ShmInv
<1>1. /\ pc[r] = "off" /\ pc' = [pc EXCEPT ![r] = "shmget"]
      /\ launches[r] < Launches /\ launches' = [launches EXCEPT ![r] = @ + 1]
      /\ shmid' = [shmid EXCEPT ![r] = 0]
      /\ created' = [created EXCEPT ![r] = FALSE] /\ failed' = [failed EXCEPT ![r] = FALSE]
      /\ UNCHANGED <<input, key, made, seg, addr, text, left, sent, got>>
  BY DEF Launch, Go, segVars, history
<1>2. launches[r] \in Nat /\ launches[r] + 1 \in 0 .. Launches
  BY <1>1, IpcAssumption DEF Types, TypeOK
<1>3. Outer(r, "shmget")
  BY <1>1, <1>2 DEF Outer, Types, TypeOK, ProcsOK
<1>4. pc[r] \notin Holding /\ ~created'[r]
  BY <1>1 DEF Holding, Inside, Types, TypeOK
<1>5. ProcOK(r)'
  <2>1. pc'[r] = "shmget" /\ shmid'[r] = 0 /\ ~created'[r] /\ made' \in Nat
    BY <1>1 DEF Types, TypeOK
  <2>2. addr'[r] = 0
    BY <1>1 DEF ProcsOK, ProcOK, Attached, Looping, Holding, Inside
  <2> QED
    BY <2>1, <2>2 DEF ProcOK, Attached, Looping, Holding, Inside
<1>6. Types' /\ ProcsOK' /\ BoxesOK'
  BY <1>3, <1>4, <1>5, OuterOK
<1>7. ExitOK'
  BY <1>1 DEF ExitOK, NoExit, Took, Types, TypeOK, Waiting, AfterTake, Roles
<1>8. ReceiverCleansUp'
  BY <1>1 DEF ReceiverCleansUp, Types, TypeOK, Roles
<1>9. OnceOK'
  BY <1>1, <1>2 DEF OnceOK, Done, Types, TypeOK, AfterTake, Roles
<1> QED
  BY <1>6, <1>7, <1>8, <1>9

LEMMA ShmCreateOK == ASSUME NEW r \in Roles PROVE ShmInv /\ ShmCreate(r) => ShmInv'
<1> SUFFICES ASSUME ShmInv, ShmCreate(r) PROVE ShmInv'
  OBVIOUS
<1> USE DEF ShmInv
<1>1. /\ pc[r] = "shmget" /\ pc' = [pc EXCEPT ![r] = "shmat"]
      /\ key = 0 /\ made < MaxSegs /\ made' = made + 1 /\ key' = made'
      /\ shmid' = [shmid EXCEPT ![r] = key'] /\ created' = [created EXCEPT ![r] = TRUE]
      /\ UNCHANGED <<input, seg, addr, failed, text, left, launches, sent, got>>
  BY DEF ShmCreate, Go, history
<1>2. made \in Nat /\ made' \in 1 .. MaxSegs /\ made < made' /\ made <= made'
  BY <1>1, IpcAssumption DEF Types, TypeOK
<1>3. key' \in Segs /\ key' # 0
  BY <1>1, <1>2 DEF Segs
<1>4. \A o \in Roles : shmid[o] # key'
  <2>1. \A o \in Roles : shmid[o] <= made /\ shmid[o] \in Nat
    BY DEF ProcsOK, ProcOK, Types, TypeOK, Segs
  <2> QED
    BY <1>1, <1>2, <2>1
<1>5. /\ pc'[r] = "shmat" /\ shmid'[r] = key' /\ created'[r] /\ launches[r] # 0
      /\ \A o \in Roles \ {r} : pc'[o] = pc[o] /\ shmid'[o] = shmid[o] /\ created'[o] = created[o]
  BY <1>1 DEF Types, TypeOK, OnceOK
<1>6. Outer(r, "shmat")
  BY <1>1, <1>2, <1>3 DEF Outer, Types, TypeOK
<1>7. ProcOK(r)'
  <2>1. addr'[r] = 0
    BY <1>1 DEF ProcsOK, ProcOK, Attached, Looping, Holding, Inside
  <2>2. ~seg'[shmid'[r]].ready
    <3>1. key' > made
      BY <1>1, <1>2
    <3> QED
      BY <1>1, <1>3, <1>5, <3>1 DEF ProcsOK
  <2> QED
    BY <1>1, <1>2, <1>3, <1>5, <2>1, <2>2 DEF ProcOK, Attached, Looping, Holding, Inside
<1>8. Types' /\ ProcsOK' /\ BoxesOK'
  <2>1. pc[r] \notin Holding
    BY <1>1 DEF Holding, Inside
  <2> QED
    BY <1>4, <1>5, <1>6, <1>7, <2>1, OuterOK
<1>9. got[key'] = << >>
  BY <1>1, <1>2, <1>3 DEF ExitOK
<1>10. ExitOK'
  <2>1. \A n \in DOMAIN got'[key'] : got'[key'][n] # EXIT_MESSAGE
    BY <1>1, <1>9
  <2>2. \A s \in Segs : s > made' => got'[s] = << >>
    <3>1. \A s \in Segs : s > made' => s > made
      BY <1>2 DEF Segs
    <3> QED
      BY <1>1, <3>1 DEF ExitOK
  <2>3. CASE r = "receiver"
    BY <1>1, <1>5, <2>1, <2>2, <2>3 DEF ExitOK, NoExit, Waiting, AfterTake
  <2>4. CASE r = "sender"
    BY <1>1, <1>5, <2>1, <2>2, <2>4 DEF ExitOK, NoExit, Took, Roles
  <2> QED
    BY <2>3, <2>4 DEF Roles
<1>11. ReceiverCleansUp'
  BY <1>4, <1>5 DEF ReceiverCleansUp, Roles
<1>12. OnceOK'
  <2>1. launches'["sender"] <= 1 => \A s \in Segs : sent'[s] # << >> => shmid'["sender"] = s
    <3>1. CASE r = "sender"
      <4>1. shmid["sender"] = 0
        BY <1>1, <3>1 DEF ProcsOK, ProcOK, Roles
      <4> QED
        BY <1>1, <3>1, <4>1 DEF OnceOK, Segs
    <3>2. CASE r # "sender"
      BY <1>1, <1>5, <3>2 DEF OnceOK, Roles
    <3> QED
      BY <3>1, <3>2
  <2>2. launches'["sender"] = 0 => \A s \in Segs : sent'[s] = << >>
    BY <1>1 DEF OnceOK
  <2>3. \A o \in Roles : launches'[o] = 0 => shmid'[o] = 0 /\ pc'[o] = "off"
    BY <1>1, <1>5 DEF OnceOK
  <2>4. /\ pc'["receiver"] \in AfterTake => got'[shmid'["receiver"]] # << >>
        /\ ~failed'["receiver"] /\ Done("receiver")' =>
             shmid'["receiver"] # 0 /\ got'[shmid'["receiver"]] # << >>
    <3>1. CASE r = "receiver"
      BY <1>5, <3>1 DEF Done, AfterTake
    <3>2. CASE r # "receiver"
      BY <1>1, <1>5, <3>2 DEF OnceOK, Done, Roles
    <3> QED
      BY <3>1, <3>2
  <2> QED
    BY <1>5, <2>1, <2>2, <2>3, <2>4 DEF OnceOK
<1> QED
  BY <1>8, <1>10, <1>11, <1>12

LEMMA ShmExistsOK == ASSUME NEW r \in Roles PROVE ShmInv /\ ShmExists(r) => ShmInv'
<1> SUFFICES ASSUME ShmInv, ShmExists(r) PROVE ShmInv'
  OBVIOUS
<1> USE DEF ShmInv
<1>1. /\ pc[r] = "shmget" /\ pc' = [pc EXCEPT ![r] = "shmget2"]
      /\ UNCHANGED <<input, key, made, seg, shmid, addr, created, failed, text, left, launches,
                     sent, got>>
  BY DEF ShmExists, Go, segVars, procVars, history
<1>2. /\ pc'[r] = "shmget2" /\ shmid'[r] = 0 /\ ~created'[r] /\ addr'[r] = 0 /\ made' \in Nat
      /\ \A o \in Roles \ {r} : pc'[o] = pc[o]
  BY <1>1 DEF Types, TypeOK, ProcsOK, ProcOK, Attached, Looping, Holding, Inside
<1>3. Outer(r, "shmget2") /\ pc[r] \notin Holding
  BY <1>1 DEF Outer, Types, TypeOK, ProcsOK, Holding, Inside
<1>4. ProcOK(r)'
  BY <1>2 DEF ProcOK, Attached, Looping, Holding, Inside
<1>5. Types' /\ ProcsOK' /\ BoxesOK'
  BY <1>2, <1>3, <1>4, OuterOK
<1>6. ExitOK'
  BY <1>1, <1>2 DEF ExitOK, NoExit, Took, Waiting, AfterTake, Roles
<1>7. ReceiverCleansUp'
  BY <1>1, <1>2 DEF ReceiverCleansUp, Roles
<1>8. OnceOK'
  BY <1>1, <1>2 DEF OnceOK, Done, AfterTake, Roles
<1> QED
  BY <1>5, <1>6, <1>7, <1>8

LEMMA ShmFindOK == ASSUME NEW r \in Roles PROVE ShmInv /\ ShmFind(r) => ShmInv'
<1> SUFFICES ASSUME ShmInv, ShmFind(r) PROVE ShmInv'
  OBVIOUS
<1> USE DEF ShmInv
<1>1. /\ pc[r] = "shmget2" /\ shmid[r] = 0 /\ ~created[r] /\ addr[r] = 0 /\ launches[r] # 0
      /\ pc[r] \notin Holding /\ key # 0
  BY DEF ShmFind, Go, ProcsOK, ProcOK, OnceOK, Attached, Looping, Holding, Inside
<1>2. /\ pc' = [pc EXCEPT ![r] = "shmat"] /\ shmid' = [shmid EXCEPT ![r] = key]
      /\ UNCHANGED <<input, key, made, seg, addr, created, failed, text, left, launches,
                     sent, got>>
  BY DEF ShmFind, Go, segVars, history
<1>3. key \in Segs /\ key <= made
  BY <1>1 DEF Types, TypeOK, ProcsOK
<1>4. /\ pc'[r] = "shmat" /\ shmid'[r] = key
      /\ \A o \in Roles \ {r} : pc'[o] = pc[o] /\ shmid'[o] = shmid[o]
  BY <1>2 DEF Types, TypeOK
<1>5. Outer(r, "shmat")
  BY <1>2, <1>3 DEF Outer, Types, TypeOK
<1>6. ProcOK(r)'
  BY <1>1, <1>2, <1>3, <1>4 DEF ProcOK, Attached, Looping, Holding, Inside
<1>7. Types' /\ ProcsOK' /\ BoxesOK'
  BY <1>1, <1>2, <1>5, <1>6, OuterOK
<1>8. ExitOK'
  <2>1. CASE r = "receiver"
    <3>1. NoExit(key)
      BY <1>1, <2>1 DEF ExitOK, Took, AfterTake
    <3> QED
      BY <1>2, <1>4, <2>1, <3>1 DEF ExitOK, NoExit, AfterTake
  <2>2. CASE r # "receiver"
    BY <1>2, <1>4, <2>2 DEF ExitOK, NoExit, Took, Roles
  <2> QED
    BY <2>1, <2>2
<1>9. ReceiverCleansUp'
  BY <1>2, <1>4 DEF ReceiverCleansUp, Roles
<1>10. OnceOK'
  <2>1. launches'["sender"] <= 1 => \A s \in Segs : sent'[s] # << >> => shmid'["sender"] = s
    BY <1>1, <1>2, <1>4 DEF OnceOK, Segs, Roles
  <2>2. /\ pc'["receiver"] \in AfterTake => got'[shmid'["receiver"]] # << >>
        /\ ~failed'["receiver"] /\ Done("receiver")' =>
             shmid'["receiver"] # 0 /\ got'[shmid'["receiver"]] # << >>
    BY <1>2, <1>4 DEF OnceOK, Done, AfterTake, Roles
  <2>3. /\ \A o \in Roles : launches'[o] = 0 => shmid'[o] = 0 /\ pc'[o] = "off"
        /\ launches'["sender"] = 0 => \A s \in Segs : sent'[s] = << >>
    BY <1>1, <1>2, <1>4 DEF OnceOK
  <2> QED
    BY <1>2, <2>1, <2>2, <2>3 DEF OnceOK
<1> QED
  BY <1>7, <1>8, <1>9, <1>10

LEMMA ShmgetFailsOK == ASSUME NEW r \in Roles PROVE ShmInv /\ ShmgetFails(r) => ShmInv'
<1> SUFFICES ASSUME ShmInv, ShmgetFails(r) PROVE ShmInv'
  OBVIOUS
<1> USE DEF ShmInv
<1>1. /\ pc[r] \in {"shmget", "shmget2"} /\ shmid[r] = 0 /\ ~created[r] /\ addr[r] = 0
      /\ launches[r] # 0 /\ pc[r] \notin Holding
  BY DEF ShmgetFails, ProcsOK, ProcOK, OnceOK, Attached, Looping, Holding, Inside
<1>2. /\ pc' = [pc EXCEPT ![r] = "off"] /\ failed' = [failed EXCEPT ![r] = TRUE]
      /\ addr' = [addr EXCEPT ![r] = 0]
      /\ UNCHANGED <<input, key, made, seg, shmid, created, text, left, launches, sent, got>>
  BY DEF ShmgetFails, Abandon, history
<1>3. /\ pc'[r] = "off" /\ failed'[r] /\ addr'[r] = 0 /\ made \in Nat
      /\ \A o \in Roles \ {r} : pc'[o] = pc[o] /\ failed'[o] = failed[o]
  BY <1>2 DEF Types, TypeOK
<1>4. Outer(r, "off")
  BY <1>2 DEF Outer, Types, TypeOK, ProcsOK
<1>5. ProcOK(r)'
  BY <1>1, <1>2, <1>3 DEF ProcOK, Attached, Looping, Holding, Inside
<1>6. Types' /\ ProcsOK' /\ BoxesOK'
  BY <1>1, <1>2, <1>4, <1>5, OuterOK
<1>7. ExitOK'
  BY <1>1, <1>2, <1>3 DEF ExitOK, NoExit, Took, Waiting, AfterTake, Roles
<1>8. ReceiverCleansUp'
  BY <1>1, <1>2, <1>3 DEF ReceiverCleansUp, Roles
<1>9. OnceOK'
  BY <1>1, <1>2, <1>3 DEF OnceOK, Done, AfterTake, Roles
<1> QED
  BY <1>6, <1>7, <1>8, <1>9

LEMMA ShmatOK == ASSUME NEW r \in Roles PROVE ShmInv /\ Shmat(r) => ShmInv'
<1> SUFFICES ASSUME ShmInv, Shmat(r) PROVE ShmInv'
  OBVIOUS
<1> USE DEF ShmInv
<1> DEFINE to == IF created[r] THEN "init" ELSE "peer"
<1>1. /\ pc[r] = "shmat" /\ pc' = [pc EXCEPT ![r] = to]
      /\ addr' = [addr EXCEPT ![r] = shmid[r]]
      /\ UNCHANGED <<input, key, made, seg, shmid, created, failed, text, left, launches,
                     sent, got>>
  BY DEF Shmat, Go, segVars, history
<1>2. to \in {"init", "peer"} /\ (to = "init" <=> created[r])
  OBVIOUS
<1> HIDE DEF to
<1>3. /\ pc'[r] = to /\ addr'[r] = shmid[r]
      /\ \A o \in Roles \ {r} : pc'[o] = pc[o]
  BY <1>1 DEF Types, TypeOK
<1>4. Outer(r, to) /\ pc[r] \notin Holding
  BY <1>1 DEF Outer, Types, TypeOK, ProcsOK, Holding, Inside
<1>5. ProcOK(r)'
  <2>1. ProcOK(r)
    BY DEF ProcsOK
  <2> QED
    BY <1>1, <1>2, <1>3, <2>1 DEF ProcOK, Attached, Looping, Holding, Inside
<1>6. Types' /\ ProcsOK' /\ BoxesOK'
  <2>1. created'[r] => \A o \in Roles \ {r} : ~created[o] \/ shmid'[r] # shmid[o]
    BY <1>1 DEF ProcsOK, Roles
  <2> QED
    BY <1>2, <1>4, <1>5, <2>1, OuterOK
<1>7. ExitOK'
  <2>1. Follows(pc["receiver"], pc'["receiver"])
    BY <1>1, <1>2, <1>3 DEF Follows, Waiting, Roles
  <2> QED
    BY <1>1, <2>1, ExitMove
<1>8. ReceiverCleansUp'
  BY <1>1, <1>2, <1>3 DEF ReceiverCleansUp, Roles
<1>9. OnceOK'
  BY <1>1, <1>2, <1>3 DEF OnceOK, Done, AfterTake, Roles
<1> QED
  BY <1>6, <1>7, <1>8, <1>9

(* A process that cannot attach the segment; a receiver that created it    *)
(* removes it first.                                                       *)
LEMMA ShmatFailsOK == ASSUME NEW r \in Roles PROVE ShmInv /\ ShmatFails(r) => ShmInv'
<1> SUFFICES ASSUME ShmInv, ShmatFails(r) PROVE ShmInv'
  OBVIOUS
<1> USE DEF ShmInv
<1>1. /\ pc[r] = "shmat" /\ pc' = [pc EXCEPT ![r] = "off"]
      /\ key' = IF r = "receiver" /\ created[r] THEN 0 ELSE key
      /\ failed' = [failed EXCEPT ![r] = TRUE] /\ addr' = [addr EXCEPT ![r] = 0]
      /\ UNCHANGED <<input, made, seg, shmid, created, text, left, launches, sent, got>>
  BY DEF ShmatFails, Abandon, history
<1>2. /\ pc'[r] = "off" /\ failed'[r] /\ addr'[r] = 0 /\ made \in Nat /\ launches[r] # 0
      /\ \A o \in Roles \ {r} : pc'[o] = pc[o] /\ failed'[o] = failed[o]
  BY <1>1 DEF Types, TypeOK, OnceOK
<1>3. Outer(r, "off") /\ pc[r] \notin Holding
  BY <1>1, <1>2 DEF Outer, Types, TypeOK, ProcsOK, Holding, Inside
<1>4. ProcOK(r)'
  <2>1. ProcOK(r)
    BY DEF ProcsOK
  <2> QED
    BY <1>1, <1>2, <2>1 DEF ProcOK, Attached, Looping, Holding, Inside
<1>5. Types' /\ ProcsOK' /\ BoxesOK'
  <2>1. created'[r] => \A o \in Roles \ {r} : ~created[o] \/ shmid'[r] # shmid[o]
    BY <1>1 DEF ProcsOK, Roles
  <2> QED
    BY <1>3, <1>4, <2>1, OuterOK
<1>6. ExitOK'
  BY <1>1, <1>2 DEF ExitOK, NoExit, Took, Waiting, AfterTake, Roles
<1>7. ReceiverCleansUp'
  BY <1>1, <1>2 DEF ReceiverCleansUp, Roles
<1>8. OnceOK'
  BY <1>1, <1>2 DEF OnceOK, Done, AfterTake, Roles
<1> QED
  BY <1>5, <1>6, <1>7, <1>8

(* cleanup: the segment is detached, and a receiver removes it.            *)
LEMMA ShmdtOK == ASSUME NEW r \in Roles PROVE ShmInv /\ Shmdt(r) => ShmInv'
<1> SUFFICES ASSUME ShmInv, Shmdt(r) PROVE ShmInv'
  OBVIOUS
<1> USE DEF ShmInv
<1> DEFINE to == IF Removes(r) THEN "rmid" ELSE "off"
<1>1. /\ pc[r] = "cleanup" /\ pc' = [pc EXCEPT ![r] = to]
      /\ addr' = [addr EXCEPT ![r] = 0]
      /\ UNCHANGED <<input, key, made, seg, shmid, created, failed, text, left, launches,
                     sent, got>>
  BY DEF Shmdt, Go, segVars, history
<1>2. to \in {"rmid", "off"} /\ (r = "receiver" => to = "rmid")
  BY DEF Removes
<1> HIDE DEF to
<1>3. /\ pc'[r] = to /\ addr'[r] = 0 /\ launches[r] # 0
      /\ \A o \in Roles \ {r} : pc'[o] = pc[o]
  BY <1>1 DEF Types, TypeOK, OnceOK
<1>4. Outer(r, to) /\ pc[r] \notin Holding
  BY <1>1 DEF Outer, Types, TypeOK, ProcsOK, Holding, Inside
<1>5. ProcOK(r)'
  <2>1. ProcOK(r)
    BY DEF ProcsOK
  <2> QED
    BY <1>1, <1>2, <1>3, <2>1 DEF ProcOK, Attached, Looping, Holding, Inside
<1>6. Types' /\ ProcsOK' /\ BoxesOK'
  <2>1. created'[r] => \A o \in Roles \ {r} : ~created[o] \/ shmid'[r] # shmid[o]
    BY <1>1 DEF ProcsOK, Roles
  <2> QED
    BY <1>2, <1>4, <1>5, <2>1, OuterOK
<1>7. ExitOK'
  BY <1>1, <1>2, <1>3 DEF ExitOK, NoExit, Took, Waiting, AfterTake, Roles
<1>8. ReceiverCleansUp'
  BY <1>1, <1>2, <1>3 DEF ReceiverCleansUp, Roles
<1>9. OnceOK'
  BY <1>1, <1>2, <1>3 DEF OnceOK, Done, AfterTake, Roles
<1> QED
  BY <1>6, <1>7, <1>8, <1>9

LEMMA RmidOK == ASSUME NEW r \in Roles PROVE ShmInv /\ Rmid(r) => ShmInv'
<1> SUFFICES ASSUME ShmInv, Rmid(r) PROVE ShmInv'
  OBVIOUS
<1> USE DEF ShmInv
<1>1. /\ pc[r] = "rmid" /\ pc' = [pc EXCEPT ![r] = "off"]
      /\ key' = IF key = shmid[r] THEN 0 ELSE key
      /\ UNCHANGED <<input, made, seg, shmid, addr, created, failed, text, left, launches,
                     sent, got>>
  BY DEF Rmid, Go, procVars, history
<1>2. /\ pc'[r] = "off" /\ launches[r] # 0 /\ made \in Nat /\ launches[r] \in Nat
      /\ \A o \in Roles \ {r} : pc'[o] = pc[o]
  BY <1>1 DEF Types, TypeOK, OnceOK
<1>3. Outer(r, "off") /\ pc[r] \notin Holding
  BY <1>1, <1>2 DEF Outer, Types, TypeOK, ProcsOK, Holding, Inside
<1>4. ProcOK(r)'
  <2>1. ProcOK(r)
    BY DEF ProcsOK
  <2> QED
    BY <1>1, <1>2, <2>1 DEF ProcOK, Attached, Looping, Holding, Inside
<1>5. Types' /\ ProcsOK' /\ BoxesOK'
  <2>1. created'[r] => \A o \in Roles \ {r} : ~created[o] \/ shmid'[r] # shmid[o]
    BY <1>1 DEF ProcsOK, Roles
  <2> QED
    BY <1>3, <1>4, <2>1, OuterOK
<1>6. ExitOK'
  BY <1>1, <1>2 DEF ExitOK, NoExit, Took, Waiting, AfterTake, Roles
<1>7. ReceiverCleansUp'
  BY <1>1, <1>2 DEF ReceiverCleansUp, Roles
<1>8. OnceOK'
  BY <1>1, <1>2 DEF OnceOK, Done, AfterTake, Roles
<1> QED
  BY <1>5, <1>6, <1>7, <1>8

(* A failed sem_init: the receiver goes to cleanup, the sender gives up.   *)
LEMMA InitFailsFacts ==
  ASSUME ShmInv, NEW r \in Roles, InitFails(r)
  PROVE  LET s == shmid[r] IN
         /\ s \in Segs /\ addr[r] = s /\ seg[s] \in BoxType /\ ~seg[s].ready /\ created[r]
         /\ pc[r] = "init" /\ seg' = [seg EXCEPT ![s] = Zeroed] /\ key' = key
         /\ BoxInv(seg[s], At("sender", s), At("receiver", s), sent[s], got[s], text["sender"])
         /\ At("sender", s) \notin Looping /\ At("receiver", s) \notin Looping
         /\ sent[s] = << >> /\ got[s] = << >>
<1> DEFINE s == shmid[r]
<1>1. pc[r] = "init" /\ "init" \in Attached
  BY DEF InitFails, Attached
<1>2. /\ s \in Segs /\ addr[r] = s /\ Box(r) = seg[s] /\ seg[s] \in BoxType
      /\ BoxInv(seg[s], At("sender", s), At("receiver", s), sent[s], got[s], text["sender"])
  BY <1>1, OwnBox
<1>3. created[r] /\ ~seg[s].ready
  BY <1>1 DEF ShmInv, ProcsOK, ProcOK
<1>4. seg' = [seg EXCEPT ![s] = Zeroed] /\ key' = key
  BY <1>2 DEF InitFails, SetBox
<1> QED
  BY <1>1, <1>2, <1>3, <1>4 DEF BoxInv

LEMMA ReceiverInitFails == ShmInv /\ InitFails("receiver") => ShmInv'
<1> SUFFICES ASSUME ShmInv, InitFails("receiver") PROVE ShmInv'
  OBVIOUS
<1> USE DEF ShmInv
<1> DEFINE r == "receiver"
           s == shmid[r]
<1>0. r \in Roles /\ r # "sender"
  BY DEF Roles
<1>1. /\ s \in Segs /\ addr[r] = s /\ seg[s] \in BoxType /\ ~seg[s].ready /\ created[r]
      /\ pc[r] = "init" /\ seg' = [seg EXCEPT ![s] = Zeroed] /\ key' = key
      /\ At("sender", s) \notin Looping
      /\ sent[s] = << >> /\ got[s] = << >>
  BY <1>0, InitFailsFacts
<1>2. /\ pc' = [pc EXCEPT ![r] = "cleanup"] /\ failed' = [failed EXCEPT ![r] = TRUE]
      /\ UNCHANGED <<input, made, shmid, addr, created, text, left, launches, sent, got>>
  BY DEF InitFails, Go, history
<1>3. Move(r, "cleanup", Zeroed) /\ Zeroed \in BoxType /\ ~Zeroed.ready
  BY <1>1, <1>2, FreshType DEF Move
<1>4. Careful(r, "cleanup", Zeroed)
  BY <1>1, <1>3 DEF Careful, Attached, Looping, Holding, Inside
<1>5. BoxMoved(r, "cleanup", Zeroed)
  BY <1>0, <1>1, <1>2, <1>3 DEF BoxMoved, BoxInv, Looping, Holding, Inside
<1>6. Types'
  <2>1. failed' \in [Roles -> BOOLEAN] /\ text' \in [Roles -> Text] /\ left' \in Seq(Text)
        /\ sent' \in [Segs -> Seq(Text)] /\ got' \in [Segs -> Seq(Text)]
    BY <1>2 DEF Types, TypeOK
  <2>2. "cleanup" \in Places(r)
    BY DEF Places, Common
  <2> QED
    BY <1>0, <1>3, <2>1, <2>2, TypesMove
<1>7. ProcsOK'
  BY <1>0, <1>3, <1>4, ProcsMove
<1>8. BoxesOK'
  BY <1>0, <1>1, <1>2, <1>3, <1>5, BoxesMove
<1>9. ExitOK'
  <2>1. Follows(pc[r], pc'[r])
    BY <1>0, <1>1, <1>2 DEF Follows, Waiting, Types
  <2> QED
    BY <1>1, <1>2, <2>1, ExitMove
<1>10. OnceOK' /\ ReceiverCleansUp'
  <2>1. failed'[r]
    BY <1>0, <1>2 DEF Types, TypeOK
  <2> QED
    BY <1>0, <1>1, <1>2, <1>3, <2>1, OnceMove DEF AfterTake
<1> QED
  BY <1>6, <1>7, <1>8, <1>9, <1>10

LEMMA SenderInitFails == ShmInv /\ InitFails("sender") => ShmInv'
<1> SUFFICES ASSUME ShmInv, InitFails("sender") PROVE ShmInv'
  OBVIOUS
<1> USE DEF ShmInv
<1> DEFINE r == "sender"
           o == "receiver"
           s == shmid[r]
<1>0. r \in Roles /\ o \in Roles /\ r # o /\ \A x \in Roles : x = r \/ x = o
  BY DEF Roles
<1>1. /\ s \in Segs /\ addr[r] = s /\ seg[s] \in BoxType /\ ~seg[s].ready /\ created[r]
      /\ pc[r] = "init" /\ seg' = [seg EXCEPT ![s] = Zeroed] /\ key' = key
      /\ At("receiver", s) \notin Looping
      /\ sent[s] = << >> /\ got[s] = << >>
  BY <1>0, InitFailsFacts
<1>2. /\ pc' = [pc EXCEPT ![r] = "off"] /\ failed' = [failed EXCEPT ![r] = TRUE]
      /\ addr' = [addr EXCEPT ![r] = 0]
      /\ UNCHANGED <<input, made, shmid, created, text, left, launches, sent, got>>
  BY DEF InitFails, Abandon, history
<1>3. Zeroed \in BoxType /\ ~Zeroed.ready
  BY FreshType
<1>4. /\ seg' \in [Segs -> BoxType] /\ seg'[s] = Zeroed
      /\ \A t \in Segs \ {s} : seg'[t] = seg[t]
  BY <1>1, <1>3 DEF Types, TypeOK, BoxType
<1>5. /\ pc'[r] = "off" /\ pc'[o] = pc[o] /\ addr'[r] = 0 /\ addr'[o] = addr[o]
      /\ failed'[o] = failed[o] /\ launches[r] # 0
  BY <1>0, <1>1, <1>2 DEF Types, TypeOK, OnceOK
<1>6. Types'
  <2>1. TypeOK'
    BY <1>1, <1>2, <1>4 DEF Types, TypeOK, BoxType
  <2>2. pc' \in [Roles -> Common \cup Looping] /\ \A x \in Roles : pc'[x] \in Places(x)
    BY <1>2, <1>5 DEF Types, Places, Common
  <2> QED
    BY <1>2, <2>1, <2>2 DEF Types
<1>7. ProcsOK'
  <2>1. ProcOK(r)'
    <3>1. ProcOK(r)
      BY <1>0 DEF ProcsOK
    <3> QED
      BY <1>1, <1>2, <1>5, <3>1 DEF ProcOK, Attached, Looping, Holding, Inside
  <2>2. ProcOK(o)'
    <3>1. ProcOK(o)
      BY <1>0 DEF ProcsOK
    <3>2. CASE shmid[o] = s
      <4>1. ~created[o] /\ pc[o] \notin Looping
        BY <1>1, <3>2 DEF ProcsOK, At
      <4> QED
        BY <1>2, <1>5, <3>1, <4>1 DEF ProcOK
    <3>3. CASE shmid[o] # s
      <4>1. shmid[o] \in Segs => seg'[shmid[o]] = seg[shmid[o]]
        BY <1>4, <3>3
      <4>2. pc[o] \in {"shmat"} \cup Attached => shmid[o] \in Segs
        BY <1>0, <3>1 DEF ProcOK, Types, TypeOK
      <4> QED
        BY <1>2, <1>5, <3>1, <4>1, <4>2 DEF ProcOK, Attached
    <3> QED
      BY <3>2, <3>3
  <2>3. \A t \in Segs : t > made' => ~seg'[t].ready
    BY <1>2, <1>3, <1>4 DEF ProcsOK
  <2> QED
    BY <1>0, <1>1, <1>2, <2>1, <2>2, <2>3 DEF ProcsOK
<1>8. BoxesOK'
  <2>1. BoxInv(Zeroed, "off", At("receiver", s), << >>, << >>, text["sender"])
    BY <1>1, <1>3 DEF BoxInv, Looping, Holding, Inside
  <2>2. At("sender", s)' = "off" /\ At("receiver", s)' = At("receiver", s)
    BY <1>2, <1>5 DEF At
  <2>3. ASSUME NEW t \in Segs \ {s}
        PROVE  At("sender", t)' = At("sender", t) /\ At("receiver", t)' = At("receiver", t)
    BY <1>2, <1>5 DEF At
  <2> QED
    BY <1>1, <1>2, <1>4, <2>1, <2>2, <2>3 DEF BoxesOK
<1>9. ExitOK'
  BY <1>1, <1>2, <1>5, ExitMove DEF Follows
<1>10. ReceiverCleansUp'
  BY <1>1, <1>2, <1>5 DEF ReceiverCleansUp
<1>11. OnceOK'
  BY <1>0, <1>1, <1>2, <1>5 DEF OnceOK, Done
<1> QED
  BY <1>6, <1>7, <1>8, <1>9, <1>10, <1>11

-----------------------------------------------------------------------------
LEMMA ShmInvInit == Init => ShmInv
<1> SUFFICES ASSUME Init PROVE ShmInv
  OBVIOUS
<1> USE DEF Init
<1>1. NoText \in Text /\ Zeroed \in BoxType /\ ~Zeroed.ready
  BY FreshType DEF Text
<1>2. << >> \in Seq(Text) /\ DOMAIN << >> = {}
  BY EmptySeq
<1>3. TypeOK
  BY <1>1, IpcAssumption DEF TypeOK, BoxType
<1>4. Types
  BY <1>2, <1>3 DEF Types, Places, Common
<1>5. ProcsOK
  BY <1>1, IpcAssumption DEF ProcsOK, ProcOK, Attached, Looping, Holding, Inside, Segs, Roles
<1>6. BoxesOK
  BY <1>1 DEF BoxesOK, BoxInv, At, Looping, Holding, Inside, Roles
<1>7. ExitOK
  BY <1>2 DEF ExitOK, NoExit, Took, Waiting, AfterTake, Roles
<1>8. ReceiverCleansUp
  BY DEF ReceiverCleansUp, Roles
<1>9. OnceOK
  BY DEF OnceOK, Done, AfterTake, Roles
<1> QED
  BY <1>4, <1>5, <1>6, <1>7, <1>8, <1>9 DEF ShmInv

LEMMA ShmInvStep == ShmInv /\ [Next]_vars => ShmInv'
<1> SUFFICES ASSUME ShmInv, [Next]_vars PROVE ShmInv'
  OBVIOUS
<1>1. CASE UNCHANGED vars
  BY <1>1 DEF ShmInv, Types, TypeOK, ProcsOK, ProcOK, BoxesOK, At, ExitOK, NoExit, Took,
              ReceiverCleansUp, OnceOK, Done, vars, segVars, procVars, history
<1>2. CASE Next
  <2>1. PICK r \in Roles : Launch(r) \/ Run(r)
    BY <1>2 DEF Next
  <2>2. ASSUME Start(r) PROVE ShmInv'
    BY <2>2, ShmCreateOK, ShmExistsOK, ShmFindOK, ShmgetFailsOK, ShmatOK, ShmatFailsOK,
       InitSemsOK, SetReadyOK, AwaitReadyOK, SenderInitFails, ReceiverInitFails DEF Start, Roles
  <2>3. ASSUME Send PROVE ShmInv'
    BY <2>3, OpenOK, OpenFailsOK, NextMessageOK, WaitEmptyOK, CopyTextOK, CopyLengthOK,
       PostFullOK DEF Send
  <2>4. ASSUME Receive PROVE ShmInv'
    BY <2>4, WaitFullOK, LoadTextOK, ClearOK, PostEmptyOK DEF Receive
  <2>5. ASSUME Lock(r) \/ Unlock(r) PROVE ShmInv'
    BY <2>5, SenderLockOK, SenderUnlockOK, ReceiverLockOK, ReceiverUnlockOK DEF Roles
  <2>6. ASSUME Shmdt(r) \/ Rmid(r) PROVE ShmInv'
    BY <2>6, ShmdtOK, RmidOK
  <2> QED
    BY <2>1, <2>2, <2>3, <2>4, <2>5, <2>6, LaunchOK DEF Run
<1> QED
  BY <1>1, <1>2

-----------------------------------------------------------------------------
(* The processes in places of a segment, counted.                          *)
LEMMA Counted ==
  ASSUME NEW R \in SUBSET Roles
  PROVE  Cardinality(R) = One("sender" \in R) + One("receiver" \in R)
<1>1. Cardinality({}) = 0
  BY FS_EmptySet
<1>2. Cardinality({"sender"}) = 1 /\ Cardinality({"receiver"}) = 1
      /\ IsFiniteSet({"sender"})
  BY FS_Singleton
<1>3. Cardinality({"sender"} \cup {"receiver"}) = 2
  BY <1>2, FS_AddElement
<1>4. \/ R = {} \/ R = {"sender"} \/ R = {"receiver"} \/ R = {"sender"} \cup {"receiver"}
  BY DEF Roles
<1> QED
  BY <1>1, <1>2, <1>3, <1>4 DEF One

LEMMA UsersCounted ==
  ASSUME ShmInv, NEW s \in Segs, NEW P \in SUBSET Looping
  PROVE  /\ Cardinality(Using(s, P)) = One(At("sender", s) \in P) + One(At("receiver", s) \in P)
         /\ Using(s, P) = {} <=> At("sender", s) \notin P /\ At("receiver", s) \notin P
<1>1. "off" \notin P
  BY DEF Looping, Holding, Inside
<1>2. \A r \in Roles : r \in Using(s, P) <=> At(r, s) \in P
  <2> TAKE r \in Roles
  <2>1. pc[r] \in P => addr[r] = shmid[r]
    BY DEF ShmInv, ProcsOK, ProcOK, Attached
  <2> QED
    BY <1>1, <2>1 DEF Using, At
<1>3. Using(s, P) \in SUBSET Roles
  BY DEF Using
<1>4. "sender" \in Roles /\ "receiver" \in Roles
  BY DEF Roles
<1>5. Using(s, P) = {} <=> "sender" \notin Using(s, P) /\ "receiver" \notin Using(s, P)
  BY <1>3 DEF Roles
<1>6. Cardinality(Using(s, P)) = One("sender" \in Using(s, P)) + One("receiver" \in Using(s, P))
  BY <1>3, Counted
<1>7. ("sender" \in Using(s, P)) = (At("sender", s) \in P)
      /\ ("receiver" \in Using(s, P)) = (At("receiver", s) \in P)
  BY <1>2, <1>4
<1> QED
  BY <1>5, <1>6, <1>7

LEMMA TokensCounted == ShmInv => TokensConserved
<1> SUFFICES ASSUME ShmInv PROVE TokensConserved
  OBVIOUS
<1>1. /\ Holding = {"lock", "copy", "length", "load", "clear", "unlock", "post"}
      /\ Inside = {"copy", "length", "load", "clear", "unlock"}
      /\ Holding \in SUBSET Looping /\ Inside \in SUBSET Looping
  BY DEF Looping, Holding, Inside
<1>2. ASSUME NEW s \in Ready
      PROVE  /\ seg[s].empty + seg[s].full + Cardinality(Using(s, Holding)) = 1
             /\ seg[s].mutex + Cardinality(Using(s, Inside)) = 1
  <2>1. s \in Segs /\ seg[s].ready
    BY <1>2 DEF Ready
  <2>2. seg[s].empty \in 0 .. 1 /\ seg[s].full \in 0 .. 1 /\ seg[s].mutex \in 0 .. 1
    BY <2>1 DEF ShmInv, Types, TypeOK
  <2>3. BoxInv(seg[s], At("sender", s), At("receiver", s), sent[s], got[s], text["sender"])
    BY <2>1 DEF ShmInv, BoxesOK
  <2>4. /\ seg[s].empty + seg[s].full + One(At("sender", s) \in Holding)
             + One(At("receiver", s) \in Holding) = 1
        /\ seg[s].mutex + One(At("sender", s) \in Inside) + One(At("receiver", s) \in Inside) = 1
    BY <2>1, <2>3 DEF BoxInv
  <2>5. /\ Cardinality(Using(s, Holding))
             = One(At("sender", s) \in Holding) + One(At("receiver", s) \in Holding)
        /\ Cardinality(Using(s, Inside))
             = One(At("sender", s) \in Inside) + One(At("receiver", s) \in Inside)
    BY <1>1, <2>1, UsersCounted
  <2>6. \A p : One(p) \in 0 .. 1
    BY DEF One
  <2> QED
    BY <2>2, <2>4, <2>5, <2>6
<1>3. ASSUME NEW s \in Segs \ Ready PROVE Using(s, Holding) = {}
  <2>1. BoxInv(seg[s], At("sender", s), At("receiver", s), sent[s], got[s], text["sender"])
        /\ ~seg[s].ready
    BY <1>3 DEF ShmInv, BoxesOK, Ready
  <2>2. At("sender", s) \notin Holding /\ At("receiver", s) \notin Holding
    BY <1>1, <2>1 DEF BoxInv
  <2> QED
    BY <1>1, <2>2, UsersCounted
<1> QED
  BY <1>1, <1>2, <1>3 DEF TokensConserved

-----------------------------------------------------------------------------
(* Two programs that ran once and without an error met in one segment.     *)
LEMMA NothingIsFound == ShmInv => NothingLeft
<1> SUFFICES ASSUME ShmInv, RunOnce, BothEnded, NoFailure PROVE key = 0
  BY DEF NothingLeft
<1> DEFINE s == shmid["receiver"]
<1>0. "sender" \in Roles /\ "receiver" \in Roles /\ \A r \in Roles : r = "sender" \/ r = "receiver"
  BY DEF Roles
<1>1. s # 0 /\ got[s] # << >>
  BY <1>0 DEF ShmInv, OnceOK, Done, RunOnce, BothEnded, NoFailure
<1>2. s \in Segs /\ sent[s] \in Seq(Text) /\ got[s] \in Seq(Text)
  BY <1>0, <1>1 DEF ShmInv, Types, TypeOK
<1>3. sent[s] # << >>
  <2>1. BoxInv(seg[s], At("sender", s), At("receiver", s), sent[s], got[s], text["sender"])
    BY <1>2 DEF ShmInv, BoxesOK
  <2>2. seg[s].ready
    BY <1>1, <2>1 DEF BoxInv
  <2>3. Len(sent[s]) = Len(got[s]) + One(Stored(seg[s], At("sender", s), At("receiver", s)))
    BY <2>1, <2>2 DEF BoxInv
  <2>4. Len(got[s]) \in Nat /\ Len(got[s]) # 0
    BY <1>1, <1>2, EmptySeq, LenProperties
  <2>5. \A p : One(p) \in 0 .. 1
    BY DEF One
  <2>6. Len(sent[s]) # 0
    BY <2>3, <2>4, <2>5
  <2> QED
    BY <2>6
<1>4. shmid["sender"] = s
  BY <1>0, <1>2, <1>3 DEF ShmInv, OnceOK, RunOnce
<1>5. key # s
  BY <1>0, <1>1 DEF ShmInv, ReceiverCleansUp, BothEnded, NoFailure
<1>6. key # 0 => \E r \in Roles : key = shmid[r]
  BY DEF ShmInv, OnceOK, RunOnce
<1> QED
  BY <1>0, <1>4, <1>5, <1>6

-----------------------------------------------------------------------------
(* A step of lab1 is, at every segment, a step of its mailbox or none.     *)
LEMMA MailboxStep ==
  ASSUME ShmInv, [Next]_vars, NEW s \in Segs
  PROVE  Mailbox(s)!Next \/ UNCHANGED <<sent[s], got[s]>>
<1>0. sent \in [Segs -> Seq(Text)] /\ got \in [Segs -> Seq(Text)]
  BY DEF ShmInv, Types
<1>1. CASE CopyLength
  <2> DEFINE h == shmid["sender"]
             tx == text["sender"]
  <2>1. /\ h \in Segs /\ tx \in Text /\ Len(sent[h]) = Len(got[h])
        /\ sent' = [sent EXCEPT ![h] = Append(@, tx)] /\ got' = got
    BY <1>1, CopyLengthFacts
  <2> HIDE DEF h, tx
  <2>2. CASE s = h
    <3>1. Len(got[s]) \in Nat
      BY <1>0, LenProperties
    <3>2. Len(sent[s]) < Len(got[s]) + 1
      BY <2>1, <2>2, <3>1
    <3>3. sent'[s] = Append(sent[s], tx) /\ got'[s] = got[s]
      BY <1>0, <2>1, <2>2
    <3> QED
      BY <2>1, <3>2, <3>3 DEF Mailbox!Next, Mailbox!Put
  <2>3. CASE s # h
    BY <1>0, <2>1, <2>3
  <2> QED
    BY <2>2, <2>3
<1>2. CASE LoadText
  <2> DEFINE h == shmid["receiver"]
             whole == seg[h].buffer
  <2>1. /\ h \in Segs /\ NoExit(h) /\ Len(got[h]) < Len(sent[h])
        /\ whole = sent[h][Len(got[h]) + 1]
        /\ got' = [got EXCEPT ![h] = Append(@, whole)] /\ sent' = sent
    BY <1>2, LoadTextFacts
  <2> HIDE DEF h, whole
  <2>2. CASE s = h
    <3>1. got'[s] = Append(got[s], sent[s][Len(got[s]) + 1]) /\ sent'[s] = sent[s]
      BY <1>0, <2>1, <2>2
    <3> QED
      BY <2>1, <2>2, <3>1 DEF Mailbox!Next, Mailbox!Take, NoExit
  <2>3. CASE s # h
    BY <1>0, <2>1, <2>3
  <2> QED
    BY <2>2, <2>3
<1>3. CASE UNCHANGED vars
  BY <1>3 DEF vars, history
<1>4. ASSUME NEW r \in Roles, Launch(r) \/ Start(r) PROVE UNCHANGED <<sent[s], got[s]>>
  BY <1>4 DEF Launch, Start, ShmCreate, ShmExists, ShmFind, ShmgetFails, Shmat, ShmatFails, InitSems,
              InitFails, SetReady, AwaitReady, Abandon, history
<1>5. ASSUME NEW r \in Roles, Lock(r) \/ Unlock(r) \/ Shmdt(r) \/ Rmid(r)
      PROVE  UNCHANGED <<sent[s], got[s]>>
  BY <1>5 DEF Lock, Unlock, Shmdt, Rmid, history
<1>6. ASSUME \/ Open \/ OpenFails \/ NextMessage \/ WaitEmpty \/ CopyText \/ PostFull
             \/ WaitFull \/ Clear \/ PostEmpty
      PROVE  UNCHANGED <<sent[s], got[s]>>
  BY <1>6 DEF Open, OpenFails, NextMessage, WaitEmpty, CopyText, PostFull, WaitFull, Clear,
              PostEmpty, history
<1> QED
  BY <1>1, <1>2, <1>3, <1>4, <1>5, <1>6 DEF Next, Run, Send, Receive

-----------------------------------------------------------------------------
(* ShmCorrect: the inductive invariant holds, whatever the input files and *)
(* however often the programs are started, fail and are started again.     *)
THEOREM ShmCorrect == Spec => []ShmInv
BY ShmInvInit, ShmInvStep, PTL DEF Spec

(* ShmTypeCorrect: every variable keeps its type; in particular no         *)
(* semaphore of the mailbox ever exceeds one.                              *)
THEOREM ShmTypeCorrect == Spec => []TypeOK
<1>1. ShmInv => TypeOK
  BY DEF ShmInv, Types
<1> QED
  BY <1>1, ShmCorrect, PTL

(***************************************************************************)
(* TokensAreConserved: in every segment that is ready, the slot and the    *)
(* mutex are each at one place: with the semaphores or with one process    *)
(* between its sem_wait and its sem_post.                                  *)
(***************************************************************************)
THEOREM TokensAreConserved == Spec => []TokensConserved
BY TokensCounted, ShmCorrect, PTL

(* ReceiverAlwaysCleansUp: a receiver that ended after it made or used a   *)
(* segment has removed it, on every path through receiver.c.               *)
THEOREM ReceiverAlwaysCleansUp == Spec => []ReceiverCleansUp
<1>1. ShmInv => ReceiverCleansUp
  BY DEF ShmInv
<1> QED
  BY <1>1, ShmCorrect, PTL

(* NothingIsLeft: both programs started once, ended and without an error:  *)
(* no segment can be found any more.                                       *)
THEOREM NothingIsLeft == Spec => []NothingLeft
BY NothingIsFound, ShmCorrect, PTL

(***************************************************************************)
(* SegmentIsMailbox: whatever the sender's files hold, whichever program   *)
(* is started how often, and whichever of the calls fail, every segment    *)
(* holds at most one message and gives each text once, whole, in order,    *)
(* and none after the exit message.                                        *)
(***************************************************************************)
THEOREM SegmentIsMailbox == Spec => ImplementsMailbox
<1>1. Init => \A s \in Segs : Mailbox(s)!Init
  BY DEF Init, Mailbox!Init
<1>2. ShmInv /\ [Next]_vars =>
        [\A s \in Segs : Mailbox(s)!Next \/ UNCHANGED <<sent[s], got[s]>>]_history
  BY MailboxStep
<1> QED
  BY <1>1, <1>2, ShmInvInit, ShmInvStep, PTL DEF Spec, ImplementsMailbox
=============================================================================
