---------------------------- MODULE IpcMsgProofs ----------------------------
(***************************************************************************)
(* Every queue of lab1 is a mailbox, for any input files, any number of    *)
(* launches and any capacity of the queue, and when each program is        *)
(* started at most once and the receiver gets a queue, none stays behind.  *)
(***************************************************************************)
EXTENDS IpcMsg, SequenceTheorems, WellFoundedInduction, TLAPS

Places == {"off", "msgget", "fopen", "send", "receive", "cleanup"}

TypeOK ==
  /\ input \in Inputs
  /\ made \in Nat /\ key \in Queues \cup {0} /\ key <= made
  /\ queue \in [Queues -> Seq(Text)]
  /\ pc \in [Roles -> Places]
  /\ msqid \in [Roles -> Queues \cup {0}]
  /\ left \in Seq(Text)
  /\ sent \in [Queues -> Seq(Text)] /\ got \in [Queues -> Seq(Text)]

(* A process in its loop has a queue. *)
HasQueue == \A r \in Roles : pc[r] \in {"fopen", "send", "receive", "cleanup"} => msqid[r] # 0

(* The sequence s is g followed by q. *)
Joined(s, g, q) ==
  /\ Len(s) = Len(g) + Len(q)
  /\ \A n \in 1 .. Len(q) : q[n] = s[Len(g) + n]

(* What was sent is what was taken and then what the queue holds. *)
Fifo(q) == Joined(sent[q], got[q], queue[q]) /\ Len(queue[q]) <= QueueMax

(* The exit message has not been taken from a queue. *)
NoExit(q) == \A n \in DOMAIN got[q] : got[q][n] # EXIT_MESSAGE

(***************************************************************************)
(* The inductive invariant: while a queue can be found and its exit        *)
(* message has been taken, the receiver that took it is about to remove    *)
(* it, and a queue that is yet to be made has given no message.            *)
(***************************************************************************)
IInv ==
  /\ TypeOK
  /\ HasQueue
  /\ \A q \in Queues : Fifo(q)
  /\ \A q \in Queues : q > made => got[q] = << >>
  /\ key # 0 => NoExit(key) \/ (pc["receiver"] = "cleanup" /\ msqid["receiver"] = key)

(***************************************************************************)
(* OnceInv: while nothing was started twice, a receiver whose queue cannot *)
(* be found any more was the last to make one: the sender has come too.  A *)
(* receiver that ended has no queue, or one that is not to be found.       *)
(***************************************************************************)
OneRun == \A r \in Roles : launches[r] <= 1
OnceOK ==
  /\ \A r \in Roles : launches[r] = 0 => pc[r] = "off"
  /\ \A r \in Roles : launches[r] = 0 \/ pc[r] = "msgget" => msqid[r] = 0
  /\ \A q \in Queues : sent[q] # << >> => msqid["sender"] = q
  /\ pc["receiver"] = "cleanup" => got[msqid["receiver"]] # << >>
  /\ pc["receiver"] = "off" => msqid["receiver"] = 0 \/ msqid["receiver"] # key
  /\ msqid["receiver"] \notin {0, key} => key = 0 /\ msqid["sender"] # 0
OnceInv ==
  /\ launches \in [Roles -> Nat]
  /\ OneRun => OnceOK

-----------------------------------------------------------------------------
(* A set of numbers that is not empty has a first one.                     *)
LEMMA FirstOf ==
  ASSUME NEW S \in SUBSET Nat, S # {}
  PROVE  Min(S) \in S
<1>1. PICK x \in S : \A y \in S : ~ (<<y, x>> \in OpToRel(<, Nat))
  BY NatLessThanWellFounded, WFMin
<1>2. \A y \in S : ~ (y < x)
  BY <1>1, Zenon DEF OpToRel
<1>3. \A y \in S : x <= y
  BY <1>2
<1> QED
  BY <1>3 DEF Min

(* What the sender makes of a file is a sequence of the texts there are.   *)
LEMMA ScriptTexts ==
  ASSUME NEW file \in Inputs
  PROVE  Script(file) \in Seq(Text)
<1> DEFINE stop == {n \in DOMAIN file : file[n] = "EOF"}
           last == IF stop = {} THEN Len(file) ELSE Min(stop) - 1
           lines == SubSeq(file, 1, last)
           AnyText == STRING \cup {EXIT_MESSAGE}
<1>1. file \in Seq(STRING) /\ Len(file) \in Nat /\ DOMAIN file = 1 .. Len(file)
  BY MsgAssumption, LenProperties
<1>2. last \in 0 .. Len(file)
  <2>1. CASE stop = {}
    BY <1>1, <2>1
  <2>2. CASE stop # {}
    <3>0. stop \in SUBSET (1 .. Len(file))
      BY <1>1
    <3> HIDE DEF stop
    <3>1. Min(stop) \in stop
      BY <1>1, <2>2, <3>0, FirstOf
    <3>2. Min(stop) \in 1 .. Len(file)
      BY <3>0, <3>1
    <3>3. last = Min(stop) - 1
      BY <2>2
    <3> QED
      BY <1>1, <3>2, <3>3
  <2> QED
    BY <2>1, <2>2
<1> HIDE DEF last
<1>3. \A n \in 1 .. last : file[n] \in STRING
  BY <1>1, <1>2
<1>4. lines \in Seq(STRING)
  BY <1>2, <1>3, SubSeqProperties
<1> HIDE DEF lines
<1>5. Script(file) = Append(lines, EXIT_MESSAGE)
  BY DEF Script, lines, last
<1>6. Script(file) \in Seq(AnyText)
  <2>1. lines \in Seq(AnyText)
    BY <1>4, SeqMonotonic
  <2>2. EXIT_MESSAGE \in AnyText
    OBVIOUS
  <2> HIDE DEF AnyText
  <2> QED
    BY <1>5, <2>1, <2>2, AppendProperties
<1>7. \A n \in 1 .. Len(Script(file)) : Script(file)[n] \in Text
  BY <1>6, LenProperties DEF Text, ToSet
<1>8. Len(Script(file)) \in Nat /\ DOMAIN Script(file) = 1 .. Len(Script(file))
  BY <1>6, LenProperties
<1>9. Script(file) \in [1 .. Len(Script(file)) -> AnyText]
  BY <1>6, LenProperties
<1> QED
  BY <1>7, <1>8, <1>9, SeqDef

(* A text put at both ends keeps the parts joined.                         *)
LEMMA JoinedPut ==
  ASSUME NEW T, NEW s \in Seq(T), NEW g \in Seq(T), NEW q \in Seq(T), NEW t \in T,
         Joined(s, g, q)
  PROVE  Joined(Append(s, t), g, Append(q, t)) /\ Len(Append(q, t)) = Len(q) + 1
<1> DEFINE s2 == Append(s, t)
           q2 == Append(q, t)
<1>1. Len(g) \in Nat /\ Len(q) \in Nat /\ Len(s) \in Nat
  BY LenProperties
<1>2. /\ Len(s2) = Len(s) + 1 /\ s2[Len(s) + 1] = t
      /\ \A n \in 1 .. Len(s) : s2[n] = s[n]
  <2>1. Len(s2) = Len(s) + 1
    BY AppendProperties
  <2>2. s2[Len(s) + 1] = t
    BY AppendProperties
  <2>3. \A n \in 1 .. Len(s) : s2[n] = s[n]
    BY AppendProperties
  <2> QED
    BY <2>1, <2>2, <2>3
<1>3. /\ Len(q2) = Len(q) + 1 /\ q2[Len(q) + 1] = t
      /\ \A n \in 1 .. Len(q) : q2[n] = q[n]
  <2>1. Len(q2) = Len(q) + 1
    BY AppendProperties
  <2>2. q2[Len(q) + 1] = t
    BY AppendProperties
  <2>3. \A n \in 1 .. Len(q) : q2[n] = q[n]
    BY AppendProperties
  <2> QED
    BY <2>1, <2>2, <2>3
<1> HIDE DEF s2, q2
<1>4. ASSUME NEW n \in 1 .. (Len(q) + 1)
      PROVE  q2[n] = s2[Len(g) + n]
  <2>1. CASE n = Len(q) + 1
    <3>1. Len(g) + n = Len(s) + 1
      BY <1>1, <2>1 DEF Joined
    <3> QED
      BY <1>2, <1>3, <2>1, <3>1
  <2>2. CASE n \in 1 .. Len(q)
    <3>1. Len(g) + n \in 1 .. Len(s)
      BY <1>1, <2>2 DEF Joined
    <3> QED
      BY <1>2, <1>3, <2>2, <3>1 DEF Joined
  <2> QED
    BY <1>1, <2>1, <2>2
<1>5. Len(s2) = Len(g) + Len(q2)
  BY <1>1, <1>2, <1>3 DEF Joined
<1> QED
  BY <1>3, <1>4, <1>5 DEF Joined, s2, q2

(* A text that moves from one part to the other is the next of the whole.  *)
LEMMA JoinedTake ==
  ASSUME NEW T, NEW s \in Seq(T), NEW g \in Seq(T), NEW q \in Seq(T),
         Joined(s, g, q), q # << >>
  PROVE  /\ Joined(s, Append(g, Head(q)), Tail(q)) /\ Len(Tail(q)) < Len(q)
         /\ Len(g) < Len(s) /\ Head(q) = s[Len(g) + 1]
         /\ Head(q) \in T /\ Tail(q) \in Seq(T)
<1>1. Len(g) \in Nat /\ Len(q) \in Nat \ {0} /\ Len(s) \in Nat
  BY LenProperties, EmptySeq
<1>2. PICK a \in Nat, b \in Nat \ {0}, c \in Nat :
        a = Len(g) /\ b = Len(q) /\ c = Len(s) /\ c = a + b
  BY <1>1 DEF Joined
<1>3. \A n \in 1 .. b : q[n] = s[a + n]
  BY <1>2 DEF Joined
<1>4. /\ Head(q) \in T /\ Tail(q) \in Seq(T) /\ Len(Tail(q)) = b - 1
      /\ \A n \in 1 .. (b - 1) : Tail(q)[n] = q[n + 1]
  BY <1>2, HeadTailProperties
<1>5. Len(Append(g, Head(q))) = a + 1
  BY <1>2, <1>4, AppendProperties
<1>6. Head(q) = q[1]
  OBVIOUS
<1>7. Head(q) = s[a + 1]
  <2>1. 1 \in 1 .. b
    BY <1>2
  <2> QED
    BY <1>3, <1>6, <2>1
<1>8. ASSUME NEW n \in 1 .. (b - 1)
      PROVE  Tail(q)[n] = s[(a + 1) + n]
  <2>1. n + 1 \in 1 .. b /\ a + (n + 1) = (a + 1) + n
    BY <1>2
  <2> QED
    BY <1>3, <1>4, <2>1
<1>9. c = (a + 1) + (b - 1) /\ b - 1 < b /\ a < c
  BY <1>2
<1>10. Joined(s, Append(g, Head(q)), Tail(q))
  BY <1>2, <1>4, <1>5, <1>8, <1>9 DEF Joined
<1> QED
  BY <1>2, <1>4, <1>7, <1>9, <1>10
(* A text other than e added to texts that are not e.                      *)
LEMMA JoinedExit ==
  ASSUME NEW T, NEW g \in Seq(T), NEW t \in T, NEW e, t # e,
         \A n \in DOMAIN g : g[n] # e
  PROVE  \A n \in DOMAIN Append(g, t) : Append(g, t)[n] # e
<1>1. DOMAIN g = 1 .. Len(g) /\ Len(g) \in Nat
  BY LenProperties
<1>2. DOMAIN Append(g, t) = 1 .. (Len(g) + 1)
  <2>1. Append(g, t) \in Seq(T) /\ Len(Append(g, t)) = Len(g) + 1
    BY AppendProperties
  <2> QED
    BY <2>1, LenProperties
<1>3. Append(g, t)[Len(g) + 1] = t
  BY AppendProperties
<1>4. \A n \in 1 .. Len(g) : Append(g, t)[n] = g[n]
  BY AppendProperties
<1> QED
  BY <1>1, <1>2, <1>3, <1>4

LEMMA MsgInitOK == Init => IInv
<1> SUFFICES ASSUME Init PROVE IInv
  OBVIOUS
<1> USE DEF Init
<1>1. << >> \in Seq(Text) /\ Len(<< >>) = 0
  BY EmptySeq
<1>2. TypeOK
  BY <1>1 DEF TypeOK, Places
<1>3. HasQueue
  BY DEF HasQueue
<1>4. \A q \in Queues : Fifo(q)
  BY <1>1, MsgAssumption DEF Fifo, Joined
<1> QED
  BY <1>2, <1>3, <1>4 DEF IInv

(***************************************************************************)
(* A step that touches neither the queues nor what was sent and taken      *)
(* keeps them first-in-first-out.                                          *)
(***************************************************************************)
LEMMA FifoKept ==
  ASSUME IInv, UNCHANGED <<queue, sent, got>>
  PROVE  /\ \A q \in Queues : Fifo(q)'
         /\ \A q \in Queues : NoExit(q)' <=> NoExit(q)
BY DEF IInv, Fifo, Joined, NoExit

(* Steps that move no message.                                             *)
LEMMA QuietStep ==
  ASSUME IInv, UNCHANGED <<queue, sent, got>>, TypeOK', HasQueue', made <= made',
         key' # 0 => \/ \A n \in DOMAIN got[key'] : got[key'][n] # EXIT_MESSAGE
                     \/ pc'["receiver"] = "cleanup" /\ msqid'["receiver"] = key'
  PROVE  IInv'
<1>1. \A q \in Queues : Fifo(q)'
  BY FifoKept
<1>2. \A q \in Queues : q > made' => got'[q] = << >>
  BY DEF IInv, TypeOK, Queues
<1>3. got' = got
  OBVIOUS
<1>4. key' # 0 => \/ \A n \in DOMAIN got'[key'] : got'[key'][n] # EXIT_MESSAGE
                  \/ pc'["receiver"] = "cleanup" /\ msqid'["receiver"] = key'
  BY <1>3
<1> QED
  BY <1>1, <1>2, <1>4 DEF IInv, NoExit

(* A message that is sent joins the queue and what was sent.               *)
LEMMA SendFacts ==
  ASSUME IInv, Send
  PROVE  LET t == Head(left) IN
         /\ key \in Queues /\ t \in Text /\ left' \in Seq(Text)
         /\ queue[key] \in Seq(Text) /\ sent[key] \in Seq(Text) /\ got[key] \in Seq(Text)
         /\ Len(queue[key]) < QueueMax /\ Joined(sent[key], got[key], queue[key])
         /\ queue' = [queue EXCEPT ![key] = Append(@, t)]
         /\ sent' = [sent EXCEPT ![key] = Append(@, t)]
         /\ pc' = [pc EXCEPT !["sender"] = "send"]
         /\ UNCHANGED <<got, input, key, made, msqid>>
<1>1. key \in Queues /\ Head(left) \in Text /\ left' \in Seq(Text)
  BY HeadTailProperties DEF IInv, TypeOK, HasQueue, Send, Go, Gone, Roles
<1>2. /\ queue[key] \in Seq(Text) /\ sent[key] \in Seq(Text) /\ got[key] \in Seq(Text)
      /\ Len(queue[key]) < QueueMax /\ Fifo(key)
  BY <1>1 DEF IInv, TypeOK, Send
<1> QED
  BY <1>1, <1>2 DEF Send, Go, Fifo

LEMMA SendOK == IInv /\ Send => IInv'
<1> SUFFICES ASSUME IInv, Send PROVE IInv'
  OBVIOUS
<1>1. PICK t \in Text :
        /\ key \in Queues /\ left' \in Seq(Text)
        /\ queue[key] \in Seq(Text) /\ sent[key] \in Seq(Text) /\ got[key] \in Seq(Text)
        /\ Len(queue[key]) < QueueMax /\ Joined(sent[key], got[key], queue[key])
        /\ queue' = [queue EXCEPT ![key] = Append(@, t)]
        /\ sent' = [sent EXCEPT ![key] = Append(@, t)]
        /\ pc' = [pc EXCEPT !["sender"] = "send"]
        /\ UNCHANGED <<got, input, key, made, msqid>>
  BY SendFacts
<1>2. Append(queue[key], t) \in Seq(Text) /\ Append(sent[key], t) \in Seq(Text)
  BY <1>1, AppendProperties
<1>3. TypeOK'
  BY <1>1, <1>2 DEF IInv, TypeOK, Roles, Places
<1>4. Fifo(key)'
  <2>1. /\ queue'[key] = Append(queue[key], t) /\ sent'[key] = Append(sent[key], t)
        /\ got'[key] = got[key] /\ key' = key
    BY <1>1 DEF IInv, TypeOK
  <2>2. Joined(sent'[key], got'[key], queue'[key]) /\ Len(queue'[key]) = Len(queue[key]) + 1
    BY <1>1, <2>1, JoinedPut
  <2>3. Len(queue'[key]) <= QueueMax
    BY <1>1, <2>2, LenProperties, MsgAssumption
  <2> QED
    BY <2>1, <2>2, <2>3 DEF Fifo, Joined
<1>5. \A q \in Queues \ {key} : Fifo(q)'
  BY <1>1 DEF IInv, TypeOK, Fifo, Joined
<1>6. HasQueue'
  BY <1>1 DEF IInv, TypeOK, HasQueue, Roles, Send, Go
<1>7. key' # 0 => NoExit(key)' \/ (pc'["receiver"] = "cleanup" /\ msqid'["receiver"] = key')
  BY <1>1 DEF IInv, TypeOK, NoExit, Roles
<1> QED
  BY <1>1, <1>3, <1>4, <1>5, <1>6, <1>7 DEF IInv, NoExit

(* The text that is taken is the next one that was sent.                   *)
LEMMA ReceiveFacts ==
  ASSUME IInv, Receive
  PROVE  LET text == Head(queue[key]) IN
         /\ key \in Queues /\ text \in Text /\ NoExit(key)
         /\ got[key] \in Seq(Text) /\ sent[key] \in Seq(Text) /\ queue[key] \in Seq(Text)
         /\ queue[key] # << >> /\ Fifo(key)
         /\ Len(got[key]) < Len(sent[key])
         /\ text = sent[key][Len(got[key]) + 1]
         /\ got' = [got EXCEPT ![key] = Append(@, text)]
         /\ queue' = [queue EXCEPT ![key] = Tail(@)]
         /\ pc' = [pc EXCEPT !["receiver"] = IF text = EXIT_MESSAGE THEN "cleanup" ELSE "receive"]
         /\ UNCHANGED <<input, key, made, msqid, left, sent>>
         /\ msqid["receiver"] = key
<1>1. key \in Queues /\ msqid["receiver"] = key /\ pc["receiver"] = "receive"
  BY DEF IInv, TypeOK, HasQueue, Receive, Go, Gone, Roles
<1>2. /\ got[key] \in Seq(Text) /\ sent[key] \in Seq(Text) /\ queue[key] \in Seq(Text)
      /\ queue[key] # << >>
  BY <1>1 DEF IInv, TypeOK, Receive
<1>3. Fifo(key) /\ NoExit(key)
  BY <1>1 DEF IInv, Queues
<1>4. /\ Len(got[key]) < Len(sent[key]) /\ Head(queue[key]) = sent[key][Len(got[key]) + 1]
      /\ Head(queue[key]) \in Text
  BY <1>2, <1>3, JoinedTake DEF Fifo
<1> QED
  BY <1>1, <1>2, <1>3, <1>4 DEF Receive, Go

LEMMA ReceiveOK == IInv /\ Receive => IInv'
<1> SUFFICES ASSUME IInv, Receive PROVE IInv'
  OBVIOUS
<1> DEFINE text == Head(queue[key])
<1>1. /\ key \in Queues /\ text \in Text /\ NoExit(key)
      /\ got[key] \in Seq(Text) /\ sent[key] \in Seq(Text) /\ queue[key] \in Seq(Text)
      /\ queue[key] # << >> /\ Fifo(key)
      /\ got' = [got EXCEPT ![key] = Append(@, text)]
      /\ queue' = [queue EXCEPT ![key] = Tail(@)]
      /\ pc' = [pc EXCEPT !["receiver"] = IF text = EXIT_MESSAGE THEN "cleanup" ELSE "receive"]
      /\ UNCHANGED <<input, key, made, msqid, left, sent>>
      /\ msqid["receiver"] = key
  BY ReceiveFacts
<1>2. /\ Joined(sent[key], Append(got[key], text), Tail(queue[key]))
      /\ Len(Tail(queue[key])) < Len(queue[key])
      /\ Tail(queue[key]) \in Seq(Text)
  BY <1>1, JoinedTake DEF Fifo
<1> HIDE DEF text
<1>3. Append(got[key], text) \in Seq(Text)
  BY <1>1, AppendProperties
<1>4. TypeOK'
  BY <1>1, <1>2, <1>3 DEF IInv, TypeOK, Roles, Places
<1>5. /\ queue'[key] = Tail(queue[key]) /\ sent'[key] = sent[key]
      /\ got'[key] = Append(got[key], text) /\ key' = key
  BY <1>1 DEF IInv, TypeOK
<1>6. Fifo(key)'
  <2>1. Len(queue'[key]) <= QueueMax
    <3>1. Len(queue[key]) \in Nat /\ Len(queue'[key]) \in Nat /\ Len(queue[key]) <= QueueMax
      BY <1>1, <1>2, <1>5, LenProperties DEF Fifo
    <3> QED
      BY <1>2, <1>5, <3>1, MsgAssumption
  <2> QED
    BY <1>2, <1>5, <2>1 DEF Fifo, Joined
<1>7. \A q \in Queues \ {key} : Fifo(q)'
  BY <1>1 DEF IInv, TypeOK, Fifo, Joined
<1>8. HasQueue'
  BY <1>1 DEF IInv, TypeOK, HasQueue, Roles, Queues
<1>9. \A q \in Queues : q > made' => got'[q] = << >>
  BY <1>1 DEF IInv, TypeOK, Queues
<1>10. \/ \A n \in DOMAIN got'[key] : got'[key][n] # EXIT_MESSAGE
       \/ pc'["receiver"] = "cleanup" /\ msqid'["receiver"] = key'
  <2>1. CASE text = EXIT_MESSAGE
    BY <1>1, <2>1 DEF IInv, TypeOK, Roles
  <2>2. CASE text # EXIT_MESSAGE
    BY <1>1, <1>5, <2>2, JoinedExit DEF NoExit
  <2> QED
    BY <2>1, <2>2
<1> QED
  BY <1>1, <1>4, <1>5, <1>6, <1>7, <1>8, <1>9, <1>10 DEF IInv, NoExit

(* The steps that start a program, and those of a program that move no     *)
(* message.                                                                *)
LEMMA LaunchOK == ASSUME NEW r \in Roles PROVE IInv /\ Launch(r) => IInv'
<1> SUFFICES ASSUME IInv, Launch(r) PROVE IInv'
  OBVIOUS
<1> USE DEF Launch, Go, queueVars, history
<1>1. TypeOK'
  BY DEF IInv, TypeOK, Places
<1>2. HasQueue'
  BY DEF IInv, TypeOK, HasQueue
<1>3. key' # 0 => \/ \A n \in DOMAIN got[key'] : got[key'][n] # EXIT_MESSAGE
                  \/ pc'["receiver"] = "cleanup" /\ msqid'["receiver"] = key'
  BY DEF IInv, TypeOK, NoExit, Roles
<1>4. UNCHANGED <<queue, sent, got>> /\ made <= made'
  BY DEF IInv, TypeOK
<1> QED
  BY <1>1, <1>2, <1>3, <1>4, QuietStep

LEMMA MsggetOK == ASSUME NEW r \in Roles PROVE IInv /\ Msgget(r) => IInv'
<1> SUFFICES ASSUME IInv, Msgget(r) PROVE IInv'
  OBVIOUS
<1>1. UNCHANGED <<input, queue, left, sent, got>>
  BY DEF Msgget, history
<1>2. /\ pc[r] = "msgget"
      /\ pc' = [pc EXCEPT ![r] = IF r = "sender" THEN "fopen" ELSE "receive"]
      /\ msqid' = [msqid EXCEPT ![r] = key']
  BY DEF Msgget, Go
<1>3. \/ key \in Queues /\ key' = key /\ made' = made
      \/ key' \in Queues /\ made' = made + 1 /\ key' = made'
  <2>1. CASE key # 0
    BY <2>1 DEF IInv, TypeOK, Msgget
  <2>2. CASE key = 0
    <3>1. made < MaxQueues /\ made' = made + 1 /\ key' = made'
      BY <2>2 DEF Msgget
    <3>2. made \in Nat /\ MaxQueues \in Nat
      BY MsgAssumption DEF IInv, TypeOK
    <3>3. made + 1 \in 1 .. MaxQueues
      BY <3>1, <3>2
    <3> QED
      BY <3>1, <3>3 DEF Queues
  <2> QED
    BY <2>1, <2>2
<1>4. made \in Nat /\ made' \in Nat /\ made <= made' /\ key' \in Queues /\ key' <= made' /\ key' # 0
  BY <1>3 DEF IInv, TypeOK, Queues
<1>5. TypeOK'
  BY <1>1, <1>2, <1>4 DEF IInv, TypeOK, Places
<1>6. HasQueue'
  BY <1>2, <1>4 DEF IInv, TypeOK, HasQueue
<1>7. \/ \A n \in DOMAIN got[key'] : got[key'][n] # EXIT_MESSAGE
      \/ pc'["receiver"] = "cleanup" /\ msqid'["receiver"] = key'
  <2>1. CASE key' = key
    BY <1>2, <1>4, <2>1 DEF IInv, TypeOK, NoExit, Roles
  <2>2. CASE key' # key
    <3>1. key' > made
      BY <1>3, <2>2 DEF IInv, TypeOK
    <3>2. got[key'] = << >>
      BY <1>4, <3>1 DEF IInv
    <3>3. DOMAIN << >> = {}
      OBVIOUS
    <3> QED
      BY <3>2, <3>3
  <2> QED
    BY <2>1, <2>2
<1> QED
  BY <1>1, <1>4, <1>5, <1>6, <1>7, QuietStep

LEMMA OpenOK == IInv /\ Open => IInv'
<1> SUFFICES ASSUME IInv, Open PROVE IInv'
  OBVIOUS
<1> USE DEF Open, Go, queueVars, history
<1>1. left' \in Seq(Text)
  BY ScriptTexts DEF IInv, TypeOK
<1>2. TypeOK'
  BY <1>1 DEF IInv, TypeOK, Places
<1>3. HasQueue'
  BY DEF IInv, TypeOK, HasQueue, Roles
<1>4. key' # 0 => \/ \A n \in DOMAIN got[key'] : got[key'][n] # EXIT_MESSAGE
                  \/ pc'["receiver"] = "cleanup" /\ msqid'["receiver"] = key'
  BY DEF IInv, TypeOK, NoExit, Roles
<1>5. UNCHANGED <<queue, sent, got>> /\ made <= made'
  BY DEF IInv, TypeOK
<1> QED
  BY <1>2, <1>3, <1>4, <1>5, QuietStep

LEMMA MsggetFailsOK == ASSUME NEW r \in Roles PROVE IInv /\ MsggetFails(r) => IInv'
<1> SUFFICES ASSUME IInv, MsggetFails(r) PROVE IInv'
  OBVIOUS
<1>1. /\ pc[r] = "msgget" /\ pc' = [pc EXCEPT ![r] = "off"]
      /\ UNCHANGED <<input, key, made, queue, msqid, left, sent, got>>
  BY DEF MsggetFails, Go, queueVars, history
<1>2. TypeOK'
  BY <1>1 DEF IInv, TypeOK, Places
<1>3. HasQueue'
  BY <1>1 DEF IInv, TypeOK, HasQueue
<1>4. key' # 0 => \/ \A n \in DOMAIN got[key'] : got[key'][n] # EXIT_MESSAGE
                  \/ pc'["receiver"] = "cleanup" /\ msqid'["receiver"] = key'
  BY <1>1 DEF IInv, TypeOK, NoExit, Roles
<1>5. made <= made'
  BY <1>1 DEF IInv, TypeOK
<1> QED
  BY <1>1, <1>2, <1>3, <1>4, <1>5, QuietStep

LEMMA SenderQuietOK == IInv /\ (OpenFails \/ SenderEnds) => IInv'
<1> SUFFICES ASSUME IInv, OpenFails \/ SenderEnds PROVE IInv'
  OBVIOUS
<1> USE DEF OpenFails, SenderEnds, Go, queueVars, history
<1>1. TypeOK'
  BY DEF IInv, TypeOK, Places
<1>2. HasQueue'
  BY DEF IInv, TypeOK, HasQueue, Roles
<1>3. key' # 0 => \/ \A n \in DOMAIN got[key'] : got[key'][n] # EXIT_MESSAGE
                  \/ pc'["receiver"] = "cleanup" /\ msqid'["receiver"] = key'
  BY DEF IInv, TypeOK, NoExit, Roles
<1>4. UNCHANGED <<queue, sent, got>> /\ made <= made'
  BY DEF IInv, TypeOK
<1> QED
  BY <1>1, <1>2, <1>3, <1>4, QuietStep

LEMMA QueueGoneOK == ASSUME NEW r \in Roles PROVE IInv /\ QueueGone(r) => IInv'
<1> SUFFICES ASSUME IInv, QueueGone(r) PROVE IInv'
  OBVIOUS
<1>1. /\ pc[r] \in {"send", "receive"} /\ pc' = [pc EXCEPT ![r] = "off"]
      /\ UNCHANGED <<input, key, made, queue, msqid, left, sent, got>>
  BY DEF QueueGone, Go, queueVars, history
<1>2. TypeOK'
  BY <1>1 DEF IInv, TypeOK, Places
<1>3. HasQueue'
  BY <1>1 DEF IInv, TypeOK, HasQueue
<1>4. key' # 0 => \/ \A n \in DOMAIN got[key'] : got[key'][n] # EXIT_MESSAGE
                  \/ pc'["receiver"] = "cleanup" /\ msqid'["receiver"] = key'
  BY <1>1 DEF IInv, TypeOK, NoExit, Roles
<1>5. made <= made'
  BY <1>1 DEF IInv, TypeOK
<1> QED
  BY <1>1, <1>2, <1>3, <1>4, <1>5, QuietStep

(* The receiver that took the exit message of a queue removes that queue.  *)
LEMMA CleanupOK == ASSUME NEW r \in Roles PROVE IInv /\ Cleanup(r) => IInv'
<1> SUFFICES ASSUME IInv, Cleanup(r) PROVE IInv'
  OBVIOUS
<1>1. /\ pc[r] = "cleanup" /\ pc' = [pc EXCEPT ![r] = "off"]
      /\ key' = IF key # msqid[r] THEN key ELSE 0
      /\ UNCHANGED <<input, made, queue, msqid, left, sent, got>>
  BY DEF Cleanup, Go, Gone, history
<1>2. TypeOK'
  BY <1>1 DEF IInv, TypeOK, Places
<1>3. HasQueue'
  BY <1>1 DEF IInv, TypeOK, HasQueue
<1>4. key' # 0 => \/ \A n \in DOMAIN got[key'] : got[key'][n] # EXIT_MESSAGE
                  \/ pc'["receiver"] = "cleanup" /\ msqid'["receiver"] = key'
  <2>1. SUFFICES ASSUME key' # 0, ~NoExit(key)
                 PROVE  pc'["receiver"] = "cleanup" /\ msqid'["receiver"] = key'
    BY <1>1 DEF NoExit
  <2>2. key' = key /\ key # msqid[r]
    BY <1>1, <2>1
  <2>3. pc["receiver"] = "cleanup" /\ msqid["receiver"] = key
    BY <2>1, <2>2 DEF IInv
  <2>4. r # "receiver"
    BY <2>2, <2>3
  <2> QED
    BY <1>1, <2>2, <2>3, <2>4 DEF IInv, TypeOK, Roles
<1>5. made <= made'
  BY <1>1 DEF IInv, TypeOK
<1> QED
  BY <1>1, <1>2, <1>3, <1>4, <1>5, QuietStep

LEMMA MsgNextOK == IInv /\ [Next]_vars => IInv'
<1> SUFFICES ASSUME IInv, [Next]_vars PROVE IInv'
  OBVIOUS
<1>1. CASE UNCHANGED vars
  BY <1>1 DEF IInv, TypeOK, HasQueue, Fifo, Joined, NoExit, vars, queueVars, history
<1>2. CASE Next
  <2>1. PICK r \in Roles : Launch(r) \/ Run(r)
    BY <1>2 DEF Next
  <2> QED
    BY <2>1, LaunchOK, MsggetOK, MsggetFailsOK, OpenOK, SenderQuietOK, QueueGoneOK, CleanupOK,
       SendOK, ReceiveOK DEF Run
<1> QED
  BY <1>1, <1>2

-----------------------------------------------------------------------------
(* A step of lab1 is, at every queue, a step of its mailbox or none.       *)
LEMMA MailboxStep ==
  ASSUME IInv, [Next]_vars, NEW q \in Queues
  PROVE  Mailbox(q)!Next \/ UNCHANGED <<sent[q], got[q]>>
<1>1. CASE Send
  <2>1. PICK t \in Text :
          /\ key \in Queues
          /\ queue[key] \in Seq(Text) /\ sent[key] \in Seq(Text) /\ got[key] \in Seq(Text)
          /\ Len(queue[key]) < QueueMax /\ Joined(sent[key], got[key], queue[key])
          /\ sent' = [sent EXCEPT ![key] = Append(@, t)] /\ got' = got
    BY <1>1, SendFacts
  <2>2. CASE q = key
    <3>1. Len(sent[q]) < Len(got[q]) + QueueMax
      <4>1. Len(queue[q]) \in Nat /\ Len(got[q]) \in Nat
        BY <2>1, <2>2, LenProperties
      <4>2. Len(sent[q]) = Len(got[q]) + Len(queue[q]) /\ Len(queue[q]) < QueueMax
        BY <2>1, <2>2 DEF Joined
      <4>3. \A a, b \in Nat : b < QueueMax => a + b < a + QueueMax
        BY MsgAssumption
      <4>4. Len(got[q]) + Len(queue[q]) < Len(got[q]) + QueueMax
        BY <4>1, <4>2, <4>3
      <4> QED
        BY <4>2, <4>4
    <3>2. sent'[q] = Append(sent[q], t) /\ got'[q] = got[q]
      BY <2>1, <2>2 DEF IInv, TypeOK
    <3> QED
      BY <3>1, <3>2 DEF Mailbox!Next, Mailbox!Put
  <2>3. CASE q # key
    BY <2>1, <2>3 DEF IInv, TypeOK
  <2> QED
    BY <2>2, <2>3
<1>2. CASE Receive
  <2> DEFINE text == Head(queue[key])
  <2>1. /\ key \in Queues /\ NoExit(key)
        /\ Len(got[key]) < Len(sent[key]) /\ text = sent[key][Len(got[key]) + 1]
        /\ got' = [got EXCEPT ![key] = Append(@, text)] /\ sent' = sent
    BY <1>2, ReceiveFacts
  <2> HIDE DEF text
  <2>2. CASE q = key
    <3>1. got'[q] = Append(got[q], sent[q][Len(got[q]) + 1]) /\ sent'[q] = sent[q]
      BY <2>1, <2>2 DEF IInv, TypeOK
    <3> QED
      BY <2>1, <2>2, <3>1 DEF Mailbox!Next, Mailbox!Take, NoExit
  <2>3. CASE q # key
    BY <2>1, <2>3 DEF IInv, TypeOK
  <2> QED
    BY <2>2, <2>3
<1>3. CASE UNCHANGED vars
  BY <1>3 DEF vars, history
<1>4. ASSUME NEW r \in Roles,
             \/ Launch(r) \/ Msgget(r) \/ MsggetFails(r) \/ QueueGone(r) \/ Cleanup(r)
             \/ Open \/ OpenFails \/ SenderEnds
      PROVE  UNCHANGED <<sent[q], got[q]>>
  BY <1>4 DEF Launch, Msgget, MsggetFails, QueueGone, Cleanup, Open, OpenFails, SenderEnds, history
<1> QED
  BY <1>1, <1>2, <1>3, <1>4 DEF Next, Run

(***************************************************************************)
(* QueueIsMailbox: whatever the sender's files hold, whichever program is  *)
(* started how often, and however many messages fit, every queue takes no  *)
(* more than fit and gives each text once, in order, and none after the    *)
(* exit message.                                                           *)
(***************************************************************************)
THEOREM QueueIsMailbox == Spec => ImplementsMailbox
<1>1. Init => \A q \in Queues : Mailbox(q)!Init
  BY DEF Init, Mailbox!Init
<1>2. IInv /\ [Next]_vars =>
        [\A q \in Queues : Mailbox(q)!Next \/ UNCHANGED <<sent[q], got[q]>>]_history
  BY MailboxStep
<1> QED
  BY <1>1, <1>2, MsgInitOK, MsgNextOK, PTL DEF Spec, ImplementsMailbox

-----------------------------------------------------------------------------
LEMMA OnceInit == Init => OnceInv
<1>1. Init => \A q \in Queues : sent[q] = << >>
  BY DEF Init
<1> QED
  BY <1>1 DEF Init, OnceInv, OnceOK, Roles

(* A receiver that is about to remove a queue took a message of the sender *)
(* from it.                                                                *)
LEMMA ReceiverMetSender ==
  ASSUME IInv, OnceOK, pc["receiver"] = "cleanup"
  PROVE  msqid["receiver"] \in Queues /\ msqid["sender"] = msqid["receiver"]
<1> DEFINE q == msqid["receiver"]
<1>1. "receiver" \in Roles /\ q \in Queues /\ got[q] # << >>
  BY DEF IInv, TypeOK, HasQueue, OnceOK, Roles
<1>2. sent[q] \in Seq(Text) /\ got[q] \in Seq(Text) /\ queue[q] \in Seq(Text)
      /\ Joined(sent[q], got[q], queue[q])
  BY <1>1 DEF IInv, TypeOK, Fifo
<1>3. sent[q] # << >>
  <2>1. Len(got[q]) \in Nat \ {0} /\ Len(queue[q]) \in Nat
    BY <1>1, <1>2, LenProperties, EmptySeq
  <2>2. Len(sent[q]) = Len(got[q]) + Len(queue[q])
    BY <1>2 DEF Joined
  <2>3. \A a \in Nat \ {0}, b \in Nat : a + b # 0
    OBVIOUS
  <2>4. Len(sent[q]) # 0
    BY <2>1, <2>2, <2>3
  <2> QED
    BY <2>4
<1> QED
  BY <1>1, <1>3 DEF OnceOK

LEMMA OnceLaunch == ASSUME NEW r \in Roles PROVE IInv /\ OnceInv /\ Launch(r) => OnceInv'
<1> SUFFICES ASSUME IInv, OnceInv, Launch(r) PROVE OnceInv'
  OBVIOUS
<1>1. /\ pc[r] = "off" /\ pc' = [pc EXCEPT ![r] = "msgget"]
      /\ launches' = [launches EXCEPT ![r] = @ + 1]
      /\ msqid' = [msqid EXCEPT ![r] = 0]
      /\ UNCHANGED <<key, sent, got>>
  BY DEF Launch, Go, queueVars, history
<1>2. launches' \in [Roles -> Nat] /\ launches'[r] = launches[r] + 1
      /\ \A o \in Roles \ {r} : launches'[o] = launches[o]
  BY <1>1 DEF OnceInv
<1>3. ASSUME OneRun' PROVE OnceOK'
  <2>1. launches[r] = 0 /\ OneRun
    BY <1>2, <1>3 DEF OneRun, OnceInv
  <2>2. OnceOK /\ msqid[r] = 0
    BY <2>1 DEF OnceInv, OnceOK
  <2>3. msqid' = msqid
    BY <1>1, <2>2 DEF IInv, TypeOK
  <2> QED
    BY <1>1, <1>2, <2>1, <2>2, <2>3 DEF OnceOK, IInv, TypeOK
<1> QED
  BY <1>2, <1>3 DEF OnceInv

LEMMA OnceMsgget == ASSUME NEW r \in Roles PROVE IInv /\ OnceInv /\ Msgget(r) => OnceInv'
<1> SUFFICES ASSUME IInv, OnceInv, Msgget(r), OneRun PROVE OnceOK'
  BY DEF OnceInv, Msgget, OneRun
<1>1. /\ pc[r] = "msgget"
      /\ pc' = [pc EXCEPT ![r] = IF r = "sender" THEN "fopen" ELSE "receive"]
      /\ msqid' = [msqid EXCEPT ![r] = key'] /\ (key # 0 => key' = key)
      /\ UNCHANGED <<launches, sent, got>>
  BY DEF Msgget, Go, history
<1>2. key' # 0
  BY DEF Msgget, IInv, TypeOK
<1>3. OnceOK /\ msqid[r] = 0
  BY <1>1 DEF OnceInv, OnceOK
<1>4. pc \in [Roles -> Places] /\ msqid \in [Roles -> Queues \cup {0}] /\ 0 \notin Queues
  BY DEF IInv, TypeOK, Queues
<1>5. CASE r = "sender"
  <2>1. \A q \in Queues : sent[q] = << >>
    BY <1>3, <1>4, <1>5 DEF OnceOK
  <2>2. msqid["receiver"] \in {0, key}
    BY <1>3, <1>5 DEF OnceOK
  <2>3. msqid["receiver"] # 0 => key' = key
    BY <1>1, <2>2
  <2>4. pc'["receiver"] = pc["receiver"] /\ msqid'["receiver"] = msqid["receiver"]
        /\ pc'["sender"] = "fopen" /\ msqid'["sender"] = key'
    BY <1>1, <1>4, <1>5 DEF Roles
  <2> QED
    BY <1>1, <1>2, <1>3, <1>5, <2>1, <2>2, <2>3, <2>4 DEF OnceOK, Roles
<1>6. CASE r = "receiver"
  <2>1. pc'["sender"] = pc["sender"] /\ msqid'["sender"] = msqid["sender"]
        /\ pc'["receiver"] = "receive" /\ msqid'["receiver"] = key'
    BY <1>1, <1>4, <1>6 DEF Roles
  <2> QED
    BY <1>1, <1>2, <1>3, <1>6, <2>1 DEF OnceOK, Roles
<1> QED
  BY <1>5, <1>6 DEF Roles

LEMMA OnceMsggetFails ==
  ASSUME NEW r \in Roles
  PROVE  IInv /\ OnceInv /\ MsggetFails(r) => OnceInv'
<1> SUFFICES ASSUME IInv, OnceInv, MsggetFails(r), OneRun PROVE OnceOK'
  BY DEF OnceInv, MsggetFails, OneRun, queueVars
<1>1. /\ pc[r] = "msgget" /\ pc' = [pc EXCEPT ![r] = "off"]
      /\ UNCHANGED <<key, launches, msqid, sent, got>>
  BY DEF MsggetFails, Go, queueVars, history
<1>2. OnceOK /\ msqid[r] = 0
  BY <1>1 DEF OnceInv, OnceOK
<1>3. pc'[r] = "off" /\ \A o \in Roles \ {r} : pc'[o] = pc[o]
  BY <1>1 DEF IInv, TypeOK
<1> QED
  BY <1>1, <1>2, <1>3 DEF OnceOK, Roles

LEMMA OnceMessage == IInv /\ OnceInv /\ (Send \/ Receive) => OnceInv'
<1> SUFFICES ASSUME IInv, OnceInv, Send \/ Receive, OneRun PROVE OnceOK'
  BY DEF OnceInv, Send, Receive, OneRun
<1>0. OnceOK /\ "sender" \in Roles /\ "receiver" \in Roles
  BY DEF OnceInv, Roles
<1>1. CASE Send
  <2>1. key \in Queues /\ sent' = [sent EXCEPT ![key] = Append(@, Head(left))]
        /\ pc' = [pc EXCEPT !["sender"] = "send"]
        /\ UNCHANGED <<got, key, msqid>>
    BY <1>1, SendFacts
  <2>2. pc["sender"] = "send" /\ msqid["sender"] = key /\ UNCHANGED launches
    BY <1>1 DEF Send, Go, Gone
  <2>3. pc' = pc
    BY <2>1, <2>2 DEF IInv, TypeOK
  <2>4. \A q \in Queues : sent'[q] # << >> => msqid["sender"] = q
    BY <1>0, <2>1, <2>2 DEF OnceOK, IInv, TypeOK
  <2> QED
    BY <1>0, <2>1, <2>2, <2>3, <2>4 DEF OnceOK
<1>2. CASE Receive
  <2> DEFINE t == Head(queue[key])
  <2>1. key \in Queues /\ t \in Text /\ got[key] \in Seq(Text)
        /\ got' = [got EXCEPT ![key] = Append(@, t)]
        /\ pc' = [pc EXCEPT !["receiver"] = IF t = EXIT_MESSAGE THEN "cleanup" ELSE "receive"]
        /\ UNCHANGED <<sent, key, msqid>> /\ msqid["receiver"] = key
    BY <1>2, ReceiveFacts
  <2>2. pc["receiver"] = "receive" /\ UNCHANGED launches
    BY <1>2 DEF Receive, Go
  <2> HIDE DEF t
  <2>3. got'[key] # << >>
    <3>1. got'[key] = Append(got[key], t)
      BY <2>1 DEF IInv, TypeOK
    <3>2. Len(Append(got[key], t)) = Len(got[key]) + 1 /\ Len(got[key]) \in Nat
      BY <2>1, AppendProperties, LenProperties
    <3>3. Len(got'[key]) # 0
      BY <3>1, <3>2
    <3> QED
      BY <3>3
  <2>4. pc'["receiver"] \in {"cleanup", "receive"} /\ pc'["sender"] = pc["sender"]
    BY <1>0, <2>1 DEF IInv, TypeOK
  <2> QED
    BY <1>0, <2>1, <2>2, <2>3, <2>4 DEF OnceOK, Roles
<1> QED
  BY <1>1, <1>2

LEMMA OnceEnds ==
  ASSUME NEW r \in Roles
  PROVE  IInv /\ OnceInv /\ (QueueGone(r) \/ Cleanup(r)) => OnceInv'
<1> SUFFICES ASSUME IInv, OnceInv, QueueGone(r) \/ Cleanup(r), OneRun PROVE OnceOK'
  BY DEF OnceInv, QueueGone, Cleanup, OneRun
<1>1. /\ pc[r] \in {"send", "receive", "cleanup"} /\ pc' = [pc EXCEPT ![r] = "off"]
      /\ UNCHANGED <<launches, msqid, sent, got>>
      /\ key' = key \/ (key = msqid[r] /\ key' = 0)
      /\ key' # msqid[r] /\ (key' # key => pc[r] = "cleanup")
  <2>1. pc[r] \in {"send", "receive", "cleanup"} => msqid[r] # 0
    BY DEF IInv, HasQueue
  <2> QED
    BY <2>1 DEF QueueGone, Cleanup, Go, Gone, queueVars, history
<1>2. OnceOK /\ launches[r] # 0 /\ msqid[r] # 0
  BY <1>1 DEF OnceInv, OnceOK, IInv, HasQueue
<1>3. pc'[r] = "off" /\ \A o \in Roles \ {r} : pc'[o] = pc[o]
  BY <1>1 DEF IInv, TypeOK
<1>4. msqid["receiver"] \notin {0, key'} => key' = 0 /\ msqid["sender"] # 0
  <2>1. CASE key' = key
    BY <1>2, <2>1 DEF OnceOK
  <2>2. CASE key' # key /\ r = "sender"
    BY <1>1, <1>2, <2>2
  <2>3. CASE key' # key /\ r = "receiver"
    <3>1. msqid["sender"] = msqid["receiver"]
      BY <1>1, <1>2, <2>3, ReceiverMetSender
    <3> QED
      BY <1>1, <1>2, <2>3, <3>1
  <2> QED
    BY <2>1, <2>2, <2>3 DEF Roles
<1>5. pc'["receiver"] = "off" => msqid["receiver"] = 0 \/ msqid["receiver"] # key'
  <2>1. CASE r = "receiver"
    BY <1>1, <1>2, <2>1
  <2>2. CASE r # "receiver"
    BY <1>1, <1>2, <1>3, <2>2 DEF OnceOK, Roles
  <2> QED
    BY <2>1, <2>2
<1> QED
  BY <1>1, <1>2, <1>3, <1>4, <1>5 DEF OnceOK, Roles

LEMMA OnceQuiet == IInv /\ OnceInv /\ (Open \/ OpenFails \/ SenderEnds) => OnceInv'
<1> SUFFICES ASSUME IInv, OnceInv, Open \/ OpenFails \/ SenderEnds, OneRun PROVE OnceOK'
  BY DEF OnceInv, Open, OpenFails, SenderEnds, OneRun
<1>1. /\ pc["sender"] \in {"fopen", "send"}
      /\ \E to \in {"send", "cleanup", "off"} : pc' = [pc EXCEPT !["sender"] = to]
      /\ UNCHANGED <<key, launches, msqid, sent, got>>
  BY DEF Open, OpenFails, SenderEnds, Go, queueVars, history
<1>2. OnceOK /\ launches["sender"] # 0
  BY <1>1 DEF OnceInv, OnceOK, Roles
<1>3. pc'["sender"] \in {"send", "cleanup", "off"} /\ pc'["receiver"] = pc["receiver"]
  BY <1>1 DEF IInv, TypeOK, Roles
<1> QED
  BY <1>1, <1>2, <1>3 DEF OnceOK, Roles

LEMMA OnceStep == IInv /\ OnceInv /\ [Next]_vars => OnceInv'
<1> SUFFICES ASSUME IInv, OnceInv, [Next]_vars PROVE OnceInv'
  OBVIOUS
<1>1. CASE UNCHANGED vars
  BY <1>1 DEF OnceInv, OneRun, OnceOK, vars, queueVars, history
<1>2. CASE Next
  <2>1. PICK r \in Roles : Launch(r) \/ Run(r)
    BY <1>2 DEF Next
  <2> QED
    BY <2>1, OnceLaunch, OnceMsgget, OnceMsggetFails, OnceMessage, OnceEnds, OnceQuiet DEF Run
<1> QED
  BY <1>1, <1>2

(***************************************************************************)
(* NothingIsLeft: both programs started once and ended, and the receiver   *)
(* with a queue: whichever ended last, and whether or not the sender       *)
(* failed, no queue can be found any more.                                 *)
(***************************************************************************)
THEOREM NothingIsLeft == Spec => []NothingLeft
<1>1. OnceInv => NothingLeft
  BY DEF OnceInv, OneRun, OnceOK, NothingLeft, RunOnce, BothEnded, Roles
<1> QED
  BY <1>1, MsgInitOK, MsgNextOK, OnceInit, OnceStep, PTL DEF Spec
=============================================================================
