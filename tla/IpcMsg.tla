------------------------------- MODULE IpcMsg -------------------------------
(***************************************************************************)
(* The message-queue mailbox of lab1: sender and receiver meet in a System *)
(* V queue that outlives both.  msgsnd and msgrcv are polled: EAGAIN and   *)
(* ENOMSG lead back to the same call after a nap, so a full and an empty   *)
(* queue are guards here.                                                  *)
(***************************************************************************)
EXTENDS IpcInput

CONSTANTS
  Inputs,     \* input files: sequences of lines, some of them "EOF"
  Launches,   \* times each program is started, at most
  MaxQueues,  \* queues ever created, at most
  QueueMax,   \* messages that fit the queue (msg_qbytes)
  Faults      \* calls that may fail, of "msgget" (with its ftok) and "fopen"

Roles == {"sender", "receiver"}
Queues == 1 .. MaxQueues

ASSUME MsgAssumption ==
  /\ Inputs \subseteq Seq(STRING)
  /\ Launches \in Nat /\ MaxQueues \in Nat /\ QueueMax \in Nat \ {0}
  /\ Faults \subseteq {"msgget", "fopen"}

VARIABLES
  input,      \* the file the sender is given
  key,        \* the queue msgget finds, 0 for none
  made,       \* queues created so far: their numbers are their msqids
  queue,      \* what each queue holds
  pc, msqid, failed,  \* of each role's process
  left,       \* texts the sender has still to send
  launches,
  sent, got   \* texts stored in, and taken from, each queue so far

queueVars == <<key, made, queue>>
history == <<sent, got>>
vars == <<input, queueVars, pc, msqid, failed, left, launches, history>>

Init ==
  /\ input \in Inputs
  /\ key = 0 /\ made = 0
  /\ queue = [q \in Queues |-> << >>]
  /\ pc = [r \in Roles |-> "off"]
  /\ msqid = [r \in Roles |-> 0]
  /\ failed = [r \in Roles |-> FALSE]
  /\ left = << >>
  /\ launches = [r \in Roles |-> 0]
  /\ sent = [q \in Queues |-> << >>]
  /\ got = [q \in Queues |-> << >>]

Go(r, from, to) == pc[r] = from /\ pc' = [pc EXCEPT ![r] = to]
Gone(r) == key # msqid[r]

Launch(r) ==
  /\ Go(r, "off", "msgget")
  /\ launches[r] < Launches
  /\ launches' = [launches EXCEPT ![r] = @ + 1]
  /\ failed' = [failed EXCEPT ![r] = FALSE]
  /\ msqid' = [msqid EXCEPT ![r] = 0]
  /\ UNCHANGED <<input, queueVars, left, history>>

(* msgget with IPC_CREAT alone: the queue of the key, or a new one. *)
Msgget(r) ==
  /\ Go(r, "msgget", IF r = "sender" THEN "fopen" ELSE "receive")
  /\ IF key # 0 THEN UNCHANGED <<key, made>>
     ELSE made < MaxQueues /\ made' = made + 1 /\ key' = made'
  /\ msqid' = [msqid EXCEPT ![r] = key']
  /\ UNCHANGED <<input, queue, failed, left, launches, history>>

(* ftok or msgget fails: mailbox.flag is not set, nothing is cleaned up.   *)
MsggetFails(r) ==
  /\ "msgget" \in Faults
  /\ Go(r, "msgget", "off")
  /\ failed' = [failed EXCEPT ![r] = TRUE]
  /\ UNCHANGED <<input, queueVars, msqid, left, launches, history>>

Open ==
  /\ Go("sender", "fopen", "send")
  /\ left' = Script(input)
  /\ UNCHANGED <<input, queueVars, msqid, failed, launches, history>>

OpenFails ==
  /\ "fopen" \in Faults
  /\ Go("sender", "fopen", "cleanup")
  /\ failed' = [failed EXCEPT !["sender"] = TRUE]
  /\ UNCHANGED <<input, queueVars, msqid, left, launches, history>>

(* Mutant: msgsnd reports a full queue and the message is given up. *)
Send_NoRetry ==
  /\ Go("sender", "send", "send")
  /\ left # << >> /\ ~Gone("sender")
  /\ IF Len(queue[key]) < QueueMax
     THEN /\ queue' = [queue EXCEPT ![key] = Append(@, Head(left))]
          /\ sent' = [sent EXCEPT ![key] = Append(@, Head(left))]
     ELSE UNCHANGED <<queue, sent>>
  /\ left' = Tail(left)
  /\ UNCHANGED <<input, key, made, msqid, failed, launches, got>>

(* fgets and the msgsnd that succeeds. *)
Send ==
  /\ Go("sender", "send", "send")
  /\ left # << >> /\ ~Gone("sender")
  /\ Len(queue[key]) < QueueMax
  /\ queue' = [queue EXCEPT ![key] = Append(@, Head(left))]
  /\ sent' = [sent EXCEPT ![key] = Append(@, Head(left))]
  /\ left' = Tail(left)
  /\ UNCHANGED <<input, key, made, msqid, failed, launches, got>>

(* All is sent; the queue stays for the receiver. *)
SenderEnds ==
  /\ Go("sender", "send", "off")
  /\ left = << >>
  /\ UNCHANGED <<input, queueVars, msqid, failed, left, launches, history>>

(* Mutant: the receiver takes the newest message. *)
Receive_Newest ==
  LET q == queue[key] IN
  /\ pc["receiver"] = "receive" /\ ~Gone("receiver") /\ q # << >>
  /\ Go("receiver", "receive", IF q[Len(q)] = EXIT_MESSAGE THEN "cleanup" ELSE "receive")
  /\ queue' = [queue EXCEPT ![key] = SubSeq(q, 1, Len(q) - 1)]
  /\ got' = [got EXCEPT ![key] = Append(@, q[Len(q)])]
  /\ UNCHANGED <<input, key, made, msqid, failed, left, launches, sent>>

(* The msgrcv that succeeds takes the oldest message of any type. *)
Receive ==
  LET text == Head(queue[key]) IN
  /\ pc["receiver"] = "receive" /\ ~Gone("receiver") /\ queue[key] # << >>
  /\ Go("receiver", "receive", IF text = EXIT_MESSAGE THEN "cleanup" ELSE "receive")
  /\ queue' = [queue EXCEPT ![key] = Tail(@)]
  /\ got' = [got EXCEPT ![key] = Append(@, text)]
  /\ UNCHANGED <<input, key, made, msqid, failed, left, launches, sent>>

(* The queue was removed: msgsnd or msgrcv fails and the process exits. *)
QueueGone(r) ==
  /\ Gone(r)
  /\ \E from \in {"send", "receive"} : Go(r, from, "off")
  /\ r = "sender" => left # << >>
  /\ failed' = [failed EXCEPT ![r] = TRUE]
  /\ UNCHANGED <<input, queueVars, msqid, left, launches, history>>

(* Mutant: the queue is removed after a failure only. *)
Cleanup_FailedOnly(r) ==
  /\ Go(r, "cleanup", "off")
  /\ key' = IF Gone(r) \/ ~failed[r] THEN key ELSE 0
  /\ UNCHANGED <<input, made, queue, msqid, failed, left, launches, history>>

(* cleanup of a receiver that is done or a sender that failed: IPC_RMID. *)
Cleanup(r) ==
  /\ Go(r, "cleanup", "off")
  /\ key' = IF Gone(r) THEN key ELSE 0
  /\ UNCHANGED <<input, made, queue, msqid, failed, left, launches, history>>

Run(r) ==
  \/ Msgget(r) \/ MsggetFails(r) \/ QueueGone(r) \/ Cleanup(r)
  \/ r = "sender" /\ (Open \/ OpenFails \/ Send \/ SenderEnds)
  \/ r = "receiver" /\ Receive

Next == \E r \in Roles : Launch(r) \/ Run(r)

Spec == Init /\ [][Next]_vars

(* A started program runs on unless its poll finds the queue full or empty. *)
FairSpec == Spec /\ \A r \in Roles : WF_vars(Run(r))

-----------------------------------------------------------------------------
(***************************************************************************)
(* ImplementsMailbox: every queue is a mailbox of QueueMax slots, whenever *)
(* the programs are started again.                                         *)
(***************************************************************************)
Text == UNION {ToSet(Script(file)) : file \in Inputs}
Mailbox(q) == INSTANCE IpcMailbox WITH
                sent <- sent[q], got <- got[q], Texts <- Text, Capacity <- QueueMax
ImplementsMailbox ==
  /\ \A q \in Queues : Mailbox(q)!Init
  /\ [][\A q \in Queues : Mailbox(q)!Next \/ UNCHANGED <<sent[q], got[q]>>]_history

(***************************************************************************)
(* NothingLeft: when both programs have run once and ended, and the        *)
(* receiver got its queue, then that or any other queue is removed,        *)
(* whichever ended last and whether the sender sent, found no input file,  *)
(* lost its queue or never had one.  (A receiver for which ftok or msgget  *)
(* fails leaves the queue of its sender: nobody else removes that.)        *)
(***************************************************************************)
RunOnce == \A r \in Roles : launches[r] = 1
BothEnded == \A r \in Roles : pc[r] = "off"
NothingLeft == RunOnce /\ BothEnded /\ msqid["receiver"] # 0 => key = 0

(***************************************************************************)
(* AllDelivered: if both programs are started, none of them again, no call *)
(* fails and no line of the input is the exit message itself, the receiver *)
(* gets every line before "EOF" and the exit message, and both end,        *)
(* although neither call blocks and the queue may fill.                    *)
(***************************************************************************)
OneCleanRun ==
  /\ \A r \in Roles : launches[r] <= 1 /\ ~failed[r]
  /\ EXIT_MESSAGE \notin ToSet(input)
AllDelivered ==
  []OneCleanRun /\ <>RunOnce => <>(BothEnded /\ got[1] = Script(input))
=============================================================================
