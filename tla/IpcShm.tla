------------------------------- MODULE IpcShm -------------------------------
(***************************************************************************)
(* The shared-memory mailbox of lab1: sender and receiver meet in a System *)
(* V segment under one key.  Whoever creates it initialises the semaphores *)
(* and sets ready; the receiver removes it when it is done.                *)
(*                                                                         *)
(* Grain: one step for each system call, semaphore operation and access to *)
(* the shared fields.  length is represented by the text it was computed   *)
(* from.  is_exit is left out: it only reaches mType, which nobody reads;  *)
(* the receiver compares the text.                                         *)
(***************************************************************************)
EXTENDS IpcInput

CONSTANTS
  Inputs,    \* input files: sequences of lines, some of them "EOF"
  Launches,  \* times each program is started, at most
  MaxSegs,   \* segments ever created, at most
  Faults     \* calls that may fail, of "shmget" (with its ftok), "shmat",
             \* "sem_init", "fopen"

Roles == {"sender", "receiver"}
Segs == 1 .. MaxSegs

ASSUME IpcAssumption ==
  /\ Inputs \subseteq Seq(STRING)
  /\ Launches \in Nat /\ MaxSegs \in Nat
  /\ Faults \subseteq {"shmget", "shmat", "sem_init", "fopen"}

VARIABLES
  input,    \* the file the sender is given
  key,      \* the segment shmget finds, 0 for none
  made,     \* segments created so far: their numbers are their shmids
  seg,      \* the shm_mailbox_t of every segment
  pc, shmid, addr, created, failed, text,  \* of each role's process
  left,     \* texts the sender has still to send
  launches,
  sent, got  \* texts stored in, and taken from, each segment so far

segVars == <<key, made, seg>>
procVars == <<shmid, addr, created, failed, text, left, launches>>
history == <<sent, got>>
vars == <<input, segVars, pc, procVars, history>>

(* The text of a buffer of zero bytes. *)
NoText == ""
Zeroed == [ready |-> FALSE, mutex |-> 0, full |-> 0, empty |-> 0, buffer |-> NoText, length |-> NoText]

Init ==
  /\ input \in Inputs
  /\ key = 0 /\ made = 0
  /\ seg = [s \in Segs |-> Zeroed]
  /\ pc = [r \in Roles |-> "off"]
  /\ shmid = [r \in Roles |-> 0]
  /\ addr = [r \in Roles |-> 0]
  /\ created = [r \in Roles |-> FALSE]
  /\ failed = [r \in Roles |-> FALSE]
  /\ text = [r \in Roles |-> NoText]
  /\ left = << >>
  /\ launches = [r \in Roles |-> 0]
  /\ sent = [s \in Segs |-> << >>]
  /\ got = [s \in Segs |-> << >>]

Go(r, from, to) == pc[r] = from /\ pc' = [pc EXCEPT ![r] = to]
Box(r) == seg[addr[r]]
SetBox(r, box) == seg' = [seg EXCEPT ![addr[r]] = box]

(* A segment lives until it is removed and nobody has it attached. *)
Alive(s) == key = s \/ \E r \in Roles : addr[r] = s

(* Where main() goes on when the mailbox is ready for use. *)
Loop(r) == IF r = "sender" THEN "fopen" ELSE "full"

-----------------------------------------------------------------------------
(* main() of both programs up to the semaphores.                           *)
Launch(r) ==
  /\ Go(r, "off", "shmget")
  /\ launches[r] < Launches
  /\ launches' = [launches EXCEPT ![r] = @ + 1]
  /\ shmid' = [shmid EXCEPT ![r] = 0]
  /\ created' = [created EXCEPT ![r] = FALSE]
  /\ failed' = [failed EXCEPT ![r] = FALSE]
  /\ UNCHANGED <<input, segVars, addr, text, left, history>>

(* shmget with IPC_CREAT and IPC_EXCL creates the segment. *)
ShmCreate(r) ==
  /\ Go(r, "shmget", "shmat")
  /\ key = 0 /\ made < MaxSegs
  /\ made' = made + 1 /\ key' = made'
  /\ shmid' = [shmid EXCEPT ![r] = key']
  /\ created' = [created EXCEPT ![r] = TRUE]
  /\ UNCHANGED <<input, seg, addr, failed, text, left, launches, history>>

(* EEXIST: the key is looked up again without the flags. *)
ShmExists(r) ==
  /\ Go(r, "shmget", "shmget2")
  /\ key # 0
  /\ UNCHANGED <<input, segVars, procVars, history>>

(* The process gives up before mailbox.flag is set: cleanup does nothing. *)
Abandon(r) ==
  /\ pc' = [pc EXCEPT ![r] = "off"]
  /\ failed' = [failed EXCEPT ![r] = TRUE]
  /\ addr' = [addr EXCEPT ![r] = 0]
  /\ UNCHANGED <<input, made, shmid, created, text, left, launches, history>>

ShmFind(r) ==
  /\ Go(r, "shmget2", "shmat")
  /\ key # 0
  /\ shmid' = [shmid EXCEPT ![r] = key]
  /\ UNCHANGED <<input, segVars, addr, created, failed, text, left, launches, history>>

(* ftok or a shmget fails; the second one when the segment is gone.        *)
ShmgetFails(r) ==
  /\ pc[r] \in {"shmget", "shmget2"}
  /\ "shmget" \in Faults \/ (pc[r] = "shmget2" /\ key = 0)
  /\ Abandon(r) /\ UNCHANGED <<key, seg>>

Shmat(r) ==
  /\ Go(r, "shmat", IF created[r] THEN "init" ELSE "peer")
  /\ Alive(shmid[r])
  /\ addr' = [addr EXCEPT ![r] = shmid[r]]
  /\ UNCHANGED <<input, segVars, shmid, created, failed, text, left, launches, history>>

(* The segment is gone, or shmat fails; the receiver removes what it made. *)
ShmatFails(r) ==
  /\ pc[r] = "shmat"
  /\ ~Alive(shmid[r]) \/ "shmat" \in Faults
  /\ key' = IF r = "receiver" /\ created[r] THEN 0 ELSE key
  /\ Abandon(r) /\ UNCHANGED seg

(* Mutant: the mailbox is taken to have two slots. *)
InitSems_TwoSlots(r) ==
  /\ Go(r, "init", "set_ready")
  /\ SetBox(r, [Zeroed EXCEPT !.mutex = 1, !.empty = 2])
  /\ UNCHANGED <<input, key, made, procVars, history>>

(* memset and three sem_init. *)
InitSems(r) ==
  /\ Go(r, "init", "set_ready")
  /\ SetBox(r, [Zeroed EXCEPT !.mutex = 1, !.empty = 1])
  /\ UNCHANGED <<input, key, made, procVars, history>>

(* A sem_init fails: the receiver has set its flag, the sender has not. *)
InitFails(r) ==
  /\ "sem_init" \in Faults
  /\ pc[r] = "init"
  /\ SetBox(r, Zeroed)
  /\ IF r = "sender"
     THEN Abandon(r)
     ELSE /\ Go(r, "init", "cleanup")
          /\ failed' = [failed EXCEPT ![r] = TRUE]
          /\ UNCHANGED <<input, made, shmid, addr, created, text, left, launches, history>>
  /\ UNCHANGED key

SetReady(r) ==
  /\ Go(r, "set_ready", Loop(r))
  /\ SetBox(r, [Box(r) EXCEPT !.ready = TRUE])
  /\ UNCHANGED <<input, key, made, procVars, history>>

AwaitReady(r) ==
  /\ Go(r, "peer", Loop(r))
  /\ Box(r).ready
  /\ UNCHANGED <<input, segVars, procVars, history>>

-----------------------------------------------------------------------------
(* The loop of the sender.                                                 *)
Open ==
  /\ Go("sender", "fopen", "fgets")
  /\ left' = Script(input)
  /\ UNCHANGED <<input, segVars, shmid, addr, created, failed, text, launches, history>>

OpenFails ==
  /\ "fopen" \in Faults
  /\ Go("sender", "fopen", "cleanup")
  /\ failed' = [failed EXCEPT !["sender"] = TRUE]
  /\ UNCHANGED <<input, segVars, shmid, addr, created, text, left, launches, history>>

(* fgets has a line or the exit message is due; or all is sent. *)
NextMessage ==
  /\ Go("sender", "fgets", IF left = << >> THEN "cleanup" ELSE "empty")
  /\ left # << >> => text' = [text EXCEPT !["sender"] = Head(left)] /\ left' = Tail(left)
  /\ left = << >> => UNCHANGED <<text, left>>
  /\ UNCHANGED <<input, segVars, shmid, addr, created, failed, launches, history>>

(* Mutant: the value of empty is looked at and not taken. *)
WaitEmpty_Peek ==
  /\ Go("sender", "empty", "lock")
  /\ Box("sender").ready /\ Box("sender").empty > 0
  /\ UNCHANGED <<input, segVars, procVars, history>>

WaitEmpty ==
  /\ Go("sender", "empty", "lock")
  /\ Box("sender").ready /\ Box("sender").empty > 0
  /\ SetBox("sender", [Box("sender") EXCEPT !.empty = @ - 1])
  /\ UNCHANGED <<input, key, made, procVars, history>>

CopyText ==
  /\ Go("sender", "copy", "length")
  /\ SetBox("sender", [Box("sender") EXCEPT !.buffer = text["sender"]])
  /\ UNCHANGED <<input, key, made, procVars, history>>

CopyLength ==
  /\ Go("sender", "length", "unlock")
  /\ SetBox("sender", [Box("sender") EXCEPT !.length = text["sender"]])
  /\ sent' = [sent EXCEPT ![addr["sender"]] = Append(@, text["sender"])]
  /\ UNCHANGED <<input, key, made, procVars, got>>

-----------------------------------------------------------------------------
(* The loop of the receiver.                                               *)
WaitFull ==
  /\ Go("receiver", "full", "lock")
  /\ Box("receiver").ready /\ Box("receiver").full > 0
  /\ SetBox("receiver", [Box("receiver") EXCEPT !.full = @ - 1])
  /\ UNCHANGED <<input, key, made, procVars, history>>

(* length bytes of buffer: whole if both are of the same message. *)
LoadText ==
  LET box == Box("receiver")
      whole == IF box.length = box.buffer THEN box.buffer ELSE "torn"
  IN
  /\ Go("receiver", "load", "clear")
  /\ text' = [text EXCEPT !["receiver"] = whole]
  /\ got' = [got EXCEPT ![addr["receiver"]] = Append(@, whole)]
  /\ UNCHANGED <<input, segVars, shmid, addr, created, failed, left, launches, sent>>

Clear ==
  /\ Go("receiver", "clear", "unlock")
  /\ SetBox("receiver", [Box("receiver") EXCEPT !.buffer = NoText, !.length = NoText])
  /\ UNCHANGED <<input, key, made, procVars, history>>

-----------------------------------------------------------------------------
(* Both loops: the mutex, and the semaphore the peer waits for.            *)
Lock(r) ==
  /\ Go(r, "lock", IF r = "sender" THEN "copy" ELSE "load")
  /\ Box(r).mutex > 0
  /\ SetBox(r, [Box(r) EXCEPT !.mutex = @ - 1])
  /\ UNCHANGED <<input, key, made, procVars, history>>

Unlock(r) ==
  /\ Go(r, "unlock", "post")
  /\ SetBox(r, [Box(r) EXCEPT !.mutex = @ + 1])
  /\ UNCHANGED <<input, key, made, procVars, history>>

PostFull ==
  /\ Go("sender", "post", "fgets")
  /\ SetBox("sender", [Box("sender") EXCEPT !.full = @ + 1])
  /\ UNCHANGED <<input, key, made, procVars, history>>

(* Mutant: the receiver does not hand the slot back. *)
PostEmpty_Skipped ==
  /\ Go("receiver", "post", IF text["receiver"] = EXIT_MESSAGE THEN "cleanup" ELSE "full")
  /\ UNCHANGED <<input, segVars, procVars, history>>

PostEmpty ==
  /\ Go("receiver", "post", IF text["receiver"] = EXIT_MESSAGE THEN "cleanup" ELSE "full")
  /\ SetBox("receiver", [Box("receiver") EXCEPT !.empty = @ + 1])
  /\ UNCHANGED <<input, key, made, procVars, history>>

-----------------------------------------------------------------------------
(* cleanup, with mailbox.flag set: sem_destroy does nothing to the words.  *)

(* Mutant: the segment is removed after a failure only. *)
Removes_FailedOnly(r) == failed[r] /\ created[r]

Removes(r) == r = "receiver" \/ (failed[r] /\ created[r])

Shmdt(r) ==
  /\ Go(r, "cleanup", IF Removes(r) THEN "rmid" ELSE "off")
  /\ addr' = [addr EXCEPT ![r] = 0]
  /\ UNCHANGED <<input, segVars, shmid, created, failed, text, left, launches, history>>

(* Mutant: the segment stays. *)
Rmid_Not(r) == Go(r, "rmid", "off") /\ UNCHANGED <<input, segVars, procVars, history>>

(* IPC_RMID; it fails without effect if the segment is gone. *)
Rmid(r) ==
  /\ Go(r, "rmid", "off")
  /\ key' = IF key = shmid[r] THEN 0 ELSE key
  /\ UNCHANGED <<input, made, seg, procVars, history>>

Start(r) ==
  \/ ShmCreate(r) \/ ShmExists(r) \/ ShmFind(r) \/ ShmgetFails(r)
  \/ Shmat(r) \/ ShmatFails(r) \/ InitSems(r) \/ InitFails(r) \/ SetReady(r) \/ AwaitReady(r)
Send == Open \/ OpenFails \/ NextMessage \/ WaitEmpty \/ CopyText \/ CopyLength \/ PostFull
Receive == WaitFull \/ LoadText \/ Clear \/ PostEmpty

Run(r) ==
  \/ Start(r) \/ Lock(r) \/ Unlock(r) \/ Shmdt(r) \/ Rmid(r)
  \/ r = "sender" /\ Send
  \/ r = "receiver" /\ Receive

Next == \E r \in Roles : Launch(r) \/ Run(r)

Spec == Init /\ [][Next]_vars

(* A started program runs on unless it waits. *)
FairSpec == Spec /\ \A r \in Roles : WF_vars(Run(r))
=============================================================================
