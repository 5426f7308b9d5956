---------------------------- MODULE IpcShmProps ----------------------------
(***************************************************************************)
(* What must hold of the shared-memory mailbox of module IpcShm.           *)
(***************************************************************************)
EXTENDS IpcShm

Ready == {s \in Segs : seg[s].ready}
Using(s, places) == {r \in Roles : addr[r] = s /\ pc[r] \in places}

(* TypeOK: every variable has its type; semaphores of this mailbox are     *)
(* binary.                                                                 *)
Text == {NoText} \cup UNION {ToSet(Script(file)) : file \in Inputs}
TypeOK ==
  /\ input \in Inputs
  /\ key \in Segs \cup {0} /\ made \in 0 .. MaxSegs
  /\ seg \in [Segs -> [ready : BOOLEAN, mutex : 0 .. 1, full : 0 .. 1, empty : 0 .. 1,
                       buffer : Text, length : Text]]
  /\ shmid \in [Roles -> Segs \cup {0}] /\ addr \in [Roles -> Segs \cup {0}]
  /\ created \in [Roles -> BOOLEAN] /\ failed \in [Roles -> BOOLEAN]
  /\ text \in [Roles -> Text]
  /\ launches \in [Roles -> 0 .. Launches]

(***************************************************************************)
(* TokensConserved: of the one slot there is one token: in empty, in full, *)
(* or with the process between its sem_wait and its sem_post; and the      *)
(* mutex is free or with the one process between lock and unlock.  A peer  *)
(* that used the semaphores before the creator's memset and sem_init, or a *)
(* second initialisation, would break it (ready).                          *)
(***************************************************************************)
TokensConserved ==
  /\ \A s \in Ready :
       /\ seg[s].empty + seg[s].full
            + Cardinality(Using(s, {"lock", "copy", "length", "load", "clear", "unlock", "post"})) = 1
       /\ seg[s].mutex + Cardinality(Using(s, {"copy", "length", "load", "clear", "unlock"})) = 1
  /\ \A s \in Segs \ Ready :
       Using(s, {"lock", "copy", "length", "load", "clear", "unlock", "post"}) = {}

(***************************************************************************)
(* ImplementsMailbox: every segment is a mailbox of one slot: messages are *)
(* received once, whole and in order, also when a program is started again *)
(* while the other still uses the segment.                                 *)
(***************************************************************************)
Mailbox(s) == INSTANCE IpcMailbox WITH
                sent <- sent[s], got <- got[s], Texts <- Text, Capacity <- 1
ImplementsMailbox ==
  /\ \A s \in Segs : Mailbox(s)!Init
  /\ [][\A s \in Segs : Mailbox(s)!Next \/ UNCHANGED <<sent[s], got[s]>>]_history

(***************************************************************************)
(* ReceiverCleansUp: a receiver that has ended has removed the segment it  *)
(* used, on every path on which it had attached or created one.            *)
(***************************************************************************)
ReceiverCleansUp ==
  pc["receiver"] = "off" /\ shmid["receiver"] # 0
    /\ (created["receiver"] \/ ~failed["receiver"]) => key # shmid["receiver"]

(***************************************************************************)
(* NothingLeft: when both programs have run once and ended without an      *)
(* error, no segment is left under the key.                                *)
(***************************************************************************)
RunOnce == \A r \in Roles : launches[r] = 1
NoFailure == \A r \in Roles : ~failed[r]
BothEnded == \A r \in Roles : pc[r] = "off"
NothingLeft == RunOnce /\ BothEnded /\ NoFailure => key = 0

(***************************************************************************)
(* AllDelivered: if both programs are started, none of them again, no call *)
(* fails and no line of the input is the exit message itself, the receiver *)
(* gets every line before "EOF" and the exit message, and both end,        *)
(* whichever was first.                                                    *)
(***************************************************************************)
OneCleanRun ==
  /\ NoFailure /\ \A r \in Roles : launches[r] <= 1
  /\ EXIT_MESSAGE \notin ToSet(input)
AllDelivered ==
  []OneCleanRun /\ <>RunOnce => <>(BothEnded /\ got[1] = Script(input))

(* sender.c, at cleanup: "If something failed early and we created the     *)
(* segment, clean up semaphores/segment."                                  *)
SenderCleansUp ==
  pc["sender"] = "off" /\ failed["sender"] /\ created["sender"] => key # shmid["sender"]
=============================================================================
