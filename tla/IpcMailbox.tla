----------------------------- MODULE IpcMailbox -----------------------------
(***************************************************************************)
(* What lab1 promises of one mailbox, whatever carries the messages: they  *)
(* arrive once each, whole and in the order they were sent, no more than   *)
(* Capacity of them wait, and after EXIT_MESSAGE nothing is received.      *)
(***************************************************************************)
EXTENDS Naturals, Sequences

CONSTANTS Texts, EXIT_MESSAGE, Capacity

VARIABLES sent, got

Init == sent = << >> /\ got = << >>

Put ==
  /\ Len(sent) < Len(got) + Capacity
  /\ \E text \in Texts : sent' = Append(sent, text)
  /\ UNCHANGED got

Take ==
  /\ Len(got) < Len(sent)
  /\ \A n \in DOMAIN got : got[n] # EXIT_MESSAGE
  /\ got' = Append(got, sent[Len(got) + 1])
  /\ UNCHANGED sent

Next == Put \/ Take

Spec == Init /\ [][Next]_<<sent, got>>
=============================================================================
