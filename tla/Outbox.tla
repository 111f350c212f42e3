------------------------------- MODULE Outbox -------------------------------
(***************************************************************************)
(* What the senders promise the application, whatever their channels and   *)
(* goroutines are: one first-in first-out queue of groups for each kind of *)
(* message.  A batch is accepted as a whole, its groups are sent one by    *)
(* one, and the kinds know nothing of each other, so a leave may overtake  *)
(* the report submitted before it.  Nothing is taken back from the queue,  *)
(* but the program may stop before it is empty.                            *)
(***************************************************************************)
EXTENDS Sequences

CONSTANTS
  Kind,         \* the kinds of message an application can submit
  Batch         \* the sequences of groups it may submit

VARIABLES
  pending,      \* of each kind: the groups accepted and not sent yet
  sent          \* of each kind: the groups sent

vars == <<pending, sent>>

Init ==
  /\ pending = [k \in Kind |-> <<>>]
  /\ sent = [k \in Kind |-> <<>>]

Accept(k, batch) ==
  /\ pending' = [pending EXCEPT ![k] = @ \o batch]
  /\ UNCHANGED sent

SendNext(k) ==
  /\ pending[k] # <<>>
  /\ sent' = [sent EXCEPT ![k] = Append(@, Head(pending[k]))]
  /\ pending' = [pending EXCEPT ![k] = Tail(@)]

Next ==
  \E k \in Kind : SendNext(k) \/ \E batch \in Batch : Accept(k, batch)

Spec == Init /\ [][Next]_vars
=============================================================================
