----------------------------- MODULE Forwarding -----------------------------
(***************************************************************************)
(* What the proxy promises, whatever its goroutines, sockets and buffers   *)
(* are: a packet the host has seen is sent on at most once, to the group   *)
(* it was addressed to, on a side it may go to.  It may also be lost: IGMP *)
(* over raw sockets is not reliable and no more is promised.               *)
(***************************************************************************)
EXTENDS Naturals, Sequences

CONSTANTS
  Packet,       \* what can arrive; a packet has a field dst
  Targets(_)    \* the sides on which a packet may be sent on

VARIABLES
  seen,         \* the packets that have reached the host
  sent          \* the packets sent on, each with its side and destination

vars == <<seen, sent>>

Init == seen = {} /\ sent = <<>>

\* Packets arrive in any number.
Arrival ==
  /\ seen \subseteq seen' /\ seen' \subseteq Packet
  /\ UNCHANGED sent

\* Sending one on may make the kernel hand a copy of it back to the host.
Relay ==
  /\ seen \subseteq seen' /\ seen' \subseteq Packet
  /\ \E p \in seen : \E s \in Targets(p) :
       /\ \A i \in DOMAIN sent : sent[i].pkt # p
       /\ sent' = Append(sent, [side |-> s, dst |-> p.dst, pkt |-> p])

Next == Arrival \/ Relay

Spec == Init /\ [][Next]_vars
=============================================================================
