------------------------------ MODULE MCProxy ------------------------------
(***************************************************************************)
(* A small instance of Proxy: "Proxy from outside to inside" with reports  *)
(* that come in as unicast, and the receivers of two groups, whose sockets *)
(* both get what is sent to either of them.                                *)
(***************************************************************************)
EXTENDS Proxy, Configurations, TLC

MCGroups  == {"IGMPHosts", "allHosts"}
MCDst     == {"allHosts", "IGMPHosts", "ownIn"}
MCAddr    == {"host", "ownIn", "ownOut"}
MCIfIndex == [s \in {INSIDE, OUT} |-> IF s = INSIDE THEN 1 ELSE 2]
MCNetIP   == [s \in {INSIDE, OUT} |-> IF s = INSIDE THEN "ownIn" ELSE "ownOut"]
MCSelfId  == [s \in {INSIDE, OUT} |-> IF s = INSIDE THEN 8 ELSE 9]

In(id, i, dst, type) ==
  [id |-> id, ifIndex |-> i, src |-> "host", dst |-> dst, type |-> type, group |-> "g",
   len |-> 1, hops |-> 0]

\* A query from the network, to the group of one receiver.
MCInputs  == {In(1, 2, "allHosts", "query")}
\* A version 3 report, translated to the group of the other one.
MCUnicast == {In(2, 1, "ownIn", "v3")}

BufSymmetry == Permutations(Bufs)
=============================================================================
