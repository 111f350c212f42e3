--------------------------- MODULE MCUnicastProxy ---------------------------
(***************************************************************************)
(* Small instances of UnicastProxy: "Proxy from outside to inside" of the  *)
(* README of the repository, where reports come in as unicast.             *)
(***************************************************************************)
EXTENDS UnicastProxy, Configurations

P(id, type, group, len) == [id |-> id, type |-> type, group |-> group, len |-> len]

\* One packet of each way of sending; a query only as what another goroutine left
\* in a buffer, which a failed read takes for a packet.
MCUnicast   == {P(1, "v1", "g1", 1), P(2, "v3", "g2", 1), P(3, "leave", "g1", 1)}
MCMulticast == {P(9, "query", "g2", 1)}
MCPacket    == MCUnicast \cup MCMulticast
=============================================================================
