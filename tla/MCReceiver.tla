----------------------------- MODULE MCReceiver -----------------------------
(***************************************************************************)
(* Small instances of Receiver: the configurations of the README of the    *)
(* repository, two of the three multicast groups, two or three packets.    *)
(***************************************************************************)
EXTENDS Receiver, Configurations, TLC

MCGroups == {"allHosts", "IGMPHosts"}
MCAddr   == {"querier", "host", "ownIn", "ownOut", "ownAlt"}

MCIfIndex    == [s \in {INSIDE, OUT} |-> IF s = INSIDE THEN 1 ELSE 2]
MCIfIndexAlt == [s \in Side |-> IF s = INSIDE THEN 1 ELSE IF s = OUT THEN 2 ELSE 3]
MCNetIP      == [s \in {INSIDE, OUT} |-> IF s = INSIDE THEN "ownIn" ELSE "ownOut"]
MCNetIPAlt   == [s \in Side |-> IF s = INSIDE THEN "ownIn"
                                ELSE IF s = OUT THEN "ownOut" ELSE "ownAlt"]

In(id, i, src, dst, type, len) ==
  [id |-> id, ifIndex |-> i, src |-> src, dst |-> dst, type |-> type, group |-> "g",
   len |-> len, hops |-> 0]

MCOneGroup == {"allHosts"}

\* Two queries on OUT, one on ALTOUT.
MCQueries == {In(1, 2, "querier", "allHosts", "query", 1),
              In(2, 2, "querier", "allHosts", "query", 1),
              In(3, 3, "querier", "allHosts", "query", 1)}

\* A long packet and a short one from outside, one from inside.
MCBothWays == {In(1, 2, "querier", "allHosts", "query", 2),
               In(2, 2, "querier", "allHosts", "other", 1),
               In(3, 1, "host", "allHosts", "v2", 1)}

\* One query on the alternative interface; one report from the inside.
MCAltQuery == {In(1, 3, "querier", "allHosts", "query", 1)}
MCInReport == {In(1, 1, "host", "allHosts", "v2", 1)}

\* Buffers are interchangeable.
BufSymmetry == Permutations(Bufs)
=============================================================================
