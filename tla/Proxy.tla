------------------------------- MODULE Proxy -------------------------------
(***************************************************************************)
(* All goroutines of a proxying IGMPReporter together: the recvIGMP        *)
(* goroutines and outInterfaceSelector of module Receiver, the goroutine   *)
(* recvUnicastIGMP of module UnicastProxy, and selfQuery.  They share the  *)
(* buffer pool, IntOutName, the raw connections and, through the multicast *)
(* loopback of the kernel, what each of them sends.                        *)
(***************************************************************************)
EXTENDS Receiver

CONSTANTS
  unicastDst,     \* the parsed Config.UnicastDst
  Unicast,        \* the unicast packets that arrive, each once
  MaxErrors,      \* bound: reads of unicast that fail other than by their deadline
  queryTime,      \* Config.QueryTime, in seconds
  SelfId,         \* the identity of each side's own query
  MaxPackets      \* bound: packets that arrive and queries of our own, in all;
                  \* each side sends one query at most

VARIABLES
  usock, uarrived, upc, ubuf, uout, upkt, uwire, received, errors,  \* of UnicastProxy
  selfQuery       \* where selfQuery of each side is: "off", "tick", "sent", "done"

unicastVars == <<usock, uarrived, upc, ubuf, uout, upkt, uwire, received, errors>>
\* What the receivers do not share with recvUnicastIGMP.
ownVars     == <<returned, OutInterfaceSelectorCh, selected, selector, selection,
                 chanVars, wire, arrived, locals>>
allVars     == <<vars, unicastVars, selfQuery>>

-----------------------------------------------------------------------------
(* What arrives and what is sent *)

SelfQueryPacket(s) ==
  [id |-> SelfId[s], ifIndex |-> ifIndex[s], src |-> NetIP[s], dst |-> "IGMPHosts",
   type |-> "query", group |-> "none", len |-> 1, hops |-> 0]

SelfQueryEntry(s) == [side |-> s, dst |-> "IGMPHosts", pkt |-> SelfQueryPacket(s)]

\* Every packet a receiver may read: what arrives, and what comes back of it
\* after it has come back h times already.
Arriving == Inputs \cup Unicast \cup {SelfQueryPacket(s) : s \in Interfaces(conf)}

Returning(p, s, d, h) == LoopCopy([side |-> s, dst |-> d, pkt |-> [p EXCEPT !.hops = h]])

Readable ==
  Arriving \cup {Returning(p, s, d, h) :
    p \in Arriving, s \in RawSides(conf), d \in multicastGroups, h \in 0 .. MaxHops - 1}

U == INSTANCE UnicastProxy WITH
  Multicast <- Readable,
  sock <- usock, arrived <- uarrived, pc <- upc, buf <- ubuf, out <- uout, pkt <- upkt,
  wire <- uwire

ASSUME UnicastAssumption == /\ conf.UnicastProxyInToOut /\ Unicast \subseteq Packet
                            /\ MaxErrors \in Nat /\ queryTime \in Nat /\ MaxPackets \in Nat
                            /\ \A s \in Interfaces(conf) : SelfQueryPacket(s) \in Packet

\* A packet of our own, one from the network and one that is unicast are never
\* the same; a unicast packet is not to one of the groups.
ASSUME IdentityAssumption ==
  /\ Inputs \cap Unicast = {}
  /\ \A p, q \in Inputs \cup Unicast : p.id = q.id => p = q
  /\ \A s, t \in Interfaces(conf) : SelfId[s] = SelfId[t] => s = t
  /\ \A s \in Interfaces(conf), p \in Inputs \cup Unicast : p.id # SelfId[s]
  /\ \A p \in Unicast : p.hops = 0 /\ p.dst \notin multicastGroups

Queried == {s \in Interfaces(conf) : selfQuery[s] = "sent"}

Room == Cardinality(arrived) + Cardinality(uarrived) + Cardinality(Queried) < MaxPackets

ProxyInit == Init /\ U!Init /\ selfQuery = [s \in Interfaces(conf) |-> "off"]

-----------------------------------------------------------------------------
(* Steps *)

\* A goroutine that held "old" and holds "new" now took it from the pool if
\* another one holds it: what New makes is held by nobody.
NotNew(old, new, held) == new # old /\ new = held /\ held # NoBuf => bytePool[held] > 0

Multicasting(r) ==
  /\ recvIGMP(r) /\ NotNew(buf[r], buf'[r], ubuf)
  /\ UNCHANGED <<unicastVars, selfQuery>>

\* What recvUnicastIGMP sends to one of our groups comes back to the receivers.
Unicasting ==
  /\ U!recvUnicastIGMP /\ \A r \in Receivers : NotNew(ubuf, ubuf', buf[r])
  /\ IF uwire' # uwire THEN Echo(uwire'[Len(uwire')]) ELSE UNCHANGED sock
  /\ UNCHANGED <<ownVars, selfQuery>>

\* RunSelfQuery starts selfQuery for every side, at any time and outside of the
\* WaitGroup; it ends at once when QueryTime is below a second.
minQueryDuration == 1

RunSelfQuery ==
  /\ \A s \in Interfaces(conf) : selfQuery[s] = "off"
  /\ selfQuery' = [s \in Interfaces(conf) |-> IF queryTime < minQueryDuration THEN "done" ELSE "tick"]
  /\ UNCHANGED <<vars, unicastVars>>

\* At a tick it sends a query.  Its loop has no end and no context.
SelfQuery(s) ==
  /\ selfQuery[s] = "tick" /\ s \in RawSides(conf) /\ Room
  /\ Echo(SelfQueryEntry(s))
  /\ selfQuery' = [selfQuery EXCEPT ![s] = "sent"]
  /\ UNCHANGED <<appVars, selVars, chanVars, bufVars, wire, arrived, locals, unicastVars>>

SelfQueryCrash(s) ==
  /\ selfQuery[s] = "tick" /\ (s \notin RawSides(conf) \/ writeMayFail)
  /\ crashed' = TRUE
  /\ UNCHANGED <<ctxDone, returned, selVars, chanVars, bufVars, netVars, locals, unicastVars, selfQuery>>

\* Mutant: Run does not add recvUnicastIGMP to its WaitGroup.
ReturnWithoutUnicast == Return /\ UNCHANGED <<unicastVars, selfQuery>>

ReturnAll == upc = "done" /\ Return /\ UNCHANGED <<unicastVars, selfQuery>>

\* outInterfaceSelector, the application and the network.  A unicast packet
\* reaches the raw sockets of the receivers, too.
Outside ==
  /\ \/ outInterfaceSelector \/ ReadQuery \/ ReadReport \/ Cancel
     \/ \E s \in {OUT, ALTOUT} : Select(s)
     \/ Room /\ \E p \in Inputs : Arrive(p)
  /\ UNCHANGED <<unicastVars, selfQuery>>

ArriveUnicast(p) ==
  /\ Room /\ U!Arrive(p) /\ \E S \in SUBSET Receivers : Deliver(p, S)
  /\ UNCHANGED <<ownVars, selfQuery>>

ProxyNext ==
  /\ ~ crashed
  /\ \/ \E r \in Receivers : Multicasting(r)
     \/ Unicasting \/ RunSelfQuery \/ ReturnAll \/ Outside
     \/ \E s \in Interfaces(conf) : SelfQuery(s) \/ SelfQueryCrash(s)
     \/ \E p \in Unicast : ArriveUnicast(p)

ProxySpec == ProxyInit /\ [][ProxyNext]_allVars

-----------------------------------------------------------------------------
(* Properties *)

\* A buffer has one owner among the pool, the receivers and recvUnicastIGMP,
\* whose ways to give a buffer back differ from one type of packet to the next.
PoolExclusive ==
  /\ BufExclusive
  /\ ubuf # NoBuf => bytePool[ubuf] = 0 /\ \A r \in Receivers : buf[r] # ubuf

\* The receivers and the selector do to the pool and to IntOutName what module
\* UnicastProxy takes for granted of them, and no more: recvUnicastIGMP keeps
\* here what is proved of it there.
UnicastAmidOthers == U!Spec

\* The receivers implement Forwarding amid everything else the process sends.
\* Every socket sees a copy of every packet, ours and the unicast included, yet
\* the filters of recvIGMP let at most one receiver relay it, and IntOutName
\* sends it across.
Targets(p) == IF NetIFIndex(conf, ifIndex, p.ifIndex) = INSIDE THEN {OUT, ALTOUT} ELSE {INSIDE}

SentEntries == {wire[i] : i \in DOMAIN wire} \cup {uwire[i] : i \in DOMAIN uwire}
               \cup {SelfQueryEntry(s) : s \in {t \in Interfaces(conf) : selfQuery[t] = "sent"}}

Forward == INSTANCE Forwarding WITH
  seen <- arrived \cup uarrived \cup {LoopCopy(e) : e \in {f \in SentEntries : Loops(f)}},
  sent <- [i \in DOMAIN wire |-> [side |-> wire[i].side, dst |-> wire[i].dst, pkt |-> wire[i].pkt]]

ImplementsForwarding == Forward!Spec

\* With relaying in one direction a packet of our own that comes back is relayed
\* at most once more: the copy of the copy stays on the side it was sent to.
EchoesEnd == \A i \in DOMAIN wire : wire[i].pkt.hops <= 1

\* Once Run has returned no goroutine it started sends or uses the pool.
QuietAfterReturn == [][returned => UNCHANGED <<wire, uwire, bytePool, data>>]_allVars
=============================================================================
