---------------------------- MODULE UnicastProxy ----------------------------
(***************************************************************************)
(* The goroutine recvUnicastIGMP: IGMP sent to the inside address as       *)
(* unicast is translated to multicast and sent on the outside interface.   *)
(* It shares the buffer pool with the recvIGMP goroutines, and IntOutName  *)
(* with outInterfaceSelector; both appear here by what they do to those.   *)
(***************************************************************************)
EXTENDS Config, BytePool, Filtering

CONSTANTS
  conf,           \* the configuration, a member of Config
  Packet,         \* what can be in a buffer
  Group,          \* the multicast groups reports are about
  unicastDst,     \* the parsed Config.UnicastDst
  Unicast,        \* the unicast packets that arrive, each once
  Multicast,      \* what recvIGMP reads into buffers of the pool
  MaxErrors,      \* bound: reads that fail other than by their deadline
  writeMayFail    \* whether a socket write can return an error

allRouters == "allRouters"
IGMPHosts  == "IGMPHosts"

ASSUME ConfAssumption  == conf \in Config /\ conf.UnicastProxyInToOut
ASSUME InputAssumption == /\ Unicast \cup Multicast \subseteq Packet
                          /\ \A p \in Packet : /\ p.type \in Types /\ p.group \in Group
                                                /\ p.len \in 1 .. BufLen
                          /\ NoPkt \notin Packet /\ NoBuf \notin Bufs /\ BufLen \in Nat \ {0}
                          /\ MaxErrors \in Nat /\ writeMayFail \in BOOLEAN

VARIABLES
  ctxDone, crashed,
  IntOutName,     \* where packets of a side go
  sock, arrived,  \* the unread packets, and the packets that have arrived
  pc, buf, out,   \* locals of recvUnicastIGMP
  pkt,            \* the packet this iteration has read, NoPkt if none
  wire,           \* what was sent, in order
  received,       \* history: the packets read, in order
  errors          \* the failed reads so far

net  == <<sock, arrived>>
vars == <<ctxDone, crashed, IntOutName, bytePool, data, net, pc, buf, out, pkt, wire, received, errors>>

Destinations == Group \cup {unicastDst, allRouters, IGMPHosts}

Entry == [side : {OUT, ALTOUT}, dst : Destinations, pkt : Packet, payload : Cells(Packet),
          read : Packet \cup {NoPkt}]

TypeOK ==
  /\ ctxDone \in BOOLEAN /\ crashed \in BOOLEAN
  /\ IntOutName \in [{INSIDE, OUT} -> Side] /\ IntOutName[INSIDE] \in {OUT, ALTOUT}
  /\ bytePool \in [Bufs -> Nat] /\ data \in [Bufs -> Cells(Packet)]
  /\ sock \in Seq(Packet) /\ arrived \subseteq Unicast
  /\ pc \in {"top", "read", "decode", "send", "done"}
  /\ buf \in Bufs \cup {NoBuf} /\ out \in {OUT, ALTOUT, NoSide}
  /\ pkt \in Packet \cup {NoPkt}
  /\ wire \in Seq(Entry)
  /\ received \in Seq(Packet) /\ errors \in 0 .. MaxErrors

Init ==
  /\ ctxDone = FALSE /\ crashed = FALSE
  /\ IntOutName = InitialIntOutName
  /\ bytePool = [b \in Bufs |-> 0] /\ data = [b \in Bufs |-> Zeros]
  /\ sock = <<>> /\ arrived = {}
  /\ pc = "top" /\ buf = NoBuf /\ out = NoSide /\ pkt = NoPkt
  /\ wire = <<>> /\ received = <<>> /\ errors = 0

-----------------------------------------------------------------------------
(* recvUnicastIGMP *)

\* The end of an iteration, with or without giving the buffer back.
Continue ==
  /\ pc' = "top" /\ buf' = NoBuf /\ out' = NoSide /\ pkt' = NoPkt

Put == PutBack(buf)

Stop ==
  /\ pc = "top" /\ ctxDone
  /\ pc' = "done"
  /\ UNCHANGED <<ctxDone, crashed, IntOutName, bytePool, data, net, buf, out, pkt, wire, received, errors>>

GetBuf ==
  /\ pc = "top" /\ ~ ctxDone
  /\ \E b \in Bufs : buf' = b /\ (Reuse(b) \/ New(b))
  /\ pc' = "read"
  /\ UNCHANGED <<ctxDone, crashed, IntOutName, net, out, pkt, wire, received, errors>>

ReadFrom ==
  /\ pc = "read" /\ sock # <<>>
  /\ data' = [data EXCEPT ![buf] = Fill(@, Head(sock))]
  /\ pkt' = Head(sock) /\ received' = Append(received, Head(sock))
  /\ sock' = Tail(sock)
  /\ pc' = "decode"
  /\ UNCHANGED <<ctxDone, crashed, IntOutName, bytePool, arrived, buf, out, wire, errors>>

\* Mutant: no deadline is set.
ReadTimeoutNever == FALSE /\ UNCHANGED vars

\* Mutant: the timeout leaves the loop.
ReadTimeoutBreaks ==
  /\ pc = "read" /\ sock = <<>>
  /\ Put /\ pc' = "done" /\ buf' = NoBuf
  /\ UNCHANGED <<ctxDone, crashed, IntOutName, data, net, out, pkt, wire, received, errors>>

ReadTimeout ==
  /\ pc = "read" /\ sock = <<>>
  /\ Put /\ Continue
  /\ UNCHANGED <<ctxDone, crashed, IntOutName, data, net, wire, received, errors>>

\* Any other error falls through the two ifs, with the buffer as it was.
ReadError ==
  /\ pc = "read" /\ errors < MaxErrors
  /\ errors' = errors + 1
  /\ pc' = "decode"
  /\ UNCHANGED <<ctxDone, crashed, IntOutName, bytePool, data, net, buf, out, pkt, wire, received>>

\* Zeros decode to nothing, like other bytes that are no IGMP.
igmpType == IF data[buf][1] = NoPkt THEN "other" ELSE data[buf][1].type

Undecodable ==
  /\ pc = "decode" /\ igmpType = "other"
  /\ Put /\ Continue
  /\ UNCHANGED <<ctxDone, crashed, IntOutName, data, net, wire, received, errors>>

\* The load of IntOutName and the switch.  Queries reach its default branch.
Translatable(type) == type \in {"v1", "v2", "v3", "leave"}

\* Mutant: version 1 reports are not in the switch.
DecodeNotV1 ==
  /\ pc = "decode" /\ igmpType # "other"
  /\ IF igmpType \in {"v2", "v3", "leave"}
       THEN pc' = "send" /\ out' = IntOutName[INSIDE] /\ UNCHANGED <<buf, pkt>>
       ELSE Continue
  /\ UNCHANGED <<ctxDone, crashed, IntOutName, bytePool, data, net, wire, received, errors>>

\* Mutant: the buffer is given back before it is sent.
DecodePutsEarly ==
  /\ pc = "decode" /\ igmpType # "other"
  /\ Put
  /\ IF Translatable(igmpType)
       THEN pc' = "send" /\ out' = IntOutName[INSIDE] /\ UNCHANGED <<buf, pkt>>
       ELSE Continue
  /\ UNCHANGED <<ctxDone, crashed, IntOutName, data, net, wire, received, errors>>

Decode ==
  /\ pc = "decode" /\ igmpType # "other"
  /\ IF Translatable(igmpType)
       THEN pc' = "send" /\ out' = IntOutName[INSIDE] /\ UNCHANGED <<buf, pkt>>
       ELSE Continue
  /\ UNCHANGED <<ctxDone, crashed, IntOutName, bytePool, data, net, wire, received, errors>>

\* Mutant: the destination of version 3 reports is left at its zero value.
destinationZero(p) ==
  IF p.type = "leave" THEN allRouters
  ELSE IF p.type # "v3" THEN p.group
  ELSE IF conf.UnicastMembershipReports THEN unicastDst ELSE "0.0.0.0"

\* sendIGMPv1or2, sendIGMPv3 and sendIGMPLeave.  QueryHost is unicastDst: no
\* querier's address is ever set in this goroutine's copy.
destination(p) ==
  IF p.type = "leave" THEN allRouters
  ELSE IF p.type # "v3" THEN p.group
  ELSE IF conf.UnicastMembershipReports THEN unicastDst ELSE IGMPHosts

\* Mutant: the loop gives the buffer back, too, after the switch.
SendPutsTwice ==
  /\ pc = "send" /\ out \in RawSides(conf)
  /\ wire' = Append(wire, [side |-> out, dst |-> destination(data[buf][1]), pkt |-> data[buf][1],
                           payload |-> data[buf], read |-> pkt])
  /\ bytePool' = [bytePool EXCEPT ![buf] = @ + IF igmpType = "v3" THEN 2 ELSE 1]
  /\ Continue
  /\ UNCHANGED <<ctxDone, crashed, IntOutName, data, net, received, errors>>

\* Only sendIGMPv3 gives the buffer back.
Send ==
  /\ pc = "send" /\ out \in RawSides(conf)
  /\ wire' = Append(wire, [side |-> out, dst |-> destination(data[buf][1]), pkt |-> data[buf][1],
                           payload |-> data[buf], read |-> pkt])
  /\ IF igmpType = "v3" THEN Put ELSE UNCHANGED bytePool
  /\ Continue
  /\ UNCHANGED <<ctxDone, crashed, IntOutName, data, net, received, errors>>

Crash ==
  /\ pc = "send" /\ (out \notin RawSides(conf) \/ writeMayFail)
  /\ crashed' = TRUE
  /\ UNCHANGED <<ctxDone, IntOutName, bytePool, data, net, pc, buf, out, pkt, wire, received, errors>>

recvUnicastIGMP ==
  Stop \/ GetBuf \/ ReadFrom \/ ReadTimeout \/ ReadError \/ Undecodable \/ Decode \/ Send \/ Crash

-----------------------------------------------------------------------------
(* What other goroutines do to the shared state, and the environment *)

\* A recvIGMP goroutine takes a buffer of the pool or a new one, reads a packet
\* into it, or puts it back: the buffer that is held here only if it is in the
\* pool all the same.
OtherUse ==
  /\ \E b \in {c \in Bufs : c # buf \/ bytePool[c] > 0} :
       \/ Reuse(b) \/ New(b)
       \/ \E p \in Multicast : data' = [data EXCEPT ![b] = Fill(@, p)] /\ UNCHANGED bytePool
       \/ bytePool[b] = 0 /\ PutBack(b) /\ UNCHANGED data
  /\ UNCHANGED <<ctxDone, crashed, IntOutName, net, pc, buf, out, pkt, wire, received, errors>>

\* A write of another goroutine fails.
OtherCrash ==
  /\ crashed' = TRUE
  /\ UNCHANGED <<ctxDone, IntOutName, bytePool, data, net, pc, buf, out, pkt, wire, received, errors>>

\* outInterfaceSelector runs only beside receivers on the outside.
Store ==
  /\ AltOutExists(conf) /\ OUT \in RecvSides(conf)
  /\ \E s \in {OUT, ALTOUT} : IntOutName' = [IntOutName EXCEPT ![INSIDE] = s]
  /\ UNCHANGED <<ctxDone, crashed, bytePool, data, net, pc, buf, out, pkt, wire, received, errors>>

Arrive(p) ==
  /\ p \notin arrived
  /\ arrived' = arrived \cup {p} /\ sock' = Append(sock, p)
  /\ UNCHANGED <<ctxDone, crashed, IntOutName, bytePool, data, pc, buf, out, pkt, wire, received, errors>>

Cancel ==
  /\ ~ ctxDone
  /\ ctxDone' = TRUE
  /\ UNCHANGED <<crashed, IntOutName, bytePool, data, net, pc, buf, out, pkt, wire, received, errors>>

Next ==
  /\ ~ crashed
  /\ \/ recvUnicastIGMP \/ OtherUse \/ OtherCrash \/ Store \/ Cancel
     \/ \E p \in Unicast : Arrive(p)

Spec == Init /\ [][Next]_vars

\* Go schedules the goroutine, and a read ends with a packet or its deadline.
FairSpec == Spec /\ WF_vars(~ crashed /\ recvUnicastIGMP)

-----------------------------------------------------------------------------
(* Properties *)

\* An iteration that has read a packet sends that packet or nothing, although
\* the buffers it uses go round among all receivers.
SendsWhatItRead ==
  \A i \in DOMAIN wire :
    wire[i].read # NoPkt => \A c \in 1 .. wire[i].read.len : wire[i].payload[c] = wire[i].read

\* As long as no read has failed, reports and leaves go out in the order they
\* came in, each exactly once, and nothing else does.
Reports(packets) == Only(packets, {p \in Packet : Translatable(p.type)})

TranslatesAll ==
  LET pending == IF pc \in {"decode", "send"} /\ pkt # NoPkt THEN Reports(<<pkt>>) ELSE <<>>
  IN  errors = 0 => [i \in DOMAIN wire |-> wire[i].pkt] \o pending = Reports(received)

\* A report or leave that arrives is sent in the end, unless the context is
\* cancelled or the process dies.
SentEventually ==
  \A p \in Unicast :
    p \in arrived /\ Translatable(p.type)
    ~> (ctxDone \/ crashed \/ \E i \in DOMAIN wire : wire[i].pkt = p)

\* After a cancel the goroutine ends, within one read deadline.
EndsAfterCancel == ctxDone ~> (pc = "done" \/ crashed)
=============================================================================
