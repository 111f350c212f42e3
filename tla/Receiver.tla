------------------------------ MODULE Receiver ------------------------------
(***************************************************************************)
(* The multicast side of goIGMP at run time: the recvIGMP goroutines that  *)
(* Run starts, one per receiving side and multicast group, the goroutine   *)
(* outInterfaceSelector, and what they share: the sync.Map IntOutName, the *)
(* buffer pool, the channels towards the application and the network.      *)
(*                                                                         *)
(* One iteration of recvIGMP is seven steps, cut at every point where      *)
(* another goroutine can observe or change what it uses: the blocking      *)
(* read, each Load of IntOutName, the channel sends and the socket write.  *)
(***************************************************************************)
EXTENDS Config, BytePool

CONSTANTS
  conf,             \* the configuration, a member of Config
  multicastGroups,  \* the groups of NewIGMPReporter: allHosts, allRouters, IGMPHosts
  ifIndex,          \* the kernel's interface index of every configured side
  NetIP,            \* the address of every side
  ChannelSize,      \* capacity of every channel
  Id, Addr, Dst, Group,  \* identities, sources, destinations of packets, and
                    \* the groups they are about
  NoAddr,           \* the zero netip.Addr, which is not valid
  Inputs,           \* the packets that arrive from the network, each once
  loopback,         \* whether the kernel loops sent multicast back
  MaxHops,          \* bound: how often one packet is looped back
  writeMayFail,     \* whether a socket write can return an error
  readMayFail,      \* whether a read can fail other than by its deadline
  MaxSelects        \* bound: selections the application makes

\* ifIndex, src and dst come with the control message, type, group and len with
\* the payload; hops counts how often the packet went through this process.
Packet == [id : Id, ifIndex : Nat, src : Addr, dst : Dst, type : Types,
           group : Group, len : 1 .. BufLen, hops : 0 .. MaxHops]

Receivers   == RecvSides(conf) \X multicastGroups
interf(r)   == r[1]

\* Mutant: the goroutines are closures over one loop variable.
gShared(r) == CHOOSE h \in multicastGroups : TRUE

g(r)        == r[2]
HasSelector == AltOutExists(conf) /\ ALTOUT \in RecvSides(conf)

\* Run starts a receiver only for sockets the constructor opened.
ASSUME ConfAssumption  == conf \in Config /\ RecvSides(conf) \subseteq McastSides(conf)
ASSUME AddrAssumption  == /\ multicastGroups \subseteq Dst
                          /\ ifIndex \in [Interfaces(conf) -> Nat]
                          /\ NetIP \in [Interfaces(conf) -> Addr]
ASSUME SizeAssumption  == /\ ChannelSize \in Nat \ {0}
                          /\ BufLen \in Nat \ {0}
                          /\ MaxHops \in Nat /\ MaxSelects \in Nat
                          /\ loopback \in BOOLEAN /\ writeMayFail \in BOOLEAN
                          /\ readMayFail \in BOOLEAN
ASSUME InputAssumption == /\ Inputs \subseteq {p \in Packet : p.hops = 0}
                          /\ \A p, q \in Inputs : p.id = q.id => p = q
                          /\ NoPkt \notin Packet /\ NoBuf \notin Bufs

VARIABLES
  ctxDone,       \* the context was cancelled
  crashed,       \* the process is gone: log.Fatal or a nil dereference
  returned,      \* WG.Wait in Run returned
  IntOutName,    \* where packets of a side go
  OutInterfaceSelectorCh, selected,   \* its content, and how many were sent
  selector,      \* "recv", "store" or "done" when it does not exist
  selection,     \* the value the selector received last
  QueryNotifyCh, \* the number of tokens in it
  MembershipReportFromNetworkCh,      \* the packets whose items are in it
  sock,          \* the unread packets of each receiver's socket
  pc, buf, pkt, out, querierSourceIP, \* locals of recvIGMP, and its copy of r
  wire,          \* everything sent, in order
  arrived,       \* the inputs that have arrived
  unseenQuery,   \* history: a query was handled since the application read one
  late           \* history: packets each receiver handled for an outside side
                 \* after that side was deselected

appVars  == <<ctxDone, crashed, returned>>
selVars  == <<IntOutName, OutInterfaceSelectorCh, selected, selector, selection>>
chanVars == <<QueryNotifyCh, MembershipReportFromNetworkCh, unseenQuery>>
bufVars  == <<bytePool, data>>
netVars  == <<sock, wire, arrived>>
locals   == <<pc, buf, pkt, out, querierSourceIP, late>>
vars     == <<appVars, selVars, chanVars, bufVars, netVars, locals>>

Entry == [side : Side, dst : multicastGroups, pkt : Packet,
          payload : Cells(Packet)]

FlagTypeOK ==
  ctxDone \in BOOLEAN /\ crashed \in BOOLEAN /\ returned \in BOOLEAN /\ unseenQuery \in BOOLEAN

SelTypeOK ==
  /\ IntOutName \in [{INSIDE, OUT} -> Side]
  /\ OutInterfaceSelectorCh \in Seq({OUT, ALTOUT}) /\ selected \in 0 .. MaxSelects
  /\ selector \in {"recv", "store", "done"} /\ selection \in {OUT, ALTOUT}

ChanTypeOK ==
  /\ QueryNotifyCh \in 0 .. ChannelSize
  /\ MembershipReportFromNetworkCh \in Seq(Packet)

BufTypeOK ==
  /\ bytePool \in [Bufs -> Nat]
  /\ data \in [Bufs -> Cells(Packet)]

NetTypeOK ==
  /\ sock \in [Receivers -> Seq(Packet)]
  /\ wire \in Seq(Entry)
  /\ arrived \subseteq Inputs

LocalTypeOK ==
  /\ pc \in [Receivers -> {"top", "read", "filter", "dispatch", "load", "write", "done"}]
  /\ buf \in [Receivers -> Bufs \cup {NoBuf}]
  /\ pkt \in [Receivers -> Packet \cup {NoPkt}]
  /\ out \in [Receivers -> Side \cup {NoSide}]
  /\ querierSourceIP \in [Receivers -> Addr \cup {NoAddr}]
  /\ late \in [Receivers -> Nat]

TypeOK == FlagTypeOK /\ SelTypeOK /\ ChanTypeOK /\ BufTypeOK /\ NetTypeOK /\ LocalTypeOK

Init ==
  /\ ctxDone = FALSE /\ crashed = FALSE /\ returned = FALSE
  /\ IntOutName = InitialIntOutName
  /\ OutInterfaceSelectorCh = <<>> /\ selected = 0
  /\ selector = IF HasSelector THEN "recv" ELSE "done"
  /\ selection = OUT
  /\ QueryNotifyCh = 0 /\ MembershipReportFromNetworkCh = <<>>
  /\ bytePool = [b \in Bufs |-> 0]
  /\ data = [b \in Bufs |-> Zeros]
  /\ sock = [r \in Receivers |-> <<>>]
  /\ pc = [r \in Receivers |-> "top"]
  /\ buf = [r \in Receivers |-> NoBuf]
  /\ pkt = [r \in Receivers |-> NoPkt]
  /\ out = [r \in Receivers |-> NoSide]
  /\ querierSourceIP = [r \in Receivers |-> NoAddr]
  /\ wire = <<>> /\ arrived = {}
  /\ unseenQuery = FALSE
  /\ late = [r \in Receivers |-> 0]

-----------------------------------------------------------------------------
\* What New makes is held by nobody.
Get(r, b) ==
  /\ buf' = [buf EXCEPT ![r] = b]
  /\ Reuse(b) \/ (New(b) /\ \A s \in Receivers : buf[s] # b)

Put(r) == PutBack(buf[r])

\* The end of an iteration: the goroutine no longer refers to its buffer.
Continue(r) ==
  /\ pc'  = [pc  EXCEPT ![r] = "top"]
  /\ buf' = [buf EXCEPT ![r] = NoBuf]
  /\ pkt' = [pkt EXCEPT ![r] = NoPkt]
  /\ out' = [out EXCEPT ![r] = NoSide]

Goto(r, label) == pc' = [pc EXCEPT ![r] = label]

\* A raw socket bound to 0.0.0.0 gets a copy of every IGMP packet the host
\* accepts, whatever the group and the interface; the kernel drops the copy of
\* a socket whose receive buffer is full.  S are the sockets that got theirs.
Deliver(p, S) ==
  sock' = [r \in Receivers |-> IF r \in S THEN Append(sock[r], p) ELSE sock[r]]

-----------------------------------------------------------------------------
\* The checks of recvIGMP between the read and the decoding.

\* reflect.DeepEqual compares dynamic types before values: src is *net.IPAddr.
DynamicValue(type, value) == [type |-> type, value |-> value]
FromOurself(r, p) == DynamicValue("*net.IPAddr", p.src) = DynamicValue("net.IP", NetIP[interf(r)])

ignoreOnNonActiveOutOrAltInterface(s) ==
  s \in OutsideInterfaces(conf) /\ s # IntOutName[INSIDE]

\* Mutants: the check of the active interface, of the incoming interface, and
\* of the group left out.
ForUsAnyActive(r, p) ==
  NetIFIndex(conf, ifIndex, p.ifIndex) = interf(r) /\ ~ FromOurself(r, p) /\ p.dst = g(r)

ForUsAnyInterface(r, p) ==
  /\ ~ ignoreOnNonActiveOutOrAltInterface(interf(r))
  /\ ~ FromOurself(r, p) /\ p.dst = g(r)

ForUsAnyGroup(r, p) ==
  /\ ~ ignoreOnNonActiveOutOrAltInterface(interf(r))
  /\ NetIFIndex(conf, ifIndex, p.ifIndex) = interf(r) /\ ~ FromOurself(r, p)

ForUs(r, p) ==
  /\ ~ ignoreOnNonActiveOutOrAltInterface(interf(r))
  /\ NetIFIndex(conf, ifIndex, p.ifIndex) = interf(r)
  /\ ~ FromOurself(r, p)
  /\ p.dst = g(r)

\* A send in a select with a default branch, on a channel holding n values.
\* Mutants: a capacity off by one, either way.
TrySendBeyond(n) == n <= ChannelSize
TrySendShort(n)  == n + 1 < ChannelSize

TrySend(n) == n < ChannelSize

-----------------------------------------------------------------------------
\* Steps of the goroutine recvIGMP(interf(r), g(r)).

\* The loop ends when the context is done ...
Stop(r) ==
  /\ pc[r] = "top" /\ ctxDone
  /\ Goto(r, "done")
  /\ UNCHANGED <<appVars, selVars, chanVars, bufVars, netVars>>
  /\ UNCHANGED <<buf, pkt, out, querierSourceIP, late>>

\* ... otherwise the read deadline is set and a buffer obtained.
GetBuf(r) ==
  /\ pc[r] = "top" /\ ~ ctxDone
  /\ \E b \in Bufs : Get(r, b)
  /\ Goto(r, "read")
  /\ UNCHANGED <<appVars, selVars, chanVars, netVars, pkt, out, querierSourceIP, late>>

ReadFrom(r) ==
  /\ pc[r] = "read" /\ sock[r] # <<>>
  /\ pkt'  = [pkt EXCEPT ![r] = Head(sock[r])]
  /\ data' = [data EXCEPT ![buf[r]] = Fill(@, Head(sock[r]))]
  /\ sock' = [sock EXCEPT ![r] = Tail(@)]
  /\ Goto(r, "filter")
  /\ UNCHANGED <<appVars, selVars, chanVars, bytePool, wire, arrived>>
  /\ UNCHANGED <<buf, out, querierSourceIP, late>>

\* Mutants: the timeout leaves the loop, or no deadline is set.
ReadTimeoutBreaks(r) ==
  /\ pc[r] = "read" /\ sock[r] = <<>>
  /\ Put(r) /\ buf' = [buf EXCEPT ![r] = NoBuf] /\ Goto(r, "done")
  /\ UNCHANGED <<appVars, selVars, chanVars, data, netVars, pkt, out, querierSourceIP, late>>

ReadTimeoutNever(r) == FALSE /\ UNCHANGED vars

\* The read deadline passes with nothing to read, or the read fails otherwise,
\* whatever waits in the socket: the two paths differ in what they count.
ReadTimeout(r) ==
  /\ pc[r] = "read" /\ (sock[r] = <<>> \/ readMayFail)
  /\ Put(r) /\ Continue(r)
  /\ UNCHANGED <<appVars, selVars, chanVars, data, netVars, querierSourceIP, late>>

\* Mutant: the continue after the Put is missing.
IgnoreFallsThrough(r) ==
  /\ pc[r] = "filter" /\ ~ ForUs(r, pkt[r])
  /\ Put(r) /\ Goto(r, "dispatch")
  /\ UNCHANGED <<appVars, selVars, chanVars, data, netVars, buf, pkt, out, querierSourceIP, late>>

Ignore(r) ==
  /\ pc[r] = "filter" /\ ~ ForUs(r, pkt[r])
  /\ Put(r) /\ Continue(r)
  /\ UNCHANGED <<appVars, selVars, chanVars, data, netVars, querierSourceIP, late>>

Accept(r) ==
  /\ pc[r] = "filter" /\ ForUs(r, pkt[r])
  /\ Goto(r, "dispatch")
  /\ UNCHANGED <<appVars, selVars, chanVars, bufVars, netVars>>
  /\ UNCHANGED <<buf, pkt, out, querierSourceIP, late>>

\* The layer decoded from the whole buffer: its type is in the first cell.
igmpType(r) == data[buf[r]][1].type

\* What does not decode to IGMP is dropped here.
Undecodable(r) ==
  /\ pc[r] = "dispatch" /\ igmpType(r) = "other"
  /\ Put(r) /\ Continue(r)
  /\ UNCHANGED <<appVars, selVars, chanVars, data, netVars, querierSourceIP, late>>

NotifyQuery(r) ==
  IF igmpType(r) = "query" /\ conf.QueryNotify
    THEN /\ QueryNotifyCh' = IF TrySend(QueryNotifyCh) THEN QueryNotifyCh + 1
                                                       ELSE QueryNotifyCh
         /\ unseenQuery' = TRUE
    ELSE UNCHANGED <<QueryNotifyCh, unseenQuery>>

NotifyReport(r) ==
  MembershipReportFromNetworkCh' =
    IF /\ igmpType(r) \in {"v2", "v3"} /\ conf.MembershipReportsFromNetwork
       /\ TrySend(Len(MembershipReportFromNetworkCh))
      THEN Append(MembershipReportFromNetworkCh, data[buf[r]][1])
      ELSE MembershipReportFromNetworkCh

\* The switch on the type, then the decision to relay.  V1 reports and leaves
\* only reach the default branch, and are relayed all the same.  A packet that
\* is not relayed ends the iteration without a Put.
Dispatch(r) ==
  /\ pc[r] = "dispatch" /\ igmpType(r) # "other"
  /\ NotifyQuery(r) /\ NotifyReport(r)
  /\ querierSourceIP' = IF igmpType(r) = "query"
                          THEN [querierSourceIP EXCEPT ![r] = pkt[r].src]
                          ELSE querierSourceIP
  /\ late' = [late EXCEPT ![r] =
                @ + IF ignoreOnNonActiveOutOrAltInterface(interf(r)) THEN 1 ELSE 0]
  /\ IF proxyIt(conf, interf(r))
       THEN Goto(r, "load") /\ UNCHANGED <<buf, pkt, out>>
       ELSE Continue(r)
  /\ UNCHANGED <<appVars, selVars, bufVars, netVars>>

\* Mutant: the buffer is given back before the write.
LoadOutPutsEarly(r) ==
  /\ pc[r] = "load"
  /\ out' = [out EXCEPT ![r] = IntOutName[interf(r)]]
  /\ Put(r) /\ Goto(r, "write")
  /\ UNCHANGED <<appVars, selVars, chanVars, data, netVars, buf, pkt, querierSourceIP, late>>

\* Load cannot fail here: IntOutName always has entries for OUT and INSIDE, and
\* proxyIt is false of ALTOUT.
LoadOut(r) ==
  /\ pc[r] = "load"
  /\ out' = [out EXCEPT ![r] = IntOutName[interf(r)]]
  /\ Goto(r, "write")
  /\ UNCHANGED <<appVars, selVars, chanVars, bufVars, netVars>>
  /\ UNCHANGED <<buf, pkt, querierSourceIP, late>>

\* The packet that comes back when entry e of wire is looped: it is from our
\* own address, on the interface e was sent on, and fills the buffer.
LoopCopy(e) ==
  [id |-> e.pkt.id, ifIndex |-> ifIndex[e.side], src |-> NetIP[e.side], dst |-> e.dst,
   type |-> e.pkt.type, group |-> e.pkt.group, len |-> BufLen, hops |-> e.pkt.hops + 1]

\* With loopback the kernel hands a copy of a multicast to the sockets in S.
Loops(e) == loopback /\ e.dst \in multicastGroups /\ e.pkt.hops < MaxHops

Echo(e) ==
  \/ \E S \in SUBSET Receivers : Loops(e) /\ Deliver(LoopCopy(e), S)
  \/ ~ Loops(e) /\ UNCHANGED sock

\* proxy(out, g, buf): the whole buffer goes out, not only what was read.
WriteTo(r) ==
  /\ pc[r] = "write" /\ out[r] \in RawSides(conf)
  /\ LET e == [side |-> out[r], dst |-> g(r), pkt |-> pkt[r], payload |-> data[buf[r]]]
     IN  wire' = Append(wire, e) /\ Echo(e)
  /\ Put(r) /\ Continue(r)
  /\ UNCHANGED <<appVars, selVars, chanVars, data, arrived, querierSourceIP, late>>

\* A nil conRaw entry is dereferenced, or the write fails: log.Fatal.
Crash(r) ==
  /\ pc[r] = "write" /\ (out[r] \notin RawSides(conf) \/ writeMayFail)
  /\ crashed' = TRUE
  /\ UNCHANGED <<ctxDone, returned, selVars, chanVars, bufVars, netVars, locals>>

recvIGMP(r) ==
  \/ Stop(r) \/ GetBuf(r) \/ ReadFrom(r) \/ ReadTimeout(r) \/ Ignore(r) \/ Accept(r)
  \/ Undecodable(r) \/ Dispatch(r) \/ LoadOut(r) \/ WriteTo(r) \/ Crash(r)

-----------------------------------------------------------------------------
\* The goroutine outInterfaceSelector: receive, then store.  It has no context.
SelectorRecv ==
  /\ selector = "recv" /\ OutInterfaceSelectorCh # <<>>
  /\ selection' = Head(OutInterfaceSelectorCh)
  /\ OutInterfaceSelectorCh' = Tail(OutInterfaceSelectorCh)
  /\ selector' = "store"
  /\ UNCHANGED <<appVars, chanVars, bufVars, netVars, locals, IntOutName, selected>>

SelectorStore ==
  /\ selector = "store"
  /\ IntOutName' = [IntOutName EXCEPT ![INSIDE] = selection]
  /\ selector' = "recv"
  /\ late' = IF selection # IntOutName[INSIDE] THEN [r \in Receivers |-> 0] ELSE late
  /\ UNCHANGED <<appVars, chanVars, bufVars, netVars, OutInterfaceSelectorCh, selected>>
  /\ UNCHANGED <<selection, pc, buf, pkt, out, querierSourceIP>>

outInterfaceSelector == SelectorRecv \/ SelectorStore

\* WG.Wait returns when every goroutine Run started has ended.
Return ==
  /\ ~ returned
  /\ \A r \in Receivers : pc[r] = "done"
  /\ selector = "done"
  /\ returned' = TRUE
  /\ UNCHANGED <<ctxDone, crashed, selVars, chanVars, bufVars, netVars, locals>>

-----------------------------------------------------------------------------
\* The application: it selects an outside interface (the selector would store any
\* side, but the channel is there to choose between the two outside ones), reads
\* both channels and cancels the context.
Select(s) ==
  /\ HasSelector /\ selected < MaxSelects
  /\ Len(OutInterfaceSelectorCh) < ChannelSize
  /\ OutInterfaceSelectorCh' = Append(OutInterfaceSelectorCh, s)
  /\ selected' = selected + 1
  /\ UNCHANGED <<appVars, chanVars, bufVars, netVars, locals, IntOutName, selector, selection>>

ReadQuery ==
  /\ QueryNotifyCh > 0
  /\ QueryNotifyCh' = QueryNotifyCh - 1
  /\ unseenQuery' = FALSE
  /\ UNCHANGED <<appVars, selVars, MembershipReportFromNetworkCh, bufVars, netVars, locals>>

ReadReport ==
  /\ MembershipReportFromNetworkCh # <<>>
  /\ MembershipReportFromNetworkCh' = Tail(MembershipReportFromNetworkCh)
  /\ UNCHANGED <<appVars, selVars, QueryNotifyCh, unseenQuery, bufVars, netVars, locals>>

Cancel ==
  /\ ~ ctxDone
  /\ ctxDone' = TRUE
  /\ UNCHANGED <<crashed, returned, selVars, chanVars, bufVars, netVars, locals>>

\* The network: a packet arrives.
Arrive(p) ==
  /\ p \notin arrived
  /\ arrived' = arrived \cup {p}
  /\ \E S \in SUBSET Receivers : Deliver(p, S)
  /\ UNCHANGED <<appVars, selVars, chanVars, bufVars, wire, locals>>

Next ==
  /\ ~ crashed
  /\ \/ \E r \in Receivers : recvIGMP(r)
     \/ outInterfaceSelector
     \/ Return
     \/ \E s \in {OUT, ALTOUT} : Select(s)
     \/ ReadQuery \/ ReadReport \/ Cancel
     \/ \E p \in Inputs : Arrive(p)

Spec == Init /\ [][Next]_vars

-----------------------------------------------------------------------------
(* Properties *)

\* A buffer of the pool has one owner: it is in the pool at most once, never
\* while a receiver holds it, and two receivers never hold the same one.
\* Every path of recvIGMP that gives the buffer back must leave the iteration.
BufExclusive ==
  /\ \A b \in Bufs : /\ bytePool[b] <= 1
                     /\ bytePool[b] = 1 => \A r \in Receivers : buf[r] # b
  /\ \A r, s \in Receivers : buf[r] = buf[s] /\ buf[r] # NoBuf => r = s

\* What proxy sends begins with the packet that was received: no other
\* goroutine read into the buffer between ReadFrom and WriteTo.
PayloadIntact ==
  \A i \in DOMAIN wire : \A c \in 1 .. wire[i].pkt.len : wire[i].payload[c] = wire[i].pkt

\* A packet this process sent, and got back by multicast loopback, is not
\* relayed again: "check this is not from our own interface IP" in recvIGMP.
OwnNeverRelayed ==
  \A i \in DOMAIN wire : \A s \in Interfaces(conf) : wire[i].pkt.src # NetIP[s]

\* The non-blocking send to QueryNotifyCh coalesces notifications but never
\* loses the last one: an application that has not read since the last query
\* was handled finds a token.
QueryPending == unseenQuery => QueryNotifyCh > 0

\* Once outInterfaceSelector has stored another outside interface, a receiver
\* of the deselected one handles at most the packet it had already accepted.
LateBound == \A r \in Receivers : late[r] <= 1

\* The process never dereferences a connection that was not opened.
NoNilWrite == \A r \in Receivers : pc[r] = "write" => out[r] \in RawSides(conf)

-----------------------------------------------------------------------------
(* Fairness and liveness *)

\* Go schedules every goroutine that can run, and a read in progress ends with
\* a packet or at its deadline.  Nothing is assumed of the network and of the
\* application.
FairSpec ==
  /\ Spec
  /\ \A r \in Receivers : WF_vars(~ crashed /\ recvIGMP(r))
  /\ WF_vars(~ crashed /\ outInterfaceSelector)
  /\ WF_vars(~ crashed /\ Return)

\* A packet waits in the socket of the receiver it is meant for.
Waiting(r, p) ==
  /\ \E i \in DOMAIN sock[r] : sock[r][i] = p
  /\ proxyIt(conf, interf(r)) /\ ForUs(r, p) /\ p.type # "other"

Relayed(p) == \E i \in DOMAIN wire : wire[i].pkt = p

\* Without an alternative outside interface, and if reads fail only by their
\* deadline, a decodable packet for a relayed side and group is relayed unless
\* the context is cancelled first.
RelayedEventually ==
  \A r \in Receivers, p \in Inputs :
    Waiting(r, p) ~> (Relayed(p) \/ ctxDone \/ crashed)

\* After the context is cancelled Run returns: every goroutine notices within
\* one iteration, thanks to the read deadline.
ReturnsAfterCancel == ctxDone ~> (returned \/ crashed)
=============================================================================
