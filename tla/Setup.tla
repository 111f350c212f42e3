------------------------------- MODULE Setup -------------------------------
(***************************************************************************)
(* NewIGMPReporter and Run, block by block, for every configuration: which *)
(* sockets the constructor opens, under which addresses it keeps them, and *)
(* which goroutines Run starts on them.                                    *)
(***************************************************************************)
EXTENDS Config

CONSTANTS
  multicastGroups,  \* the values of destIP the reporter listens to
  Index             \* the interface indexes the kernel may assign

ASSUME IndexAssumption == Index \subseteq Nat \ {0} /\ Index # {}
ASSUME GroupAssumption == "allZerosHosts" \notin multicastGroups

\* Each destIP stands for an address of its own; allZerosHosts is the zero value.
destIP == multicastGroups \cup {"allZerosHosts"}

\* A net.IP is a slice: an IPv4 address takes 4 bytes or, mapped into IPv6, 16.
\* A netip.Addr remembers which, and == tells the two apart.
NetIPs == {4, 16} \X destIP
Addrs  == {"v4", "v4in6"} \X destIP

ParseIP(d)     == <<16, d>>
To4(ip)        == <<4, ip[2]>>
netip2Addr(ip) == <<IF ip[1] = 4 THEN "v4" ELSE "v4in6", ip[2]>>

VARIABLES
  conf, ifIndex,      \* the environment's choice; never change
  step,               \* the block executed next
  Interfaces_,        \* r.Interfaces, in order
  NetIFIndex_,        \* r.NetIFIndex
  mapIPtoNetIP, mapIPtoNetAddr, mapNetAddrtoIP,
  uCon,               \* whether uCon[IN] is open
  mConIGMP,           \* the sockets opened for a side and address: the address
                      \* each of them joined
  conRaw,             \* how often the raw connection of a side was opened
  started             \* the goroutines Run has started

env  == <<conf, ifIndex>>
IPs  == <<mapIPtoNetIP, mapIPtoNetAddr, mapNetAddrtoIP>>
maps == <<Interfaces_, NetIFIndex_, IPs>>
cons == <<uCon, mConIGMP, conRaw>>
vars == <<env, step, maps, cons, started>>

Steps == {"names", "maps", "lookup", "unicast", "notify", "outToIn", "inToOut",
          "runOutside", "runInside", "runUnicast", "runChannels", "running", "fatal"}

TypeOK ==
  /\ conf \in Config /\ ifIndex \in [Interfaces(conf) -> Index]
  /\ step \in Steps
  /\ Interfaces_ \in Seq(Side)
  /\ NetIFIndex_ \in [Index -> Side \cup {NoSide}]
  /\ mapIPtoNetIP \in [destIP -> NetIPs] /\ mapIPtoNetAddr \in [destIP -> Addrs]
  /\ mapNetAddrtoIP \in [Addrs -> destIP]
  /\ uCon \in BOOLEAN
  /\ mConIGMP \in [Side \X Addrs -> Seq(NetIPs)]
  /\ conRaw \in [Side -> Nat]
  /\ started \subseteq ({"recvIGMP"} \X Side \X multicastGroups)
       \cup {<<"outInterfaceSelector">>, <<"recvUnicastIGMP">>,
             <<"readMembershipReportToNetworkCh">>, <<"leaveToNetworkWorker">>,
             <<"connectQueryToReport">>, <<"testingReadMembershipReportsFromNetwork">>}

Init ==
  /\ conf \in Config /\ ifIndex \in [Interfaces(conf) -> Index]
  /\ step = "names"
  /\ Interfaces_ = <<>>
  /\ NetIFIndex_ = [i \in Index |-> NoSide]
  \* The maps are empty: no entry is read before makeIPMaps fills them.
  /\ mapIPtoNetIP = [d \in destIP |-> <<16, "allZerosHosts">>]
  /\ mapIPtoNetAddr = [d \in destIP |-> <<"v4in6", "allZerosHosts">>]
  /\ mapNetAddrtoIP = [a \in Addrs |-> "allZerosHosts"]
  /\ uCon = FALSE
  /\ mConIGMP = [x \in Side \X Addrs |-> <<>>]
  /\ conRaw = [s \in Side |-> 0]
  /\ started = {}

-----------------------------------------------------------------------------
(* NewIGMPReporter *)

\* createPacketConns opens the sockets of a side that are not open yet; each
\* joins the group it finds by its address in the two maps.  (The groups are
\* constants of the source and multicast, so the test of IsMulticast before the
\* socket is opened never ends the process.)
Socket(s, g)      == <<s, mapIPtoNetAddr[g]>>
openPacketConn(x) == mapIPtoNetIP[mapNetAddrtoIP[x[2]]]

\* Mutant: without the test for nil.
createPacketConnsAgain(cs, s) ==
  [x \in DOMAIN cs |-> IF \E g \in multicastGroups : x = Socket(s, g)
                         THEN Append(cs[x], openPacketConn(x)) ELSE cs[x]]

createPacketConns(cs, s) ==
  [x \in DOMAIN cs |-> IF cs[x] = <<>> /\ \E g \in multicastGroups : x = Socket(s, g)
                         THEN <<openPacketConn(x)>> ELSE cs[x]]

openRawConnection(raw, s) == IF raw[s] = 0 THEN [raw EXCEPT ![s] = 1] ELSE raw

When(cond, new, old) == IF cond THEN new ELSE old

\* Mutant: the third interface is appended whether it is named or not.
NamesUnguarded ==
  /\ step = "names" /\ step' = "maps"
  /\ Interfaces_' = <<INSIDE, OUT, When(conf.AltOut, ALTOUT, NoSide)>>
  /\ UNCHANGED <<env, NetIFIndex_, IPs, cons, started>>

Names ==
  /\ step = "names" /\ step' = "maps"
  /\ Interfaces_' = <<INSIDE, OUT>> \o When(conf.AltOut, <<ALTOUT>>, <<>>)
  /\ UNCHANGED <<env, NetIFIndex_, IPs, cons, started>>

FillMaps(netIP) ==
  /\ mapIPtoNetIP' = netIP
  /\ mapIPtoNetAddr' = [d \in destIP |-> netip2Addr(netIP[d])]
  /\ mapNetAddrtoIP' = [a \in Addrs |-> IF \E d \in destIP : netip2Addr(netIP[d]) = a
                                           THEN a[2] ELSE "allZerosHosts"]

\* Mutant: the 16 bytes of ParseIP are kept.
makeIPMapsLong ==
  /\ step = "maps" /\ step' = "lookup"
  /\ FillMaps([d \in destIP |-> ParseIP(d)])
  /\ UNCHANGED <<env, Interfaces_, NetIFIndex_, cons, started>>

\* An address that is not in mapNetAddrtoIP reads as the zero destIP.
makeIPMaps ==
  /\ step = "maps" /\ step' = "lookup"
  /\ FillMaps([d \in destIP |-> To4(ParseIP(d))])
  /\ UNCHANGED <<env, Interfaces_, NetIFIndex_, cons, started>>

\* Mutant: an earlier side keeps its entry.
LookupKeepsFirst ==
  /\ step = "lookup" /\ step' = "unicast"
  /\ NetIFIndex_' =
       [i \in Index |->
          LET at == {k \in DOMAIN Interfaces_ : ifIndex[Interfaces_[k]] = i}
          IN  IF at = {} THEN NoSide
              ELSE Interfaces_[CHOOSE k \in at : \A l \in at : l >= k]]
  /\ UNCHANGED <<env, Interfaces_, IPs, cons, started>>

\* The loop over r.Interfaces: a later side overwrites an earlier one's entry.
Lookup ==
  /\ step = "lookup" /\ step' = "unicast"
  /\ NetIFIndex_' =
       [i \in Index |->
          LET at == {k \in DOMAIN Interfaces_ : ifIndex[Interfaces_[k]] = i}
          IN  IF at = {} THEN NoSide
              ELSE Interfaces_[CHOOSE k \in at : \A l \in at : l <= k]]
  /\ UNCHANGED <<env, Interfaces_, IPs, cons, started>>

OpenUnicast ==
  /\ step = "unicast" /\ step' = "notify"
  /\ uCon' = conf.UnicastProxyInToOut
  /\ conRaw' = When(conf.UnicastProxyInToOut, openRawConnection(conRaw, OUT), conRaw)
  /\ UNCHANGED <<env, maps, mConIGMP, started>>

OpenNotify ==
  /\ step = "notify" /\ step' = "outToIn"
  /\ mConIGMP' = When(conf.QueryNotify \/ conf.MembershipReportsFromNetwork,
                      createPacketConns(mConIGMP, OUT), mConIGMP)
  /\ UNCHANGED <<env, maps, uCon, conRaw, started>>

\* Mutant: the raw connection towards the inside is forgotten.
OpenOutToInNoRaw ==
  /\ step = "outToIn" /\ step' = "inToOut"
  /\ LET cs == When(conf.ProxyOutToIn, createPacketConns(mConIGMP, OUT), mConIGMP)
     IN  mConIGMP' = When(conf.ProxyOutToIn /\ conf.AltOut, createPacketConns(cs, ALTOUT), cs)
  /\ UNCHANGED <<env, maps, uCon, conRaw, started>>

OpenOutToIn ==
  /\ step = "outToIn" /\ step' = "inToOut"
  /\ IF conf.ProxyOutToIn
       THEN LET cs == createPacketConns(mConIGMP, OUT)
            IN  /\ mConIGMP' = When(conf.AltOut, createPacketConns(cs, ALTOUT), cs)
                /\ conRaw' = openRawConnection(conRaw, INSIDE)
       ELSE UNCHANGED <<mConIGMP, conRaw>>
  /\ UNCHANGED <<env, maps, uCon, started>>

\* For ALTOUT the log says openRawConnection, the call is createPacketConns.
OpenInToOut ==
  /\ step = "inToOut" /\ step' = "runOutside"
  /\ IF conf.ProxyInToOut \/ conf.MembershipReportsToNetwork
       THEN LET cs == createPacketConns(mConIGMP, INSIDE)
            IN  /\ mConIGMP' = When(conf.AltOut, createPacketConns(cs, ALTOUT), cs)
                /\ conRaw' = openRawConnection(conRaw, OUT)
       ELSE UNCHANGED <<mConIGMP, conRaw>>
  /\ UNCHANGED <<env, maps, uCon, started>>

\* A UnicastDst that is no address makes MustParseAddr panic before the maps are
\* made; an interface that is missing or has no address, or a socket that cannot
\* be opened, set up or joined to its group, is log.Fatal.
Fatal ==
  /\ step \in {"maps", "lookup", "unicast", "notify", "outToIn", "inToOut"}
  /\ step' = "fatal"
  /\ UNCHANGED <<env, maps, cons, started>>

-----------------------------------------------------------------------------
(* Run *)

Start(from, to, routines) ==
  /\ step = from /\ step' = to
  /\ started' = started \cup routines
  /\ UNCHANGED <<env, maps, cons>>

recvIGMPs(s) == {<<"recvIGMP", s, g>> : g \in multicastGroups}

RunOutside ==
  Start("runOutside", "runInside",
    When(conf.ProxyOutToIn \/ conf.QueryNotify \/ conf.MembershipReportsFromNetwork,
      recvIGMPs(OUT) \cup
        When(conf.AltOut, recvIGMPs(ALTOUT) \cup {<<"outInterfaceSelector">>}, {}), {}))

RunInside == Start("runInside", "runUnicast", When(conf.ProxyInToOut, recvIGMPs(INSIDE), {}))

RunUnicast ==
  Start("runUnicast", "runChannels", When(conf.UnicastProxyInToOut, {<<"recvUnicastIGMP">>}, {}))

RunChannels ==
  Start("runChannels", "running",
    UNION {When(conf.MembershipReportsToNetwork, {<<"readMembershipReportToNetworkCh">>}, {}),
           When(conf.LeaveToNetwork, {<<"leaveToNetworkWorker">>}, {}),
           When(conf.ConnectQueryToReport, {<<"connectQueryToReport">>}, {}),
           When(conf.MembershipReportsReader, {<<"testingReadMembershipReportsFromNetwork">>}, {})})

Next ==
  \/ Names \/ makeIPMaps \/ Lookup \/ Fatal \/ OpenUnicast \/ OpenNotify \/ OpenOutToIn \/ OpenInToOut
  \/ RunOutside \/ RunInside \/ RunUnicast \/ RunChannels

Spec == Init /\ [][Next]_vars

-----------------------------------------------------------------------------
(* Properties *)

\* The operators of module Config, on which the other modules rest, name
\* exactly what the constructor opens and Run starts, in every configuration.
Agrees ==
  step = "running" =>
    /\ \A s \in Side, g \in multicastGroups :
         /\ mConIGMP[Socket(s, g)] # <<>> <=> s \in McastSides(conf)
         /\ <<"recvIGMP", s, g>> \in started <=> s \in RecvSides(conf)
    /\ \A s \in Side : conRaw[s] > 0 <=> s \in RawSides(conf)
    /\ \A i \in Index : NetIFIndex_[i] = NetIFIndex(conf, ifIndex, i)
    /\ <<"outInterfaceSelector">> \in started <=> OutsideInterfaces(conf) \cap RecvSides(conf) # {}

\* Blocks that need the same socket share it: createPacketConns and the tests
\* of conRaw for nil make sure that no socket is opened twice and leaked.
OpenedOnce ==
  /\ \A x \in Side \X Addrs : Len(mConIGMP[x]) <= 1
  /\ \A s \in Side : conRaw[s] <= 1

\* The sides a goroutine may find in IntOutName for packets of side s: the one
\* the constructor stored and, for the inside once outInterfaceSelector runs, any
\* side the application sends to it.
IntOutNames(s) ==
  {InitialIntOutName[s]}
    \cup (IF s = INSIDE /\ <<"outInterfaceSelector">> \in started THEN Side ELSE {})

\* Three defects of the constructor.  The block for notifications opens sockets
\* on OUT alone, yet Run starts receivers on ALTOUT as well; no block opens a raw
\* connection for leaves; none opens one on ALTOUT, nor, with relaying to the
\* outside only, on the inside, and either side can be selected.
NotifiedFromAltOut(s) ==
  /\ s = ALTOUT /\ (conf.QueryNotify \/ conf.MembershipReportsFromNetwork)
  /\ ~ (conf.ProxyOutToIn \/ conf.ProxyInToOut \/ conf.MembershipReportsToNetwork)

OnlyLeaves ==
  conf.LeaveToNetwork /\ ~ (conf.UnicastProxyInToOut \/ conf.ProxyInToOut
                             \/ conf.MembershipReportsToNetwork)

SelectedUnopened(s) == s = ALTOUT \/ (s = INSIDE /\ ~ conf.ProxyOutToIn)

\* Whatever the flags, a goroutine that Run starts finds every connection it may
\* use, whichever side is selected while it runs: recvIGMP its sockets, and what
\* sends the raw connection it sends on.  Each of the others is nil and would be
\* dereferenced; the three defects above are all there are.
\* (connectQueryToReport sends lists without groups, so it uses no connection.)
Ready ==
  step = "running" =>
    /\ \A s \in Side, g \in multicastGroups :
         <<"recvIGMP", s, g>> \in started =>
           /\ mConIGMP[Socket(s, g)] # <<>> \/ NotifiedFromAltOut(s)
           /\ proxyIt(conf, s) => \A o \in IntOutNames(s) : conRaw[o] > 0 \/ SelectedUnopened(o)
    /\ <<"recvUnicastIGMP">> \in started =>
         uCon /\ \A o \in IntOutNames(INSIDE) : conRaw[o] > 0 \/ SelectedUnopened(o)
    /\ <<"readMembershipReportToNetworkCh">> \in started => conRaw[OUT] > 0
    /\ <<"leaveToNetworkWorker">> \in started => conRaw[OUT] > 0 \/ OnlyLeaves

\* The sockets are kept under a netip.Addr made of constants, and the filter of
\* recvIGMP compares it with one made of the 4 bytes of a control message: still
\* the socket a receiver reads has joined the receiver's group, and the filter
\* lets pass what was sent to that group and nothing else.
Delivered(d) == netip2Addr(<<4, d>>)

HearsItsGroup ==
  step = "running" =>
    \A s \in Side, g \in multicastGroups :
      <<"recvIGMP", s, g>> \in started =>
        /\ \A i \in DOMAIN mConIGMP[Socket(s, g)] : mConIGMP[Socket(s, g)][i] = <<4, g>>
        /\ \A d \in destIP : Delivered(d) = mapIPtoNetAddr[g] <=> d = g
=============================================================================
