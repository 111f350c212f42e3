---------------------------- MODULE SetupProofs ----------------------------
(***************************************************************************)
(* For any set of groups and interface indexes, and every configuration:   *)
(* what the constructor opens and Run starts.  The program is a sequence   *)
(* of blocks, so the invariant says what each of them finds.               *)
(***************************************************************************)
EXTENDS Setup, TLAPS

USE GroupAssumption DEF destIP

-----------------------------------------------------------------------------
\* The address maps, once makeIPMaps has filled them.
MapsFilled ==
  step \notin {"names", "maps", "fatal"} =>
    /\ mapIPtoNetIP = [d \in destIP |-> <<4, d>>]
    /\ mapIPtoNetAddr = [d \in destIP |-> <<"v4", d>>]
    /\ \A d \in destIP : mapNetAddrtoIP[<<"v4", d>>] = d

\* The sockets of the sides in S: each has joined the group it is kept under.
Conns(S) ==
  [x \in Side \X Addrs |-> IF x[1] \in S /\ \E g \in multicastGroups : x[2] = <<"v4", g>>
                             THEN << <<4, x[2][2]>> >> ELSE <<>>]

Raws(S) == [s \in Side |-> IF s \in S THEN 1 ELSE 0]

\* The sides whose sockets and raw connections each block finds open.
NotifySides  == IF conf.QueryNotify \/ conf.MembershipReportsFromNetwork THEN {OUT} ELSE {}
OutToInSides == IF conf.ProxyOutToIn
                  THEN (IF conf.AltOut THEN {OUT, ALTOUT} ELSE {OUT}) ELSE {}

Opened ==
  IF step \in {"names", "maps", "lookup", "unicast", "notify"} THEN {}
  ELSE IF step = "outToIn" THEN NotifySides
  ELSE IF step = "inToOut" THEN NotifySides \cup OutToInSides
  ELSE McastSides(conf)

RawOpened ==
  IF step \in {"names", "maps", "lookup", "unicast"} THEN {}
  ELSE IF step \in {"notify", "outToIn"} THEN (IF conf.UnicastProxyInToOut THEN {OUT} ELSE {})
  ELSE IF step = "inToOut" THEN (IF conf.UnicastProxyInToOut THEN {OUT} ELSE {})
                                \cup (IF conf.ProxyOutToIn THEN {INSIDE} ELSE {})
  ELSE RawSides(conf)

ConsOpened ==
  step # "fatal" =>
    /\ mConIGMP = Conns(Opened) /\ conRaw = Raws(RawOpened)
    /\ uCon = (conf.UnicastProxyInToOut /\ step \notin {"names", "maps", "lookup", "unicast"})

\* The interface names and the index map.
NamesFilled ==
  /\ step # "names" => Interfaces_ = IF conf.AltOut THEN <<INSIDE, OUT, ALTOUT>> ELSE <<INSIDE, OUT>>
  /\ step \notin {"names", "maps", "lookup", "fatal"} =>
       NetIFIndex_ = [i \in Index |-> NetIFIndex(conf, ifIndex, i)]

\* The goroutines started, block by block.
Launched ==
  /\ step \notin {"runInside", "runUnicast", "runChannels", "running"} => started = {}
  /\ step = "runInside" => \A s \in Side, g \in multicastGroups :
       <<"recvIGMP", s, g>> \in started <=> s \in RecvSides(conf) \ {INSIDE}
  /\ step \in {"runUnicast", "runChannels", "running"} => \A s \in Side, g \in multicastGroups :
       <<"recvIGMP", s, g>> \in started <=> s \in RecvSides(conf)
  /\ step \in {"runInside", "runUnicast", "runChannels", "running"} =>
       (<<"outInterfaceSelector">> \in started <=> OutsideInterfaces(conf) \cap RecvSides(conf) # {})
  /\ <<"recvUnicastIGMP">> \in started => conf.UnicastProxyInToOut
  /\ <<"readMembershipReportToNetworkCh">> \in started => conf.MembershipReportsToNetwork
  /\ <<"leaveToNetworkWorker">> \in started => conf.LeaveToNetwork

Chosen == conf \in Config /\ ifIndex \in [Interfaces(conf) -> Index] /\ step \in Steps

IInv == Chosen /\ MapsFilled /\ ConsOpened /\ NamesFilled /\ Launched /\ OpenedOnce

-----------------------------------------------------------------------------
LEMMA SideFacts ==
  /\ Side = {INSIDE, OUT, ALTOUT} /\ INSIDE # OUT /\ INSIDE # ALTOUT /\ OUT # ALTOUT
BY DEF Side, INSIDE, OUT, ALTOUT

LEMMA AddrFacts == \A d \in destIP : <<"v4", d>> \in Addrs
BY DEF Addrs

\* createPacketConns adds the sockets of one side and keeps those there are.
LEMMA CreateConns ==
  ASSUME MapsFilled, step \notin {"names", "maps", "fatal"}, NEW S, NEW s \in Side
  PROVE  createPacketConns(Conns(S), s) = Conns(S \cup {s})
<1>1. \A g \in multicastGroups : Socket(s, g) = <<s, <<"v4", g>>>>
  BY DEF MapsFilled, Socket
<1>2. \A g \in multicastGroups : openPacketConn(<<s, <<"v4", g>>>>) = <<4, g>>
  BY DEF MapsFilled, openPacketConn
<1>3. ASSUME NEW x \in Side \X Addrs
      PROVE  createPacketConns(Conns(S), s)[x] = Conns(S \cup {s})[x]
  <2>1. x = <<x[1], x[2]>>
    OBVIOUS
  <2>2. (\E g \in multicastGroups : x = Socket(s, g))
          <=> x[1] = s /\ \E g \in multicastGroups : x[2] = <<"v4", g>>
    BY <1>1, <2>1
  <2>3. CASE \E g \in multicastGroups : x = Socket(s, g)
    <3>1. openPacketConn(x) = <<4, x[2][2]>>
      BY <1>1, <1>2, <2>3
    <3> QED BY <2>2, <2>3, <3>1 DEF createPacketConns, Conns
  <2>4. CASE ~ \E g \in multicastGroups : x = Socket(s, g)
    BY <2>2, <2>4 DEF createPacketConns, Conns
  <2> QED BY <2>3, <2>4
<1>4. DOMAIN createPacketConns(Conns(S), s) = Side \X Addrs
  BY DEF createPacketConns, Conns
<1>5. createPacketConns(Conns(S), s) = [x \in Side \X Addrs |-> createPacketConns(Conns(S), s)[x]]
  BY DEF createPacketConns, Conns
<1>6. Conns(S \cup {s}) = [x \in Side \X Addrs |-> Conns(S \cup {s})[x]]
  BY DEF Conns
<1> HIDE DEF Conns
<1> QED BY <1>3, <1>5, <1>6

LEMMA OpenRaw ==
  ASSUME NEW S, NEW s \in Side
  PROVE  openRawConnection(Raws(S), s) = Raws(S \cup {s})
BY DEF openRawConnection, Raws

LEMMA ConnsOnce ==
  ASSUME NEW S, NEW T
  PROVE  /\ \A x \in Side \X Addrs : Len(Conns(S)[x]) <= 1
         /\ \A s \in Side : Raws(T)[s] <= 1
BY DEF Conns, Raws

LEMMA InitHolds == Init => IInv
<1> SUFFICES ASSUME Init PROVE IInv
    OBVIOUS
<1>1. mConIGMP = Conns({}) /\ conRaw = Raws({})
  BY DEF Init, Conns, Raws
<1>2. Chosen /\ MapsFilled /\ ConsOpened /\ NamesFilled /\ Launched
  BY <1>1 DEF Init, Chosen, Steps, MapsFilled, ConsOpened, Opened, RawOpened, NamesFilled, Launched
<1>3. OpenedOnce
  BY DEF Init, OpenedOnce
<1> QED BY <1>2, <1>3 DEF IInv

LEMMA NamesStep == IInv /\ Names => IInv'
<1> SUFFICES ASSUME IInv, Names PROVE IInv'
    OBVIOUS
<1>1. Interfaces_' = IF conf.AltOut THEN <<INSIDE, OUT, ALTOUT>> ELSE <<INSIDE, OUT>>
  BY DEF Names, When
<1> QED BY <1>1 DEF Names, IInv, Chosen, Steps, MapsFilled, ConsOpened, Opened, RawOpened, NamesFilled,
              Launched, OpenedOnce, env, cons, IPs

LEMMA MapsStep == IInv /\ makeIPMaps => IInv'
<1> SUFFICES ASSUME IInv, makeIPMaps PROVE IInv'
    OBVIOUS
<1>1. /\ mapIPtoNetIP' = [d \in destIP |-> <<4, d>>]
      /\ mapIPtoNetAddr' = [d \in destIP |-> <<"v4", d>>]
  BY DEF makeIPMaps, FillMaps, To4, ParseIP, netip2Addr
<1>2. \A d \in destIP : mapNetAddrtoIP'[<<"v4", d>>] = d
  <2>1. ASSUME NEW d \in destIP PROVE mapNetAddrtoIP'[<<"v4", d>>] = d
    <3>1. netip2Addr(To4(ParseIP(d))) = <<"v4", d>> /\ <<"v4", d>> \in Addrs
      BY DEF netip2Addr, To4, ParseIP, Addrs
    <3> QED BY <3>1 DEF makeIPMaps, FillMaps
  <2> QED BY <2>1
<1>3. /\ step' = "lookup" /\ step = "maps"
      /\ UNCHANGED <<conf, ifIndex, Interfaces_, NetIFIndex_, uCon, mConIGMP, conRaw, started>>
  BY DEF makeIPMaps, env, cons
<1> QED BY <1>1, <1>2, <1>3 DEF IInv, Chosen, Steps, MapsFilled, ConsOpened, Opened, RawOpened, NamesFilled,
              Launched, OpenedOnce

\* The index map ends up as Config says: a later side overwrites an earlier one.
LEMMA LookupIs ==
  ASSUME IInv, Lookup
  PROVE  NetIFIndex_' = [i \in Index |-> NetIFIndex(conf, ifIndex, i)]
<1> DEFINE At(i) == {k \in DOMAIN Interfaces_ : ifIndex[Interfaces_[k]] = i}
<1>1. Interfaces_ = IF conf.AltOut THEN <<INSIDE, OUT, ALTOUT>> ELSE <<INSIDE, OUT>>
  BY DEF IInv, NamesFilled, Lookup
<1>2. ASSUME NEW i \in Index
      PROVE  (IF At(i) = {} THEN NoSide ELSE Interfaces_[CHOOSE k \in At(i) : \A l \in At(i) : l <= k])
               = NetIFIndex(conf, ifIndex, i)
  <2> DEFINE m == CHOOSE k \in At(i) : \A l \in At(i) : l <= k
             owners == {s \in Interfaces(conf) : ifIndex[s] = i}
  <2> SUFFICES (IF At(i) = {} THEN NoSide ELSE Interfaces_[m]) = NetIFIndex(conf, ifIndex, i)
    OBVIOUS
  <2>1. \A k, l \in At(i) : (\A j \in At(i) : j <= k) /\ (\A j \in At(i) : j <= l) => k = l
    BY <1>1
  <2>2. ASSUME NEW k \in At(i), \A l \in At(i) : l <= k PROVE m = k
    BY <2>1, <2>2
  <2>3. CASE conf.AltOut
    <3>1. /\ DOMAIN Interfaces_ = {1, 2, 3} /\ Interfaces_[1] = INSIDE /\ Interfaces_[2] = OUT
          /\ Interfaces_[3] = ALTOUT /\ Interfaces(conf) = {INSIDE, OUT, ALTOUT}
      BY <1>1, <2>3 DEF Interfaces, AltOutExists
    <3>2. CASE ifIndex[ALTOUT] = i
      <4>1. 3 \in At(i) /\ \A l \in At(i) : l <= 3
        BY <3>1, <3>2
      <4>2. m = 3 /\ ALTOUT \in owners
        BY <2>2, <3>1, <3>2, <4>1
      <4>3. At(i) # {}
        BY <4>1
      <4> HIDE DEF At, m
      <4> QED BY <3>1, <4>2, <4>3, SideFacts DEF NetIFIndex
    <3>3. CASE ifIndex[ALTOUT] # i /\ ifIndex[OUT] = i
      <4>1. 2 \in At(i) /\ \A l \in At(i) : l <= 2
        BY <3>1, <3>3
      <4>2. m = 2 /\ ALTOUT \notin owners /\ OUT \in owners
        BY <2>2, <3>1, <3>3, <4>1
      <4>3. At(i) # {}
        BY <4>1
      <4> HIDE DEF At, m
      <4> QED BY <3>1, <4>2, <4>3, SideFacts DEF NetIFIndex
    <3>4. CASE ifIndex[ALTOUT] # i /\ ifIndex[OUT] # i /\ ifIndex[INSIDE] = i
      <4>1. 1 \in At(i) /\ \A l \in At(i) : l <= 1
        BY <3>1, <3>4
      <4>2. m = 1 /\ ALTOUT \notin owners /\ OUT \notin owners /\ INSIDE \in owners
        BY <2>2, <3>1, <3>4, <4>1
      <4>3. At(i) # {}
        BY <4>1
      <4> HIDE DEF At, m
      <4> QED BY <3>1, <4>2, <4>3, SideFacts DEF NetIFIndex
    <3>5. CASE ifIndex[ALTOUT] # i /\ ifIndex[OUT] # i /\ ifIndex[INSIDE] # i
      <4>1. At(i) = {} /\ ALTOUT \notin owners /\ OUT \notin owners /\ INSIDE \notin owners
        BY <3>1, <3>5
      <4> QED BY <4>1 DEF NetIFIndex
    <3> QED BY <3>2, <3>3, <3>4, <3>5
  <2>4. CASE ~ conf.AltOut
    <3>1. /\ DOMAIN Interfaces_ = {1, 2} /\ Interfaces_[1] = INSIDE /\ Interfaces_[2] = OUT
          /\ Interfaces(conf) = {INSIDE, OUT} /\ ALTOUT \notin owners
      BY <1>1, <2>4, SideFacts DEF Interfaces, AltOutExists
    <3>3. CASE ifIndex[OUT] = i
      <4>1. 2 \in At(i) /\ \A l \in At(i) : l <= 2
        BY <3>1, <3>3
      <4>2. m = 2 /\ OUT \in owners
        BY <2>2, <3>1, <3>3, <4>1
      <4>3. At(i) # {}
        BY <4>1
      <4> HIDE DEF At, m
      <4> QED BY <3>1, <4>2, <4>3, SideFacts DEF NetIFIndex
    <3>4. CASE ifIndex[OUT] # i /\ ifIndex[INSIDE] = i
      <4>1. 1 \in At(i) /\ \A l \in At(i) : l <= 1
        BY <3>1, <3>4
      <4>2. m = 1 /\ OUT \notin owners /\ INSIDE \in owners
        BY <2>2, <3>1, <3>4, <4>1
      <4>3. At(i) # {}
        BY <4>1
      <4> HIDE DEF At, m
      <4> QED BY <3>1, <4>2, <4>3, SideFacts DEF NetIFIndex
    <3>5. CASE ifIndex[OUT] # i /\ ifIndex[INSIDE] # i
      <4>1. At(i) = {} /\ OUT \notin owners /\ INSIDE \notin owners
        BY <3>1, <3>5
      <4> QED BY <3>1, <4>1 DEF NetIFIndex
    <3> QED BY <3>3, <3>4, <3>5
  <2> QED BY <2>3, <2>4
<1> QED BY <1>2 DEF Lookup

LEMMA LookupStep == IInv /\ Lookup => IInv'
<1> SUFFICES ASSUME IInv, Lookup PROVE IInv'
    OBVIOUS
<1>1. NetIFIndex_' = [i \in Index |-> NetIFIndex(conf, ifIndex, i)]
  BY LookupIs
<1>2. /\ step = "lookup" /\ step' = "unicast"
      /\ UNCHANGED <<env, Interfaces_, IPs, cons, started>>
  BY DEF Lookup
<1> QED BY <1>1, <1>2 DEF IInv, Chosen, Steps, MapsFilled, ConsOpened, Opened, RawOpened, NamesFilled,
              Launched, OpenedOnce, env, cons, IPs

LEMMA FatalStep == IInv /\ Fatal => IInv'
BY DEF Fatal, IInv, Chosen, Steps, MapsFilled, ConsOpened, NamesFilled, Launched, OpenedOnce,
       env, maps, IPs, cons

-----------------------------------------------------------------------------
\* A block that opens connections changes nothing else the invariant speaks of.
LEMMA OpenStep ==
  ASSUME IInv, ConsOpened',
         step \in {"unicast", "notify", "outToIn", "inToOut"},
         step' \in {"notify", "outToIn", "inToOut", "runOutside"},
         UNCHANGED <<env, maps, started>>
  PROVE  IInv'
<1>1. ConsOpened' /\ step' # "fatal" => OpenedOnce'
  BY ConnsOnce DEF ConsOpened, OpenedOnce
<1>2. Chosen' /\ MapsFilled' /\ NamesFilled' /\ Launched'
  BY DEF IInv, Chosen, Steps, MapsFilled, NamesFilled, Launched, env, maps, IPs
<1> QED BY <1>1, <1>2 DEF IInv

LEMMA UnicastStep == IInv /\ OpenUnicast => IInv'
<1> SUFFICES ASSUME IInv, OpenUnicast PROVE IInv'
    OBVIOUS
<1>1. /\ step = "unicast" /\ step' = "notify" /\ UNCHANGED <<env, maps, mConIGMP, started>>
      /\ uCon' = conf.UnicastProxyInToOut
      /\ mConIGMP = Conns({}) /\ conRaw = Raws({})
      /\ Opened' = {} /\ RawOpened' = IF conf.UnicastProxyInToOut THEN {OUT} ELSE {}
  BY DEF OpenUnicast, IInv, ConsOpened, Opened, RawOpened, env
<1>2. conRaw' = Raws(RawOpened')
  <2>1. openRawConnection(Raws({}), OUT) = Raws({} \cup {OUT})
    BY OpenRaw, SideFacts
  <2>2. {} \cup {OUT} = {OUT}
    OBVIOUS
  <2> QED BY <1>1, <2>1, <2>2 DEF OpenUnicast, When
<1>3. ConsOpened'
  <2>1. mConIGMP' = Conns(Opened')
    BY <1>1
  <2>2. conf.UnicastProxyInToOut \in BOOLEAN
    BY DEF IInv, Chosen, Config
  <2>3. uCon' = (conf'.UnicastProxyInToOut /\ step' \notin {"names", "maps", "lookup", "unicast"})
    BY <1>1, <2>2 DEF env
  <2> QED BY <1>2, <2>1, <2>3 DEF ConsOpened
<1> QED BY <1>1, <1>3, OpenStep

LEMMA NotifyStep == IInv /\ OpenNotify => IInv'
<1> SUFFICES ASSUME IInv, OpenNotify PROVE IInv'
    OBVIOUS
<1>1. /\ step = "notify" /\ step' = "outToIn" /\ UNCHANGED <<env, maps, uCon, conRaw, started>>
      /\ mConIGMP = Conns({}) /\ conRaw = Raws(RawOpened)
      /\ Opened' = NotifySides /\ RawOpened' = RawOpened
  BY DEF OpenNotify, IInv, ConsOpened, Opened, RawOpened, NotifySides, env
<1>2. mConIGMP' = Conns(NotifySides)
  <2>1. createPacketConns(Conns({}), OUT) = Conns({} \cup {OUT})
    BY <1>1, CreateConns, SideFacts DEF IInv
  <2>2. {} \cup {OUT} = {OUT}
    OBVIOUS
  <2> QED BY <1>1, <2>1, <2>2 DEF OpenNotify, When, NotifySides
<1>3. ConsOpened'
  BY <1>1, <1>2 DEF ConsOpened, env, IInv
<1> QED BY <1>1, <1>3, OpenStep

LEMMA OutToInStep == IInv /\ OpenOutToIn => IInv'
<1> SUFFICES ASSUME IInv, OpenOutToIn PROVE IInv'
    OBVIOUS
<1>1. /\ step = "outToIn" /\ step' = "inToOut" /\ UNCHANGED <<env, maps, uCon, started>>
      /\ mConIGMP = Conns(NotifySides) /\ conRaw = Raws(RawOpened)
      /\ Opened' = NotifySides \cup OutToInSides
      /\ RawOpened' = RawOpened \cup (IF conf.ProxyOutToIn THEN {INSIDE} ELSE {})
  BY DEF OpenOutToIn, IInv, ConsOpened, Opened, RawOpened, NotifySides, OutToInSides, env
<1>2. mConIGMP' = Conns(NotifySides \cup OutToInSides)
  <2>1. createPacketConns(Conns(NotifySides), OUT) = Conns(NotifySides \cup {OUT})
    BY <1>1, CreateConns, SideFacts DEF IInv
  <2>2. createPacketConns(Conns(NotifySides \cup {OUT}), ALTOUT) = Conns((NotifySides \cup {OUT}) \cup {ALTOUT})
    BY <1>1, CreateConns, SideFacts DEF IInv
  <2>3. /\ (NotifySides \cup {OUT}) \cup {ALTOUT} = NotifySides \cup {OUT, ALTOUT}
        /\ NotifySides \cup {} = NotifySides
    OBVIOUS
  <2> QED BY <1>1, <2>1, <2>2, <2>3 DEF OpenOutToIn, When, OutToInSides
<1>3. conRaw' = Raws(RawOpened')
  <2>1. openRawConnection(Raws(RawOpened), INSIDE) = Raws(RawOpened \cup {INSIDE})
    BY OpenRaw, SideFacts
  <2>2. RawOpened \cup {} = RawOpened
    OBVIOUS
  <2> QED BY <1>1, <2>1, <2>2 DEF OpenOutToIn
<1>4. ConsOpened'
  <2>1. mConIGMP' = Conns(Opened')
    BY <1>1, <1>2
  <2> QED BY <1>1, <1>3, <2>1 DEF ConsOpened, env, IInv
<1> QED BY <1>1, <1>4, OpenStep

LEMMA InToOutStep == IInv /\ OpenInToOut => IInv'
<1> SUFFICES ASSUME IInv, OpenInToOut PROVE IInv'
    OBVIOUS
<1> DEFINE S == NotifySides \cup OutToInSides
<1>1. /\ step = "inToOut" /\ step' = "runOutside" /\ UNCHANGED <<env, maps, uCon, started>>
      /\ mConIGMP = Conns(S) /\ conRaw = Raws(RawOpened)
      /\ Opened' = McastSides(conf) /\ RawOpened' = RawSides(conf)
  BY DEF OpenInToOut, IInv, ConsOpened, Opened, RawOpened, env
<1>2. mConIGMP' = Conns(McastSides(conf))
  <2>1. createPacketConns(Conns(S), INSIDE) = Conns(S \cup {INSIDE})
    BY <1>1, CreateConns, SideFacts DEF IInv
  <2>2. createPacketConns(Conns(S \cup {INSIDE}), ALTOUT) = Conns((S \cup {INSIDE}) \cup {ALTOUT})
    BY <1>1, CreateConns, SideFacts DEF IInv
  <2>3. McastSides(conf) =
          IF conf.ProxyInToOut \/ conf.MembershipReportsToNetwork
            THEN IF conf.AltOut THEN (S \cup {INSIDE}) \cup {ALTOUT} ELSE S \cup {INSIDE}
            ELSE S
    BY DEF McastSides, AltOutExists, NotifySides, OutToInSides
  <2> HIDE DEF S
  <2> QED BY <1>1, <2>1, <2>2, <2>3 DEF OpenInToOut, When
<1>3. conRaw' = Raws(RawSides(conf))
  <2>1. openRawConnection(Raws(RawOpened), OUT) = Raws(RawOpened \cup {OUT})
    BY OpenRaw, SideFacts
  <2>2. RawSides(conf) = IF conf.ProxyInToOut \/ conf.MembershipReportsToNetwork
                           THEN RawOpened \cup {OUT} ELSE RawOpened
    BY <1>1 DEF RawSides, RawOpened
  <2> QED BY <1>1, <2>1, <2>2 DEF OpenInToOut
<1>4. ConsOpened'
  <2>1. mConIGMP' = Conns(Opened') /\ conRaw' = Raws(RawOpened')
    BY <1>1, <1>2, <1>3
  <2> QED BY <1>1, <2>1 DEF ConsOpened, env, IInv
<1> QED BY <1>1, <1>4, OpenStep

-----------------------------------------------------------------------------
\* Which receivers, and which other goroutines, a set of started ones contains.
LEMMA Receivers ==
  /\ \A s, t \in Side, g \in multicastGroups : <<"recvIGMP", s, g>> \in recvIGMPs(t) <=> s = t
  /\ \A s \in Side, g \in multicastGroups, n \in STRING : <<"recvIGMP", s, g>> # <<n>>
  /\ \A t \in Side :
       \A n \in {"outInterfaceSelector", "recvUnicastIGMP", "readMembershipReportToNetworkCh",
                 "leaveToNetworkWorker"} : <<n>> \notin recvIGMPs(t)
<1>1. \A s, t \in Side, g \in multicastGroups : <<"recvIGMP", s, g>> \in recvIGMPs(t) <=> s = t
  BY DEF recvIGMPs
<1>2. \A s, g, n : <<"recvIGMP", s, g>> # <<n>>
  OBVIOUS
<1>3. \A t, n : <<n>> \notin recvIGMPs(t)
  BY <1>2 DEF recvIGMPs
<1> QED BY <1>1, <1>2, <1>3

\* A block of Run changes nothing but what is started.
LEMMA RunStep ==
  ASSUME IInv, Launched', UNCHANGED <<env, maps, cons>>,
         step \in {"runOutside", "runInside", "runUnicast", "runChannels"},
         step' \in {"runInside", "runUnicast", "runChannels", "running"}
  PROVE  IInv'
<1>1. Opened' = Opened /\ RawOpened' = RawOpened
  BY DEF Opened, RawOpened, env
<1>2. ConsOpened'
  BY <1>1 DEF IInv, ConsOpened, env, cons
<1> QED BY <1>2 DEF IInv, Chosen, Steps, MapsFilled, NamesFilled, OpenedOnce, env, maps, IPs, cons

LEMMA RunOutsideStep == IInv /\ RunOutside => IInv'
<1> SUFFICES ASSUME IInv, RunOutside PROVE IInv'
    OBVIOUS
<1> DEFINE listens == conf.ProxyOutToIn \/ conf.QueryNotify \/ conf.MembershipReportsFromNetwork
           sel     == {<<"outInterfaceSelector">>}
<1>1. /\ step = "runOutside" /\ step' = "runInside" /\ UNCHANGED <<env, maps, cons>>
      /\ started' = IF listens THEN recvIGMPs(OUT) \cup (IF conf.AltOut THEN recvIGMPs(ALTOUT) \cup sel ELSE {})
                               ELSE {}
  BY DEF RunOutside, Start, When, IInv, Launched
<1>2. /\ RecvSides(conf) \ {INSIDE} =
           IF listens THEN (IF conf.AltOut THEN {OUT, ALTOUT} ELSE {OUT}) ELSE {}
      /\ OutsideInterfaces(conf) \cap RecvSides(conf) # {} <=> listens /\ conf.AltOut
  BY SideFacts DEF RecvSides, Interfaces, AltOutExists, OutsideInterfaces
<1> HIDE DEF listens
<1>3. ASSUME NEW s \in Side, NEW g \in multicastGroups
      PROVE  <<"recvIGMP", s, g>> \in started' <=> s \in RecvSides(conf) \ {INSIDE}
  <2>1. <<"recvIGMP", s, g>> \notin sel
    BY Receivers
  <2>2. /\ <<"recvIGMP", s, g>> \in recvIGMPs(OUT) <=> s = OUT
        /\ <<"recvIGMP", s, g>> \in recvIGMPs(ALTOUT) <=> s = ALTOUT
    BY Receivers, SideFacts
  <2> HIDE DEF sel
  <2> QED BY <1>1, <1>2, <2>1, <2>2
<1>4. /\ <<"outInterfaceSelector">> \in started' <=> listens /\ conf.AltOut
      /\ <<"recvUnicastIGMP">> \notin started'
      /\ <<"readMembershipReportToNetworkCh">> \notin started'
      /\ <<"leaveToNetworkWorker">> \notin started'
  <2>1. /\ <<"outInterfaceSelector">> \notin recvIGMPs(OUT) \cup recvIGMPs(ALTOUT)
        /\ <<"recvUnicastIGMP">> \notin recvIGMPs(OUT) \cup recvIGMPs(ALTOUT)
        /\ <<"readMembershipReportToNetworkCh">> \notin recvIGMPs(OUT) \cup recvIGMPs(ALTOUT)
        /\ <<"leaveToNetworkWorker">> \notin recvIGMPs(OUT) \cup recvIGMPs(ALTOUT)
    BY Receivers, SideFacts
  <2> QED BY <1>1, <2>1
<1>5. Launched'
  <2>1. \A s \in Side, g \in multicastGroups :
          <<"recvIGMP", s, g>> \in started' <=> s \in RecvSides(conf') \ {INSIDE}
    BY <1>1, <1>3 DEF env
  <2>2. <<"outInterfaceSelector">> \in started' <=> OutsideInterfaces(conf') \cap RecvSides(conf') # {}
    BY <1>1, <1>2, <1>4 DEF env
  <2>3. step' = "runInside"
    BY <1>1
  <2> QED BY <1>4, <2>1, <2>2, <2>3 DEF Launched
<1> QED BY <1>1, <1>5, RunStep

LEMMA RunInsideStep == IInv /\ RunInside => IInv'
<1> SUFFICES ASSUME IInv, RunInside PROVE IInv'
    OBVIOUS
<1>1. /\ step = "runInside" /\ step' = "runUnicast" /\ UNCHANGED <<env, maps, cons>>
      /\ started' = started \cup (IF conf.ProxyInToOut THEN recvIGMPs(INSIDE) ELSE {})
  BY DEF RunInside, Start, When
<1>2. INSIDE \in RecvSides(conf) <=> conf.ProxyInToOut
  BY SideFacts DEF RecvSides, Interfaces
<1>3. ASSUME NEW s \in Side, NEW g \in multicastGroups
      PROVE  <<"recvIGMP", s, g>> \in started' <=> s \in RecvSides(conf)
  <2>1. <<"recvIGMP", s, g>> \in started <=> s \in RecvSides(conf) \ {INSIDE}
    BY <1>1 DEF IInv, Launched
  <2>2. <<"recvIGMP", s, g>> \in recvIGMPs(INSIDE) <=> s = INSIDE
    BY Receivers, SideFacts
  <2> QED BY <1>1, <1>2, <2>1, <2>2
<1>4. \A n \in {"outInterfaceSelector", "recvUnicastIGMP", "readMembershipReportToNetworkCh",
                 "leaveToNetworkWorker"} : <<n>> \in started' <=> <<n>> \in started
  <2>1. \A n \in {"outInterfaceSelector", "recvUnicastIGMP", "readMembershipReportToNetworkCh",
                   "leaveToNetworkWorker"} : <<n>> \notin recvIGMPs(INSIDE)
    BY Receivers, SideFacts
  <2> QED BY <1>1, <2>1
<1>5. Launched'
  <2>1. \A s \in Side, g \in multicastGroups :
          <<"recvIGMP", s, g>> \in started' <=> s \in RecvSides(conf')
    BY <1>1, <1>3 DEF env
  <2>2. <<"outInterfaceSelector">> \in started' <=> OutsideInterfaces(conf') \cap RecvSides(conf') # {}
    BY <1>1, <1>4 DEF env, IInv, Launched
  <2>3. /\ <<"recvUnicastIGMP">> \in started' => conf'.UnicastProxyInToOut
        /\ <<"readMembershipReportToNetworkCh">> \in started' => conf'.MembershipReportsToNetwork
        /\ <<"leaveToNetworkWorker">> \in started' => conf'.LeaveToNetwork
    BY <1>1, <1>4 DEF env, IInv, Launched
  <2>4. step' = "runUnicast"
    BY <1>1
  <2> QED BY <2>1, <2>2, <2>3, <2>4 DEF Launched
<1> QED BY <1>1, <1>5, RunStep

LEMMA RunUnicastStep == IInv /\ RunUnicast => IInv'
<1> SUFFICES ASSUME IInv, RunUnicast PROVE IInv'
    OBVIOUS
<1>1. /\ step = "runUnicast" /\ step' = "runChannels" /\ UNCHANGED <<env, maps, cons>>
      /\ started' = started \cup (IF conf.UnicastProxyInToOut THEN {<<"recvUnicastIGMP">>} ELSE {})
  BY DEF RunUnicast, Start, When
<1>2. \A s \in Side, g \in multicastGroups :
        <<"recvIGMP", s, g>> \in started' <=> <<"recvIGMP", s, g>> \in started
  BY <1>1, Receivers
<1>3. /\ <<"recvUnicastIGMP">> \in started' => <<"recvUnicastIGMP">> \in started \/ conf.UnicastProxyInToOut
      /\ \A n \in {"outInterfaceSelector", "readMembershipReportToNetworkCh", "leaveToNetworkWorker"} :
           <<n>> \in started' <=> <<n>> \in started
  BY <1>1
<1>4. Launched'
  BY <1>1, <1>2, <1>3 DEF Launched, IInv, env
<1> QED BY <1>1, <1>4, RunStep

LEMMA RunChannelsStep == IInv /\ RunChannels => IInv'
<1> SUFFICES ASSUME IInv, RunChannels PROVE IInv'
    OBVIOUS
<1>1. /\ step = "runChannels" /\ step' = "running" /\ UNCHANGED <<env, maps, cons>>
  BY DEF RunChannels, Start
<1>2. \A x : x \in started' <=>
        \/ x \in started
        \/ conf.MembershipReportsToNetwork /\ x = <<"readMembershipReportToNetworkCh">>
        \/ conf.LeaveToNetwork /\ x = <<"leaveToNetworkWorker">>
        \/ conf.ConnectQueryToReport /\ x = <<"connectQueryToReport">>
        \/ conf.MembershipReportsReader /\ x = <<"testingReadMembershipReportsFromNetwork">>
  BY DEF RunChannels, Start, When
<1>3. \A s \in Side, g \in multicastGroups :
        <<"recvIGMP", s, g>> \in started' <=> <<"recvIGMP", s, g>> \in started
  BY <1>2, Receivers
<1>4. /\ <<"outInterfaceSelector">> \in started' <=> <<"outInterfaceSelector">> \in started
      /\ <<"recvUnicastIGMP">> \in started' => <<"recvUnicastIGMP">> \in started
      /\ <<"readMembershipReportToNetworkCh">> \in started' =>
           conf.MembershipReportsToNetwork \/ <<"readMembershipReportToNetworkCh">> \in started
      /\ <<"leaveToNetworkWorker">> \in started' =>
           conf.LeaveToNetwork \/ <<"leaveToNetworkWorker">> \in started
  BY <1>2
<1>5. Launched'
  BY <1>1, <1>3, <1>4 DEF Launched, IInv, env
<1> QED BY <1>1, <1>5, RunStep

-----------------------------------------------------------------------------
LEMMA NextStep == IInv /\ [Next]_vars => IInv'
<1> SUFFICES ASSUME IInv, [Next]_vars PROVE IInv'
    OBVIOUS
<1>1. CASE Names
  BY <1>1, NamesStep
<1>2. CASE makeIPMaps
  BY <1>2, MapsStep
<1>3. CASE Lookup
  BY <1>3, LookupStep
<1>4. CASE Fatal
  BY <1>4, FatalStep
<1>5. CASE OpenUnicast
  BY <1>5, UnicastStep
<1>6. CASE OpenNotify
  BY <1>6, NotifyStep
<1>7. CASE OpenOutToIn
  BY <1>7, OutToInStep
<1>8. CASE OpenInToOut
  BY <1>8, InToOutStep
<1>9. CASE RunOutside
  BY <1>9, RunOutsideStep
<1>10. CASE RunInside
  BY <1>10, RunInsideStep
<1>11. CASE RunUnicast
  BY <1>11, RunUnicastStep
<1>12. CASE RunChannels
  BY <1>12, RunChannelsStep
<1>13. CASE UNCHANGED vars
  BY <1>13 DEF IInv, Chosen, MapsFilled, ConsOpened, Opened, RawOpened, NotifySides, OutToInSides,
               NamesFilled, Launched, OpenedOnce, vars, env, maps, IPs, cons
<1> QED BY <1>1, <1>2, <1>3, <1>4, <1>5, <1>6, <1>7, <1>8, <1>9, <1>10, <1>11, <1>12, <1>13 DEF Next

LEMMA Inductive == Spec => []IInv
<1>1. Init => IInv
  BY InitHolds
<1>2. IInv /\ [Next]_vars => IInv'
  BY NextStep
<1> QED BY <1>1, <1>2, PTL DEF Spec

\* What the invariant says of the sockets once everything is started.
LEMMA WhenRunning ==
  ASSUME IInv, step = "running"
  PROVE  /\ \A s \in Side, g \in multicastGroups :
              /\ Socket(s, g) = <<s, <<"v4", g>>>>
              /\ mConIGMP[Socket(s, g)] = IF s \in McastSides(conf) THEN << <<4, g>> >> ELSE <<>>
              /\ mConIGMP[Socket(s, g)] # <<>> <=> s \in McastSides(conf)
              /\ <<"recvIGMP", s, g>> \in started <=> s \in RecvSides(conf)
         /\ \A s \in Side : conRaw[s] = IF s \in RawSides(conf) THEN 1 ELSE 0
         /\ uCon = conf.UnicastProxyInToOut
<1>1. mConIGMP = Conns(McastSides(conf)) /\ conRaw = Raws(RawSides(conf))
  BY DEF IInv, ConsOpened, Opened, RawOpened
<1>2. ASSUME NEW s \in Side, NEW g \in multicastGroups
      PROVE  /\ Socket(s, g) = <<s, <<"v4", g>>>>
             /\ mConIGMP[Socket(s, g)] = IF s \in McastSides(conf) THEN << <<4, g>> >> ELSE <<>>
             /\ mConIGMP[Socket(s, g)] # <<>> <=> s \in McastSides(conf)
  <2>1. Socket(s, g) = <<s, <<"v4", g>>>> /\ Socket(s, g) \in Side \X Addrs
    BY AddrFacts DEF IInv, MapsFilled, Socket
  <2>2. mConIGMP[Socket(s, g)] = IF s \in McastSides(conf) THEN << <<4, g>> >> ELSE <<>>
    BY <1>1, <2>1 DEF Conns
  <2>3. Len(<< <<4, g>> >>) = 1 /\ Len(<<>>) = 0
    OBVIOUS
  <2>4. << <<4, g>> >> # <<>>
    BY <2>3
  <2> QED BY <2>1, <2>2, <2>4
<1>3. \A s \in Side, g \in multicastGroups : <<"recvIGMP", s, g>> \in started <=> s \in RecvSides(conf)
  BY DEF IInv, Launched
<1>4. \A s \in Side : conRaw[s] = IF s \in RawSides(conf) THEN 1 ELSE 0
  BY <1>1 DEF Raws
<1>5. uCon = conf.UnicastProxyInToOut
  <2>1. conf.UnicastProxyInToOut \in BOOLEAN
    BY DEF IInv, Chosen, Config
  <2> QED BY <2>1 DEF IInv, ConsOpened
<1> QED BY <1>2, <1>3, <1>4, <1>5

\* Whatever the configuration, no block of the constructor opens a socket that
\* an earlier block opened already, even when both want the same side.
THEOREM NothingLeaks == Spec => []OpenedOnce
<1>1. IInv => OpenedOnce
  BY DEF IInv
<1> QED BY <1>1, Inductive, PTL

\* What module Config derives from a configuration, and every other module
\* builds on, is what the constructor opens and Run starts, for any groups and
\* any interface indexes.
THEOREM ConfigAgrees == Spec => []Agrees
<1>1. IInv => Agrees
  <2> SUFFICES ASSUME IInv, step = "running" PROVE Agrees
      BY DEF Agrees
  <2>1. \A s \in Side, g \in multicastGroups :
          /\ mConIGMP[Socket(s, g)] # <<>> <=> s \in McastSides(conf)
          /\ <<"recvIGMP", s, g>> \in started <=> s \in RecvSides(conf)
    BY WhenRunning
  <2>2. \A s \in Side : conRaw[s] > 0 <=> s \in RawSides(conf)
    BY WhenRunning
  <2>3. /\ \A i \in Index : NetIFIndex_[i] = NetIFIndex(conf, ifIndex, i)
        /\ <<"outInterfaceSelector">> \in started <=> OutsideInterfaces(conf) \cap RecvSides(conf) # {}
    BY DEF IInv, NamesFilled, Launched
  <2> QED BY <2>1, <2>2, <2>3 DEF Agrees
<1> QED BY <1>1, Inductive, PTL

\* Every connection a goroutine may use, whichever side is selected, is open or
\* is one of those the three named defects leave nil, in every configuration.
THEOREM ConnectionsReady == Spec => []Ready
<1>1. IInv => Ready
  <2> SUFFICES ASSUME IInv, step = "running" PROVE Ready
      BY DEF Ready
  <2>1. \A o \in IntOutNames(OUT) \cup IntOutNames(INSIDE) :
          o \in Side /\ (conRaw[o] > 0 <=> o \in RawSides(conf))
    BY WhenRunning, SideFacts DEF IntOutNames, InitialIntOutName
  <2>2. conf.ProxyOutToIn => \A o \in IntOutNames(OUT) : conRaw[o] > 0
    BY <2>1, SideFacts DEF IntOutNames, InitialIntOutName, RawSides
  <2>3. conf.ProxyInToOut \/ conf.UnicastProxyInToOut =>
          \A o \in IntOutNames(INSIDE) : conRaw[o] > 0 \/ SelectedUnopened(o)
    BY <2>1, SideFacts DEF RawSides, SelectedUnopened
  <2>4. ASSUME NEW s \in Side, NEW g \in multicastGroups, <<"recvIGMP", s, g>> \in started
        PROVE  /\ mConIGMP[Socket(s, g)] # <<>> \/ NotifiedFromAltOut(s)
               /\ proxyIt(conf, s) => \A o \in IntOutNames(s) : conRaw[o] > 0 \/ SelectedUnopened(o)
    <3>1. s \in RecvSides(conf)
      BY <2>4, WhenRunning
    <3>2. mConIGMP[Socket(s, g)] # <<>> <=> s \in McastSides(conf)
      BY WhenRunning
    <3>3. s \in McastSides(conf) \/ NotifiedFromAltOut(s)
      BY <3>1, SideFacts DEF RecvSides, McastSides, Interfaces, AltOutExists, NotifiedFromAltOut
    <3>4. proxyIt(conf, s) => \A o \in IntOutNames(s) : conRaw[o] > 0 \/ SelectedUnopened(o)
      BY <2>2, <2>3, SideFacts DEF proxyIt
    <3> QED BY <3>2, <3>3, <3>4
  <2>5. <<"recvUnicastIGMP">> \in started =>
          uCon /\ \A o \in IntOutNames(INSIDE) : conRaw[o] > 0 \/ SelectedUnopened(o)
    BY <2>3, WhenRunning DEF IInv, Launched
  <2>6. <<"readMembershipReportToNetworkCh">> \in started => conRaw[OUT] > 0
    BY WhenRunning, SideFacts DEF IInv, Launched, RawSides
  <2>7. <<"leaveToNetworkWorker">> \in started => conRaw[OUT] > 0 \/ OnlyLeaves
    BY WhenRunning, SideFacts DEF IInv, Launched, RawSides, OnlyLeaves
  <2> QED BY <2>4, <2>5, <2>6, <2>7 DEF Ready
<1> QED BY <1>1, Inductive, PTL

\* A receiver hears its group and no other: its socket joined the group, and
\* the address the filter compares with is the one a packet's bytes make.
THEOREM GroupsKeptApart == Spec => []HearsItsGroup
<1>1. IInv => HearsItsGroup
  <2> SUFFICES ASSUME IInv, step = "running", NEW s \in Side, NEW g \in multicastGroups
               PROVE  /\ \A i \in DOMAIN mConIGMP[Socket(s, g)] : mConIGMP[Socket(s, g)][i] = <<4, g>>
                      /\ \A d \in destIP : Delivered(d) = mapIPtoNetAddr[g] <=> d = g
      BY DEF HearsItsGroup
  <2>1. mConIGMP[Socket(s, g)] = << <<4, g>> >> \/ mConIGMP[Socket(s, g)] = <<>>
    BY WhenRunning
  <2>2. \A d \in destIP : Delivered(d) = <<"v4", d>>
    BY DEF Delivered, netip2Addr
  <2>3. mapIPtoNetAddr[g] = <<"v4", g>>
    BY DEF IInv, MapsFilled
  <2> QED BY <2>1, <2>2, <2>3
<1> QED BY <1>1, Inductive, PTL

-----------------------------------------------------------------------------
\* What Run may start.
Goroutines ==
  ({"recvIGMP"} \X Side \X multicastGroups)
    \cup {<<"outInterfaceSelector">>, <<"recvUnicastIGMP">>,
          <<"readMembershipReportToNetworkCh">>, <<"leaveToNetworkWorker">>,
          <<"connectQueryToReport">>, <<"testingReadMembershipReportsFromNetwork">>}

LEMMA SocketTypes ==
  ASSUME NEW S, NEW T
  PROVE  Conns(S) \in [Side \X Addrs -> Seq(NetIPs)] /\ Raws(T) \in [Side -> Nat]
<1>1. Raws(T) \in [Side -> Nat]
  BY DEF Raws
<1>2. ASSUME NEW x \in Side \X Addrs
      PROVE  << <<4, x[2][2]>> >> \in Seq(NetIPs) /\ <<>> \in Seq(NetIPs)
  <2>1. <<4, x[2][2]>> \in NetIPs
    BY DEF Addrs, NetIPs
  <2> HIDE DEF NetIPs
  <2> QED BY <2>1
<1>3. Conns(S) \in [Side \X Addrs -> Seq(NetIPs)]
  BY <1>2 DEF Conns
<1> QED BY <1>1, <1>3

LEMMA InitTypes == Init => TypeOK
<1> SUFFICES ASSUME Init PROVE TypeOK
    OBVIOUS
<1>1. mConIGMP = Conns({}) /\ conRaw = Raws({})
  BY DEF Init, Conns, Raws
<1>2. mConIGMP \in [Side \X Addrs -> Seq(NetIPs)] /\ conRaw \in [Side -> Nat]
  BY <1>1, SocketTypes
<1>3. /\ mapIPtoNetIP \in [destIP -> NetIPs] /\ mapIPtoNetAddr \in [destIP -> Addrs]
      /\ mapNetAddrtoIP \in [Addrs -> destIP]
  BY DEF Init, NetIPs, Addrs
<1>4. Interfaces_ \in Seq(Side) /\ NetIFIndex_ \in [Index -> Side \cup {NoSide}]
  BY DEF Init
<1> QED BY <1>2, <1>3, <1>4 DEF Init, TypeOK, Steps

LEMMA TypesStep == TypeOK /\ IInv /\ IInv' /\ [Next]_vars => TypeOK'
<1> SUFFICES ASSUME TypeOK, IInv, IInv', [Next]_vars PROVE TypeOK'
    OBVIOUS
<1>1. /\ conf' \in Config /\ ifIndex' \in [Interfaces(conf') -> Index]
      /\ step' \in Steps
  BY DEF IInv, Chosen
<1>2. uCon' \in BOOLEAN /\ mConIGMP' \in [Side \X Addrs -> Seq(NetIPs)] /\ conRaw' \in [Side -> Nat]
  <2>1. CASE step' # "fatal"
    <3>1. /\ mConIGMP' = Conns(Opened') /\ conRaw' = Raws(RawOpened') /\ uCon' \in BOOLEAN
      BY <2>1 DEF IInv, ConsOpened
    <3> QED BY <3>1, SocketTypes
  <2>2. CASE step' = "fatal"
    <3>1. UNCHANGED cons
      BY <2>2 DEF Next, vars, Names, makeIPMaps, Lookup, Fatal, OpenUnicast, OpenNotify, OpenOutToIn,
                  OpenInToOut, RunOutside, RunInside, RunUnicast, RunChannels, Start
    <3> QED BY <3>1 DEF cons, TypeOK
  <2> QED BY <2>1, <2>2
<1>3. Interfaces_' \in Seq(Side)
  <2>1. CASE step' # "names"
    <3>1. Interfaces_' = IF conf'.AltOut THEN <<INSIDE, OUT, ALTOUT>> ELSE <<INSIDE, OUT>>
      BY <2>1 DEF IInv, NamesFilled
    <3>2. INSIDE \in Side /\ OUT \in Side /\ ALTOUT \in Side
      BY SideFacts
    <3>3. <<INSIDE, OUT>> \in Seq(Side) /\ <<INSIDE, OUT, ALTOUT>> \in Seq(Side)
      BY <3>2
    <3> QED BY <3>1, <3>3
  <2>2. CASE step' = "names"
    <3>1. UNCHANGED vars
      BY <2>2 DEF Next, Names, makeIPMaps, Lookup, Fatal, OpenUnicast, OpenNotify, OpenOutToIn,
                  OpenInToOut, RunOutside, RunInside, RunUnicast, RunChannels, Start
    <3> QED BY <3>1 DEF vars, maps, TypeOK
  <2> QED BY <2>1, <2>2
<1>4. NetIFIndex_' \in [Index -> Side \cup {NoSide}]
  <2>1. CASE Lookup
    <3>1. NetIFIndex_' = [i \in Index |-> NetIFIndex(conf, ifIndex, i)]
      BY <2>1, LookupIs
    <3> QED BY <3>1, SideFacts DEF NetIFIndex
  <2>2. CASE ~ Lookup
    <3>1. UNCHANGED NetIFIndex_
      BY <2>2 DEF Next, vars, maps, Names, makeIPMaps, Fatal, OpenUnicast, OpenNotify, OpenOutToIn,
                  OpenInToOut, RunOutside, RunInside, RunUnicast, RunChannels, Start
    <3> QED BY <3>1 DEF TypeOK
  <2> QED BY <2>1, <2>2
<1>5. /\ mapIPtoNetIP' \in [destIP -> NetIPs] /\ mapIPtoNetAddr' \in [destIP -> Addrs]
      /\ mapNetAddrtoIP' \in [Addrs -> destIP]
  <2>1. CASE makeIPMaps
    <3>1. /\ mapIPtoNetIP' = [d \in destIP |-> <<4, d>>]
          /\ mapIPtoNetAddr' = [d \in destIP |-> <<"v4", d>>]
      BY <2>1 DEF makeIPMaps, FillMaps, To4, ParseIP, netip2Addr
    <3>2. \A d \in destIP : <<4, d>> \in NetIPs /\ <<"v4", d>> \in Addrs
      BY DEF NetIPs, Addrs
    <3>3. mapNetAddrtoIP' \in [Addrs -> destIP]
      BY <2>1 DEF makeIPMaps, FillMaps, Addrs
    <3> QED BY <3>1, <3>2, <3>3
  <2>2. CASE ~ makeIPMaps
    <3>1. UNCHANGED IPs
      BY <2>2 DEF Next, vars, maps, Names, Lookup, Fatal, OpenUnicast, OpenNotify, OpenOutToIn,
                  OpenInToOut, RunOutside, RunInside, RunUnicast, RunChannels, Start
    <3> QED BY <3>1 DEF IPs, TypeOK
  <2> QED BY <2>1, <2>2
<1>6. (started \subseteq Goroutines)'
  <2>1. recvIGMPs(INSIDE) \subseteq Goroutines /\ recvIGMPs(OUT) \subseteq Goroutines
          /\ recvIGMPs(ALTOUT) \subseteq Goroutines
    BY SideFacts DEF recvIGMPs, Goroutines
  <2>2. started \subseteq Goroutines
    BY DEF TypeOK, Goroutines
  <2>3. CASE RunOutside \/ RunInside
    <3>1. <<"outInterfaceSelector">> \in Goroutines
      BY DEF Goroutines
    <3> QED BY <2>1, <2>2, <2>3, <3>1 DEF RunOutside, RunInside, Start, When
  <2>4. CASE RunUnicast \/ RunChannels
    <3>1. {<<"recvUnicastIGMP">>, <<"readMembershipReportToNetworkCh">>, <<"leaveToNetworkWorker">>,
           <<"connectQueryToReport">>, <<"testingReadMembershipReportsFromNetwork">>} \subseteq Goroutines
      BY DEF Goroutines
    <3>2. started' \subseteq started \cup {<<"recvUnicastIGMP">>, <<"readMembershipReportToNetworkCh">>,
            <<"leaveToNetworkWorker">>, <<"connectQueryToReport">>, <<"testingReadMembershipReportsFromNetwork">>}
      BY <2>4 DEF RunUnicast, RunChannels, Start, When
    <3> QED BY <2>2, <3>1, <3>2
  <2>5. CASE ~ (RunOutside \/ RunInside \/ RunUnicast \/ RunChannels)
    <3>1. UNCHANGED started
      BY <2>5 DEF Next, vars, Names, makeIPMaps, Lookup, Fatal, OpenUnicast, OpenNotify, OpenOutToIn, OpenInToOut
    <3> QED BY <2>2, <3>1
  <2> QED BY <2>3, <2>4, <2>5
<1> QED BY <1>1, <1>2, <1>3, <1>4, <1>5, <1>6 DEF TypeOK, Goroutines

\* Every variable keeps its type, the address maps and the sockets kept under
\* their addresses among them.
THEOREM SetupTypeCorrect == Spec => []TypeOK
<1>1. Init => TypeOK
  BY InitTypes
<1>2. TypeOK /\ IInv /\ IInv' /\ [Next]_vars => TypeOK'
  BY TypesStep
<1> QED BY <1>1, <1>2, Inductive, PTL DEF Spec
=============================================================================
