--------------------------- MODULE ReceiverProofs ---------------------------
(***************************************************************************)
(* Proofs about Receiver, for every configuration, every number of groups, *)
(* packets and buffers, and any capacity of the channels.                  *)
(***************************************************************************)
EXTENDS Receiver, TLAPS

-----------------------------------------------------------------------------
\* The configuration decides which sides a receiver and a socket can have.

LEMMA SidesTyped ==
  /\ RecvSides(conf) \subseteq Interfaces(conf)
  /\ RawSides(conf) \subseteq {INSIDE, OUT}
  /\ Interfaces(conf) \subseteq Side
  /\ {INSIDE, OUT} \subseteq Interfaces(conf)
BY DEF RecvSides, RawSides, Interfaces, AltOutExists, Side, INSIDE, OUT, ALTOUT

LEMMA ReceiverTyped ==
  ASSUME NEW r \in Receivers
  PROVE  interf(r) \in RecvSides(conf) /\ g(r) \in multicastGroups
BY DEF Receivers, interf, g

LEMMA RelayedSides ==
  ASSUME NEW s, proxyIt(conf, s)
  PROVE  s \in {INSIDE, OUT}
BY DEF proxyIt, INSIDE, OUT

-----------------------------------------------------------------------------
\* What the program counter of a receiver says about its locals.
Held(r)     == pc[r] \in {"read", "filter", "dispatch", "load", "write"}
HasPkt(r)   == pc[r] \in {"filter", "dispatch", "load", "write"}

InFlight ==
  \A r \in Receivers :
    /\ buf[r] # NoBuf <=> Held(r)
    /\ HasPkt(r) => pkt[r] \in Packet /\ data[buf[r]][1] \in Packet
    /\ pc[r] \in {"load", "write"} => proxyIt(conf, interf(r))

LEMMA InitTyped == Init => TypeOK /\ InFlight
<1> SUFFICES ASSUME Init PROVE TypeOK /\ InFlight
    OBVIOUS
<1>1. TypeOK
  <2>1. FlagTypeOK   BY DEF Init, FlagTypeOK
  <2>2. SelTypeOK
    BY SizeAssumption DEF Init, SelTypeOK, InitialIntOutName, Side
  <2>3. ChanTypeOK  BY SizeAssumption DEF Init, ChanTypeOK
  <2>4. BufTypeOK   BY SizeAssumption DEF Init, BufTypeOK, Zeros, Cells
  <2>5. NetTypeOK   BY DEF Init, NetTypeOK
  <2>6. LocalTypeOK BY DEF Init, LocalTypeOK
  <2> QED BY <2>1, <2>2, <2>3, <2>4, <2>5, <2>6 DEF TypeOK
<1>2. InFlight
  BY DEF Init, InFlight, Held, HasPkt
<1> QED BY <1>1, <1>2

LEMMA FillTyped ==
  ASSUME NEW p \in Packet,
         NEW cells \in Cells(Packet)
  PROVE  /\ Fill(cells, p) \in Cells(Packet)
         /\ Fill(cells, p)[1] = p
BY SizeAssumption DEF Fill, Packet, Cells

LEMMA LoopCopyTyped ==
  ASSUME NEW e \in Entry, e.pkt.hops < MaxHops, e.side \in RawSides(conf)
  PROVE  LoopCopy(e) \in Packet
<1>1. e.side \in Interfaces(conf) /\ e.pkt \in Packet /\ e.dst \in Dst
  BY SidesTyped, AddrAssumption DEF Entry
<1>2. ifIndex[e.side] \in Nat /\ NetIP[e.side] \in Addr
  BY <1>1, AddrAssumption
<1>3. e.pkt.hops + 1 \in 0 .. MaxHops /\ BufLen \in 1 .. BufLen
  BY <1>1, SizeAssumption DEF Packet
<1> QED BY <1>1, <1>2, <1>3 DEF LoopCopy, Packet

LEMMA DeliverTyped ==
  ASSUME NetTypeOK, NEW p \in Packet, NEW S, Deliver(p, S)
  PROVE  sock' \in [Receivers -> Seq(Packet)]
BY DEF NetTypeOK, Deliver

-----------------------------------------------------------------------------
\* Every step preserves TypeOK and InFlight.

LEMMA TypedStep == TypeOK /\ InFlight /\ [Next]_vars => TypeOK' /\ InFlight'
<1> SUFFICES ASSUME TypeOK, InFlight, [Next]_vars PROVE TypeOK' /\ InFlight'
    OBVIOUS
<1> USE DEF TypeOK
<1>a. ASSUME NEW r \in Receivers, Stop(r) PROVE TypeOK' /\ InFlight'
  <2> USE <1>a DEF Stop, Goto
  <2>1. TypeOK'
    BY DEF FlagTypeOK, SelTypeOK, ChanTypeOK, BufTypeOK, NetTypeOK, LocalTypeOK,
           appVars, selVars, chanVars, bufVars, netVars
  <2>2. InFlight'
    BY DEF InFlight, Held, HasPkt, LocalTypeOK, bufVars
  <2> QED BY <2>1, <2>2
<1>b. ASSUME NEW r \in Receivers, GetBuf(r) PROVE TypeOK' /\ InFlight'
  <2> PICK b \in Bufs : Get(r, b)
      BY <1>b DEF GetBuf
  <2>1. FlagTypeOK' /\ SelTypeOK' /\ ChanTypeOK' /\ NetTypeOK'
    BY <1>b DEF GetBuf, FlagTypeOK, SelTypeOK, ChanTypeOK, NetTypeOK,
                appVars, selVars, chanVars, netVars
  <2>2. BufTypeOK'
    <3>1. CASE Reuse(b)
      BY <3>1 DEF Reuse, BufTypeOK
    <3>2. CASE New(b)
      <4>1. Zeros \in Cells(Packet)
        BY DEF Zeros, Cells
      <4> QED BY <3>2, <4>1 DEF New, BufTypeOK
    <3> QED BY <3>1, <3>2 DEF Get
  <2>3. LocalTypeOK'
    BY <1>b DEF GetBuf, Get, Reuse, New, Zeros, Goto, LocalTypeOK
  <2>4. \A s \in Receivers : s # r /\ HasPkt(s) => data'[buf[s]] = data[buf[s]]
    BY DEF Get, Reuse, New, Zeros, InFlight, Held, HasPkt, BufTypeOK, LocalTypeOK
  <2>5. InFlight'
    BY <1>b, <2>4, InputAssumption DEF GetBuf, Get, Reuse, New, Zeros, Goto, InFlight, Held, HasPkt, LocalTypeOK
  <2> QED BY <2>1, <2>2, <2>3, <2>5
<1>c. ASSUME NEW r \in Receivers, ReadFrom(r) PROVE TypeOK' /\ InFlight'
  <2> DEFINE p == Head(sock[r])
  <2>1. p \in Packet /\ Tail(sock[r]) \in Seq(Packet)
    BY <1>c DEF ReadFrom, NetTypeOK
  <2>2. buf[r] \in Bufs
    BY <1>c DEF ReadFrom, InFlight, Held, LocalTypeOK
  <2>3. /\ Fill(data[buf[r]], p) \in Cells(Packet)
        /\ Fill(data[buf[r]], p)[1] = p
    BY <2>1, <2>2, FillTyped DEF BufTypeOK
  <2>4. FlagTypeOK' /\ SelTypeOK' /\ ChanTypeOK'
    BY <1>c DEF ReadFrom, FlagTypeOK, SelTypeOK, ChanTypeOK, appVars, selVars, chanVars
  <2>5. BufTypeOK'
    BY <1>c, <2>2, <2>3 DEF ReadFrom, BufTypeOK
  <2>6. NetTypeOK'
    BY <1>c, <2>1 DEF ReadFrom, NetTypeOK
  <2>7. LocalTypeOK'
    BY <1>c, <2>1 DEF ReadFrom, Goto, LocalTypeOK
  <2>8. InFlight'
    BY <1>c, <2>1, <2>2, <2>3 DEF ReadFrom, Goto, InFlight, Held, HasPkt, LocalTypeOK, BufTypeOK
  <2> QED BY <2>4, <2>5, <2>6, <2>7, <2>8
<1>d. ASSUME NEW r \in Receivers,
             ReadTimeout(r) \/ Ignore(r) \/ Undecodable(r)
      PROVE  TypeOK' /\ InFlight'
  <2>1. /\ Put(r) /\ Continue(r) /\ pc[r] \in {"read", "filter", "dispatch"}
        /\ UNCHANGED <<appVars, selVars, chanVars, data, netVars, querierSourceIP, late>>
    BY <1>d DEF ReadTimeout, Ignore, Undecodable
  <2>2. buf[r] \in Bufs
    BY <2>1 DEF InFlight, Held, LocalTypeOK
  <2>3. FlagTypeOK' /\ SelTypeOK' /\ ChanTypeOK' /\ NetTypeOK'
    BY <2>1 DEF FlagTypeOK, SelTypeOK, ChanTypeOK, NetTypeOK, appVars, selVars, chanVars, netVars
  <2>4. BufTypeOK'
    BY <2>1, <2>2 DEF Put, PutBack, BufTypeOK
  <2>5. LocalTypeOK'
    BY <2>1 DEF Continue, LocalTypeOK
  <2>6. InFlight'
    BY <2>1 DEF Continue, InFlight, Held, HasPkt, LocalTypeOK
  <2> QED BY <2>3, <2>4, <2>5, <2>6
<1>e. ASSUME NEW r \in Receivers, Accept(r) PROVE TypeOK' /\ InFlight'
  <2>1. FlagTypeOK' /\ SelTypeOK' /\ ChanTypeOK' /\ BufTypeOK' /\ NetTypeOK'
    BY <1>e DEF Accept, FlagTypeOK, SelTypeOK, ChanTypeOK, BufTypeOK, NetTypeOK,
                appVars, selVars, chanVars, bufVars, netVars
  <2>2. LocalTypeOK'
    BY <1>e DEF Accept, Goto, LocalTypeOK
  <2>3. InFlight'
    BY <1>e DEF Accept, Goto, InFlight, Held, HasPkt, LocalTypeOK, bufVars
  <2> QED BY <2>1, <2>2, <2>3
<1>f. ASSUME NEW r \in Receivers, Dispatch(r) PROVE TypeOK' /\ InFlight'
  <2>1. /\ pkt[r] \in Packet /\ data[buf[r]][1] \in Packet
        /\ pc[r] = "dispatch" /\ buf[r] # NoBuf
    BY <1>f DEF Dispatch, InFlight, Held, HasPkt
  <2>2. FlagTypeOK'
    BY <1>f DEF Dispatch, NotifyQuery, FlagTypeOK, appVars
  <2>3. SelTypeOK' /\ BufTypeOK' /\ NetTypeOK'
    BY <1>f DEF Dispatch, SelTypeOK, BufTypeOK, NetTypeOK, selVars, bufVars, netVars
  <2>4. QueryNotifyCh' \in 0 .. ChannelSize
    BY <1>f, SizeAssumption DEF Dispatch, NotifyQuery, TrySend, ChanTypeOK
  <2>5. MembershipReportFromNetworkCh' \in Seq(Packet)
    BY <1>f, <2>1 DEF Dispatch, NotifyReport, ChanTypeOK
  <2>6. /\ querierSourceIP' \in [Receivers -> Addr \cup {NoAddr}]
        /\ late' \in [Receivers -> Nat]
    BY <1>f, <2>1 DEF Dispatch, LocalTypeOK, Packet
  <2>7. /\ pc' \in [Receivers -> {"top", "read", "filter", "dispatch", "load", "write", "done"}]
        /\ buf' \in [Receivers -> Bufs \cup {NoBuf}]
        /\ pkt' \in [Receivers -> Packet \cup {NoPkt}]
        /\ out' \in [Receivers -> Side \cup {NoSide}]
    BY <1>f DEF Dispatch, Goto, Continue, LocalTypeOK
  <2>8. InFlight'
    BY <1>f, <2>1 DEF Dispatch, Goto, Continue, InFlight, Held, HasPkt, LocalTypeOK, bufVars
  <2> QED BY <2>2, <2>3, <2>4, <2>5, <2>6, <2>7, <2>8 DEF ChanTypeOK, LocalTypeOK
<1>g. ASSUME NEW r \in Receivers, LoadOut(r) PROVE TypeOK' /\ InFlight'
  <2>1. IntOutName[interf(r)] \in Side
    BY <1>g, RelayedSides DEF LoadOut, InFlight, SelTypeOK
  <2>2. FlagTypeOK' /\ SelTypeOK' /\ ChanTypeOK' /\ BufTypeOK' /\ NetTypeOK'
    BY <1>g DEF LoadOut, FlagTypeOK, SelTypeOK, ChanTypeOK, BufTypeOK, NetTypeOK,
                appVars, selVars, chanVars, bufVars, netVars
  <2>3. LocalTypeOK'
    BY <1>g, <2>1 DEF LoadOut, Goto, LocalTypeOK
  <2>4. InFlight'
    BY <1>g DEF LoadOut, Goto, InFlight, Held, HasPkt, LocalTypeOK, bufVars
  <2> QED BY <2>2, <2>3, <2>4
<1>h. ASSUME NEW r \in Receivers, WriteTo(r) PROVE TypeOK' /\ InFlight'
  <2> DEFINE e == [side |-> out[r], dst |-> g(r), pkt |-> pkt[r], payload |-> data[buf[r]]]
  <2>1. /\ pc[r] = "write" /\ out[r] \in RawSides(conf) /\ wire' = Append(wire, e)
        /\ Put(r) /\ Continue(r)
        /\ UNCHANGED <<appVars, selVars, chanVars, data, arrived, querierSourceIP, late>>
    BY <1>h DEF WriteTo
  <2>2. buf[r] \in Bufs /\ pkt[r] \in Packet
    BY <2>1 DEF InFlight, Held, HasPkt, LocalTypeOK
  <2>3. e \in Entry
    BY <2>1, <2>2, SidesTyped, ReceiverTyped DEF Entry, BufTypeOK, Side
  <2>4. sock' \in [Receivers -> Seq(Packet)]
    <3>1. CASE UNCHANGED sock
      BY <3>1 DEF NetTypeOK
    <3>2. CASE \E S \in SUBSET Receivers : Loops(e) /\ Deliver(LoopCopy(e), S)
      <4>1. e.pkt.hops < MaxHops /\ e.side \in RawSides(conf)
        BY <2>1, <3>2 DEF Loops
      <4>2. LoopCopy(e) \in Packet
        BY <2>3, <4>1, LoopCopyTyped
      <4> HIDE DEF e
      <4> QED BY <3>2, <4>2, DeliverTyped
    <3> QED BY <1>h, <3>1, <3>2 DEF WriteTo, Echo
  <2>5. NetTypeOK'
    <3> HIDE DEF e
    <3> QED BY <2>1, <2>3, <2>4 DEF NetTypeOK
  <2>6. FlagTypeOK' /\ SelTypeOK' /\ ChanTypeOK'
    BY <2>1 DEF FlagTypeOK, SelTypeOK, ChanTypeOK, appVars, selVars, chanVars
  <2>7. BufTypeOK'
    BY <2>1, <2>2 DEF Put, PutBack, BufTypeOK
  <2>8. LocalTypeOK'
    BY <2>1 DEF Continue, LocalTypeOK
  <2>9. InFlight'
    BY <2>1 DEF Continue, InFlight, Held, HasPkt, LocalTypeOK
  <2> QED BY <2>5, <2>6, <2>7, <2>8, <2>9
<1>i. ASSUME NEW r \in Receivers, Crash(r) PROVE TypeOK' /\ InFlight'
  <2>1. TypeOK'
    BY <1>i DEF Crash, FlagTypeOK, SelTypeOK, ChanTypeOK, BufTypeOK, NetTypeOK, LocalTypeOK,
                selVars, chanVars, bufVars, netVars, locals
  <2>2. InFlight'
    BY <1>i DEF Crash, InFlight, Held, HasPkt, bufVars, locals
  <2> QED BY <2>1, <2>2
<1>j. ASSUME outInterfaceSelector PROVE TypeOK' /\ InFlight'
  <2>1. FlagTypeOK' /\ ChanTypeOK' /\ BufTypeOK' /\ NetTypeOK'
    BY <1>j DEF outInterfaceSelector, SelectorRecv, SelectorStore, FlagTypeOK, ChanTypeOK,
                BufTypeOK, NetTypeOK, appVars, chanVars, bufVars, netVars
  <2>2. SelTypeOK'
    <3>1. CASE SelectorRecv
      BY <3>1 DEF SelectorRecv, SelTypeOK
    <3>2. CASE SelectorStore
      BY <3>2 DEF SelectorStore, SelTypeOK, Side
    <3> QED BY <1>j, <3>1, <3>2 DEF outInterfaceSelector
  <2>3. LocalTypeOK'
    BY <1>j DEF outInterfaceSelector, SelectorRecv, SelectorStore, LocalTypeOK, locals
  <2>4. InFlight'
    BY <1>j DEF outInterfaceSelector, SelectorRecv, SelectorStore, InFlight, Held, HasPkt,
                bufVars, locals
  <2> QED BY <2>1, <2>2, <2>3, <2>4
<1>k. ASSUME NEW s \in {OUT, ALTOUT}, Select(s) PROVE TypeOK' /\ InFlight'
  <2>1. SelTypeOK'
    BY <1>k, SizeAssumption DEF Select, SelTypeOK
  <2>2. FlagTypeOK' /\ ChanTypeOK' /\ BufTypeOK' /\ NetTypeOK' /\ LocalTypeOK'
    BY <1>k DEF Select, FlagTypeOK, ChanTypeOK, BufTypeOK, NetTypeOK, LocalTypeOK,
                appVars, chanVars, bufVars, netVars, locals
  <2>3. InFlight'
    BY <1>k DEF Select, InFlight, Held, HasPkt, bufVars, locals
  <2> QED BY <2>1, <2>2, <2>3
<1>l. ASSUME Return \/ Cancel PROVE TypeOK' /\ InFlight'
  <2>1. TypeOK'
    BY <1>l DEF Return, Cancel, FlagTypeOK, SelTypeOK, ChanTypeOK, BufTypeOK, NetTypeOK,
                LocalTypeOK, selVars, chanVars, bufVars, netVars, locals
  <2>2. InFlight'
    BY <1>l DEF Return, Cancel, InFlight, Held, HasPkt, bufVars, locals
  <2> QED BY <2>1, <2>2
<1>m. ASSUME ReadQuery \/ ReadReport PROVE TypeOK' /\ InFlight'
  <2>1. FlagTypeOK' /\ SelTypeOK' /\ BufTypeOK' /\ NetTypeOK' /\ LocalTypeOK'
    BY <1>m DEF ReadQuery, ReadReport, FlagTypeOK, SelTypeOK, BufTypeOK, NetTypeOK, LocalTypeOK,
                appVars, selVars, bufVars, netVars, locals
  <2>2. ChanTypeOK'
    BY <1>m, SizeAssumption DEF ReadQuery, ReadReport, ChanTypeOK
  <2>3. InFlight'
    BY <1>m DEF ReadQuery, ReadReport, InFlight, Held, HasPkt, bufVars, locals
  <2> QED BY <2>1, <2>2, <2>3
<1>n. ASSUME NEW p \in Inputs, Arrive(p) PROVE TypeOK' /\ InFlight'
  <2>1. p \in Packet
    BY InputAssumption
  <2>2. NetTypeOK'
    BY <1>n, <2>1, DeliverTyped DEF Arrive, NetTypeOK
  <2>3. FlagTypeOK' /\ SelTypeOK' /\ ChanTypeOK' /\ BufTypeOK' /\ LocalTypeOK'
    BY <1>n DEF Arrive, FlagTypeOK, SelTypeOK, ChanTypeOK, BufTypeOK, LocalTypeOK,
                appVars, selVars, chanVars, bufVars, locals
  <2>4. InFlight'
    BY <1>n DEF Arrive, InFlight, Held, HasPkt, bufVars, locals
  <2> QED BY <2>2, <2>3, <2>4
<1>o. ASSUME UNCHANGED vars PROVE TypeOK' /\ InFlight'
  BY <1>o DEF FlagTypeOK, SelTypeOK, ChanTypeOK, BufTypeOK, NetTypeOK, LocalTypeOK, InFlight,
              Held, HasPkt, vars, appVars, selVars, chanVars, bufVars, netVars, locals
<1> QED
  BY <1>a, <1>b, <1>c, <1>d, <1>e, <1>f, <1>g, <1>h, <1>i, <1>j, <1>k, <1>l, <1>m, <1>n, <1>o
     DEF Next, recvIGMP

\* Every variable keeps its type, and what the program counter of a receiver
\* says of its buffer and packet is true: recvIGMP never decodes or sends a
\* buffer nothing was read into.
THEOREM TypeCorrect == Spec => [](TypeOK /\ InFlight)
<1>1. Init => TypeOK /\ InFlight
  BY InitTyped
<1>2. TypeOK /\ InFlight /\ [Next]_vars => (TypeOK /\ InFlight)'
  BY TypedStep
<1> QED BY <1>1, <1>2, PTL DEF Spec

-----------------------------------------------------------------------------
\* The buffer pool.  A step does one of four things to the pool and to the
\* buffers held: nothing, a Get by a receiver that holds none, a Put by one
\* that lets go of its buffer, or letting go of it without a Put.

LetGo(r) == buf' = [buf EXCEPT ![r] = NoBuf]

PoolUse ==
  \/ UNCHANGED <<bytePool, buf>>
  \/ \E r \in Receivers : \E b \in Bufs : buf[r] = NoBuf /\ Get(r, b)
  \/ \E r \in Receivers : buf[r] \in Bufs /\ Put(r) /\ LetGo(r)
  \/ \E r \in Receivers : UNCHANGED bytePool /\ LetGo(r)

LEMMA PoolSteps == TypeOK /\ InFlight /\ [Next]_vars => PoolUse
<1> SUFFICES ASSUME TypeOK, InFlight, [Next]_vars PROVE PoolUse
    OBVIOUS
<1>1. ASSUME NEW r \in Receivers, recvIGMP(r) PROVE PoolUse
  <2>1. CASE GetBuf(r)
    BY <2>1 DEF GetBuf, PoolUse, InFlight, Held
  <2>2. CASE ReadTimeout(r) \/ Ignore(r) \/ Undecodable(r) \/ WriteTo(r)
    <3>1. Put(r) /\ LetGo(r)
      BY <2>2 DEF ReadTimeout, Ignore, Undecodable, WriteTo, Continue, LetGo
    <3>2. buf[r] \in Bufs
      BY <2>2 DEF ReadTimeout, Ignore, Undecodable, WriteTo, TypeOK, LocalTypeOK, InFlight, Held
    <3> QED BY <3>1, <3>2 DEF PoolUse
  <2>3. CASE Dispatch(r)
    BY <2>3 DEF Dispatch, Continue, LetGo, bufVars, PoolUse
  <2>4. CASE Stop(r) \/ ReadFrom(r) \/ Accept(r) \/ LoadOut(r) \/ Crash(r)
    BY <2>4 DEF Stop, ReadFrom, Accept, LoadOut, Crash, bufVars, locals, PoolUse
  <2> QED BY <1>1, <2>1, <2>2, <2>3, <2>4 DEF recvIGMP
<1>2. ASSUME \/ outInterfaceSelector \/ Return \/ ReadQuery \/ ReadReport \/ Cancel
             \/ \E s \in {OUT, ALTOUT} : Select(s)
             \/ \E p \in Inputs : Arrive(p)
             \/ UNCHANGED vars
      PROVE  PoolUse
  BY <1>2 DEF outInterfaceSelector, SelectorRecv, SelectorStore, Return, ReadQuery, ReadReport,
              Cancel, Select, Arrive, vars, bufVars, locals, PoolUse
<1> QED BY <1>1, <1>2 DEF Next

LEMMA PoolUseExclusive ==
  ASSUME bytePool \in [Bufs -> Nat], buf \in [Receivers -> Bufs \cup {NoBuf}],
         NoBuf \notin Bufs, BufExclusive, PoolUse
  PROVE  BufExclusive'
<1>0. /\ bytePool \in [Bufs -> Nat] /\ buf \in [Receivers -> Bufs \cup {NoBuf}]
      /\ NoBuf \notin Bufs
  OBVIOUS
<1>x. /\ \A b \in Bufs : bytePool[b] <= 1 /\ (bytePool[b] = 1 => \A r \in Receivers : buf[r] # b)
      /\ \A r, s \in Receivers : buf[r] = buf[s] /\ buf[r] # NoBuf => r = s
  BY DEF BufExclusive
<1>1. CASE UNCHANGED <<bytePool, buf>>
  BY <1>1, <1>x DEF BufExclusive
<1>2. ASSUME NEW r \in Receivers, NEW b \in Bufs, buf[r] = NoBuf, Get(r, b)
      PROVE  BufExclusive'
  <2>1. \A s \in Receivers : buf[s] # b
    BY <1>0, <1>x, <1>2 DEF Get, Reuse, New, Zeros
  <2>2. \A c \in Bufs : bytePool'[c] = IF c = b THEN 0 ELSE bytePool[c]
    BY <1>0, <1>x, <1>2 DEF Get, Reuse, New, Zeros
  <2>3. \A s \in Receivers : buf'[s] = IF s = r THEN b ELSE buf[s]
    BY <1>0, <1>2 DEF Get, Reuse, New, Zeros
  <2>4. \A c \in Bufs : bytePool'[c] <= 1 /\ (bytePool'[c] = 1 => \A s \in Receivers : buf'[s] # c)
    BY <1>x, <2>2, <2>3
  <2>5. \A s, t \in Receivers : buf'[s] = buf'[t] /\ buf'[s] # NoBuf => s = t
    BY <1>x, <2>1, <2>3
  <2> QED BY <2>4, <2>5 DEF BufExclusive
<1>3. ASSUME NEW r \in Receivers, buf[r] \in Bufs, Put(r), LetGo(r) PROVE BufExclusive'
  <2>1. \A c \in Bufs : bytePool'[c] = IF c = buf[r] THEN bytePool[c] + 1 ELSE bytePool[c]
    BY <1>0, <1>3 DEF Put, PutBack
  <2>2. bytePool[buf[r]] = 0
    <3>1. bytePool[buf[r]] \in Nat /\ bytePool[buf[r]] <= 1 /\ bytePool[buf[r]] # 1
      BY <1>0, <1>x, <1>3
    <3> QED BY <3>1
  <2>3. \A s \in Receivers : buf'[s] = IF s = r THEN NoBuf ELSE buf[s]
    BY <1>0, <1>3 DEF LetGo
  <2>4. \A c \in Bufs : bytePool'[c] <= 1 /\ (bytePool'[c] = 1 => \A s \in Receivers : buf'[s] # c)
    BY <1>0, <1>x, <1>3, <2>1, <2>2, <2>3
  <2>5. \A s, t \in Receivers : buf'[s] = buf'[t] /\ buf'[s] # NoBuf => s = t
    BY <1>x, <2>3
  <2> QED BY <2>4, <2>5 DEF BufExclusive
<1>4. ASSUME NEW r \in Receivers, UNCHANGED bytePool, LetGo(r) PROVE BufExclusive'
  <2>1. \A s \in Receivers : buf'[s] = IF s = r THEN NoBuf ELSE buf[s]
    BY <1>0, <1>4 DEF LetGo
  <2> QED BY <1>0, <1>x, <1>4, <2>1 DEF BufExclusive
<1> QED BY <1>1, <1>2, <1>3, <1>4 DEF PoolUse

LEMMA ExclusiveStep ==
  TypeOK /\ InFlight /\ BufExclusive /\ [Next]_vars => BufExclusive'
BY PoolSteps, PoolUseExclusive, InputAssumption DEF TypeOK, BufTypeOK, LocalTypeOK

\* A buffer has at most one owner, whatever the number of receivers: each path
\* of recvIGMP gives its buffer back at most once and forgets it when it does.
THEOREM Exclusive == Spec => []BufExclusive
<1>1. Init => BufExclusive
  BY DEF Init, BufExclusive
<1>2. TypeOK /\ InFlight /\ BufExclusive /\ [Next]_vars => BufExclusive'
  BY ExclusiveStep
<1> QED BY <1>1, <1>2, TypeCorrect, PTL DEF Spec

-----------------------------------------------------------------------------
\* What a receiver holds between the read and the write.  Nobody else reads
\* into its buffer because nobody else holds it, so what goes out begins with
\* the packet that came in.

Owned ==
  \A r \in Receivers : HasPkt(r) =>
    \A c \in 1 .. pkt[r].len : data[buf[r]][c] = pkt[r]

LEMMA OwnedStep ==
  TypeOK /\ InFlight /\ BufExclusive /\ Owned /\ [Next]_vars => Owned'
<1> SUFFICES ASSUME TypeOK, InFlight, BufExclusive, Owned, [Next]_vars,
                    NEW s \in Receivers, HasPkt(s)'
             PROVE  \A c \in 1 .. pkt'[s].len : data'[buf'[s]][c] = pkt'[s]
    BY DEF Owned, HasPkt
<1>0. /\ data \in [Bufs -> Cells(Packet)]
      /\ pc \in [Receivers -> {"top", "read", "filter", "dispatch", "load", "write", "done"}]
      /\ buf \in [Receivers -> Bufs \cup {NoBuf}]
      /\ pkt \in [Receivers -> Packet \cup {NoPkt}]
      /\ sock \in [Receivers -> Seq(Packet)]
  BY DEF TypeOK, BufTypeOK, LocalTypeOK, NetTypeOK
<1>1. HasPkt(s) => buf[s] \in Bufs /\ pkt[s] \in Packet
                   /\ \A c \in 1 .. pkt[s].len : data[buf[s]][c] = pkt[s]
  BY <1>0 DEF InFlight, Held, HasPkt, Owned
\* Most steps leave the packet and the buffer of s as they are.
<1>2. CASE HasPkt(s) /\ UNCHANGED <<data, buf, pkt>>
  BY <1>1, <1>2
<1>3. ASSUME NEW r \in Receivers, GetBuf(r)
      PROVE  \A c \in 1 .. pkt'[s].len : data'[buf'[s]][c] = pkt'[s]
  <2>1. PICK b \in Bufs : Get(r, b)
    BY <1>3 DEF GetBuf
  <2>2. r # s /\ HasPkt(s) /\ pkt' = pkt /\ buf'[s] = buf[s]
    BY <1>0, <1>3, <2>1 DEF GetBuf, Goto, Get, Reuse, New, Zeros, HasPkt
  <2>3. data'[buf[s]] = data[buf[s]]
    BY <1>0, <1>1, <2>1, <2>2 DEF Get, Reuse, New, Zeros
  <2> QED BY <1>1, <2>2, <2>3
<1>4. ASSUME NEW r \in Receivers, ReadFrom(r)
      PROVE  \A c \in 1 .. pkt'[s].len : data'[buf'[s]][c] = pkt'[s]
  <2> DEFINE p == Head(sock[r])
  <2>1. /\ pc[r] = "read" /\ buf' = buf /\ pkt' = [pkt EXCEPT ![r] = p]
        /\ data' = [data EXCEPT ![buf[r]] = Fill(@, p)]
        /\ pc' = [pc EXCEPT ![r] = "filter"]
    BY <1>4 DEF ReadFrom, Goto
  <2>2. p \in Packet /\ buf[r] \in Bufs
    BY <1>0, <1>4, <2>1 DEF ReadFrom, InFlight, Held
  <2>3. CASE s = r
    <3>1. pkt'[s] = p /\ data'[buf'[s]] = Fill(data[buf[r]], p)
      BY <1>0, <2>1, <2>2, <2>3
    <3>2. \A c \in 1 .. p.len : Fill(data[buf[r]], p)[c] = p
      BY <2>2, SizeAssumption DEF Fill, Packet
    <3> QED BY <3>1, <3>2
  <2>4. CASE s # r
    <3>1. HasPkt(s) /\ pkt'[s] = pkt[s]
      BY <1>0, <2>1, <2>4 DEF HasPkt
    <3>2. buf[s] # buf[r]
      BY <1>1, <2>2, <2>4, <3>1, InputAssumption DEF BufExclusive
    <3>3. data'[buf'[s]] = data[buf[s]]
      BY <1>0, <1>1, <2>1, <3>1, <3>2
    <3> QED BY <1>1, <3>1, <3>3
  <2> QED BY <2>3, <2>4
<1>5. ASSUME NEW r \in Receivers, Continue(r), data' = data
      PROVE  \A c \in 1 .. pkt'[s].len : data'[buf'[s]][c] = pkt'[s]
  <2>1. r # s /\ HasPkt(s) /\ pkt'[s] = pkt[s] /\ buf'[s] = buf[s]
    BY <1>0, <1>5 DEF Continue, HasPkt
  <2> QED BY <1>1, <1>5, <2>1
<1>6. ASSUME NEW r \in Receivers, recvIGMP(r)
      PROVE  \A c \in 1 .. pkt'[s].len : data'[buf'[s]][c] = pkt'[s]
  <2>1. CASE ReadTimeout(r) \/ Ignore(r) \/ Undecodable(r) \/ WriteTo(r)
    BY <1>5, <2>1 DEF ReadTimeout, Ignore, Undecodable, WriteTo
  <2>2. CASE Dispatch(r)
    <3>1. CASE Continue(r)
      BY <1>5, <2>2, <3>1 DEF Dispatch, bufVars
    <3>2. CASE Goto(r, "load") /\ UNCHANGED <<buf, pkt, out>>
      BY <1>0, <1>2, <2>2, <3>2 DEF Dispatch, Goto, bufVars, HasPkt
    <3> QED BY <2>2, <3>1, <3>2 DEF Dispatch
  <2>3. CASE Stop(r) \/ Accept(r) \/ LoadOut(r) \/ Crash(r)
    BY <1>0, <1>2, <2>3 DEF Stop, Accept, LoadOut, Crash, Goto, bufVars, locals, HasPkt
  <2> QED BY <1>3, <1>4, <1>6, <2>1, <2>2, <2>3 DEF recvIGMP
<1>7. ASSUME \/ outInterfaceSelector \/ Return \/ ReadQuery \/ ReadReport \/ Cancel
             \/ \E t \in {OUT, ALTOUT} : Select(t)
             \/ \E p \in Inputs : Arrive(p)
             \/ UNCHANGED vars
      PROVE  \A c \in 1 .. pkt'[s].len : data'[buf'[s]][c] = pkt'[s]
  <2>1. UNCHANGED <<data, buf, pkt, pc>>
    BY <1>7 DEF outInterfaceSelector, SelectorRecv, SelectorStore, Return, ReadQuery, ReadReport,
                Cancel, Select, Arrive, vars, bufVars, locals
  <2> QED BY <1>2, <2>1 DEF HasPkt
<1> QED BY <1>6, <1>7 DEF Next

LEMMA IntactStep ==
  TypeOK /\ InFlight /\ Owned /\ PayloadIntact /\ [Next]_vars => PayloadIntact'
<1> SUFFICES ASSUME TypeOK, InFlight, Owned, PayloadIntact, [Next]_vars PROVE PayloadIntact'
    OBVIOUS
<1>1. CASE UNCHANGED wire
  BY <1>1 DEF PayloadIntact
<1>2. ASSUME NEW r \in Receivers, WriteTo(r) PROVE PayloadIntact'
  <2> DEFINE e == [side |-> out[r], dst |-> g(r), pkt |-> pkt[r], payload |-> data[buf[r]]]
  <2>1. wire' = Append(wire, e) /\ HasPkt(r)
    BY <1>2 DEF WriteTo, HasPkt
  <2>2. \A c \in 1 .. e.pkt.len : e.payload[c] = e.pkt
    BY <2>1 DEF Owned
  <2>3. wire \in Seq(Entry)
    BY DEF TypeOK, NetTypeOK
  <2> HIDE DEF e
  <2>4. \A i \in DOMAIN wire' : wire'[i] = e \/ (i \in DOMAIN wire /\ wire'[i] = wire[i])
    BY <2>1, <2>3
  <2> QED BY <2>2, <2>4 DEF PayloadIntact
<1>3. ASSUME NEW r \in Receivers, recvIGMP(r), ~ WriteTo(r) PROVE UNCHANGED wire
  BY <1>3 DEF recvIGMP, Stop, GetBuf, ReadFrom, ReadTimeout, Ignore, Accept, Undecodable,
              Dispatch, LoadOut, Crash, netVars
<1>4. ASSUME \/ outInterfaceSelector \/ Return \/ ReadQuery \/ ReadReport \/ Cancel
             \/ \E s \in {OUT, ALTOUT} : Select(s)
             \/ \E p \in Inputs : Arrive(p)
             \/ UNCHANGED vars
      PROVE  UNCHANGED wire
  BY <1>4 DEF outInterfaceSelector, SelectorRecv, SelectorStore, Return, ReadQuery, ReadReport,
              Cancel, Select, Arrive, vars, netVars
<1> QED BY <1>1, <1>2, <1>3, <1>4 DEF Next

\* What proxy sends begins with the packet that was received, however many
\* goroutines share the pool.
THEOREM Intact == Spec => []PayloadIntact
<1>1. Init => Owned /\ PayloadIntact
  BY DEF Init, Owned, HasPkt, PayloadIntact
<1>2. TypeOK /\ InFlight /\ BufExclusive /\ Owned /\ [Next]_vars => Owned'
  BY OwnedStep
<1>3. TypeOK /\ InFlight /\ Owned /\ PayloadIntact /\ [Next]_vars => PayloadIntact'
  BY IntactStep
<1> QED BY <1>1, <1>2, <1>3, TypeCorrect, Exclusive, PTL DEF Spec

-----------------------------------------------------------------------------
\* The notification of queries.

LEMMA PendingStep == TypeOK /\ QueryPending /\ [Next]_vars => QueryPending'
<1> SUFFICES ASSUME TypeOK, QueryPending, [Next]_vars PROVE QueryPending'
    OBVIOUS
<1>0. QueryNotifyCh \in 0 .. ChannelSize
  BY DEF TypeOK, ChanTypeOK
<1>1. CASE UNCHANGED <<QueryNotifyCh, unseenQuery>>
  BY <1>1 DEF QueryPending
<1>2. ASSUME NEW r \in Receivers, Dispatch(r) PROVE QueryPending'
  <2>1. NotifyQuery(r)
    BY <1>2 DEF Dispatch
  <2>2. QueryNotifyCh' > 0 \/ UNCHANGED <<QueryNotifyCh, unseenQuery>>
    BY <1>0, <2>1, SizeAssumption DEF NotifyQuery, TrySend
  <2> QED BY <2>2 DEF QueryPending
<1>3. CASE ReadQuery
  BY <1>3 DEF ReadQuery, QueryPending
<1>4. ASSUME NEW r \in Receivers, recvIGMP(r), ~ Dispatch(r)
      PROVE  UNCHANGED <<QueryNotifyCh, unseenQuery>>
  BY <1>4 DEF recvIGMP, Stop, GetBuf, ReadFrom, ReadTimeout, Ignore, Accept, Undecodable,
              LoadOut, WriteTo, Crash, chanVars
<1>5. ASSUME \/ outInterfaceSelector \/ Return \/ ReadReport \/ Cancel
             \/ \E s \in {OUT, ALTOUT} : Select(s)
             \/ \E p \in Inputs : Arrive(p)
             \/ UNCHANGED vars
      PROVE  UNCHANGED <<QueryNotifyCh, unseenQuery>>
  BY <1>5 DEF outInterfaceSelector, SelectorRecv, SelectorStore, Return, ReadReport,
              Cancel, Select, Arrive, vars, chanVars
<1> QED BY <1>1, <1>2, <1>3, <1>4, <1>5 DEF Next

\* Dropping a notification when QueryNotifyCh is full loses nothing, for any
\* capacity other than zero.
THEOREM NotificationPending == Spec => []QueryPending
<1>1. Init => QueryPending
  BY DEF Init, QueryPending
<1>2. TypeOK /\ QueryPending /\ [Next]_vars => QueryPending'
  BY PendingStep
<1> QED BY <1>1, <1>2, TypeCorrect, PTL DEF Spec

-----------------------------------------------------------------------------
\* The outside interface is switched while receivers run.  A receiver has late
\* packets only while its side is deselected, and then none that still waits
\* to be dispatched: the filter would not let another one through.

LateInv ==
  \A r \in Receivers :
    /\ late[r] \in {0, 1}
    /\ late[r] = 1 => pc[r] # "dispatch" /\ ignoreOnNonActiveOutOrAltInterface(interf(r))

LEMMA LateStep == TypeOK /\ LateInv /\ [Next]_vars => LateInv'
<1> SUFFICES ASSUME TypeOK, LateInv, [Next]_vars PROVE LateInv'
    OBVIOUS
<1>0. /\ late \in [Receivers -> Nat]
      /\ pc \in [Receivers -> {"top", "read", "filter", "dispatch", "load", "write", "done"}]
  BY DEF TypeOK, LocalTypeOK
<1>1. ASSUME NEW r \in Receivers, Dispatch(r) PROVE LateInv'
  <2>1. /\ late' = [late EXCEPT ![r] =
                      @ + IF ignoreOnNonActiveOutOrAltInterface(interf(r)) THEN 1 ELSE 0]
        /\ IntOutName' = IntOutName
        /\ pc[r] = "dispatch" /\ late[r] = 0
    BY <1>1 DEF Dispatch, selVars, LateInv
  <2>2. \E l \in {"top", "load"} : pc' = [pc EXCEPT ![r] = l]
    BY <1>1 DEF Dispatch, Goto, Continue
  <2> QED BY <1>0, <2>1, <2>2 DEF LateInv, ignoreOnNonActiveOutOrAltInterface
<1>2. ASSUME NEW r \in Receivers, Accept(r) PROVE LateInv'
  <2>1. /\ ~ ignoreOnNonActiveOutOrAltInterface(interf(r))
        /\ UNCHANGED <<late, IntOutName>> /\ pc' = [pc EXCEPT ![r] = "dispatch"]
    BY <1>2 DEF Accept, ForUs, Goto, selVars
  <2> QED BY <1>0, <2>1 DEF LateInv, ignoreOnNonActiveOutOrAltInterface
<1>3. ASSUME NEW r \in Receivers, recvIGMP(r), ~ Dispatch(r), ~ Accept(r) PROVE LateInv'
  <2>1. UNCHANGED <<late, IntOutName>>
    BY <1>3 DEF recvIGMP, Stop, GetBuf, ReadFrom, ReadTimeout, Ignore, Undecodable,
                LoadOut, WriteTo, Crash, selVars, locals
  <2>2. pc' = pc \/ \E l \in {"top", "read", "filter", "write", "done"} : pc' = [pc EXCEPT ![r] = l]
    BY <1>3 DEF recvIGMP, Stop, GetBuf, ReadFrom, ReadTimeout, Ignore, Undecodable,
                LoadOut, WriteTo, Crash, Goto, Continue, locals
  <2> QED BY <1>0, <2>1, <2>2 DEF LateInv, ignoreOnNonActiveOutOrAltInterface
<1>4. CASE SelectorStore
  <2>1. UNCHANGED pc /\ IntOutName' = [IntOutName EXCEPT ![INSIDE] = selection]
    BY <1>4 DEF SelectorStore
  <2>2. CASE selection # IntOutName[INSIDE]
    BY <1>4, <2>2 DEF SelectorStore, LateInv
  <2>3. CASE selection = IntOutName[INSIDE]
    <3>1. late' = late
      BY <1>4, <2>3 DEF SelectorStore
    <3>2. IntOutName' = IntOutName
      BY <2>1, <2>3 DEF TypeOK, SelTypeOK
    <3> QED BY <2>1, <3>1, <3>2 DEF LateInv, ignoreOnNonActiveOutOrAltInterface
  <2> QED BY <2>2, <2>3
<1>5. ASSUME \/ SelectorRecv \/ Return \/ ReadQuery \/ ReadReport \/ Cancel
             \/ \E s \in {OUT, ALTOUT} : Select(s)
             \/ \E p \in Inputs : Arrive(p)
             \/ UNCHANGED vars
      PROVE  LateInv'
  <2>1. UNCHANGED <<late, pc, IntOutName>>
    BY <1>5 DEF SelectorRecv, Return, ReadQuery, ReadReport, Cancel, Select, Arrive,
                vars, selVars, locals
  <2> QED BY <2>1 DEF LateInv, ignoreOnNonActiveOutOrAltInterface
<1> QED BY <1>1, <1>2, <1>3, <1>4, <1>5 DEF Next, outInterfaceSelector

\* Switching the outside interface takes effect within one packet per
\* receiver, however often it is switched.
THEOREM SwitchTakesEffect == Spec => []LateBound
<1>1. Init => LateInv
  BY DEF Init, LateInv
<1>2. TypeOK /\ LateInv /\ [Next]_vars => LateInv'
  BY LateStep
<1>3. LateInv => LateBound
  BY DEF LateInv, LateBound
<1> QED BY <1>1, <1>2, <1>3, TypeCorrect, PTL DEF Spec
=============================================================================
