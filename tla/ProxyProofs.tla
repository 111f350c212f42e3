---------------------------- MODULE ProxyProofs ----------------------------
(***************************************************************************)
(* Proofs about the goroutines of a proxy together, for every              *)
(* configuration, any number of groups, packets and buffers: the pool they *)
(* share keeps its buffers apart, recvUnicastIGMP sends what it reads      *)
(* beside the real receivers, Run leaves nothing of its own running, and   *)
(* all of them together implement Forwarding, whatever loops back.         *)
(***************************************************************************)
EXTENDS Proxy, ReceiverProofs

\* recvUnicastIGMP has a buffer between Get and the end of the iteration.
UHeld == upc \in {"read", "decode", "send"}

Owners ==
  /\ bytePool \in [Bufs -> Nat]
  /\ pc \in [Receivers -> {"top", "read", "filter", "dispatch", "load", "write", "done"}]
  /\ buf \in [Receivers -> Bufs \cup {NoBuf}] /\ ubuf \in Bufs \cup {NoBuf}

\* The program counter says whether a goroutine holds a buffer.
Places ==
  /\ \A r \in Receivers : buf[r] # NoBuf <=> Held(r)
  /\ ubuf # NoBuf <=> UHeld

Pooled == Owners /\ Places /\ PoolExclusive

-----------------------------------------------------------------------------
\* What a step of a goroutine does to the pool and to its own buffer: nothing,
\* a Get, or the end of an iteration, with a Put or without.

UseOf(r) ==
  \/ UNCHANGED <<bytePool, buf>> /\ (Held(r)' <=> Held(r))
  \/ \E b \in Bufs : buf[r] = NoBuf /\ Get(r, b) /\ Held(r)'
  \/ buf[r] \in Bufs /\ (Put(r) \/ UNCHANGED bytePool) /\ LetGo(r) /\ ~ Held(r)'

UnicastUse ==
  \/ UNCHANGED <<bytePool, ubuf>> /\ (UHeld' <=> UHeld)
  \/ \E b \in Bufs : ubuf = NoBuf /\ ubuf' = b /\ (Reuse(b) \/ New(b)) /\ UHeld'
  \/ ubuf \in Bufs /\ ubuf' = NoBuf /\ (PutBack(ubuf) \/ UNCHANGED bytePool) /\ ~ UHeld'

\* Every step of a receiver uses the pool in one of these ways.
LEMMA ReceiverUse ==
  ASSUME Owners, Places, NEW r \in Receivers, recvIGMP(r)
  PROVE  /\ UseOf(r)
         /\ \E l \in {"top", "read", "filter", "dispatch", "load", "write", "done"} : Goto(r, l)
<1>1. CASE Stop(r)
  BY <1>1 DEF Stop, Goto, UseOf, Owners, Held, bufVars
<1>2. CASE GetBuf(r)
  <2>1. Goto(r, "read") /\ Held(r)' /\ buf[r] = NoBuf
    BY <1>2 DEF GetBuf, Goto, Owners, Places, Held
  <2> QED BY <1>2, <2>1 DEF GetBuf, UseOf
<1>3. CASE ReadFrom(r)
  BY <1>3 DEF ReadFrom, Goto, UseOf, Owners, Held
<1>4. CASE ReadTimeout(r) \/ Ignore(r) \/ Undecodable(r) \/ WriteTo(r)
  <2>1. Put(r) /\ LetGo(r) /\ Goto(r, "top") /\ Held(r)
    BY <1>4 DEF ReadTimeout, Ignore, Undecodable, WriteTo, Continue, LetGo, Goto, Held
  <2>2. buf[r] \in Bufs /\ ~ Held(r)'
    BY <2>1 DEF Owners, Places, Goto, Held
  <2> QED BY <2>1, <2>2 DEF UseOf
<1>5. CASE Dispatch(r)
  <2>1. Held(r) /\ buf[r] \in Bufs /\ UNCHANGED bytePool
    BY <1>5 DEF Dispatch, Owners, Places, Held, bufVars
  <2>2. CASE proxyIt(conf, interf(r))
    BY <1>5, <2>1, <2>2 DEF Dispatch, Goto, UseOf, Owners, Held
  <2>3. CASE ~ proxyIt(conf, interf(r))
    BY <1>5, <2>1, <2>3 DEF Dispatch, Continue, LetGo, Goto, UseOf, Owners, Held
  <2> QED BY <2>2, <2>3
<1>6. CASE Accept(r)
  BY <1>6 DEF Accept, Goto, UseOf, Owners, Held, bufVars
<1>7. CASE LoadOut(r)
  BY <1>7 DEF LoadOut, Goto, UseOf, Owners, Held, bufVars
<1>8. CASE Crash(r)
  <2>1. UNCHANGED <<bytePool, buf, pc>> /\ Goto(r, "write")
    BY <1>8 DEF Crash, bufVars, locals, Owners, Goto
  <2> QED BY <2>1 DEF UseOf, Held
<1> QED BY <1>1, <1>2, <1>3, <1>4, <1>5, <1>6, <1>7, <1>8 DEF recvIGMP

\* And every step of recvUnicastIGMP.
LEMMA UnicastUses ==
  ASSUME Owners, Places, U!recvUnicastIGMP
  PROVE  UnicastUse
<1>1. CASE U!Stop \/ U!ReadFrom \/ U!ReadError \/ U!Crash
  BY <1>1 DEF U!Stop, U!ReadFrom, U!ReadError, U!Crash, UnicastUse, UHeld
<1>2. CASE U!GetBuf
  BY <1>2 DEF U!GetBuf, U!Reuse, U!New, U!Zeros, Reuse, New, Zeros, UnicastUse, UHeld, Places
<1>3. CASE U!ReadTimeout \/ U!Undecodable \/ U!Send
  BY <1>3 DEF U!ReadTimeout, U!Undecodable, U!Send, U!Put, U!PutBack, U!Continue, PutBack,
              UnicastUse, UHeld, Places, Owners
<1>4. CASE U!Decode
  BY <1>4 DEF U!Decode, U!Continue, UnicastUse, UHeld, Places, Owners
<1> QED BY <1>1, <1>2, <1>3, <1>4 DEF U!recvUnicastIGMP

-----------------------------------------------------------------------------
\* These uses keep the buffers apart.

LEMMA MulticastPooled ==
  ASSUME Pooled, NEW r \in Receivers, Multicasting(r)
  PROVE  Pooled'
<1>1. UNCHANGED <<ubuf, upc>> /\ (UHeld' <=> UHeld)
  BY DEF Multicasting, unicastVars, UHeld
<1>2. /\ UseOf(r)
      /\ \E l \in {"top", "read", "filter", "dispatch", "load", "write", "done"} : Goto(r, l)
  BY ReceiverUse DEF Pooled, Multicasting
<1>3. /\ pc' \in [Receivers -> {"top", "read", "filter", "dispatch", "load", "write", "done"}]
      /\ \A s \in Receivers \ {r} : Held(s)' <=> Held(s)
  BY <1>2 DEF Pooled, Owners, Goto, Held
<1>4. /\ NoBuf \notin Bufs /\ BufExclusive /\ Owners /\ Places
      /\ ubuf # NoBuf => bytePool[ubuf] = 0 /\ \A s \in Receivers : buf[s] # ubuf
  BY InputAssumption DEF Pooled, PoolExclusive
<1>5. BufExclusive'
  <2>1. PoolUse
    BY <1>2 DEF UseOf, PoolUse
  <2> QED BY <1>4, <2>1, PoolUseExclusive DEF Owners
<1>6. CASE UNCHANGED <<bytePool, buf>> /\ (Held(r)' <=> Held(r))
  BY <1>1, <1>3, <1>4, <1>5, <1>6 DEF Pooled, Owners, Places, PoolExclusive
<1>7. ASSUME NEW b \in Bufs, buf[r] = NoBuf, Get(r, b), Held(r)' PROVE Pooled'
  <2>1. \A s \in Receivers : buf'[s] = IF s = r THEN b ELSE buf[s]
    BY <1>4, <1>7 DEF Get, Owners
  <2>2. /\ bytePool' \in [Bufs -> Nat]
        /\ \A c \in Bufs \ {b} : bytePool'[c] = bytePool[c]
    <3>1. bytePool[b] \in Nat
      BY <1>4 DEF Owners
    <3> QED BY <1>4, <1>7, <3>1 DEF Get, Reuse, New, Owners
  <2>3. b # ubuf
    BY <1>4, <1>7, <2>1 DEF Get, Reuse, New, Multicasting, NotNew, Owners
  <2>4. Owners' /\ Places'
    BY <1>1, <1>3, <1>4, <1>7, <2>1, <2>2 DEF Owners, Places, Get
  <2> QED BY <1>1, <1>4, <1>5, <2>1, <2>2, <2>3, <2>4 DEF Pooled, PoolExclusive, Owners
<1>8. ASSUME buf[r] \in Bufs, Put(r) \/ UNCHANGED bytePool, LetGo(r), ~ Held(r)' PROVE Pooled'
  <2>1. \A s \in Receivers : buf'[s] = IF s = r THEN NoBuf ELSE buf[s]
    BY <1>4, <1>8 DEF LetGo, Owners
  <2>2. /\ bytePool' \in [Bufs -> Nat]
        /\ \A c \in Bufs \ {buf[r]} : bytePool'[c] = bytePool[c]
    <3>1. bytePool[buf[r]] \in Nat
      BY <1>4, <1>8 DEF Owners
    <3> QED BY <1>4, <1>8, <3>1 DEF Put, PutBack, Owners
  <2>3. Owners' /\ Places'
    BY <1>1, <1>3, <1>4, <1>8, <2>1, <2>2 DEF Owners, Places, LetGo
  <2> QED BY <1>1, <1>4, <1>5, <1>8, <2>1, <2>2, <2>3 DEF Pooled, PoolExclusive, Owners
<1> QED BY <1>2, <1>6, <1>7, <1>8 DEF UseOf

LEMMA UnicastPooled ==
  ASSUME Pooled, Unicasting
  PROVE  Pooled'
<1>1. UNCHANGED <<pc, buf>> /\ \A r \in Receivers : Held(r)' <=> Held(r)
  BY DEF Unicasting, ownVars, locals, Held
<1>2. UnicastUse
  BY UnicastUses DEF Pooled, Unicasting
<1>3. /\ NoBuf \notin Bufs /\ Owners /\ Places
      /\ \A b \in Bufs : /\ bytePool[b] \in {0, 1}
                         /\ bytePool[b] = 1 => \A r \in Receivers : buf[r] # b
      /\ \A r, s \in Receivers : buf[r] = buf[s] /\ buf[r] # NoBuf => r = s
      /\ ubuf # NoBuf => bytePool[ubuf] = 0 /\ \A r \in Receivers : buf[r] # ubuf
  BY InputAssumption DEF Pooled, PoolExclusive, BufExclusive, Owners
<1>4. CASE UNCHANGED <<bytePool, ubuf>> /\ (UHeld' <=> UHeld)
  BY <1>1, <1>3, <1>4 DEF Pooled, Owners, Places, PoolExclusive, BufExclusive
<1>5. ASSUME NEW b \in Bufs, ubuf = NoBuf, ubuf' = b, Reuse(b) \/ New(b), UHeld' PROVE Pooled'
  <2>1. \A r \in Receivers : buf[r] # b
    BY <1>1, <1>3, <1>5 DEF Reuse, New, Unicasting, NotNew, Owners
  <2>2. /\ bytePool' \in [Bufs -> Nat] /\ bytePool'[b] = 0
        /\ \A c \in Bufs \ {b} : bytePool'[c] = bytePool[c]
    BY <1>3, <1>5 DEF Reuse, New, Owners
  <2>3. Owners' /\ Places'
    BY <1>1, <1>3, <1>5, <2>2 DEF Owners, Places
  <2> QED BY <1>1, <1>3, <1>5, <2>1, <2>2, <2>3 DEF Pooled, PoolExclusive, BufExclusive
<1>6. ASSUME ubuf \in Bufs, ubuf' = NoBuf, PutBack(ubuf) \/ UNCHANGED bytePool, ~ UHeld'
      PROVE  Pooled'
  <2>1. /\ bytePool' \in [Bufs -> Nat] /\ bytePool'[ubuf] \in {0, 1}
        /\ \A c \in Bufs \ {ubuf} : bytePool'[c] = bytePool[c]
    BY <1>3, <1>6 DEF PutBack, Owners
  <2>2. Owners' /\ Places'
    BY <1>1, <1>3, <1>6, <2>1 DEF Owners, Places
  <2> QED BY <1>1, <1>3, <1>6, <2>1, <2>2 DEF Pooled, PoolExclusive, BufExclusive
<1> QED BY <1>2, <1>4, <1>5, <1>6 DEF UnicastUse

\* Nothing else touches the pool or what is held.
LEMMA OthersStill ==
  ASSUME \/ RunSelfQuery \/ ReturnAll \/ Outside
         \/ \E s \in Interfaces(conf) : SelfQuery(s) \/ SelfQueryCrash(s)
         \/ \E p \in Unicast : ArriveUnicast(p)
         \/ UNCHANGED allVars
  PROVE  UNCHANGED <<bytePool, data, pc, buf, wire, upc, ubuf, uwire>>
<1>1. CASE RunSelfQuery \/ UNCHANGED allVars
  BY <1>1 DEF RunSelfQuery, allVars, vars, bufVars, netVars, locals, unicastVars
<1>2. CASE ReturnAll
  BY <1>2 DEF ReturnAll, Return, bufVars, netVars, locals, unicastVars
<1>3. CASE \E s \in Interfaces(conf) : SelfQuery(s) \/ SelfQueryCrash(s)
  BY <1>3 DEF SelfQuery, SelfQueryCrash, bufVars, netVars, locals, unicastVars
<1>4. CASE \E p \in Unicast : ArriveUnicast(p)
  BY <1>4 DEF ArriveUnicast, U!Arrive, ownVars, locals
<1>5. CASE Outside
  BY <1>5 DEF Outside, outInterfaceSelector, SelectorRecv, SelectorStore, ReadQuery, ReadReport,
              Cancel, Select, Arrive, bufVars, netVars, locals, unicastVars
<1> QED BY <1>1, <1>2, <1>3, <1>4, <1>5

LEMMA PooledStep == Pooled /\ [ProxyNext]_allVars => Pooled'
<1> SUFFICES ASSUME Pooled, [ProxyNext]_allVars PROVE Pooled'
    OBVIOUS
<1>1. ASSUME NEW r \in Receivers, Multicasting(r) PROVE Pooled'
  BY <1>1, MulticastPooled
<1>2. CASE Unicasting
  BY <1>2, UnicastPooled
<1>3. CASE UNCHANGED <<bytePool, data, pc, buf, wire, upc, ubuf, uwire>>
  BY <1>3 DEF Pooled, Owners, Places, PoolExclusive, BufExclusive, Held, UHeld
<1> QED BY <1>1, <1>2, <1>3, OthersStill DEF ProxyNext

LEMMA PooledInit == ProxyInit => Pooled
<1> SUFFICES ASSUME ProxyInit PROVE Pooled
    OBVIOUS
<1>1. Owners /\ Places
  BY DEF ProxyInit, Init, U!Init, Owners, Places, Held, UHeld
<1>2. PoolExclusive
  BY DEF ProxyInit, Init, U!Init, PoolExclusive, BufExclusive
<1> QED BY <1>1, <1>2 DEF Pooled

\* A buffer has one owner among the pool, all receivers and recvUnicastIGMP,
\* although each of them has its own ways to give a buffer back.
THEOREM PoolIsExclusive == ProxySpec => []PoolExclusive
<1>1. Pooled => PoolExclusive
  BY DEF Pooled
<1> QED BY <1>1, PooledInit, PooledStep, PTL DEF ProxySpec

-----------------------------------------------------------------------------
\* When Run has returned every goroutine it waits for is at its end.
Ended == returned => upc = "done" /\ \A r \in Receivers : pc[r] = "done"

\* Such goroutines take no step.
LEMMA EndedStill ==
  ASSUME Ended, returned
  PROVE  ~ Unicasting /\ \A r \in Receivers : ~ Multicasting(r)
<1>1. ~ Unicasting
  BY DEF Ended, Unicasting, U!recvUnicastIGMP, U!Stop, U!GetBuf, U!ReadFrom, U!ReadTimeout,
         U!ReadError, U!Undecodable, U!Decode, U!Send, U!Crash
<1>2. ASSUME NEW r \in Receivers PROVE ~ Multicasting(r)
  BY DEF Ended, Multicasting, recvIGMP, Stop, GetBuf, ReadFrom, ReadTimeout, Ignore, Accept,
         Undecodable, Dispatch, LoadOut, WriteTo, Crash
<1> QED BY <1>1, <1>2

LEMMA EndedStep == Ended /\ [ProxyNext]_allVars => Ended'
<1> SUFFICES ASSUME Ended, [ProxyNext]_allVars PROVE Ended'
    OBVIOUS
<1>1. ASSUME NEW r \in Receivers, Multicasting(r) PROVE Ended'
  <2>1. returned' = returned
    BY <1>1 DEF Multicasting, recvIGMP, Stop, GetBuf, ReadFrom, ReadTimeout, Ignore, Accept,
                Undecodable, Dispatch, LoadOut, WriteTo, Crash, appVars
  <2> QED BY <1>1, <2>1, EndedStill DEF Ended
<1>2. CASE Unicasting
  <2>1. returned' = returned
    BY <1>2 DEF Unicasting, ownVars
  <2> QED BY <1>2, <2>1, EndedStill DEF Ended
<1>3. CASE ReturnAll
  BY <1>3 DEF ReturnAll, Return, Ended, unicastVars, locals
<1>4. ASSUME \/ RunSelfQuery \/ Outside
             \/ \E s \in Interfaces(conf) : SelfQuery(s) \/ SelfQueryCrash(s)
             \/ \E p \in Unicast : ArriveUnicast(p)
             \/ UNCHANGED allVars
      PROVE  Ended'
  <2>1. returned' = returned
    BY <1>4 DEF RunSelfQuery, Outside, outInterfaceSelector, SelectorRecv, SelectorStore, ReadQuery,
                ReadReport, Cancel, Select, Arrive, SelfQuery, SelfQueryCrash, ArriveUnicast,
                allVars, vars, appVars, ownVars
  <2>2. UNCHANGED <<pc, upc>>
    BY <1>4, OthersStill
  <2> QED BY <2>1, <2>2 DEF Ended
<1> QED BY <1>1, <1>2, <1>3, <1>4 DEF ProxyNext

\* Once Run has returned no goroutine it started sends, reads into a buffer or
\* uses the pool: it waits for recvUnicastIGMP as for the receivers.
THEOREM QuietOnceReturned == ProxySpec => QuietAfterReturn
<1>1. ProxyInit => Ended
  BY DEF ProxyInit, Init, Ended
<1>2. Ended /\ [ProxyNext]_allVars => Ended'
  BY EndedStep
<1>3. Ended /\ [ProxyNext]_allVars
        => [returned => UNCHANGED <<wire, uwire, bytePool, data>>]_allVars
  <2> SUFFICES ASSUME Ended, ProxyNext, returned PROVE UNCHANGED <<wire, uwire, bytePool, data>>
      OBVIOUS
  <2> QED BY EndedStill, OthersStill DEF ProxyNext
<1> QED BY <1>1, <1>2, <1>3, PTL DEF ProxySpec, QuietAfterReturn

-----------------------------------------------------------------------------
\* The receivers are to recvUnicastIGMP what module UnicastProxy assumes.

\* Receivers only read packets of Readable, and what recvUnicastIGMP sends is one.
Reads ==
  /\ sock \in [Receivers -> Seq(Readable)] /\ usock \in Seq(Unicast)
  /\ data \in [Bufs -> Cells(Readable)]
  /\ pkt \in [Receivers -> Readable \cup {NoPkt}]
  /\ \A r \in Receivers : HasPkt(r) => pkt[r] \in Readable
  /\ upc = "send" => data[ubuf][1] # NoPkt

\* What the selector stores is an outside interface.
Selects ==
  /\ OutInterfaceSelectorCh \in Seq({OUT, ALTOUT}) /\ selection \in {OUT, ALTOUT}
  /\ selector # "done" => HasSelector

JInv == Pooled /\ Reads /\ Selects

LEMMA ArrivingTyped == Arriving \subseteq Packet
BY InputAssumption, UnicastAssumption DEF Arriving

\* What comes back of a packet that can be read can be read.
LEMMA ReadableClosed ==
  ASSUME NEW e, e.pkt \in Readable, Loops(e), e.side \in RawSides(conf)
  PROVE  LoopCopy(e) \in Readable
<1>1. e.pkt.hops < MaxHops /\ e.dst \in multicastGroups
  BY DEF Loops
<1>2. PICK p \in Arriving, h \in 0 .. MaxHops - 1 :
        e.pkt.id = p.id /\ e.pkt.type = p.type /\ e.pkt.group = p.group /\ e.pkt.hops = h
  <2>1. CASE e.pkt \in Arriving
    <3>1. e.pkt.hops \in 0 .. MaxHops - 1
      BY <1>1, <2>1, ArrivingTyped, SizeAssumption DEF Packet
    <3> QED BY <2>1, <3>1
  <2>2. ASSUME NEW p \in Arriving, NEW s \in RawSides(conf), NEW d \in multicastGroups,
               NEW h \in 0 .. MaxHops - 1,
               e.pkt = Returning(p, s, d, h)
        PROVE  \E q \in Arriving, k \in 0 .. MaxHops - 1 :
                 e.pkt.id = q.id /\ e.pkt.type = q.type /\ e.pkt.group = q.group /\ e.pkt.hops = k
    <3>1. /\ e.pkt.id = p.id /\ e.pkt.type = p.type /\ e.pkt.group = p.group
          /\ e.pkt.hops = h + 1
      BY <2>2, ArrivingTyped DEF Returning, LoopCopy, Packet
    <3>2. h + 1 \in 0 .. MaxHops - 1
      BY <1>1, <3>1, SizeAssumption
    <3> QED BY <3>1, <3>2
  <2>3. e.pkt \in Arriving \/
        \E p \in Arriving, s \in RawSides(conf), d \in multicastGroups, h \in 0 .. MaxHops - 1 :
          e.pkt = Returning(p, s, d, h)
    BY DEF Readable
  <2> QED BY <2>1, <2>2, <2>3
<1>3. LoopCopy(e) = Returning(p, e.side, e.dst, h)
  BY <1>2, ArrivingTyped DEF Returning, LoopCopy, Packet
<1> QED BY <1>1, <1>3 DEF Readable

\* What UnicastProxy assumes of its constants is true of the ones it has here.
LEMMA UnicastInput ==
  /\ Unicast \cup Readable \subseteq Packet
  /\ \A p \in Packet : p.type \in Types /\ p.group \in Group /\ p.len \in 1 .. BufLen
<1>1. ASSUME NEW p \in Arriving, NEW s \in RawSides(conf), NEW d \in multicastGroups,
             NEW h \in 0 .. MaxHops - 1
      PROVE  Returning(p, s, d, h) \in Packet
  <2>1. s \in Interfaces(conf) /\ p \in Packet /\ d \in Dst
    BY SidesTyped, AddrAssumption, ArrivingTyped
  <2>2. ifIndex[s] \in Nat /\ NetIP[s] \in Addr
    BY <2>1, AddrAssumption
  <2>3. h + 1 \in 0 .. MaxHops /\ BufLen \in 1 .. BufLen
    BY SizeAssumption
  <2> QED BY <2>1, <2>2, <2>3 DEF Returning, LoopCopy, Packet
<1>2. Readable \subseteq Packet
  BY <1>1, ArrivingTyped DEF Readable
<1> QED BY <1>2, UnicastAssumption DEF Packet

LEMMA EchoReads ==
  ASSUME sock \in [Receivers -> Seq(Readable)], NEW e, e.pkt \in Readable,
         e.side \in RawSides(conf), Echo(e)
  PROVE  sock' \in [Receivers -> Seq(Readable)]
<1>1. CASE Loops(e)
  <2>1. PICK S \in SUBSET Receivers : Deliver(LoopCopy(e), S)
    BY <1>1 DEF Echo
  <2> QED BY <1>1, <2>1, ReadableClosed DEF Deliver
<1>2. CASE ~ Loops(e)
  BY <1>2 DEF Echo
<1> QED BY <1>1, <1>2

\* A buffer a receiver takes is not the one recvUnicastIGMP holds.
LEMMA NotOurs ==
  ASSUME Pooled, NEW r \in Receivers, Multicasting(r), NEW b \in Bufs, buf[r] = NoBuf, Get(r, b)
  PROVE  b # ubuf
<1>1. /\ NoBuf \notin Bufs /\ buf \in [Receivers -> Bufs \cup {NoBuf}]
      /\ ubuf # NoBuf => bytePool[ubuf] = 0
  BY InputAssumption DEF Pooled, Owners, PoolExclusive
<1>2. buf'[r] = b
  BY <1>1 DEF Get
<1> QED BY <1>1, <1>2 DEF Get, Reuse, New, Multicasting, NotNew

LEMMA MulticastReads ==
  ASSUME JInv, NEW r \in Receivers, Multicasting(r)
  PROVE  Reads' /\ Selects'
<1>1. /\ Owners /\ Places /\ Reads /\ recvIGMP(r) /\ UNCHANGED <<usock, upc, ubuf>>
      /\ Held(r) => buf[r] \in Bufs /\ buf[r] # ubuf
  BY DEF JInv, Pooled, Multicasting, unicastVars, Owners, Places, PoolExclusive
<1>2. Selects'
  BY DEF JInv, Selects, Multicasting, recvIGMP, Stop, GetBuf, ReadFrom, ReadTimeout, Ignore, Accept,
         Undecodable, Dispatch, LoadOut, WriteTo, Crash, selVars
<1>3. CASE Stop(r) \/ Accept(r) \/ LoadOut(r)
  BY <1>1, <1>2, <1>3 DEF Stop, Accept, LoadOut, Reads, HasPkt, Goto, Owners, bufVars, netVars
<1>4. CASE Crash(r)
  BY <1>1, <1>2, <1>4 DEF Crash, Reads, HasPkt, bufVars, netVars, locals
<1>5. CASE ReadTimeout(r) \/ Ignore(r) \/ Undecodable(r)
  BY <1>1, <1>2, <1>5 DEF ReadTimeout, Ignore, Undecodable, Continue, Reads, HasPkt, Owners, netVars
<1>6. CASE Dispatch(r)
  BY <1>1, <1>2, <1>6 DEF Dispatch, Goto, Continue, Reads, HasPkt, Owners, bufVars, netVars
<1>7. CASE GetBuf(r)
  <2>1. PICK b \in Bufs : Get(r, b)
    BY <1>7 DEF GetBuf
  <2>2. buf[r] = NoBuf
    BY <1>1, <1>7 DEF GetBuf, Places, Held
  <2>3. b # ubuf
    BY <2>1, <2>2, NotOurs DEF JInv
  <2>4. data' \in [Bufs -> Cells(Readable)] /\ (upc = "send" => data'[ubuf] = data[ubuf])
    <3>1. Zeros \in Cells(Readable)
      BY DEF Zeros, Cells
    <3>2. CASE data' = data
      BY <1>1, <3>2 DEF Reads
    <3>3. CASE New(b)
      <4>1. upc = "send" => ubuf \in Bufs
        BY <1>1 DEF Places, UHeld, Owners
      <4> QED BY <1>1, <2>3, <3>1, <3>3, <4>1 DEF New, Reads
    <3> QED BY <2>1, <3>2, <3>3 DEF Get, Reuse
  <2>5. /\ UNCHANGED <<sock, usock, pkt, upc, ubuf>>
        /\ \A s \in Receivers : HasPkt(s)' => HasPkt(s)
    BY <1>1, <1>7 DEF GetBuf, netVars, HasPkt, Goto, Owners
  <2> QED BY <1>1, <1>2, <2>4, <2>5 DEF Reads
<1>8. CASE ReadFrom(r)
  <2> DEFINE p == Head(sock[r])
  <2>1. p \in Readable /\ Tail(sock[r]) \in Seq(Readable)
    BY <1>1, <1>8 DEF ReadFrom, Reads
  <2>2. Held(r)
    BY <1>8 DEF ReadFrom, Held
  <2>3. Fill(data[buf[r]], p) \in Cells(Readable)
    BY <1>1, <2>1, <2>2 DEF Fill, Cells, Reads
  <2>4. data' \in [Bufs -> Cells(Readable)] /\ (upc = "send" => data'[ubuf] = data[ubuf])
    <3>1. upc = "send" => ubuf \in Bufs
      BY <1>1 DEF Places, UHeld, Owners
    <3> QED BY <1>1, <1>8, <2>2, <2>3, <3>1 DEF ReadFrom, Reads
  <2>5. sock' \in [Receivers -> Seq(Readable)] /\ pkt' \in [Receivers -> Readable \cup {NoPkt}]
    BY <1>1, <1>8, <2>1 DEF ReadFrom, Reads
  <2>6. \A s \in Receivers : HasPkt(s)' => pkt'[s] \in Readable
    BY <1>1, <1>8, <2>1 DEF ReadFrom, Reads, HasPkt, Goto, Owners
  <2> QED BY <1>1, <1>2, <2>4, <2>5, <2>6 DEF Reads
<1>9. CASE WriteTo(r)
  <2> DEFINE e == [side |-> out[r], dst |-> g(r), pkt |-> pkt[r], payload |-> data[buf[r]]]
  <2>1. e.pkt \in Readable /\ e.side \in RawSides(conf) /\ Echo(e)
    BY <1>1, <1>9 DEF WriteTo, Reads, HasPkt
  <2>2. sock' \in [Receivers -> Seq(Readable)]
    BY <1>1, <2>1, EchoReads DEF Reads
  <2> QED BY <1>1, <1>2, <1>9, <2>2 DEF WriteTo, Continue, Reads, HasPkt, Owners
<1> QED BY <1>1, <1>3, <1>4, <1>5, <1>6, <1>7, <1>8, <1>9 DEF recvIGMP

\* A step of a receiver is a use of the pool, a crash or nothing to it.
LEMMA MulticastSimulates ==
  ASSUME JInv, NEW r \in Receivers, Multicasting(r)
  PROVE  U!OtherUse \/ U!OtherCrash \/ UNCHANGED U!vars
<1>1. /\ Owners /\ Places /\ Reads /\ recvIGMP(r) /\ UNCHANGED <<unicastVars>>
      /\ Held(r) => buf[r] \in Bufs /\ buf[r] # ubuf /\ bytePool[buf[r]] = 0
  <2>1. Held(r) => buf[r] \in Bufs /\ buf[r] # ubuf /\ bytePool[buf[r]] \in Nat
                   /\ bytePool[buf[r]] <= 1 /\ bytePool[buf[r]] # 1
    BY DEF JInv, Pooled, Owners, Places, PoolExclusive, BufExclusive
  <2> QED BY <2>1 DEF JInv, Pooled, Multicasting
<1>2. CASE Stop(r) \/ Accept(r) \/ Dispatch(r) \/ LoadOut(r)
  BY <1>1, <1>2 DEF Stop, Accept, Dispatch, LoadOut, appVars, selVars, bufVars, unicastVars,
                    U!vars, U!net
<1>3. CASE Crash(r)
  BY <1>1, <1>3 DEF Crash, selVars, bufVars, unicastVars, U!OtherCrash, U!net
<1>4. CASE ReadTimeout(r) \/ Ignore(r) \/ Undecodable(r) \/ WriteTo(r)
  <2>1. /\ Held(r) /\ PutBack(buf[r]) /\ UNCHANGED <<data, ctxDone, crashed, IntOutName>>
    BY <1>4 DEF ReadTimeout, Ignore, Undecodable, WriteTo, Held, Put, appVars, selVars
  <2> QED BY <1>1, <2>1 DEF PutBack, U!PutBack, U!OtherUse, U!net, unicastVars
<1>5. CASE GetBuf(r)
  <2>1. PICK b \in Bufs : Get(r, b)
    BY <1>5 DEF GetBuf
  <2>2. b # ubuf
    BY <1>1, <1>5, <2>1, NotOurs DEF GetBuf, Places, Held, JInv
  <2>3. U!Reuse(b) \/ U!New(b)
    BY <2>1 DEF Get, Reuse, New, Zeros, U!Reuse, U!New, U!Zeros
  <2>4. UNCHANGED <<ctxDone, crashed, IntOutName>>
    BY <1>5 DEF GetBuf, appVars, selVars
  <2> QED BY <1>1, <2>2, <2>3, <2>4 DEF U!OtherUse, U!net, unicastVars
<1>6. CASE ReadFrom(r)
  <2> DEFINE p == Head(sock[r])
  <2>1. p \in Readable
    BY <1>1, <1>6 DEF ReadFrom, Reads
  <2>2. /\ data' = [data EXCEPT ![buf[r]] = U!Fill(@, p)]
        /\ UNCHANGED <<bytePool, ctxDone, crashed, IntOutName>>
    BY <1>6 DEF ReadFrom, Fill, U!Fill, appVars, selVars
  <2>3. Held(r)
    BY <1>6 DEF ReadFrom, Held
  <2> QED BY <1>1, <2>1, <2>2, <2>3 DEF U!OtherUse, U!net, unicastVars
<1> QED BY <1>1, <1>2, <1>3, <1>4, <1>5, <1>6 DEF recvIGMP

LEMMA UnicastReads ==
  ASSUME JInv, Unicasting
  PROVE  Reads' /\ Selects'
<1>1. /\ Reads /\ Selects /\ UNCHANGED <<pc, pkt, OutInterfaceSelectorCh, selection, selector>>
      /\ \A r \in Receivers : HasPkt(r)' <=> HasPkt(r)
  BY DEF JInv, Unicasting, ownVars, locals, HasPkt
<1>2. upc \in {"read", "decode", "send"} => ubuf \in Bufs
  BY DEF JInv, Pooled, Places, Owners, UHeld
<1>3. Unicast \subseteq Readable
  BY DEF Readable, Arriving
<1>4. sock' \in [Receivers -> Seq(Readable)]
  <2>1. CASE U!Send
    <3> DEFINE e == [side |-> uout, dst |-> U!destination(data[ubuf][1]), pkt |-> data[ubuf][1],
                     payload |-> data[ubuf], read |-> upkt]
    <3>1. uwire' = Append(uwire, e) /\ uout \in RawSides(conf)
      BY <2>1 DEF U!Send, U!RawSides, RawSides, U!INSIDE, U!OUT, INSIDE, OUT
    <3>2. data[ubuf][1] \in Readable
      BY <1>1, <1>2, <2>1, SizeAssumption DEF U!Send, Reads, Cells
    <3> QED BY <1>1, <3>1, <3>2, EchoReads DEF Unicasting, Reads
  <2>2. CASE UNCHANGED uwire
    BY <1>1, <2>2 DEF Unicasting, Reads
  <2> QED BY <2>1, <2>2 DEF Unicasting, U!recvUnicastIGMP, U!Stop, U!GetBuf, U!ReadFrom, U!ReadTimeout,
             U!ReadError, U!Undecodable, U!Decode, U!Crash
<1>5. usock' \in Seq(Unicast) /\ data' \in [Bufs -> Cells(Readable)]
  <2>1. CASE U!ReadFrom
    <3>1. Head(usock) \in Unicast /\ Tail(usock) \in Seq(Unicast)
      BY <1>1, <2>1 DEF U!ReadFrom, Reads
    <3>2. U!Fill(data[ubuf], Head(usock)) \in Cells(Readable)
      BY <1>1, <1>2, <1>3, <2>1, <3>1 DEF U!ReadFrom, U!Fill, Cells, Reads
    <3> QED BY <1>1, <2>1, <3>1, <3>2 DEF U!ReadFrom, Reads
  <2>2. CASE U!GetBuf
    <3>1. Zeros \in Cells(Readable)
      BY DEF Zeros, Cells
    <3> QED BY <1>1, <2>2, <3>1 DEF U!GetBuf, U!Reuse, U!New, U!Zeros, Zeros, Reads, U!net
  <2>3. CASE UNCHANGED <<usock, data>>
    BY <1>1, <2>3 DEF Reads
  <2> QED BY <2>1, <2>2, <2>3 DEF Unicasting, U!recvUnicastIGMP, U!Stop, U!ReadTimeout, U!ReadError,
             U!Undecodable, U!Decode, U!Send, U!Crash, U!net
<1>6. upc' = "send" => data'[ubuf'][1] # NoPkt
  BY <1>1 DEF Unicasting, U!recvUnicastIGMP, U!Stop, U!GetBuf, U!ReadFrom, U!ReadTimeout, U!ReadError,
              U!Undecodable, U!Decode, U!Send, U!Crash, U!Continue, U!igmpType, Reads
<1> QED BY <1>1, <1>4, <1>5, <1>6 DEF Reads, Selects

\* A query of our own, what arrives, and the rest of the program.
LEMMA OthersReads ==
  ASSUME JInv,
         \/ RunSelfQuery \/ ReturnAll \/ Outside
         \/ \E s \in Interfaces(conf) : SelfQuery(s) \/ SelfQueryCrash(s)
         \/ \E p \in Unicast : ArriveUnicast(p)
         \/ UNCHANGED allVars
  PROVE  Reads' /\ Selects'
<1>1. Reads /\ Selects
  BY DEF JInv
<1>2. UNCHANGED <<bytePool, data, pc, buf, upc, ubuf>>
  BY OthersStill
<1>3. UNCHANGED pkt
  BY DEF RunSelfQuery, ReturnAll, Return, Outside, outInterfaceSelector, SelectorRecv, SelectorStore,
         ReadQuery, ReadReport, Cancel, Select, Arrive, SelfQuery, SelfQueryCrash, ArriveUnicast,
         allVars, vars, ownVars, locals
<1>4. Selects'
  <2>1. CASE SelectorRecv
    BY <1>1, <2>1 DEF SelectorRecv, Selects
  <2>2. CASE SelectorStore
    BY <1>1, <2>2 DEF SelectorStore, Selects
  <2>3. ASSUME NEW s \in {OUT, ALTOUT}, Select(s) PROVE Selects'
    BY <1>1, <2>3 DEF Select, Selects
  <2>4. CASE UNCHANGED <<OutInterfaceSelectorCh, selection, selector>>
    BY <1>1, <2>4 DEF Selects
  <2> QED
    BY <2>1, <2>2, <2>3, <2>4
    DEF RunSelfQuery, ReturnAll, Return, Outside, outInterfaceSelector, ReadQuery, ReadReport, Cancel,
        Arrive, SelfQuery, SelfQueryCrash, ArriveUnicast, allVars, vars, ownVars, selVars
<1>5. Arriving \subseteq Readable
  BY DEF Readable
<1>6. sock' \in [Receivers -> Seq(Readable)] /\ usock' \in Seq(Unicast)
  <2>1. ASSUME NEW s \in Interfaces(conf), SelfQuery(s)
        PROVE  sock' \in [Receivers -> Seq(Readable)] /\ usock' \in Seq(Unicast)
    <3>1. /\ SelfQueryEntry(s).pkt \in Readable /\ SelfQueryEntry(s).side \in RawSides(conf)
          /\ Echo(SelfQueryEntry(s)) /\ UNCHANGED usock
      BY <1>5, <2>1 DEF SelfQuery, SelfQueryEntry, Arriving, unicastVars
    <3> QED BY <1>1, <3>1, EchoReads DEF Reads
  <2>2. ASSUME NEW p \in Unicast, ArriveUnicast(p)
        PROVE  sock' \in [Receivers -> Seq(Readable)] /\ usock' \in Seq(Unicast)
    BY <1>1, <1>5, <2>2 DEF ArriveUnicast, U!Arrive, Deliver, Arriving, Reads
  <2>3. ASSUME NEW p \in Inputs, Arrive(p), UNCHANGED unicastVars
        PROVE  sock' \in [Receivers -> Seq(Readable)] /\ usock' \in Seq(Unicast)
    BY <1>1, <1>5, <2>3 DEF Arrive, Deliver, Arriving, Reads, unicastVars
  <2>4. CASE UNCHANGED <<sock, usock>>
    BY <1>1, <2>4 DEF Reads
  <2> QED
    BY <2>1, <2>2, <2>3, <2>4
    DEF RunSelfQuery, ReturnAll, Return, Outside, outInterfaceSelector, SelectorRecv, SelectorStore,
        ReadQuery, ReadReport, Cancel, Select, SelfQueryCrash, allVars, vars, netVars, unicastVars
<1> QED BY <1>1, <1>2, <1>3, <1>4, <1>6 DEF Reads, HasPkt

\* To recvUnicastIGMP they are a crash, a store, a cancel, an arrival or nothing.
LEMMA OthersSimulate ==
  ASSUME JInv, ~ crashed,
         \/ RunSelfQuery \/ ReturnAll \/ Outside
         \/ \E s \in Interfaces(conf) : SelfQuery(s) \/ SelfQueryCrash(s)
         \/ \E p \in Unicast : ArriveUnicast(p)
         \/ UNCHANGED allVars
  PROVE  \/ U!OtherCrash \/ U!Store \/ U!Cancel \/ \E p \in Unicast : U!Arrive(p)
         \/ UNCHANGED U!vars
<1>1. CASE RunSelfQuery \/ UNCHANGED allVars
  BY <1>1 DEF RunSelfQuery, allVars, vars, appVars, selVars, bufVars, unicastVars, U!vars, U!net
<1>2. CASE ReturnAll
  BY <1>2 DEF ReturnAll, Return, selVars, bufVars, unicastVars, U!vars, U!net
<1>3. ASSUME NEW s \in Interfaces(conf), SelfQuery(s) PROVE UNCHANGED U!vars
  BY <1>3 DEF SelfQuery, appVars, selVars, bufVars, unicastVars, U!vars, U!net
<1>4. ASSUME NEW s \in Interfaces(conf), SelfQueryCrash(s) PROVE U!OtherCrash
  BY <1>4 DEF SelfQueryCrash, selVars, bufVars, unicastVars, U!OtherCrash, U!net
<1>5. CASE \E p \in Unicast : ArriveUnicast(p)
  BY <1>5 DEF ArriveUnicast
<1>6. CASE Outside
  <2>1. CASE SelectorStore
    <3>1. AltOutExists(conf) /\ ALTOUT \in RecvSides(conf) /\ selection \in {OUT, ALTOUT}
      BY <2>1 DEF JInv, Selects, SelectorStore, HasSelector
    <3>2. U!AltOutExists(conf) /\ U!OUT \in U!RecvSides(conf) /\ selection \in {U!OUT, U!ALTOUT}
      BY <3>1 DEF AltOutExists, RecvSides, Interfaces, OUT, ALTOUT, INSIDE,
                  U!AltOutExists, U!RecvSides, U!Interfaces, U!OUT, U!ALTOUT, U!INSIDE
    <3>3. IntOutName' = [IntOutName EXCEPT ![U!INSIDE] = selection]
      BY <2>1 DEF SelectorStore, INSIDE, U!INSIDE
    <3> QED BY <1>6, <2>1, <3>2, <3>3
            DEF U!Store, SelectorStore, Outside, appVars, bufVars, unicastVars, U!net
  <2>2. CASE Cancel
    BY <1>6, <2>2 DEF Cancel, Outside, selVars, bufVars, unicastVars, U!Cancel, U!net
  <2>3. CASE SelectorRecv \/ ReadQuery \/ ReadReport
             \/ (\E s \in {OUT, ALTOUT} : Select(s)) \/ \E p \in Inputs : Arrive(p)
    BY <1>6, <2>3 DEF SelectorRecv, ReadQuery, ReadReport, Select, Arrive, Outside, appVars, selVars,
                      bufVars, unicastVars, U!vars, U!net
  <2> QED BY <1>6, <2>1, <2>2, <2>3 DEF Outside, outInterfaceSelector
<1> QED BY <1>1, <1>2, <1>3, <1>4, <1>5, <1>6

LEMMA JInit == ProxyInit => JInv
<1> SUFFICES ASSUME ProxyInit PROVE JInv
    OBVIOUS
<1>1. Reads
  <2>1. Zeros \in Cells(Readable)
    BY DEF Zeros, Cells
  <2> QED BY <2>1 DEF ProxyInit, Init, U!Init, Reads, HasPkt
<1>2. Selects
  BY DEF ProxyInit, Init, Selects
<1> QED BY <1>1, <1>2, PooledInit DEF JInv

LEMMA JStep == JInv /\ [ProxyNext]_allVars => JInv' /\ [U!Next]_(U!vars)
<1> SUFFICES ASSUME JInv, [ProxyNext]_allVars PROVE JInv' /\ [U!Next]_(U!vars)
    OBVIOUS
<1>1. Pooled'
  BY PooledStep DEF JInv
<1>2. ASSUME ~ crashed, NEW r \in Receivers, Multicasting(r) PROVE JInv' /\ [U!Next]_(U!vars)
  BY <1>1, <1>2, MulticastReads, MulticastSimulates DEF JInv, U!Next
<1>3. ASSUME ~ crashed, Unicasting PROVE JInv' /\ [U!Next]_(U!vars)
  BY <1>1, <1>3, UnicastReads DEF JInv, Unicasting, U!Next
<1>4. ASSUME ~ crashed,
             \/ RunSelfQuery \/ ReturnAll \/ Outside
             \/ \E s \in Interfaces(conf) : SelfQuery(s) \/ SelfQueryCrash(s)
             \/ \E p \in Unicast : ArriveUnicast(p)
      PROVE  JInv' /\ [U!Next]_(U!vars)
  BY <1>1, <1>4, OthersReads, OthersSimulate DEF JInv, U!Next
<1>5. CASE UNCHANGED allVars
  <2>1. UNCHANGED U!vars
    BY <1>5 DEF allVars, vars, appVars, selVars, bufVars, unicastVars, U!vars, U!net
  <2> QED BY <1>1, <1>5, <2>1, OthersReads DEF JInv
<1> QED BY <1>2, <1>3, <1>4, <1>5 DEF ProxyNext

\* The goroutines together implement UnicastProxy: whatever receivers, selector,
\* self queries and network do to recvUnicastIGMP is a step of the environment
\* that module gives it, so that what is proved there holds of the whole.
THEOREM ImplementsUnicastProxy == ProxySpec => UnicastAmidOthers
<1>1. ProxyInit => U!Init
  BY DEF ProxyInit
<1> QED BY <1>1, JInit, JStep, PTL DEF ProxySpec, UnicastAmidOthers, U!Spec
-----------------------------------------------------------------------------
(* The proxy implements Forwarding: of the many copies the sockets get of a *)
(* packet at most one is sent on, to its group and across, the copies that  *)
(* loop back included.                                                      *)

\* What comes back of everything that was sent, and every packet there is.
Copies == {LoopCopy(e) : e \in {f \in SentEntries : Loops(f)}}
Known  == arrived \cup uarrived \cup Copies

\* A packet is for a receiver when the filter would let it through.
Addressed(r, p) == NetIFIndex(conf, ifIndex, p.ifIndex) = interf(r) /\ p.dst = g(r)

WireEntry  == [side : RawSides(conf), dst : multicastGroups, pkt : Packet, payload : Cells(Readable)]
UWireEntry == [side : RawSides(conf), dst : U!Destinations, pkt : Packet, payload : Cells(Readable),
               read : Packet]

SentTyped ==
  /\ wire \in Seq(WireEntry) /\ uwire \in Seq(UWireEntry)
  /\ arrived \subseteq Inputs /\ uarrived \subseteq Unicast
  /\ selfQuery \in [Interfaces(conf) -> {"off", "tick", "sent", "done"}]
  /\ \A s \in Interfaces(conf) : selfQuery[s] = "sent" => s \in RawSides(conf)

\* Two packets with the same identity that came back as often are the same.
SameTrip(p, q) == p.id = q.id /\ p.hops = q.hops

SentOnce ==
  /\ \A i \in DOMAIN wire : wire[i].pkt \in Known /\ wire[i].pkt.dst \in multicastGroups
  /\ \A i \in DOMAIN uwire : uwire[i].pkt \in uarrived
  /\ \A e, f \in SentEntries : SameTrip(e.pkt, f.pkt) => e = f
  /\ \A i, j \in DOMAIN wire : wire[i].pkt = wire[j].pkt => i = j

\* No packet is in one receiver's hands twice, nor again once it was relayed.
ReadOnce ==
  \A r \in Receivers :
    /\ \A k \in DOMAIN sock[r] : sock[r][k] \in Known
    /\ \A k, l \in DOMAIN sock[r] : sock[r][k] = sock[r][l] => k = l
    /\ HasPkt(r) => pkt[r] \in Known /\ \A k \in DOMAIN sock[r] : sock[r][k] # pkt[r]
    /\ \A i \in DOMAIN wire : Addressed(r, wire[i].pkt) =>
         /\ \A k \in DOMAIN sock[r] : sock[r][k] # wire[i].pkt
         /\ HasPkt(r) => pkt[r] # wire[i].pkt

UnicastOnce ==
  /\ errors = 0
  /\ \A k \in DOMAIN usock : usock[k] \in uarrived
  /\ \A k, l \in DOMAIN usock : usock[k] = usock[l] => k = l
  /\ upc \in {"decode", "send"} =>
       upkt \in uarrived /\ data[ubuf][1] = upkt /\ \A k \in DOMAIN usock : usock[k] # upkt
  /\ \A i \in DOMAIN uwire :
       /\ \A k \in DOMAIN usock : usock[k] # uwire[i].pkt
       /\ upc \in {"decode", "send"} => upkt # uwire[i].pkt

\* What a receiver relays is for it and goes across.
Across ==
  /\ IntOutName \in [{INSIDE, OUT} -> {INSIDE, OUT, ALTOUT}]
  /\ IntOutName[OUT] = INSIDE /\ IntOutName[INSIDE] \in {OUT, ALTOUT}
  /\ out \in [Receivers -> Side \cup {NoSide}]
  /\ \A r \in Receivers :
       /\ pc[r] \in {"dispatch", "load", "write"} => Addressed(r, pkt[r])
       /\ pc[r] \in {"load", "write"} => proxyIt(conf, interf(r))
       /\ pc[r] = "write" => out[r] \in Targets(pkt[r])

FInv == SentTyped /\ SentOnce /\ ReadOnce /\ UnicastOnce /\ Across

-----------------------------------------------------------------------------
\* What has arrived and what has come back.

LEMMA EntryTyped ==
  ASSUME SentTyped, NEW e \in SentEntries
  PROVE  e.pkt \in Packet /\ e.side \in RawSides(conf)
<1>1. CASE \E i \in DOMAIN wire : e = wire[i]
  <2>1. e \in WireEntry
    BY <1>1 DEF SentTyped
  <2> QED BY <2>1 DEF WireEntry
<1>2. CASE \E i \in DOMAIN uwire : e = uwire[i]
  <2>1. e \in UWireEntry
    BY <1>2 DEF SentTyped
  <2> QED BY <2>1 DEF UWireEntry
<1>3. ASSUME NEW s \in Interfaces(conf), selfQuery[s] = "sent", e = SelfQueryEntry(s)
      PROVE  e.pkt \in Packet /\ e.side \in RawSides(conf)
  BY <1>3, UnicastAssumption DEF SentTyped, SelfQueryEntry
<1> QED BY <1>1, <1>2, <1>3 DEF SentEntries

LEMMA CopyTyped ==
  ASSUME NEW e, e.pkt \in Packet, e.side \in RawSides(conf), Loops(e)
  PROVE  LoopCopy(e) \in Packet /\ LoopCopy(e).id = e.pkt.id /\ LoopCopy(e).hops = e.pkt.hops + 1
<1>1. e.side \in Interfaces(conf) /\ e.dst \in Dst /\ e.pkt.hops < MaxHops
  BY SidesTyped, AddrAssumption DEF Loops
<1>2. ifIndex[e.side] \in Nat /\ NetIP[e.side] \in Addr
  BY <1>1, AddrAssumption
<1>3. e.pkt.hops + 1 \in 0 .. MaxHops /\ BufLen \in 1 .. BufLen
  BY <1>1, SizeAssumption DEF Packet
<1> QED BY <1>1, <1>2, <1>3 DEF LoopCopy, Packet

\* A packet that came back was sent, and counts one hop more.
LEMMA CopyIs ==
  ASSUME SentTyped, NEW p \in Copies
  PROVE  \E e \in SentEntries : /\ Loops(e) /\ p = LoopCopy(e) /\ p \in Packet
                                /\ p.id = e.pkt.id /\ p.hops = e.pkt.hops + 1
                                /\ e.pkt.hops \in Nat
<1>1. PICK e \in SentEntries : Loops(e) /\ p = LoopCopy(e)
  BY DEF Copies
<1>2. e.pkt \in Packet /\ e.side \in RawSides(conf)
  BY EntryTyped
<1>3. e.pkt.hops \in Nat
  BY <1>2, SizeAssumption DEF Packet
<1> QED BY <1>1, <1>2, <1>3, CopyTyped

LEMMA ArrivedTyped ==
  ASSUME SentTyped, NEW p \in arrived \cup uarrived
  PROVE  p \in Inputs \cup Unicast /\ p \in Packet /\ p.hops = 0
BY InputAssumption, UnicastAssumption, IdentityAssumption DEF SentTyped

\* Identity and hops tell all packets there are apart.
LEMMA KnownApart ==
  ASSUME SentTyped, SentOnce
  PROVE  /\ Known \subseteq Packet
         /\ \A p \in Known : p.hops = 0 <=> p \in arrived \cup uarrived
         /\ \A p, q \in Known : SameTrip(p, q) => p = q
<1>1. \A p \in Copies : p \in Packet /\ p.hops # 0
  BY CopyIs
<1>2. \A p \in arrived \cup uarrived : p \in Packet /\ p.hops = 0
  BY ArrivedTyped
<1>3. ASSUME NEW p \in Copies, NEW q \in Copies, SameTrip(p, q) PROVE p = q
  <2>1. PICK e \in SentEntries : p = LoopCopy(e) /\ p.id = e.pkt.id /\ p.hops = e.pkt.hops + 1
                                 /\ e.pkt.hops \in Nat
    BY CopyIs
  <2>2. PICK f \in SentEntries : q = LoopCopy(f) /\ q.id = f.pkt.id /\ q.hops = f.pkt.hops + 1
                                 /\ f.pkt.hops \in Nat
    BY CopyIs
  <2>3. SameTrip(e.pkt, f.pkt)
    BY <1>3, <2>1, <2>2 DEF SameTrip
  <2> QED BY <2>1, <2>2, <2>3 DEF SentOnce
<1>4. ASSUME NEW p \in arrived \cup uarrived, NEW q \in arrived \cup uarrived, SameTrip(p, q)
      PROVE  p = q
  BY <1>4, ArrivedTyped, IdentityAssumption DEF SameTrip
<1> QED BY <1>1, <1>2, <1>3, <1>4 DEF Known, SameTrip

\* An entry that was not sent before comes back as a packet that was not there.
LEMMA FreshCopy ==
  ASSUME SentTyped, SentOnce, NEW e, e.pkt \in Packet, e.side \in RawSides(conf), Loops(e),
         \A f \in SentEntries : ~ SameTrip(f.pkt, e.pkt)
  PROVE  LoopCopy(e) \notin Known
<1>1. LoopCopy(e).id = e.pkt.id /\ LoopCopy(e).hops = e.pkt.hops + 1 /\ e.pkt.hops \in Nat
  BY CopyTyped, SizeAssumption DEF Packet
<1>2. LoopCopy(e) \notin arrived \cup uarrived
  BY <1>1, ArrivedTyped
<1>3. ASSUME LoopCopy(e) \in Copies PROVE FALSE
  <2>1. PICK f \in SentEntries : LoopCopy(e).id = f.pkt.id /\ LoopCopy(e).hops = f.pkt.hops + 1
                                 /\ f.pkt.hops \in Nat
    BY <1>3, CopyIs
  <2> QED BY <1>1, <2>1 DEF SameTrip
<1> QED BY <1>2, <1>3 DEF Known

-----------------------------------------------------------------------------
\* The sockets of the receivers get packets that were not there before.
QueueStep ==
  /\ Known \subseteq Known'
  /\ UNCHANGED sock \/ \E p \in Known' \ Known, S \in SUBSET Receivers : Deliver(p, S)

LEMMA Queued ==
  ASSUME SentTyped, SentOnce, ReadOnce, sock \in [Receivers -> Seq(Readable)], QueueStep,
         NEW r \in Receivers
  PROVE  /\ \A k \in DOMAIN sock'[r] : sock'[r][k] \in Known'
         /\ \A k, l \in DOMAIN sock'[r] : sock'[r][k] = sock'[r][l] => k = l
         /\ \A q \in Known : (\A k \in DOMAIN sock[r] : sock[r][k] # q)
                               => \A k \in DOMAIN sock'[r] : sock'[r][k] # q
<1>1. /\ \A k \in DOMAIN sock[r] : sock[r][k] \in Known
      /\ \A k, l \in DOMAIN sock[r] : sock[r][k] = sock[r][l] => k = l
      /\ Known \subseteq Known' /\ sock[r] \in Seq(Readable)
  BY DEF ReadOnce, QueueStep
<1> HIDE DEF Known
<1>2. CASE sock'[r] = sock[r]
  BY <1>1, <1>2
<1>3. ASSUME NEW p \in Known', p \notin Known, sock'[r] = Append(sock[r], p)
      PROVE  /\ \A k \in DOMAIN sock'[r] : sock'[r][k] \in Known'
             /\ \A k, l \in DOMAIN sock'[r] : sock'[r][k] = sock'[r][l] => k = l
             /\ \A q \in Known : (\A k \in DOMAIN sock[r] : sock[r][k] # q)
                                   => \A k \in DOMAIN sock'[r] : sock'[r][k] # q
  <2>1. /\ DOMAIN sock[r] = 1 .. Len(sock[r]) /\ Len(sock[r]) \in Nat
        /\ DOMAIN sock'[r] = 1 .. Len(sock[r]) + 1
        /\ \A k \in DOMAIN sock[r] : sock'[r][k] = sock[r][k]
        /\ sock'[r][Len(sock[r]) + 1] = p
    BY <1>1, <1>3
  <2>2. \A k \in DOMAIN sock'[r] : k \in DOMAIN sock[r] \/ k = Len(sock[r]) + 1
    BY <2>1
  <2> QED BY <1>1, <1>3, <2>1, <2>2
<1>4. UNCHANGED sock \/ \E p \in Known' \ Known : sock'[r] = Append(sock[r], p) \/ sock'[r] = sock[r]
  BY DEF QueueStep, Deliver
<1> QED BY <1>2, <1>3, <1>4

\* So nobody reads a packet twice, whatever else is sent and arrives.
LEMMA StillReadOnce ==
  ASSUME SentTyped, SentOnce, ReadOnce, sock \in [Receivers -> Seq(Readable)], QueueStep,
         UNCHANGED <<pc, pkt, wire>>
  PROVE  ReadOnce'
<1> SUFFICES ASSUME NEW r \in Receivers
    PROVE  /\ \A k \in DOMAIN sock'[r] : sock'[r][k] \in Known'
           /\ \A k, l \in DOMAIN sock'[r] : sock'[r][k] = sock'[r][l] => k = l
           /\ HasPkt(r)' => pkt'[r] \in Known' /\ \A k \in DOMAIN sock'[r] : sock'[r][k] # pkt'[r]
           /\ \A i \in DOMAIN wire' : Addressed(r, wire'[i].pkt) =>
                /\ \A k \in DOMAIN sock'[r] : sock'[r][k] # wire'[i].pkt
                /\ HasPkt(r)' => pkt'[r] # wire'[i].pkt
    BY DEF ReadOnce
<1>1. /\ \A k \in DOMAIN sock'[r] : sock'[r][k] \in Known'
      /\ \A k, l \in DOMAIN sock'[r] : sock'[r][k] = sock'[r][l] => k = l
      /\ \A q \in Known : (\A k \in DOMAIN sock[r] : sock[r][k] # q)
                            => \A k \in DOMAIN sock'[r] : sock'[r][k] # q
  BY Queued
<1>2. Known \subseteq Known' /\ (HasPkt(r)' <=> HasPkt(r)) /\ pkt'[r] = pkt[r] /\ wire' = wire
  BY DEF QueueStep, HasPkt
<1>3. /\ \A i \in DOMAIN wire : wire[i].pkt \in Known
      /\ HasPkt(r) => pkt[r] \in Known /\ \A k \in DOMAIN sock[r] : sock[r][k] # pkt[r]
      /\ \A i \in DOMAIN wire : Addressed(r, wire[i].pkt) =>
           /\ \A k \in DOMAIN sock[r] : sock[r][k] # wire[i].pkt
           /\ HasPkt(r) => pkt[r] # wire[i].pkt
  BY DEF SentOnce, ReadOnce
<1> HIDE DEF Known, HasPkt, Addressed
<1> QED BY <1>1, <1>2, <1>3

\* Sending an entry whose packet was not sent before is such a step.
LEMMA EchoQueues ==
  ASSUME SentTyped, SentOnce, NEW e, e.pkt \in Packet, e.side \in RawSides(conf),
         \A f \in SentEntries : ~ SameTrip(f.pkt, e.pkt),
         Echo(e), SentEntries' = SentEntries \cup {e}, UNCHANGED <<arrived, uarrived>>
  PROVE  QueueStep
<1>1. Known \subseteq Known' /\ (Loops(e) => LoopCopy(e) \in Known')
  BY DEF Known, Copies
<1>2. CASE Loops(e)
  <2>1. LoopCopy(e) \notin Known
    BY <1>2, FreshCopy
  <2> QED BY <1>1, <1>2, <2>1 DEF QueueStep, Echo
<1>3. CASE ~ Loops(e)
  BY <1>1, <1>3 DEF QueueStep, Echo
<1> QED BY <1>2, <1>3

-----------------------------------------------------------------------------
\* What most steps leave as it is.

\* Nothing is sent, and packets may arrive.
NothingSent ==
  /\ UNCHANGED <<wire, uwire>>
  /\ selfQuery' \in [Interfaces(conf) -> {"off", "tick", "sent", "done"}]
  /\ \A s \in Interfaces(conf) : selfQuery'[s] = "sent" <=> selfQuery[s] = "sent"
  /\ arrived \subseteq arrived' /\ arrived' \subseteq Inputs
  /\ uarrived \subseteq uarrived' /\ uarrived' \subseteq Unicast

LEMMA StillSent ==
  ASSUME SentTyped, SentOnce, NothingSent
  PROVE  /\ SentTyped' /\ SentOnce' /\ SentEntries' = SentEntries
         /\ Copies' = Copies /\ Known \subseteq Known'
<1>1. SentEntries' = SentEntries
  <2>1. {t \in Interfaces(conf) : selfQuery'[t] = "sent"} = {t \in Interfaces(conf) : selfQuery[t] = "sent"}
    BY DEF NothingSent
  <2> QED BY <2>1 DEF NothingSent, SentEntries, SelfQueryEntry, SelfQueryPacket
<1>2. Copies' = Copies
  BY <1>1 DEF Copies, Loops, LoopCopy
<1>3. Known \subseteq Known'
  BY <1>2 DEF Known, NothingSent
<1>4. SentTyped'
  BY DEF SentTyped, NothingSent, WireEntry, UWireEntry
<1>5. SentOnce'
  <2> HIDE DEF Known, SentEntries
  <2> QED BY <1>1, <1>3 DEF SentOnce, NothingSent, SameTrip
<1> QED BY <1>1, <1>2, <1>3, <1>4, <1>5

LEMMA UnicastStill ==
  ASSUME UnicastOnce, UNCHANGED <<usock, upc, upkt, uwire, errors, ubuf>>, uarrived \subseteq uarrived',
         UHeld => data'[ubuf] = data[ubuf]
  PROVE  UnicastOnce'
BY DEF UnicastOnce, UHeld

LEMMA AcrossStill ==
  ASSUME Across, UNCHANGED <<IntOutName, pc, pkt, out>>
  PROVE  Across'
BY DEF Across, Addressed, Targets

\* A receiver leaves the buffer of recvUnicastIGMP alone.
LEMMA DataKept ==
  ASSUME JInv, NEW r \in Receivers, Multicasting(r)
  PROVE  UHeld => data'[ubuf] = data[ubuf]
<1> SUFFICES ASSUME UHeld PROVE data'[ubuf] = data[ubuf]
    OBVIOUS
<1>1. /\ Owners /\ Places /\ Reads /\ recvIGMP(r) /\ ubuf \in Bufs
      /\ Held(r) => buf[r] \in Bufs /\ buf[r] # ubuf
  BY DEF JInv, Pooled, Multicasting, Owners, Places, PoolExclusive
<1>2. CASE GetBuf(r)
  <2>1. PICK b \in Bufs : Get(r, b)
    BY <1>2 DEF GetBuf
  <2>2. b # ubuf
    BY <1>1, <1>2, <2>1, NotOurs DEF GetBuf, Places, Held, JInv
  <2> QED BY <1>1, <2>1, <2>2 DEF Get, Reuse, New, Reads
<1>3. CASE ReadFrom(r)
  <2>1. Held(r)
    BY <1>3 DEF ReadFrom, Held
  <2> QED BY <1>1, <1>3, <2>1 DEF ReadFrom, Reads
<1>4. CASE ~ GetBuf(r) /\ ~ ReadFrom(r)
  BY <1>1, <1>4 DEF recvIGMP, Stop, ReadTimeout, Ignore, Accept, Undecodable, Dispatch, LoadOut,
         WriteTo, Crash, bufVars
<1> QED BY <1>2, <1>3, <1>4

-----------------------------------------------------------------------------
\* The initial state.

LEMMA FInit == ProxyInit /\ MaxErrors = 0 => FInv
<1> SUFFICES ASSUME ProxyInit, MaxErrors = 0 PROVE FInv
    OBVIOUS
<1>1. /\ wire = <<>> /\ uwire = <<>> /\ arrived = {} /\ uarrived = {}
      /\ selfQuery = [s \in Interfaces(conf) |-> "off"] /\ sock = [r \in Receivers |-> <<>>]
      /\ pc = [r \in Receivers |-> "top"] /\ usock = <<>> /\ upc = "top" /\ errors = 0
      /\ IntOutName = InitialIntOutName /\ out = [r \in Receivers |-> NoSide]
  BY DEF ProxyInit, Init, U!Init
<1>2. SentEntries = {}
  BY <1>1 DEF SentEntries
<1>3. SentTyped
  BY <1>1 DEF SentTyped
<1>4. SentOnce
  BY <1>1, <1>2 DEF SentOnce
<1>5. ReadOnce
  BY <1>1 DEF ReadOnce, HasPkt
<1>6. UnicastOnce
  BY <1>1 DEF UnicastOnce
<1>7. Across
  BY <1>1 DEF Across, InitialIntOutName, INSIDE, OUT, ALTOUT
<1> QED BY <1>3, <1>4, <1>5, <1>6, <1>7 DEF FInv

-----------------------------------------------------------------------------
\* Steps of a receiver.

\* It keeps the packet it has, or lets it go, and sends nothing.
LEMMA KeepsIt ==
  ASSUME ReadOnce, UNCHANGED <<sock, wire>>, Known \subseteq Known',
         \A s \in Receivers : HasPkt(s)' => HasPkt(s) /\ pkt'[s] = pkt[s]
  PROVE  ReadOnce'
<1> SUFFICES ASSUME NEW r \in Receivers
    PROVE  /\ \A k \in DOMAIN sock'[r] : sock'[r][k] \in Known'
           /\ \A k, l \in DOMAIN sock'[r] : sock'[r][k] = sock'[r][l] => k = l
           /\ HasPkt(r)' => pkt'[r] \in Known' /\ \A k \in DOMAIN sock'[r] : sock'[r][k] # pkt'[r]
           /\ \A i \in DOMAIN wire' : Addressed(r, wire'[i].pkt) =>
                /\ \A k \in DOMAIN sock'[r] : sock'[r][k] # wire'[i].pkt
                /\ HasPkt(r)' => pkt'[r] # wire'[i].pkt
    BY DEF ReadOnce
<1> HIDE DEF Known, HasPkt, Addressed
<1> QED BY DEF ReadOnce

\* It goes on with what it has read, or to the next iteration.
LEMMA GoesOn ==
  ASSUME JInv, Across, NEW r \in Receivers, recvIGMP(r), ~ ReadFrom(r), ~ WriteTo(r)
  PROVE  /\ Across' /\ UNCHANGED <<sock, wire, arrived>>
         /\ \A s \in Receivers : HasPkt(s)' => HasPkt(s) /\ pkt'[s] = pkt[s]
<1>1. /\ pc \in [Receivers -> {"top", "read", "filter", "dispatch", "load", "write", "done"}]
      /\ pkt \in [Receivers -> Readable \cup {NoPkt}] /\ out \in [Receivers -> Side \cup {NoSide}]
      /\ IntOutName \in [{INSIDE, OUT} -> {INSIDE, OUT, ALTOUT}]
      /\ IntOutName[OUT] = INSIDE /\ IntOutName[INSIDE] \in {OUT, ALTOUT}
      /\ \A s \in Receivers :
           /\ pc[s] \in {"dispatch", "load", "write"} => Addressed(s, pkt[s])
           /\ pc[s] \in {"load", "write"} => proxyIt(conf, interf(s))
           /\ pc[s] = "write" => out[s] \in Targets(pkt[s])
  BY DEF JInv, Pooled, Owners, Reads, Across
<1> HIDE DEF Targets, Addressed, proxyIt, interf
<1>2. CASE Stop(r) \/ GetBuf(r)
  BY <1>1, <1>2 DEF Stop, GetBuf, Goto, netVars, selVars, Across, HasPkt
<1>3. CASE ReadTimeout(r) \/ Ignore(r) \/ Undecodable(r)
  <2>1. Continue(r) /\ UNCHANGED <<sock, wire, arrived, IntOutName>>
    BY <1>3 DEF ReadTimeout, Ignore, Undecodable, netVars, selVars
  <2> QED BY <1>1, <2>1 DEF Continue, Across, HasPkt, Side, NoSide
<1>4. CASE Accept(r)
  <2>1. Addressed(r, pkt[r])
    BY <1>4 DEF Accept, ForUs, Addressed
  <2> QED BY <1>1, <1>4, <2>1 DEF Accept, Goto, netVars, selVars, Across, HasPkt
<1>5. CASE Dispatch(r)
  <2>1. pc[r] = "dispatch" /\ UNCHANGED <<sock, wire, arrived, IntOutName>>
    BY <1>5 DEF Dispatch, netVars, selVars
  <2>2. CASE proxyIt(conf, interf(r)) /\ Goto(r, "load") /\ UNCHANGED <<pkt, out>>
    BY <1>1, <2>1, <2>2 DEF Goto, Across, HasPkt
  <2>3. CASE Continue(r)
    BY <1>1, <2>1, <2>3 DEF Continue, Across, HasPkt, Side, NoSide
  <2> QED BY <1>5, <2>2, <2>3 DEF Dispatch
<1>6. CASE LoadOut(r)
  <2>1. /\ pc[r] = "load" /\ UNCHANGED <<sock, wire, arrived, IntOutName, pkt>>
        /\ pc' = [pc EXCEPT ![r] = "write"] /\ out' = [out EXCEPT ![r] = IntOutName[interf(r)]]
    BY <1>6 DEF LoadOut, Goto, netVars, selVars
  <2>2. Addressed(r, pkt[r]) /\ proxyIt(conf, interf(r))
    BY <1>1, <2>1
  <2>3. interf(r) \in {INSIDE, OUT} /\ NetIFIndex(conf, ifIndex, pkt[r].ifIndex) = interf(r)
    BY <2>2, RelayedSides DEF Addressed
  <2>4. IntOutName[interf(r)] \in Targets(pkt[r]) /\ IntOutName[interf(r)] \in Side
    BY <1>1, <2>3 DEF Targets, Side, INSIDE, OUT
  <2> QED BY <1>1, <2>1, <2>2, <2>4 DEF Across, HasPkt
<1>7. CASE Crash(r)
  BY <1>1, <1>7 DEF Crash, netVars, selVars, locals, Across, HasPkt
<1> QED BY <1>2, <1>3, <1>4, <1>5, <1>6, <1>7 DEF recvIGMP
\* It reads the next packet.
LEMMA ReadsOn ==
  ASSUME JInv, ReadOnce, Across, NEW r \in Receivers, ReadFrom(r), Known' = Known
  PROVE  ReadOnce' /\ Across'
<1>1. /\ sock \in [Receivers -> Seq(Readable)] /\ pkt \in [Receivers -> Readable \cup {NoPkt}]
      /\ pc \in [Receivers -> {"top", "read", "filter", "dispatch", "load", "write", "done"}]
      /\ sock[r] # <<>> /\ UNCHANGED <<wire, IntOutName, out>>
      /\ pkt' = [pkt EXCEPT ![r] = Head(sock[r])] /\ sock' = [sock EXCEPT ![r] = Tail(sock[r])]
      /\ pc' = [pc EXCEPT ![r] = "filter"]
  BY DEF JInv, Pooled, Owners, Reads, ReadFrom, selVars, Goto
<1>2. Across'
  <2> HIDE DEF Targets, Addressed, proxyIt, interf
  <2> QED BY <1>1 DEF Across, Targets, Addressed
<1>3. ASSUME NEW s \in Receivers
      PROVE  /\ \A k \in DOMAIN sock'[s] : sock'[s][k] \in Known'
             /\ \A k, l \in DOMAIN sock'[s] : sock'[s][k] = sock'[s][l] => k = l
             /\ HasPkt(s)' => pkt'[s] \in Known' /\ \A k \in DOMAIN sock'[s] : sock'[s][k] # pkt'[s]
             /\ \A i \in DOMAIN wire' : Addressed(s, wire'[i].pkt) =>
                  /\ \A k \in DOMAIN sock'[s] : sock'[s][k] # wire'[i].pkt
                  /\ HasPkt(s)' => pkt'[s] # wire'[i].pkt
  <2> HIDE DEF Known, Addressed
  <2>1. CASE s # r
    <3>1. sock'[s] = sock[s] /\ pkt'[s] = pkt[s] /\ (HasPkt(s)' <=> HasPkt(s))
      BY <1>1, <2>1 DEF HasPkt
    <3> HIDE DEF HasPkt
    <3> QED BY <1>1, <3>1 DEF ReadOnce
  <2>2. CASE s = r
    <3>1. sock'[r] = Tail(sock[r]) /\ pkt'[r] = Head(sock[r])
      BY <1>1
    <3>2. /\ \A k \in DOMAIN sock'[r] : k + 1 \in DOMAIN sock[r] /\ sock'[r][k] = sock[r][k + 1]
                                        /\ k \in Nat /\ k # 0
          /\ pkt'[r] = sock[r][1] /\ 1 \in DOMAIN sock[r]
      <4>1. sock[r] \in Seq(Readable) /\ sock[r] # <<>>
        BY <1>1
      <4> QED BY <3>1, <4>1
    <3>3. /\ \A k \in DOMAIN sock[r] : sock[r][k] \in Known
          /\ \A k, l \in DOMAIN sock[r] : sock[r][k] = sock[r][l] => k = l
          /\ \A i \in DOMAIN wire : Addressed(r, wire[i].pkt) =>
               \A k \in DOMAIN sock[r] : sock[r][k] # wire[i].pkt
      BY DEF ReadOnce
    <3>4. \A k \in DOMAIN sock'[r] : k + 1 # 1
      BY <3>2
    <3>5. \A k, l \in DOMAIN sock'[r] : sock'[r][k] = sock'[r][l] => k = l
      <4> SUFFICES ASSUME NEW k \in DOMAIN sock'[r], NEW l \in DOMAIN sock'[r],
                          sock'[r][k] = sock'[r][l]
                   PROVE  k = l
          OBVIOUS
      <4>1. k + 1 = l + 1
        BY <3>2, <3>3
      <4> QED BY <3>2, <4>1
    <3> QED BY <1>1, <2>2, <3>2, <3>3, <3>4, <3>5
  <2> QED BY <2>1, <2>2
<1> QED BY <1>2, <1>3 DEF ReadOnce

\* What it sends was not sent before: the packet is for this receiver alone,
\* none of our own queries, and none that recvUnicastIGMP sent.
LEMMA RelayedFresh ==
  ASSUME FInv, NEW r \in Receivers, pc[r] = "write", NEW f \in SentEntries
  PROVE  ~ SameTrip(f.pkt, pkt[r])
<1>1. /\ SentTyped /\ SentOnce /\ HasPkt(r) /\ pkt[r] \in Known /\ Addressed(r, pkt[r])
      /\ pkt[r].dst \in multicastGroups
  BY ReceiverTyped DEF FInv, ReadOnce, Across, HasPkt, Addressed
<1>2. ASSUME NEW i \in DOMAIN wire, f = wire[i], SameTrip(f.pkt, pkt[r]) PROVE FALSE
  <2>1. f.pkt = pkt[r]
    BY <1>1, <1>2, KnownApart DEF SentOnce
  <2> QED BY <1>1, <1>2, <2>1 DEF FInv, ReadOnce
<1>3. ASSUME NEW i \in DOMAIN uwire, f = uwire[i], SameTrip(f.pkt, pkt[r]) PROVE FALSE
  <2>1. f.pkt \in uarrived /\ f.pkt \in Known
    BY <1>1, <1>3 DEF SentOnce, Known
  <2>2. f.pkt = pkt[r]
    BY <1>1, <1>3, <2>1, KnownApart
  <2> QED BY <1>1, <2>1, <2>2, IdentityAssumption DEF SentTyped
<1>4. ASSUME NEW s \in Interfaces(conf), f = SelfQueryEntry(s), SameTrip(f.pkt, pkt[r]) PROVE FALSE
  <2>1. pkt[r].hops = 0 /\ pkt[r].id = SelfId[s]
    BY <1>4 DEF SelfQueryEntry, SelfQueryPacket, SameTrip
  <2>2. pkt[r] \in arrived \cup uarrived
    BY <1>1, <2>1, KnownApart
  <2> QED BY <1>1, <2>1, <2>2, ArrivedTyped, IdentityAssumption
<1> QED BY <1>2, <1>3, <1>4 DEF SentEntries
LEMMA Relays ==
  ASSUME JInv, FInv, NEW r \in Receivers, WriteTo(r), UNCHANGED <<unicastVars, selfQuery>>
  PROVE  SentTyped' /\ SentOnce' /\ ReadOnce' /\ Across' /\ Known \subseteq Known'
<1> DEFINE e == [side |-> out[r], dst |-> g(r), pkt |-> pkt[r], payload |-> data[buf[r]]]
<1>1. /\ SentTyped /\ SentOnce /\ ReadOnce /\ Across /\ pc[r] = "write" /\ HasPkt(r)
      /\ pkt[r] \in Known /\ Addressed(r, pkt[r]) /\ out[r] \in RawSides(conf)
      /\ wire' = Append(wire, e) /\ Echo(e) /\ Continue(r)
      /\ UNCHANGED <<arrived, uarrived, uwire, selfQuery, IntOutName>>
  BY DEF FInv, ReadOnce, Across, HasPkt, WriteTo, unicastVars, selVars
<1>2. /\ pkt[r] \in Packet /\ g(r) \in multicastGroups /\ pkt[r].dst = g(r)
      /\ \A f \in SentEntries : ~ SameTrip(f.pkt, pkt[r])
  BY <1>1, KnownApart, ReceiverTyped, RelayedFresh DEF Addressed
<1>3. e \in WireEntry
  <2>1. data[buf[r]] \in Cells(Readable)
    <3>1. Held(r)
      BY <1>1 DEF Held
    <3> QED BY <3>1 DEF JInv, Pooled, Owners, Places, Reads
  <2> QED BY <1>1, <1>2, <2>1 DEF WireEntry
<1>4. /\ DOMAIN wire' = DOMAIN wire \cup {Len(wire) + 1} /\ wire'[Len(wire) + 1] = e
      /\ \A i \in DOMAIN wire : wire'[i] = wire[i]
      /\ wire \in Seq(WireEntry) /\ wire' \in Seq(WireEntry)
  <2>1. wire \in Seq(WireEntry)
    BY <1>1 DEF SentTyped
  <2> HIDE DEF e, WireEntry
  <2> QED BY <1>1, <1>3, <2>1
<1>5. SentEntries' = SentEntries \cup {e}
  <2>1. {wire'[i] : i \in DOMAIN wire'} = {wire[i] : i \in DOMAIN wire} \cup {e}
    <3> HIDE DEF e
    <3> QED BY <1>4
  <2> HIDE DEF e
  <2> QED BY <1>1, <2>1 DEF SentEntries, SelfQueryEntry, SelfQueryPacket
<1>6. e.pkt = pkt[r] /\ e.side = out[r]
  OBVIOUS
<1> HIDE DEF e
<1>7. QueueStep
  BY <1>1, <1>2, <1>5, <1>6, EchoQueues
<1>8. Known \subseteq Known'
  BY <1>7 DEF QueueStep
<1>9. SentTyped'
  <2>1. wire' \in Seq(WireEntry)'
    BY <1>4 DEF WireEntry
  <2>2. uwire' \in Seq(UWireEntry)'
    BY <1>1 DEF SentTyped, UWireEntry
  <2> HIDE DEF WireEntry, UWireEntry
  <2> QED BY <1>1, <2>1, <2>2 DEF SentTyped
<1>10. SentOnce'
  <2>1. \A f, h \in SentEntries' : SameTrip(f.pkt, h.pkt) => f = h
    BY <1>1, <1>2, <1>5, <1>6 DEF SentOnce, SameTrip
  <2>2. \A i \in DOMAIN wire : wire[i] \in SentEntries
    BY DEF SentEntries
  <2>3. \A i \in DOMAIN wire : wire[i].pkt # pkt[r]
    BY <1>2, <2>2 DEF SameTrip
  <2>4. /\ \A i \in DOMAIN wire : wire[i].pkt \in Known /\ wire[i].pkt.dst \in multicastGroups
        /\ \A i \in DOMAIN uwire : uwire[i].pkt \in uarrived
        /\ \A i, j \in DOMAIN wire : wire[i].pkt = wire[j].pkt => i = j
    BY <1>1 DEF SentOnce
  <2> HIDE DEF Known, SentEntries
  <2> QED BY <1>1, <1>2, <1>4, <1>6, <1>8, <2>1, <2>3, <2>4 DEF SentOnce, SameTrip
<1>11. /\ pc' = [pc EXCEPT ![r] = "top"] /\ pkt' = [pkt EXCEPT ![r] = NoPkt]
       /\ out' = [out EXCEPT ![r] = NoSide]
       /\ pc \in [Receivers -> {"top", "read", "filter", "dispatch", "load", "write", "done"}]
       /\ pkt \in [Receivers -> Readable \cup {NoPkt}] /\ out \in [Receivers -> Side \cup {NoSide}]
       /\ sock \in [Receivers -> Seq(Readable)]
  BY <1>1 DEF Continue, JInv, Pooled, Owners, Reads, Across
<1>12. Across'
  <2> HIDE DEF Targets, Addressed, proxyIt, interf
  <2> QED BY <1>1, <1>11 DEF Across, Targets, Addressed
<1>13. ASSUME NEW s \in Receivers
       PROVE  /\ \A k \in DOMAIN sock'[s] : sock'[s][k] \in Known'
              /\ \A k, l \in DOMAIN sock'[s] : sock'[s][k] = sock'[s][l] => k = l
              /\ HasPkt(s)' => pkt'[s] \in Known' /\ \A k \in DOMAIN sock'[s] : sock'[s][k] # pkt'[s]
              /\ \A i \in DOMAIN wire' : Addressed(s, wire'[i].pkt) =>
                   /\ \A k \in DOMAIN sock'[s] : sock'[s][k] # wire'[i].pkt
                   /\ HasPkt(s)' => pkt'[s] # wire'[i].pkt
  <2>1. /\ \A k \in DOMAIN sock'[s] : sock'[s][k] \in Known'
        /\ \A k, l \in DOMAIN sock'[s] : sock'[s][k] = sock'[s][l] => k = l
        /\ \A q \in Known : (\A k \in DOMAIN sock[s] : sock[s][k] # q)
                              => \A k \in DOMAIN sock'[s] : sock'[s][k] # q
    BY <1>1, <1>7, <1>11, Queued
  <2>2. HasPkt(s)' => s # r /\ HasPkt(s) /\ pkt'[s] = pkt[s]
    BY <1>11 DEF HasPkt
  <2>3. Addressed(s, pkt[r]) => s = r
    <3>1. r \in RecvSides(conf) \X multicastGroups /\ s \in RecvSides(conf) \X multicastGroups
      BY DEF Receivers
    <3>2. r = <<r[1], r[2]>> /\ s = <<s[1], s[2]>>
      BY <3>1
    <3>3. Addressed(s, pkt[r]) => r[1] = s[1] /\ r[2] = s[2]
      BY <1>1 DEF Addressed, interf, g
    <3> QED BY <3>2, <3>3
  <2>4. /\ \A i \in DOMAIN wire : wire[i].pkt \in Known
        /\ HasPkt(s) => pkt[s] \in Known /\ \A k \in DOMAIN sock[s] : sock[s][k] # pkt[s]
        /\ \A i \in DOMAIN wire : Addressed(s, wire[i].pkt) =>
             /\ \A k \in DOMAIN sock[s] : sock[s][k] # wire[i].pkt
             /\ HasPkt(s) => pkt[s] # wire[i].pkt
        /\ \A k \in DOMAIN sock[r] : sock[r][k] # pkt[r]
    BY <1>1 DEF SentOnce, ReadOnce
  <2> HIDE DEF Known, HasPkt, Addressed
  <2>5. ASSUME NEW i \in DOMAIN wire, Addressed(s, wire[i].pkt)
        PROVE  /\ \A k \in DOMAIN sock'[s] : sock'[s][k] # wire[i].pkt
               /\ HasPkt(s)' => pkt'[s] # wire[i].pkt
    BY <2>1, <2>2, <2>4, <2>5
  <2>6. ASSUME Addressed(s, pkt[r])
        PROVE  /\ \A k \in DOMAIN sock'[s] : sock'[s][k] # pkt[r]
               /\ ~ HasPkt(s)'
    BY <1>1, <2>1, <2>2, <2>3, <2>4, <2>6
  <2> QED BY <1>4, <1>6, <1>8, <2>1, <2>2, <2>4, <2>5, <2>6
<1>14. ReadOnce'
  <2> HIDE DEF Known, Addressed, HasPkt
  <2> QED BY <1>13 DEF ReadOnce, Addressed
<1> QED BY <1>8, <1>9, <1>10, <1>12, <1>14

LEMMA MulticastForward ==
  ASSUME JInv, FInv, NEW r \in Receivers, Multicasting(r)
  PROVE  FInv' /\ Known \subseteq Known'
<1>1. /\ SentTyped /\ SentOnce /\ ReadOnce /\ UnicastOnce /\ Across
      /\ recvIGMP(r) /\ UNCHANGED <<unicastVars, selfQuery>>
  BY DEF FInv, Multicasting
<1>2. UnicastOnce'
  BY <1>1, DataKept, UnicastStill DEF unicastVars
<1>3. CASE WriteTo(r)
  BY <1>1, <1>2, <1>3, Relays DEF FInv
<1>4. CASE ~ WriteTo(r)
  <2>1. UNCHANGED <<wire, arrived>>
    <3>1. CASE ReadFrom(r)
      BY <3>1 DEF ReadFrom
    <3> QED BY <1>1, <1>4, <3>1, GoesOn
  <2>2. NothingSent
    BY <1>1, <2>1 DEF NothingSent, SentTyped, unicastVars
  <2>3. SentTyped' /\ SentOnce' /\ Known \subseteq Known'
    BY <1>1, <2>2, StillSent
  <2>4. CASE ReadFrom(r)
    <3>1. Known' = Known
      BY <1>1, <2>1, <2>2, StillSent DEF Known, unicastVars
    <3> QED BY <1>1, <1>2, <2>3, <2>4, <3>1, ReadsOn DEF FInv
  <2>5. CASE ~ ReadFrom(r)
    <3>1. ReadOnce' /\ Across'
      BY <1>1, <1>4, <2>3, <2>5, GoesOn, KeepsIt
    <3> QED BY <1>2, <2>3, <3>1 DEF FInv
  <2> QED BY <2>4, <2>5
<1> QED BY <1>3, <1>4

-----------------------------------------------------------------------------
\* Steps of recvUnicastIGMP.

LEMMA TranslatedFresh ==
  ASSUME FInv, upc = "send", NEW f \in SentEntries
  PROVE  ~ SameTrip(f.pkt, upkt)
<1>1. SentTyped /\ SentOnce /\ upkt \in uarrived /\ upkt \in Known /\ upkt \in Unicast
  BY DEF FInv, UnicastOnce, Known, SentTyped
<1>2. ASSUME NEW i \in DOMAIN wire, f = wire[i], SameTrip(f.pkt, upkt) PROVE FALSE
  <2>1. f.pkt = upkt /\ f.pkt.dst \in multicastGroups
    BY <1>1, <1>2, KnownApart DEF SentOnce
  <2> QED BY <1>1, <2>1, IdentityAssumption
<1>3. ASSUME NEW i \in DOMAIN uwire, f = uwire[i], SameTrip(f.pkt, upkt) PROVE FALSE
  <2>1. f.pkt \in Known
    BY <1>1, <1>3 DEF SentOnce, Known
  <2>2. f.pkt = upkt
    BY <1>1, <1>3, <2>1, KnownApart
  <2> QED BY <1>3, <2>2 DEF FInv, UnicastOnce
<1>4. ASSUME NEW s \in Interfaces(conf), f = SelfQueryEntry(s), SameTrip(f.pkt, upkt) PROVE FALSE
  BY <1>1, <1>4, IdentityAssumption DEF SelfQueryEntry, SelfQueryPacket, SameTrip
<1> QED BY <1>2, <1>3, <1>4 DEF SentEntries

LEMMA Translates ==
  ASSUME JInv, FInv, Unicasting, U!Send
  PROVE  FInv' /\ Known \subseteq Known'
<1> DEFINE e == [side |-> uout, dst |-> U!destination(data[ubuf][1]), pkt |-> data[ubuf][1],
                 payload |-> data[ubuf], read |-> upkt]
<1>1. /\ SentTyped /\ SentOnce /\ ReadOnce /\ UnicastOnce /\ Across
      /\ upc = "send" /\ uout \in RawSides(conf) /\ uwire' = Append(uwire, e)
      /\ UNCHANGED <<wire, pc, pkt, out, arrived, uarrived, usock, IntOutName, selfQuery, errors>>
      /\ upc' = "top"
  BY DEF FInv, U!Send, U!RawSides, RawSides, U!INSIDE, U!OUT, INSIDE, OUT, U!Continue, U!net,
         Unicasting, ownVars, locals
<1>2. /\ upkt \in uarrived /\ data[ubuf][1] = upkt /\ upkt \in Packet
      /\ \A k \in DOMAIN usock : usock[k] # upkt
      /\ \A f \in SentEntries : ~ SameTrip(f.pkt, upkt)
  BY <1>1, TranslatedFresh, UnicastAssumption DEF UnicastOnce, SentTyped
<1>3. e \in UWireEntry
  <2>1. data[ubuf] \in Cells(Readable)
    BY <1>1 DEF JInv, Pooled, Owners, Places, Reads, UHeld
  <2>2. U!destination(upkt) \in U!Destinations
    BY <1>2 DEF U!destination, U!Destinations, Packet
  <2> QED BY <1>1, <1>2, <2>1, <2>2 DEF UWireEntry
<1>4. /\ DOMAIN uwire' = DOMAIN uwire \cup {Len(uwire) + 1} /\ uwire'[Len(uwire) + 1] = e
      /\ \A i \in DOMAIN uwire : uwire'[i] = uwire[i]
      /\ uwire' \in Seq(UWireEntry) /\ uwire' # uwire /\ Len(uwire') = Len(uwire) + 1
  <2>1. uwire \in Seq(UWireEntry)
    BY <1>1 DEF SentTyped
  <2> HIDE DEF e, UWireEntry
  <2>2. Len(uwire') = Len(uwire) + 1 /\ Len(uwire) \in Nat
    BY <1>1, <2>1
  <2>3. uwire' # uwire
    BY <2>2
  <2> QED BY <1>1, <1>3, <2>1, <2>2, <2>3
<1>5. Echo(e)
  BY <1>4 DEF Unicasting
<1>6. SentEntries' = SentEntries \cup {e}
  <2>1. {uwire'[i] : i \in DOMAIN uwire'} = {uwire[i] : i \in DOMAIN uwire} \cup {e}
    <3> HIDE DEF e
    <3> QED BY <1>4
  <2> HIDE DEF e
  <2> QED BY <1>1, <2>1 DEF SentEntries, SelfQueryEntry, SelfQueryPacket
<1>7. e.pkt = upkt /\ e.side = uout
  BY <1>2
<1> HIDE DEF e
<1>8. QueueStep
  BY <1>1, <1>2, <1>5, <1>6, <1>7, EchoQueues
<1>9. Known \subseteq Known'
  BY <1>8 DEF QueueStep
<1>10. SentTyped'
  <2>1. wire' \in Seq(WireEntry)'
    BY <1>1 DEF SentTyped, WireEntry
  <2>2. uwire' \in Seq(UWireEntry)'
    BY <1>4 DEF UWireEntry
  <2> HIDE DEF WireEntry, UWireEntry
  <2> QED BY <1>1, <2>1, <2>2 DEF SentTyped
<1>11. SentOnce'
  <2>1. \A f, h \in SentEntries' : SameTrip(f.pkt, h.pkt) => f = h
    BY <1>1, <1>2, <1>6, <1>7 DEF SentOnce, SameTrip
  <2> HIDE DEF Known, SentEntries
  <2> QED BY <1>1, <1>2, <1>4, <1>7, <1>9, <2>1 DEF SentOnce, SameTrip
<1>12. ReadOnce'
  BY <1>1, <1>8, StillReadOnce DEF JInv, Reads
<1>13. UnicastOnce'
  BY <1>1, <1>2, <1>4, <1>7 DEF UnicastOnce
<1>14. Across'
  BY <1>1, AcrossStill
<1> QED BY <1>9, <1>10, <1>11, <1>12, <1>13, <1>14 DEF FInv

LEMMA UnicastForward ==
  ASSUME JInv, FInv, MaxErrors = 0, Unicasting
  PROVE  FInv' /\ Known \subseteq Known'
<1>1. CASE U!Send
  BY <1>1, Translates
<1>2. CASE ~ U!Send
  <2>1. /\ SentTyped /\ SentOnce /\ ReadOnce /\ UnicastOnce /\ Across /\ U!recvUnicastIGMP
        /\ UNCHANGED <<wire, pc, pkt, out, arrived, selfQuery>>
    BY DEF FInv, Unicasting, ownVars, locals
  <2>2. UNCHANGED <<uwire, uarrived, IntOutName>>
    BY <1>2, <2>1 DEF U!recvUnicastIGMP, U!Stop, U!GetBuf, U!ReadFrom, U!ReadTimeout, U!ReadError,
                      U!Undecodable, U!Decode, U!Crash, U!net
  <2>3. UNCHANGED sock
    BY <2>2 DEF Unicasting
  <2>4. SentTyped' /\ SentOnce' /\ Known \subseteq Known'
    <3>1. NothingSent
      BY <2>1, <2>2 DEF NothingSent, SentTyped
    <3> QED BY <2>1, <3>1, StillSent
  <2>5. ReadOnce'
    BY <2>1, <2>3, <2>4, KeepsIt DEF HasPkt
  <2>6. Across'
    BY <2>1, <2>2, AcrossStill
  <2>7. UnicastOnce'
    <3>1. CASE U!Stop \/ U!GetBuf
      BY <2>1, <2>2, <3>1 DEF U!Stop, U!GetBuf, U!net, UnicastOnce
    <3>2. CASE U!ReadTimeout \/ U!Undecodable
      BY <2>1, <2>2, <3>2 DEF U!ReadTimeout, U!Undecodable, U!Continue, U!net, UnicastOnce
    <3>3. CASE U!Decode
      BY <2>1, <2>2, <3>3 DEF U!Decode, U!Continue, U!net, UnicastOnce
    <3>4. CASE U!Crash
      BY <2>1, <2>2, <3>4 DEF U!Crash, U!net, UnicastOnce
    <3>5. CASE U!ReadFrom
      <4>1. /\ usock \in Seq(Unicast) /\ usock # <<>> /\ ubuf \in Bufs
            /\ data \in [Bufs -> Cells(Readable)]
            /\ upkt' = Head(usock) /\ usock' = Tail(usock) /\ upc' = "decode"
            /\ data' = [data EXCEPT ![ubuf] = U!Fill(@, Head(usock))]
            /\ UNCHANGED <<ubuf, uwire, uarrived, errors>>
        BY <3>5 DEF U!ReadFrom, JInv, Pooled, Owners, Places, Reads, UHeld
      <4>2. /\ Head(usock) = usock[1] /\ 1 \in DOMAIN usock /\ Head(usock) \in Packet
            /\ \A k \in DOMAIN usock' : k + 1 \in DOMAIN usock /\ usock'[k] = usock[k + 1]
                                        /\ k \in Nat /\ k # 0
        BY <4>1, UnicastAssumption
      <4>3. data'[ubuf][1] = upkt'
        <5>1. 1 \in 1 .. BufLen /\ 1 <= Head(usock).len
          BY <4>2, SizeAssumption DEF Packet
        <5> QED BY <4>1, <5>1 DEF U!Fill
      <4>4. /\ \A k \in DOMAIN usock : usock[k] \in uarrived
            /\ \A k, l \in DOMAIN usock : usock[k] = usock[l] => k = l
            /\ \A i \in DOMAIN uwire : \A k \in DOMAIN usock : usock[k] # uwire[i].pkt
            /\ errors = 0
        BY <2>1 DEF UnicastOnce
      <4>5. \A k \in DOMAIN usock' : k + 1 # 1
        BY <4>2
      <4>6. \A k, l \in DOMAIN usock' : usock'[k] = usock'[l] => k = l
        <5> SUFFICES ASSUME NEW k \in DOMAIN usock', NEW l \in DOMAIN usock', usock'[k] = usock'[l]
                     PROVE  k = l
            OBVIOUS
        <5>1. k + 1 = l + 1
          BY <4>2, <4>4
        <5> QED BY <4>2, <5>1
      <4> QED BY <4>1, <4>2, <4>3, <4>4, <4>5, <4>6 DEF UnicastOnce
    <3>6. ~ U!ReadError
      BY <2>1 DEF U!ReadError, UnicastOnce
    <3> QED BY <1>2, <2>1, <3>1, <3>2, <3>3, <3>4, <3>5, <3>6 DEF U!recvUnicastIGMP
  <2> QED BY <2>4, <2>5, <2>6, <2>7 DEF FInv
<1> QED BY <1>1, <1>2

-----------------------------------------------------------------------------
\* Our own queries, what arrives, and the rest of the program.

LEMMA AsksForward ==
  ASSUME JInv, FInv, NEW s \in Interfaces(conf), SelfQuery(s)
  PROVE  FInv' /\ Known \subseteq Known'
<1> DEFINE e == SelfQueryEntry(s)
<1>1. /\ SentTyped /\ SentOnce /\ ReadOnce /\ UnicastOnce /\ Across
      /\ selfQuery[s] = "tick" /\ s \in RawSides(conf) /\ Echo(e)
      /\ selfQuery' = [selfQuery EXCEPT ![s] = "sent"]
      /\ UNCHANGED <<wire, uwire, arrived, uarrived, pc, pkt, out, IntOutName, usock, upc, ubuf, upkt,
                     errors, data>>
  BY DEF FInv, SelfQuery, selVars, locals, unicastVars, bufVars
<1>2. e.pkt = SelfQueryPacket(s) /\ e.side = s /\ e.pkt \in Packet
  BY UnicastAssumption DEF SelfQueryEntry
<1>3. ASSUME NEW f \in SentEntries, SameTrip(f.pkt, e.pkt) PROVE FALSE
  <2>1. f.pkt.hops = 0 /\ f.pkt.id = SelfId[s]
    BY <1>2, <1>3 DEF SameTrip, SelfQueryPacket
  <2>2. ASSUME NEW i \in DOMAIN wire, f = wire[i] PROVE FALSE
    <3>1. f.pkt \in arrived \cup uarrived
      BY <1>1, <2>1, <2>2, KnownApart DEF SentOnce
    <3> QED BY <1>1, <2>1, <3>1, ArrivedTyped, IdentityAssumption
  <2>3. ASSUME NEW i \in DOMAIN uwire, f = uwire[i] PROVE FALSE
    <3>1. f.pkt \in arrived \cup uarrived
      BY <1>1, <2>3 DEF SentOnce
    <3> QED BY <1>1, <2>1, <3>1, ArrivedTyped, IdentityAssumption
  <2>4. ASSUME NEW t \in Interfaces(conf), selfQuery[t] = "sent", f = SelfQueryEntry(t) PROVE FALSE
    <3>1. SelfId[t] = SelfId[s]
      BY <2>1, <2>4 DEF SelfQueryEntry, SelfQueryPacket
    <3> QED BY <1>1, <2>4, <3>1, IdentityAssumption
  <2> QED BY <2>2, <2>3, <2>4 DEF SentEntries
<1>4. SentEntries' = SentEntries \cup {e}
  <2>1. {t \in Interfaces(conf) : selfQuery'[t] = "sent"}
          = {t \in Interfaces(conf) : selfQuery[t] = "sent"} \cup {s}
    BY <1>1 DEF SentTyped
  <2> QED BY <1>1, <2>1 DEF SentEntries, SelfQueryEntry, SelfQueryPacket
<1> HIDE DEF e
<1>5. QueueStep
  BY <1>1, <1>2, <1>3, <1>4, EchoQueues
<1>6. Known \subseteq Known'
  BY <1>5 DEF QueueStep
<1>7. SentTyped'
  BY <1>1 DEF SentTyped, WireEntry, UWireEntry
<1>8. SentOnce'
  <2>1. \A f, h \in SentEntries' : SameTrip(f.pkt, h.pkt) => f = h
    BY <1>1, <1>3, <1>4 DEF SentOnce, SameTrip
  <2> HIDE DEF Known, SentEntries
  <2> QED BY <1>1, <1>6, <2>1 DEF SentOnce, SameTrip
<1>9. ReadOnce'
  BY <1>1, <1>5, StillReadOnce DEF JInv, Reads
<1>10. UnicastOnce' /\ Across'
  BY <1>1, UnicastStill, AcrossStill
<1> QED BY <1>6, <1>7, <1>8, <1>9, <1>10 DEF FInv

\* A packet that arrives was not there before.
LEMMA ArrivesForward ==
  ASSUME JInv, FInv, NEW p \in Inputs \cup Unicast, p \notin arrived \cup uarrived,
         \E S \in SUBSET Receivers : Deliver(p, S), p \in arrived' \cup uarrived',
         NothingSent, UNCHANGED <<pc, pkt>>
  PROVE  SentTyped' /\ SentOnce' /\ ReadOnce' /\ Known \subseteq Known'
<1>1. /\ SentTyped /\ SentOnce /\ ReadOnce
      /\ SentTyped' /\ SentOnce' /\ Known \subseteq Known'
  BY StillSent DEF FInv
<1>2. p \notin Known
  BY <1>1, KnownApart, InputAssumption, IdentityAssumption
<1>3. QueueStep
  BY <1>1, <1>2 DEF QueueStep, Known
<1>4. ReadOnce'
  BY <1>1, <1>3, StillReadOnce DEF JInv, Reads, NothingSent
<1> QED BY <1>1, <1>4

LEMMA OthersForward ==
  ASSUME JInv, FInv,
         \/ RunSelfQuery \/ ReturnAll \/ Outside
         \/ \E s \in Interfaces(conf) : SelfQuery(s) \/ SelfQueryCrash(s)
         \/ \E p \in Unicast : ArriveUnicast(p)
         \/ UNCHANGED allVars
  PROVE  FInv' /\ Known \subseteq Known'
<1>1. SentTyped /\ SentOnce /\ ReadOnce /\ UnicastOnce /\ Across
  BY DEF FInv
<1>2. UNCHANGED <<data, pc, wire, upc, ubuf, uwire>>
  BY OthersStill
<1>3. UNCHANGED <<pkt, out, upkt, errors>>
  BY DEF RunSelfQuery, ReturnAll, Return, Outside, outInterfaceSelector, SelectorRecv, SelectorStore,
         ReadQuery, ReadReport, Cancel, Select, Arrive, SelfQuery, SelfQueryCrash, ArriveUnicast,
         U!Arrive, allVars, vars, ownVars, locals, unicastVars
<1>4. ASSUME NEW s \in Interfaces(conf), SelfQuery(s) PROVE FInv' /\ Known \subseteq Known'
  BY <1>4, AsksForward
<1>5. ASSUME NEW p \in Unicast, ArriveUnicast(p) PROVE FInv' /\ Known \subseteq Known'
  <2>1. /\ p \notin uarrived /\ uarrived' = uarrived \cup {p} /\ usock' = Append(usock, p)
        /\ UNCHANGED <<arrived, selfQuery, IntOutName>> /\ \E S \in SUBSET Receivers : Deliver(p, S)
    BY <1>5 DEF ArriveUnicast, U!Arrive, ownVars
  <2>2. NothingSent
    BY <1>1, <1>2, <2>1 DEF NothingSent, SentTyped
  <2>3. SentTyped' /\ SentOnce' /\ ReadOnce' /\ Known \subseteq Known'
    BY <1>1, <1>2, <1>3, <2>1, <2>2, ArrivesForward, IdentityAssumption DEF SentTyped
  <2>4. /\ DOMAIN usock' = DOMAIN usock \cup {Len(usock) + 1} /\ usock'[Len(usock) + 1] = p
        /\ \A k \in DOMAIN usock : usock'[k] = usock[k]
    BY <2>1 DEF JInv, Reads
  <2>5. UnicastOnce'
    BY <1>1, <1>2, <1>3, <2>1, <2>4 DEF UnicastOnce, SentOnce
  <2> QED BY <1>1, <1>2, <1>3, <2>1, <2>3, <2>5, AcrossStill DEF FInv
<1>6. ASSUME NEW p \in Inputs, Arrive(p), UNCHANGED <<unicastVars, selfQuery>>
      PROVE  FInv' /\ Known \subseteq Known'
  <2>1. /\ p \notin arrived /\ arrived' = arrived \cup {p} /\ UNCHANGED <<uarrived, usock, IntOutName>>
        /\ \E S \in SUBSET Receivers : Deliver(p, S)
    BY <1>6 DEF Arrive, selVars, unicastVars
  <2>2. NothingSent
    BY <1>1, <1>2, <1>6, <2>1 DEF NothingSent, SentTyped
  <2>3. SentTyped' /\ SentOnce' /\ ReadOnce' /\ Known \subseteq Known'
    BY <1>1, <1>2, <1>3, <2>1, <2>2, ArrivesForward, IdentityAssumption DEF SentTyped
  <2> QED BY <1>1, <1>2, <1>3, <2>1, <2>3, UnicastStill, AcrossStill DEF FInv
<1>7. ASSUME \/ RunSelfQuery \/ ReturnAll \/ UNCHANGED allVars
             \/ \E s \in Interfaces(conf) : SelfQueryCrash(s)
             \/ Outside /\ ~ \E p \in Inputs : Arrive(p)
      PROVE  FInv' /\ Known \subseteq Known'
  <2>1. UNCHANGED <<sock, arrived, uarrived, usock>>
    BY <1>7 DEF RunSelfQuery, ReturnAll, Return, Outside, outInterfaceSelector, SelectorRecv,
           SelectorStore, ReadQuery, ReadReport, Cancel, Select, SelfQueryCrash, allVars, vars, netVars,
           unicastVars
  <2>2. NothingSent
    <3>1. CASE RunSelfQuery
      BY <1>1, <1>2, <2>1, <3>1 DEF RunSelfQuery, NothingSent, SentTyped
    <3>2. CASE UNCHANGED selfQuery
      BY <1>1, <1>2, <2>1, <3>2 DEF NothingSent, SentTyped
    <3> QED BY <1>7, <3>1, <3>2 DEF ReturnAll, Outside, SelfQueryCrash, allVars
  <2>3. SentTyped' /\ SentOnce' /\ Known \subseteq Known'
    BY <1>1, <2>2, StillSent
  <2>4. ReadOnce'
    BY <1>1, <1>2, <1>3, <2>1, <2>3, KeepsIt DEF HasPkt
  <2>5. UnicastOnce'
    BY <1>1, <1>2, <1>3, <2>1, UnicastStill
  <2>6. Across'
    <3>1. CASE SelectorStore
      <4>1. IntOutName' = [IntOutName EXCEPT ![INSIDE] = selection] /\ selection \in {OUT, ALTOUT}
        BY <3>1 DEF SelectorStore, JInv, Selects
      <4>2. /\ IntOutName' \in [{INSIDE, OUT} -> {INSIDE, OUT, ALTOUT}]
            /\ IntOutName'[OUT] = INSIDE /\ IntOutName'[INSIDE] \in {OUT, ALTOUT}
        BY <1>1, <4>1 DEF Across, INSIDE, OUT, ALTOUT
      <4> HIDE DEF Targets, Addressed, proxyIt, interf
      <4> QED BY <1>1, <1>2, <1>3, <4>2 DEF Across, Targets, Addressed
    <3>2. CASE UNCHANGED IntOutName
      BY <1>1, <1>2, <1>3, <3>2, AcrossStill
    <3> QED BY <1>7, <3>1, <3>2
            DEF RunSelfQuery, ReturnAll, Return, Outside, outInterfaceSelector, SelectorRecv, ReadQuery,
                ReadReport, Cancel, Select, SelfQueryCrash, allVars, vars, selVars
  <2> QED BY <2>3, <2>4, <2>5, <2>6 DEF FInv
<1> QED BY <1>4, <1>5, <1>6, <1>7 DEF Outside

LEMMA FStep == JInv /\ FInv /\ MaxErrors = 0 /\ [ProxyNext]_allVars => FInv' /\ Known \subseteq Known'
BY MulticastForward, UnicastForward, OthersForward DEF ProxyNext

-----------------------------------------------------------------------------
\* Sending on is Relay, whatever else happens is an Arrival.
Sent       == [i \in DOMAIN wire |-> [side |-> wire[i].side, dst |-> wire[i].dst, pkt |-> wire[i].pkt]]
KnownTyped == Known \subseteq Packet

LEMMA OnlyWriteTo ==
  ASSUME [ProxyNext]_allVars
  PROVE  UNCHANGED wire \/ \E r \in Receivers : WriteTo(r)
<1>1. ASSUME NEW r \in Receivers, Multicasting(r) PROVE UNCHANGED wire \/ WriteTo(r)
  BY <1>1 DEF Multicasting, recvIGMP, Stop, GetBuf, ReadFrom, ReadTimeout, Ignore, Accept,
              Undecodable, Dispatch, LoadOut, Crash, netVars
<1>2. CASE Unicasting
  BY <1>2 DEF Unicasting, ownVars
<1> QED BY <1>1, <1>2, OthersStill DEF ProxyNext

LEMMA StepForwards ==
  ASSUME JInv, FInv, KnownTyped', Known \subseteq Known', [ProxyNext]_allVars
  PROVE  Forward!Next
<1>1. Known' \subseteq Packet
  BY DEF KnownTyped
<1>2. CASE UNCHANGED wire
  <2>1. Sent' = Sent
    BY <1>2 DEF Sent
  <2> QED BY <1>1, <2>1 DEF Forward!Next, Forward!Arrival, Known, Copies, Sent
<1>3. ASSUME NEW r \in Receivers, WriteTo(r) PROVE Forward!Relay
  <2> DEFINE e == [side |-> out[r], dst |-> g(r), pkt |-> pkt[r], payload |-> data[buf[r]]]
  <2>1. /\ SentTyped /\ pc[r] = "write" /\ HasPkt(r) /\ pkt[r] \in Known /\ pkt[r].dst = g(r)
        /\ out[r] \in Targets(pkt[r]) /\ wire' = Append(wire, e)
    BY <1>3 DEF FInv, ReadOnce, Across, HasPkt, WriteTo, Addressed
  <2>2. \A i \in DOMAIN wire : wire[i].pkt # pkt[r]
    <3>1. \A i \in DOMAIN wire : wire[i] \in SentEntries
      BY DEF SentEntries
    <3> QED BY <2>1, <3>1, RelayedFresh DEF SameTrip
  <2>3. Sent' = Append(Sent, [side |-> out[r], dst |-> pkt[r].dst, pkt |-> pkt[r]])
    <3>1. wire \in Seq(WireEntry)
      BY <2>1 DEF SentTyped
    <3> HIDE DEF WireEntry
    <3> QED BY <2>1, <3>1 DEF Sent
  <2>4. \A i \in DOMAIN Sent : Sent[i].pkt # pkt[r]
    BY <2>2 DEF Sent
  <2>5. \E p \in Known : \E s \in Targets(p) :
          /\ \A i \in DOMAIN Sent : Sent[i].pkt # p
          /\ Sent' = Append(Sent, [side |-> s, dst |-> p.dst, pkt |-> p])
    BY <2>1, <2>3, <2>4
  <2> QED BY <1>1, <2>5 DEF Forward!Relay, Known, Copies, Sent
<1> QED BY <1>2, <1>3, OnlyWriteTo DEF Forward!Next

\* The goroutines together implement Forwarding as long as the reads of
\* recvUnicastIGMP fail only by their deadline: after another failure it sends
\* what its buffer held before once more.
THEOREM ForwardsOnce ==
  ASSUME MaxErrors = 0 PROVE ProxySpec => ImplementsForwarding
<1>1. ProxyInit => JInv /\ FInv /\ Forward!Init
  <2> SUFFICES ASSUME ProxyInit PROVE FInv /\ Forward!Init
      BY JInit
  <2>1. FInv
    BY FInit
  <2>2. wire = <<>> /\ SentEntries = {} /\ arrived = {} /\ uarrived = {}
    BY DEF ProxyInit, Init, U!Init, SentEntries
  <2> QED BY <2>1, <2>2 DEF Forward!Init
<1>2. JInv /\ [ProxyNext]_allVars => JInv'
  BY JStep
<1>3. JInv /\ FInv /\ [ProxyNext]_allVars => FInv' /\ Known \subseteq Known'
  BY FStep
<1>4. FInv => KnownTyped
  BY KnownApart DEF FInv, KnownTyped
<1>5. JInv /\ FInv /\ KnownTyped' /\ Known \subseteq Known' /\ [ProxyNext]_allVars => Forward!Next
  BY StepForwards
<1> QED BY <1>1, <1>2, <1>3, <1>4, <1>5, PTL DEF ProxySpec, ImplementsForwarding, Forward!Spec

-----------------------------------------------------------------------------
\* With relaying towards the inside only, all that receivers send goes there,
\* and what is for a receiver on the outside came back once at most.
OneWay == ~ conf.ProxyInToOut /\ ifIndex[INSIDE] # ifIndex[OUT]

Inwards == \A i \in DOMAIN wire : wire[i].side = INSIDE /\ wire[i].pkt.hops <= 1

LEMMA InwardsStep ==
  ASSUME OneWay, JInv, FInv, Inwards, [ProxyNext]_allVars
  PROVE  Inwards'
<1>1. CASE UNCHANGED wire
  BY <1>1 DEF Inwards
<1>2. ASSUME NEW r \in Receivers, WriteTo(r) PROVE Inwards'
  <2> DEFINE e == [side |-> out[r], dst |-> g(r), pkt |-> pkt[r], payload |-> data[buf[r]]]
  <2>1. /\ SentTyped /\ SentOnce /\ pkt[r] \in Known /\ Addressed(r, pkt[r])
        /\ proxyIt(conf, interf(r)) /\ out[r] \in Targets(pkt[r]) /\ wire' = Append(wire, e)
    BY <1>2 DEF FInv, ReadOnce, Across, HasPkt, WriteTo
  <2>2. NetIFIndex(conf, ifIndex, pkt[r].ifIndex) = OUT
    BY <2>1 DEF OneWay, proxyIt, Addressed
  <2>3. out[r] = INSIDE
    BY <2>1, <2>2 DEF Targets, INSIDE, OUT
  <2>4. pkt[r].hops <= 1
    <3>1. CASE pkt[r] \in arrived \cup uarrived
      BY <2>1, <3>1, ArrivedTyped
    <3>2. CASE pkt[r] \in Copies
      <4>1. PICK f \in SentEntries : Loops(f) /\ pkt[r] = LoopCopy(f)
        BY <3>2 DEF Copies
      <4>2. pkt[r].ifIndex = ifIndex[f.side] /\ pkt[r].hops = f.pkt.hops + 1
        BY <4>1 DEF LoopCopy
      <4>3. f.side # INSIDE
        <5>1. NetIFIndex(conf, ifIndex, ifIndex[INSIDE]) # OUT
          BY DEF OneWay, NetIFIndex, INSIDE, OUT, ALTOUT, NoSide
        <5> QED BY <2>2, <4>2, <5>1
      <4>4. f.pkt.hops = 0
        <5>1. CASE \E i \in DOMAIN wire : f = wire[i]
          BY <4>3, <5>1 DEF Inwards
        <5>2. ASSUME NEW i \in DOMAIN uwire, f = uwire[i] PROVE f.pkt.hops = 0
          BY <2>1, <5>2, ArrivedTyped DEF SentOnce
        <5>3. ASSUME NEW s \in Interfaces(conf), f = SelfQueryEntry(s) PROVE f.pkt.hops = 0
          BY <5>3 DEF SelfQueryEntry, SelfQueryPacket
        <5> QED BY <5>1, <5>2, <5>3 DEF SentEntries
      <4> QED BY <4>2, <4>4
    <3> QED BY <2>1, <3>1, <3>2 DEF Known
  <2>5. /\ DOMAIN wire' = DOMAIN wire \cup {Len(wire) + 1} /\ wire'[Len(wire) + 1] = e
        /\ \A i \in DOMAIN wire : wire'[i] = wire[i]
    <3>1. wire \in Seq(WireEntry)
      BY <2>1 DEF SentTyped
    <3> HIDE DEF e, WireEntry
    <3> QED BY <2>1, <3>1
  <2> QED BY <2>3, <2>4, <2>5 DEF Inwards
<1> QED BY <1>1, <1>2, OnlyWriteTo

\* Relaying in one direction, a packet of our own that comes back is relayed at
\* most once more, however often the kernel loops packets back.
THEOREM EchoesStop ==
  ASSUME MaxErrors = 0, OneWay PROVE ProxySpec => []EchoesEnd
<1>1. ProxyInit => JInv /\ FInv /\ Inwards
  BY JInit, FInit DEF ProxyInit, Init, Inwards
<1>2. JInv /\ [ProxyNext]_allVars => JInv'
  BY JStep
<1>3. JInv /\ FInv /\ [ProxyNext]_allVars => FInv'
  BY FStep
<1>4. JInv /\ FInv /\ Inwards /\ [ProxyNext]_allVars => Inwards'
  BY InwardsStep
<1>5. Inwards => EchoesEnd
  BY DEF Inwards, EchoesEnd
<1> QED BY <1>1, <1>2, <1>3, <1>4, <1>5, PTL DEF ProxySpec
=============================================================================
