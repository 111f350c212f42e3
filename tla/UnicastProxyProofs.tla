------------------------- MODULE UnicastProxyProofs -------------------------
(***************************************************************************)
(* For every set of packets and buffers: recvUnicastIGMP sends what it has *)
(* read.  The buffer it holds is not in the pool, so nobody else reads     *)
(* into it, and it still has the packet when it is sent.  And it sends the *)
(* reports and leaves among what it has read, each once and in order.      *)
(***************************************************************************)
EXTENDS UnicastProxy, SequenceInduction

\* Between Get and Put the buffer is ours alone, and holds the packet read.
Holding ==
  /\ \A b \in Bufs : bytePool[b] <= 1
  /\ pc \in {"read", "decode", "send"} => buf \in Bufs /\ bytePool[buf] = 0
  /\ pc \in {"top", "read"} => pkt = NoPkt
  /\ pc \in {"decode", "send"} /\ pkt # NoPkt => \A c \in 1 .. pkt.len : data[buf][c] = pkt
  /\ pc = "send" => data[buf][1] # NoPkt /\ out \in {OUT, ALTOUT}

IInv == TypeOK /\ Holding /\ SendsWhatItRead

USE InputAssumption

\* A packet is sent to a group or to all routers.
LEMMA DestinationTyped == \A p \in Packet : destination(p) \in Destinations
BY DEF destination, Destinations

\* What a read leaves in a buffer.
LEMMA FillTyped ==
  ASSUME NEW p \in Packet, NEW cells \in Cells(Packet)
  PROVE  /\ Fill(cells, p) \in Cells(Packet)
         /\ \A c \in 1 .. p.len : Fill(cells, p)[c] = p
BY DEF Fill, Cells

\* A new buffer has no packet.
LEMMA ZerosTyped == Zeros \in Cells(Packet)
BY DEF Zeros, Cells

\* The operations of the pool keep it a pool.
LEMMA PoolTyped ==
  ASSUME bytePool \in [Bufs -> Nat], data \in [Bufs -> Cells(Packet)], NEW b \in Bufs
  PROVE  /\ PutBack(b) => bytePool' \in [Bufs -> Nat]
         /\ Reuse(b) => bytePool' \in [Bufs -> Nat] /\ data' \in [Bufs -> Cells(Packet)]
         /\ New(b) => bytePool' \in [Bufs -> Nat] /\ data' \in [Bufs -> Cells(Packet)]
<1>1. bytePool[b] \in Nat
  OBVIOUS
<1>2. ASSUME PutBack(b) PROVE bytePool' \in [Bufs -> Nat]
  BY <1>1, <1>2 DEF PutBack
<1>3. ASSUME Reuse(b) PROVE bytePool' \in [Bufs -> Nat] /\ data' \in [Bufs -> Cells(Packet)]
  <2>1. bytePool[b] - 1 \in Nat
    BY <1>1, <1>3 DEF Reuse
  <2> QED BY <1>3, <2>1 DEF Reuse
<1>4. ASSUME New(b) PROVE bytePool' \in [Bufs -> Nat] /\ data' \in [Bufs -> Cells(Packet)]
  BY <1>4, ZerosTyped DEF New
<1> QED BY <1>2, <1>3, <1>4

\* A buffer is in the pool at most once when it is put back only by who holds it.
LEMMA PoolBounded ==
  ASSUME bytePool \in [Bufs -> Nat], \A c \in Bufs : bytePool[c] <= 1, NEW b \in Bufs
  PROVE  /\ PutBack(b) /\ bytePool[b] = 0 => \A c \in Bufs : bytePool'[c] <= 1
         /\ Reuse(b) => bytePool'[b] = 0 /\ \A c \in Bufs : bytePool'[c] <= 1
         /\ New(b) => bytePool'[b] = 0 /\ \A c \in Bufs : bytePool'[c] <= 1
         /\ PutBack(b) \/ Reuse(b) \/ New(b) => \A c \in Bufs \ {b} : bytePool'[c] = bytePool[c]
<1>1. bytePool[b] \in {0, 1}
  OBVIOUS
<1>2. ASSUME PutBack(b)
      PROVE  bytePool'[b] = bytePool[b] + 1 /\ \A c \in Bufs \ {b} : bytePool'[c] = bytePool[c]
  BY <1>2 DEF PutBack
<1>3. ASSUME Reuse(b) PROVE bytePool'[b] = 0 /\ \A c \in Bufs \ {b} : bytePool'[c] = bytePool[c]
  <2>1. bytePool'[b] = bytePool[b] - 1 /\ \A c \in Bufs \ {b} : bytePool'[c] = bytePool[c]
    BY <1>3 DEF Reuse
  <2> QED BY <1>1, <1>3, <2>1 DEF Reuse
<1>4. ASSUME New(b) PROVE bytePool' = bytePool /\ bytePool[b] = 0
  BY <1>4 DEF New
<1> QED BY <1>1, <1>2, <1>3, <1>4

\* recvUnicastIGMP starts with no buffer and has sent nothing.
LEMMA InitHolds == Init => IInv
<1> SUFFICES ASSUME Init PROVE IInv
    OBVIOUS
<1>1. TypeOK
  <2>1. ctxDone \in BOOLEAN /\ crashed \in BOOLEAN
    BY DEF Init
  <2>2. IntOutName \in [{INSIDE, OUT} -> Side] /\ IntOutName[INSIDE] \in {OUT, ALTOUT}
    BY DEF Init, InitialIntOutName, Side, INSIDE, OUT
  <2>3. bytePool \in [Bufs -> Nat] /\ data \in [Bufs -> Cells(Packet)]
    BY ZerosTyped DEF Init
  <2>4. /\ sock \in Seq(Packet) /\ received \in Seq(Packet) /\ errors \in 0 .. MaxErrors
        /\ wire \in Seq(Entry)
    BY DEF Init
  <2>5. /\ pc \in {"top", "read", "decode", "send", "done"} /\ arrived \subseteq Unicast
        /\ buf \in Bufs \cup {NoBuf} /\ out \in {OUT, ALTOUT, NoSide} /\ pkt \in Packet \cup {NoPkt}
    BY DEF Init
  <2> QED BY <2>1, <2>2, <2>3, <2>4, <2>5 DEF TypeOK
<1>2. Holding
  BY DEF Init, Holding
<1>3. SendsWhatItRead
  BY DEF Init, SendsWhatItRead
<1> QED BY <1>1, <1>2, <1>3 DEF IInv

\* Steps that send nothing leave SendsWhatItRead as it was.
LEMMA NothingSent == SendsWhatItRead /\ wire' = wire => SendsWhatItRead'
BY DEF SendsWhatItRead

\* A read puts the packet in the buffer in hand, which becomes its own.
LEMMA ReadFromStep == IInv /\ ReadFrom => IInv'
<1> SUFFICES ASSUME TypeOK, Holding, SendsWhatItRead, ReadFrom PROVE IInv'
    BY DEF IInv
<1>1. Head(sock) \in Packet /\ Tail(sock) \in Seq(Packet) /\ buf \in Bufs
  BY DEF ReadFrom, TypeOK, Holding
<1> DEFINE p == Head(sock)
<1>2. Fill(data[buf], p) \in Cells(Packet) /\ \A c \in 1 .. p.len : Fill(data[buf], p)[c] = p
  BY <1>1, FillTyped DEF TypeOK
<1>3. data' = [data EXCEPT ![buf] = Fill(data[buf], p)] /\ data'[buf] = Fill(data[buf], p)
  BY <1>1 DEF ReadFrom, TypeOK
<1>4. TypeOK'
  BY <1>1, <1>2, <1>3 DEF ReadFrom, TypeOK
<1>5. Holding'
  BY <1>1, <1>2, <1>3 DEF ReadFrom, Holding
<1> QED BY <1>4, <1>5, NothingSent DEF IInv, ReadFrom

\* What is sent is the buffer in hand, with the packet read.
LEMMA SendStep == IInv /\ Send => IInv'
<1> SUFFICES ASSUME TypeOK, Holding, SendsWhatItRead, Send PROVE IInv'
    BY DEF IInv
<1> DEFINE e == [side |-> out, dst |-> destination(data[buf][1]), pkt |-> data[buf][1],
                 payload |-> data[buf], read |-> pkt]
<1>1. /\ data[buf] \in Cells(Packet) /\ buf \in Bufs /\ out \in {OUT, ALTOUT}
      /\ data[buf][1] # NoPkt /\ pkt \in Packet \cup {NoPkt}
      /\ pkt # NoPkt => \A c \in 1 .. pkt.len : data[buf][c] = pkt
  BY DEF Send, TypeOK, Holding
<1>2. data[buf][1] \in Packet
  BY <1>1 DEF Cells
<1>3. e \in Entry
  BY <1>1, <1>2, DestinationTyped DEF Entry
<1>4. wire' = Append(wire, e)
  BY DEF Send
<1>9. bytePool' \in [Bufs -> Nat]
  BY <1>1, PoolTyped DEF Send, Put, TypeOK
<1>10. e.read # NoPkt => \A c \in 1 .. e.read.len : e.payload[c] = e.read
  BY <1>1
<1> HIDE DEF e
<1>5. wire' \in Seq(Entry)
  BY <1>3, <1>4 DEF TypeOK
<1>6. TypeOK'
  BY <1>5, <1>9 DEF TypeOK, Send, Continue, net
<1>7. Holding'
  <2>1. \A c \in Bufs : bytePool'[c] <= 1
    BY <1>1, PoolBounded DEF Holding, Send, Put, TypeOK
  <2> QED BY <2>1 DEF Holding, Send, Continue
<1>8. SendsWhatItRead'
  BY <1>4, <1>10 DEF SendsWhatItRead, TypeOK
<1> QED BY <1>6, <1>7, <1>8 DEF IInv

\* A step of another goroutine on a buffer that is not ours: ours is not in the pool.
LEMMA OtherUseStep == IInv /\ OtherUse => IInv'
<1> SUFFICES ASSUME TypeOK, Holding, SendsWhatItRead, OtherUse PROVE IInv'
    BY DEF IInv
<1>1. PICK b \in {c \in Bufs : c # buf \/ bytePool[c] > 0} :
        \/ Reuse(b) \/ New(b)
        \/ \E p \in Multicast : data' = [data EXCEPT ![b] = Fill(@, p)] /\ UNCHANGED bytePool
        \/ bytePool[b] = 0 /\ PutBack(b) /\ UNCHANGED data
  BY DEF OtherUse
<1>2. bytePool' \in [Bufs -> Nat]
  BY <1>1, PoolTyped DEF TypeOK
<1>3. PICK cells \in Cells(Packet) : data' = [data EXCEPT ![b] = cells]
  <2>1. data[b] \in Cells(Packet) /\ data = [data EXCEPT ![b] = data[b]]
    BY DEF TypeOK
  <2>2. \A p \in Multicast : Fill(data[b], p) \in Cells(Packet)
    BY <2>1, FillTyped
  <2> QED BY <1>1, <2>1, <2>2, ZerosTyped DEF Reuse, New
<1>4. TypeOK'
  BY <1>2, <1>3 DEF TypeOK, OtherUse, net
<1>5. Holding'
  <2>1. /\ \A c \in Bufs : bytePool'[c] <= 1
        /\ \A c \in Bufs \ {b} : bytePool'[c] = bytePool[c]
    BY <1>1, PoolBounded DEF Holding, TypeOK
  <2>2. pc \in {"read", "decode", "send"} => buf \in Bufs \ {b} /\ bytePool[buf] = 0
    BY <1>1 DEF Holding
  <2>3. pc \in {"read", "decode", "send"} => bytePool'[buf] = 0 /\ data'[buf] = data[buf]
    BY <1>3, <2>1, <2>2 DEF TypeOK
  <2> QED BY <2>1, <2>2, <2>3 DEF Holding, OtherUse
<1> QED BY <1>4, <1>5, NothingSent DEF IInv, OtherUse

\* Every step of recvUnicastIGMP and of the goroutines around it.
LEMMA Inductive == IInv /\ [Next]_vars => IInv'
<1> SUFFICES ASSUME TypeOK, Holding, SendsWhatItRead, [Next]_vars PROVE IInv'
    BY DEF IInv
<1>1. CASE Stop
  BY <1>1, NothingSent DEF IInv, Stop, TypeOK, Holding, net
<1>2. CASE GetBuf
  <2>1. TypeOK'
    BY <1>2, PoolTyped DEF GetBuf, TypeOK, net
  <2>2. Holding'
    BY <1>2, PoolBounded DEF GetBuf, TypeOK, Holding
  <2> QED BY <1>2, <2>1, <2>2, NothingSent DEF IInv, GetBuf
<1>3. CASE ReadTimeout
  <2>1. TypeOK'
    BY <1>3, PoolTyped DEF ReadTimeout, Put, Continue, TypeOK, Holding, net
  <2>2. Holding'
    BY <1>3, PoolBounded DEF ReadTimeout, Put, Continue, TypeOK, Holding
  <2> QED BY <1>3, <2>1, <2>2, NothingSent DEF IInv, ReadTimeout
<1>4. CASE ReadError
  <2>1. TypeOK'
    BY <1>4 DEF ReadError, TypeOK, net
  <2>2. Holding'
    BY <1>4 DEF ReadError, Holding
  <2> QED BY <1>4, <2>1, <2>2, NothingSent DEF IInv, ReadError
<1>5. CASE Undecodable
  <2>1. TypeOK'
    BY <1>5, PoolTyped DEF Undecodable, Put, Continue, TypeOK, Holding, net
  <2>2. Holding'
    BY <1>5, PoolBounded DEF Undecodable, Put, Continue, TypeOK, Holding
  <2> QED BY <1>5, <2>1, <2>2, NothingSent DEF IInv, Undecodable
<1>6. CASE Decode
  <2>1. data[buf][1] # NoPkt
    BY <1>6 DEF Decode, igmpType
  <2>2. TypeOK'
    BY <1>6 DEF Decode, Continue, TypeOK, net
  <2>3. Holding'
    BY <1>6, <2>1 DEF Decode, Continue, TypeOK, Holding
  <2> QED BY <1>6, <2>2, <2>3, NothingSent DEF IInv, Decode
<1>7. CASE Crash \/ OtherCrash \/ Cancel \/ UNCHANGED vars
  <2>1. TypeOK'
    BY <1>7 DEF Crash, OtherCrash, Cancel, vars, TypeOK, net
  <2>2. Holding'
    BY <1>7 DEF Crash, OtherCrash, Cancel, vars, Holding
  <2> QED BY <1>7, <2>1, <2>2, NothingSent DEF IInv, Crash, OtherCrash, Cancel, vars
<1>9. CASE Store
  <2>1. TypeOK'
    BY <1>9 DEF Store, TypeOK, net, Side, INSIDE, OUT, ALTOUT
  <2> QED BY <1>9, <2>1, NothingSent DEF IInv, Store, Holding
<1>8. ASSUME NEW p \in Unicast, Arrive(p) PROVE IInv'
  <2>1. TypeOK'
    BY <1>8 DEF Arrive, TypeOK
  <2>2. Holding'
    BY <1>8 DEF Arrive, Holding
  <2> QED BY <1>8, <2>1, <2>2, NothingSent DEF IInv, Arrive
<1> QED
  BY <1>1, <1>2, <1>3, <1>4, <1>5, <1>6, <1>7, <1>8, <1>9, ReadFromStep, SendStep, OtherUseStep
  DEF IInv, Next, recvUnicastIGMP

\* Every variable of recvUnicastIGMP keeps its type; in particular the side it
\* sends on is always an outside one.
THEOREM UnicastTypeCorrect == Spec => []TypeOK
<1>1. IInv => TypeOK
  BY DEF IInv
<1> QED BY <1>1, InitHolds, Inductive, PTL DEF Spec

\* An iteration that read a packet sends that packet: the buffer is not shared
\* while recvUnicastIGMP holds it, although the pool is.
THEOREM SendsWhatItReads == Spec => []SendsWhatItRead
<1>1. IInv => SendsWhatItRead
  BY DEF IInv
<1> QED BY <1>1, InitHolds, Inductive, PTL DEF Spec

-----------------------------------------------------------------------------
(* Each report and leave is translated once, in order. *)

\* As long as no read has failed, an iteration past its read has a packet, and
\* sends it only if it is a report or a leave.
Translating ==
  /\ pc \in {"decode", "send"} /\ errors = 0 => pkt # NoPkt
  /\ pc = "send" => Translatable(data[buf][1].type)

Pkts(entries) == [i \in DOMAIN entries |-> entries[i].pkt]
Kept == {p \in Packet : Translatable(p.type)}

TInv == IInv /\ Translating /\ TranslatesAll

\* What is translated, as Only.
LEMMA ReportsAre == \A packets : Reports(packets) = Only(packets, Kept)
BY DEF Reports, Kept

\* What is translated of one packet more.
LEMMA ReportsAppend ==
  ASSUME NEW s \in Seq(Packet), NEW p \in Packet
  PROVE  /\ Reports(s) \in Seq(Packet)
         /\ Reports(Append(s, p)) = IF Translatable(p.type) THEN Append(Reports(s), p) ELSE Reports(s)
         /\ Reports(<<p>>) = IF Translatable(p.type) THEN <<p>> ELSE <<>>
<1>1. /\ Only(s, Kept) \in Seq(Packet)
      /\ Only(Append(s, p), Kept) = IF p \in Kept THEN Append(Only(s, Kept), p) ELSE Only(s, Kept)
  BY ONLY OnlyAppend
<1>2. Only(<<p>>, Kept) = IF p \in Kept THEN <<p>> ELSE <<>>
  <2>1. <<>> \in Seq(Packet) /\ Append(<<>>, p) = <<p>>
    OBVIOUS
  <2>2. \A r \in Seq(Packet) :
          Only(Append(r, p), Kept) = IF p \in Kept THEN Append(Only(r, Kept), p) ELSE Only(r, Kept)
    BY ONLY OnlyAppend
  <2> QED BY <2>1, <2>2, OnlyEmpty
<1>3. p \in Kept <=> Translatable(p.type)
  BY DEF Kept
<1> QED BY <1>1, <1>2, <1>3, ReportsAre

\* The packets sent, one for each entry.
LEMMA PktsTyped ==
  ASSUME NEW s \in Seq(Entry)
  PROVE  Pkts(s) \in Seq(Packet) /\ Len(Pkts(s)) = Len(s)
<1>1. \A i \in DOMAIN s : s[i] \in Entry
  OBVIOUS
<1>2. \A e \in Entry : e.pkt \in Packet
  BY DEF Entry
<1>3. Len(s) \in Nat /\ DOMAIN s = 1 .. Len(s)
  OBVIOUS
<1> QED BY <1>1, <1>2, <1>3 DEF Pkts

\* The packets sent, with one entry more.
LEMMA PktsAppend ==
  ASSUME NEW s \in Seq(Entry), NEW e \in Entry
  PROVE  Pkts(s) \in Seq(Packet) /\ Pkts(Append(s, e)) = Append(Pkts(s), e.pkt)
<1>1. e.pkt \in Packet /\ \A i \in DOMAIN s : s[i].pkt \in Packet
  <2>1. \A i \in DOMAIN s : s[i] \in Entry
    OBVIOUS
  <2>2. \A r \in Entry : r.pkt \in Packet
    BY DEF Entry
  <2> QED BY <2>1, <2>2
<1>2. Len(s) \in Nat /\ DOMAIN s = 1 .. Len(s) /\ DOMAIN Append(s, e) = 1 .. Len(s) + 1
  OBVIOUS
<1>3. Pkts(s) \in Seq(Packet) /\ Len(Pkts(s)) = Len(s)
  BY <1>1, <1>2 DEF Pkts
<1>4. Pkts(Append(s, e)) \in Seq(Packet) /\ Len(Pkts(Append(s, e))) = Len(s) + 1
  BY <1>1, <1>2 DEF Pkts, Entry
<1>5. Append(Pkts(s), e.pkt) \in Seq(Packet) /\ Len(Append(Pkts(s), e.pkt)) = Len(s) + 1
  BY <1>1, <1>3
<1>6. \A i \in 1 .. Len(s) + 1 : Pkts(Append(s, e))[i] = Append(Pkts(s), e.pkt)[i]
  BY <1>1, <1>2, <1>3 DEF Pkts
<1> QED BY <1>4, <1>5, <1>6, SeqEqual

\* The property, case by case of what is in hand.
TranslatedSoFar ==
  /\ pc \notin {"decode", "send"} => Pkts(wire) = Reports(received)
  /\ pc \in {"decode", "send"} => Pkts(wire) \o Reports(<<pkt>>) = Reports(received)

\* TranslatesAll is TranslatedSoFar as long as no read has failed.
LEMMA TranslatesAllIs ==
  IInv /\ Translating => (TranslatesAll <=> (errors = 0 => TranslatedSoFar))
<1> SUFFICES ASSUME IInv, Translating PROVE TranslatesAll <=> (errors = 0 => TranslatedSoFar)
    OBVIOUS
<1>1. Pkts(wire) \o <<>> = Pkts(wire)
  <2>1. Pkts(wire) \in Seq(Packet)
    <3>1. wire \in Seq(Entry)
      BY DEF IInv, TypeOK
    <3> QED BY <3>1, PktsTyped
  <2> QED BY <2>1, ConcatEmptySeq
<1>2. Pkts(wire) = [i \in DOMAIN wire |-> wire[i].pkt]
  BY DEF Pkts
<1> QED BY <1>1, <1>2, Zenon DEF TranslatesAll, TranslatedSoFar, Translating

\* Nobody else reads into the buffer in hand.
LEMMA OtherKeeps ==
  ASSUME TypeOK, Holding, OtherUse, pc \in {"read", "decode", "send"}
  PROVE  data'[buf] = data[buf]
<1>1. PICK b \in {c \in Bufs : c # buf \/ bytePool[c] > 0} :
        \/ Reuse(b) \/ New(b)
        \/ \E p \in Multicast : data' = [data EXCEPT ![b] = Fill(@, p)] /\ UNCHANGED bytePool
        \/ bytePool[b] = 0 /\ PutBack(b) /\ UNCHANGED data
  BY DEF OtherUse
<1>2. b # buf
  BY <1>1 DEF Holding
<1>3. PICK cells : data' = [data EXCEPT ![b] = cells]
  <2>1. data = [data EXCEPT ![b] = data[b]]
    BY DEF TypeOK
  <2> QED BY <1>1, <2>1 DEF Reuse, New
<1> QED BY <1>2, <1>3 DEF TypeOK, Holding

\* Every step keeps the packet in hand, and sends only a report or a leave.
LEMMA TranslatingStep == IInv /\ Translating /\ [Next]_vars => Translating'
<1> SUFFICES ASSUME TypeOK, Holding, Translating, [Next]_vars PROVE Translating'
    BY DEF IInv
<1>1. CASE ReadFrom
  <2>1. Head(sock) # NoPkt
    BY <1>1 DEF ReadFrom, TypeOK
  <2> QED BY <1>1, <2>1 DEF ReadFrom, Translating
<1>2. CASE ReadError
  <2>1. errors' # 0 /\ pc' = "decode"
    BY <1>2 DEF ReadError, TypeOK
  <2> QED BY <2>1 DEF Translating
<1>3. CASE Decode
  <2>1. data[buf][1] # NoPkt => igmpType = data[buf][1].type
    BY DEF igmpType
  <2> QED BY <1>3, <2>1 DEF Decode, Continue, Translating, igmpType, Translatable
<1>4. CASE OtherUse
  <2>1. pc \in {"decode", "send"} => data'[buf] = data[buf]
    BY <1>4, OtherKeeps
  <2> QED BY <1>4, <2>1 DEF OtherUse, Translating
<1>5. CASE Stop \/ GetBuf \/ ReadTimeout \/ Undecodable \/ Send
  <2>1. pc' \notin {"decode", "send"}
    BY <1>5 DEF Stop, GetBuf, ReadTimeout, Undecodable, Send, Continue
  <2> QED BY <2>1 DEF Translating
<1>6. CASE Crash \/ OtherCrash \/ Store \/ Cancel \/ (\E p \in Unicast : Arrive(p)) \/ UNCHANGED vars
  <2>1. UNCHANGED <<pc, errors, pkt, data, buf>>
    BY <1>6 DEF Crash, OtherCrash, Store, Cancel, Arrive, vars
  <2> QED BY <2>1 DEF Translating
<1> QED BY <1>1, <1>2, <1>3, <1>4, <1>5, <1>6 DEF Next, recvUnicastIGMP

\* What is in hand when a packet is sent or dropped.
LEMMA InHand ==
  ASSUME TypeOK, Holding, Translating, errors = 0, pc \in {"decode", "send"}
  PROVE  /\ pkt \in Packet /\ data[buf][1] = pkt /\ igmpType = pkt.type
<1>1. pkt \in Packet
  BY DEF TypeOK, Translating
<1>2. pkt.len \in 1 .. BufLen /\ pkt # NoPkt
  BY <1>1
<1>3. data[buf][1] = pkt
  BY <1>2 DEF Holding
<1> QED BY <1>1, <1>2, <1>3 DEF igmpType

\* A packet read is in hand until it is sent, or dropped for its type.
LEMMA TranslatesStep == TInv /\ [Next]_vars => TranslatesAll'
<1> SUFFICES ASSUME TInv, [Next]_vars, errors' = 0 PROVE TranslatedSoFar'
  <2>1. TInv /\ [Next]_vars => IInv' /\ Translating'
    BY Inductive, TranslatingStep DEF TInv
  <2>2. (IInv /\ Translating => (TranslatesAll <=> (errors = 0 => TranslatedSoFar)))'
    BY TranslatesAllIs, PTL
  <2> QED BY <2>1, <2>2
<1>0. /\ TypeOK /\ Holding /\ IInv /\ Translating
      /\ pkt \in Packet \cup {NoPkt} /\ wire \in Seq(Entry) /\ received \in Seq(Packet)
  BY DEF TInv, IInv, TypeOK
<1>1. errors = 0
  <2>1. errors \in Nat /\ (errors' = errors \/ errors' = errors + 1)
    BY <1>0 DEF TypeOK, Next, recvUnicastIGMP, Stop, GetBuf, ReadFrom, ReadTimeout, ReadError, Undecodable,
       Decode, Send, Crash, OtherUse, OtherCrash, Store, Cancel, Arrive, vars
  <2> QED BY <2>1
<1>2. TranslatedSoFar
  BY <1>0, <1>1, TranslatesAllIs DEF TInv
<1>3. CASE ReadFrom
  <2> DEFINE p == Head(sock)
  <2>1. p \in Packet /\ pc = "read" /\ pc' = "decode" /\ pkt' = p /\ wire' = wire
        /\ received' = Append(received, p)
    BY <1>0, <1>3 DEF ReadFrom, TypeOK
  <2>2. /\ Reports(received) \in Seq(Packet)
        /\ Reports(received') = IF Translatable(p.type) THEN Append(Reports(received), p) ELSE Reports(received)
        /\ Reports(<<p>>) = IF Translatable(p.type) THEN <<p>> ELSE <<>>
    BY <1>0, <2>1, ReportsAppend
  <2>3. Pkts(wire) = Reports(received) /\ Pkts(wire') = Pkts(wire)
    BY <1>2, <2>1 DEF TranslatedSoFar
  <2>4. Reports(received) \o <<p>> = Append(Reports(received), p)
        /\ Reports(received) \o <<>> = Reports(received)
    BY <2>1, <2>2, AppendIsConcat, ConcatEmptySeq
  <2>5. Pkts(wire) \o Reports(<<p>>) = Reports(received')
    BY <2>2, <2>3, <2>4
  <2>6. (Pkts(wire) \o Reports(<<pkt>>) = Reports(received))'
    BY <2>1, <2>3, <2>5
  <2> HIDE DEF p
  <2> QED BY <2>1, <2>6 DEF TranslatedSoFar
<1>4. CASE Undecodable \/ (Decode /\ ~ Translatable(igmpType))
  <2>1. pc = "decode" /\ pc' = "top" /\ UNCHANGED <<wire, received>> /\ ~ Translatable(igmpType)
    BY <1>4 DEF Undecodable, Decode, Continue, Translatable
  <2>2. pkt \in Packet /\ ~ Translatable(pkt.type)
    BY <1>0, <1>1, <2>1, InHand
  <2>3. Reports(<<pkt>>) = <<>>
    BY <1>0, <2>2, ReportsAppend
  <2>4. Pkts(wire) \o <<>> = Pkts(wire)
    BY <1>0, PktsTyped, ConcatEmptySeq
  <2>5. Pkts(wire) = Reports(received)
    BY <1>2, <2>1, <2>3, <2>4 DEF TranslatedSoFar
  <2> QED BY <2>1, <2>5 DEF TranslatedSoFar
<1>5. CASE Send
  <2>1. /\ pc = "send" /\ pc' = "top" /\ received' = received
        /\ pkt \in Packet /\ data[buf][1] = pkt /\ Translatable(pkt.type)
    BY <1>0, <1>1, <1>5, InHand DEF Send, Continue, Translating
  <2> DEFINE e == [side |-> out, dst |-> destination(data[buf][1]), pkt |-> data[buf][1],
                   payload |-> data[buf], read |-> pkt]
  <2>2. wire' = Append(wire, e) /\ e.pkt = pkt
    BY <1>5, <2>1 DEF Send
  <2>3. e \in Entry
    <3>1. data[buf] \in Cells(Packet) /\ out \in {OUT, ALTOUT}
      BY <1>0, <2>1 DEF TypeOK, Holding
    <3> QED BY <2>1, <3>1, DestinationTyped DEF Entry
  <2> HIDE DEF e
  <2>4. Pkts(wire') = Append(Pkts(wire), pkt)
    BY <1>0, <2>2, <2>3, PktsAppend
  <2>5. Reports(<<pkt>>) = <<pkt>>
    BY <1>0, <2>1, ReportsAppend
  <2>6. Pkts(wire) \o <<pkt>> = Append(Pkts(wire), pkt)
    BY <1>0, <2>1, PktsTyped, AppendIsConcat
  <2>7. Pkts(wire') = Reports(received')
    BY <1>2, <2>1, <2>4, <2>5, <2>6 DEF TranslatedSoFar
  <2> QED BY <2>1, <2>7 DEF TranslatedSoFar
<1>6. CASE Decode /\ Translatable(igmpType)
  <2>1. pc = "decode" /\ pc' = "send" /\ UNCHANGED <<wire, received, pkt>>
    BY <1>6 DEF Decode
  <2> QED BY <1>2, <2>1 DEF TranslatedSoFar
<1>7. CASE Stop \/ GetBuf \/ ReadTimeout
  <2>1. pc \notin {"decode", "send"} /\ pc' \notin {"decode", "send"} /\ UNCHANGED <<wire, received>>
    BY <1>7 DEF Stop, GetBuf, ReadTimeout, Continue
  <2> QED BY <1>2, <2>1 DEF TranslatedSoFar
<1>8. CASE ReadError
  <2>1. errors' # 0
    BY <1>0, <1>8 DEF ReadError, TypeOK
  <2> QED BY <2>1
<1>9. CASE \/ Crash \/ OtherCrash \/ OtherUse \/ Store \/ Cancel
           \/ (\E p \in Unicast : Arrive(p)) \/ UNCHANGED vars
  <2>1. UNCHANGED <<pc, pkt, wire, received>>
    BY <1>9 DEF Crash, OtherCrash, OtherUse, Store, Cancel, Arrive, vars
  <2> QED BY <1>2, <2>1 DEF TranslatedSoFar
<1> QED BY <1>3, <1>4, <1>5, <1>6, <1>7, <1>8, <1>9 DEF Next, recvUnicastIGMP

\* Nothing is read and nothing sent.
LEMMA TranslatesInit == Init => TInv
<1> SUFFICES ASSUME Init PROVE TInv
    OBVIOUS
<1>1. IInv /\ Translating
  BY InitHolds DEF Init, Translating
<1>2. TranslatedSoFar
  <2>1. wire = <<>> /\ received = <<>> /\ pc = "top"
    BY DEF Init
  <2>2. Pkts(wire) = <<>> /\ Reports(received) = <<>>
    BY <2>1, ReportsAre, OnlyEmpty DEF Pkts
  <2> QED BY <2>1, <2>2 DEF TranslatedSoFar
<1> QED BY <1>1, <1>2, TranslatesAllIs DEF TInv

\* Until a read fails, the reports and leaves that recvUnicastIGMP has read are
\* those it has sent, in order and each once, but for the one in hand.
THEOREM TranslatesEverything == Spec => []TranslatesAll
<1>1. TInv /\ [Next]_vars => TInv'
  BY Inductive, TranslatingStep, TranslatesStep DEF TInv
<1>2. TInv => TranslatesAll
  BY DEF TInv
<1> QED BY <1>1, <1>2, TranslatesInit, PTL DEF Spec
=============================================================================
