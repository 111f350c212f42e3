--------------------------- MODULE SendersProofs ---------------------------
(***************************************************************************)
(* For any configuration, groups, batches, queriers and capacity: the      *)
(* types of Senders, the bounds of the three channels among them; and what *)
(* is submitted is sent, in order and once, which is also a refinement:    *)
(* the channels and workers implement Outbox.                              *)
(***************************************************************************)
EXTENDS SendersOrder, SequenceInduction

USE ConfAssumption, SizeAssumption, BatchAssumption

\* Every channel is empty at the start.
LEMMA SendersTypedInit == Init => TypeOK
<1> SUFFICES ASSUME Init PROVE TypeOK
    OBVIOUS
<1>1. \A c \in Channels : ToNetworkCh[c] = <<>> /\ Len(ToNetworkCh[c]) = 0
  BY DEF Init
<1>2. ToNetworkCh \in [Channels -> Seq(Seq(Group))]
  BY DEF Init
<1>3. \A c \in Channels : Len(ToNetworkCh[c]) <= ChannelSize
  BY <1>1
<1>4. /\ items \in [Workers -> Seq(Group)] /\ pc \in [Workers -> {"select", "send", "done"}]
      /\ querierSourceIP \in [Workers \cup {"recvIGMP"} -> Addr \cup {NoAddr}]
  BY DEF Init
<1>5. QueryNotifyCh \in 0 .. ChannelSize
  BY DEF Init
<1> QED BY <1>2, <1>3, <1>4, <1>5 DEF Init, TypeOK

\* A worker takes from a channel only what is in it, and sends what it took.
LEMMA WorkerTyped ==
  ASSUME TypeOK, NEW w \in Workers, worker(w)
  PROVE  TypeOK'
<1>1. CASE Receive(w)
  <2>1. w \in Channels /\ ToNetworkCh[w] \in Seq(Seq(Group)) /\ ToNetworkCh[w] # <<>>
    BY <1>1 DEF Receive, TypeOK
  <2>2. /\ Head(ToNetworkCh[w]) \in Seq(Group) /\ Tail(ToNetworkCh[w]) \in Seq(Seq(Group))
        /\ Len(Tail(ToNetworkCh[w])) <= Len(ToNetworkCh[w])
    BY <2>1
  <2>3. ToNetworkCh' \in [Channels -> Seq(Seq(Group))]
        /\ \A c \in Channels : Len(ToNetworkCh'[c]) <= ChannelSize
    <3>1. \A c \in Channels : ToNetworkCh'[c] = IF c = w THEN Tail(ToNetworkCh[w]) ELSE ToNetworkCh[c]
      BY <1>1, <2>1 DEF Receive, TypeOK
    <3>2. Len(ToNetworkCh[w]) \in Nat /\ Len(Tail(ToNetworkCh[w])) \in Nat
      BY <2>1, <2>2
    <3> QED BY <1>1, <2>1, <2>2, <3>1, <3>2 DEF Receive, TypeOK
  <2> QED BY <1>1, <2>2, <2>3 DEF Receive, TypeOK, app
<1>2. CASE ReceiveQuery(w)
  BY <1>2 DEF ReceiveQuery, TypeOK, app
<1>3. CASE Stop(w) \/ Crash(w) \/ Finish(w)
  BY <1>3 DEF Stop, Crash, Finish, TypeOK, app
<1>4. CASE SendItem(w)
  <2>1. Tail(items[w]) \in Seq(Group)
    BY <1>4 DEF SendItem, TypeOK
  <2> QED BY <1>4, <2>1 DEF SendItem, TypeOK, app
<1> QED BY <1>1, <1>2, <1>3, <1>4 DEF worker

\* A batch is sent on a channel only when there is room.
LEMMA SubmitTyped ==
  ASSUME TypeOK, NEW c \in Channels, NEW batch \in Seq(Group), Submit(c, batch)
  PROVE  TypeOK'
<1>1. ToNetworkCh[c] \in Seq(Seq(Group)) /\ Len(ToNetworkCh[c]) < ChannelSize
  BY DEF Submit, TypeOK
<1>2. /\ Append(ToNetworkCh[c], batch) \in Seq(Seq(Group))
      /\ Len(Append(ToNetworkCh[c], batch)) <= ChannelSize
  BY <1>1
<1>3. \A d \in Channels : ToNetworkCh'[d] = IF d = c THEN Append(ToNetworkCh[c], batch)
                                                     ELSE ToNetworkCh[d]
  BY DEF Submit, TypeOK
<1>4. ToNetworkCh' \in [Channels -> Seq(Seq(Group))]
  BY <1>2, <1>3 DEF Submit, TypeOK
<1> QED BY <1>2, <1>3, <1>4 DEF Submit, TypeOK, app

\* A query is handled or read, the context cancelled, or Run returns.
LEMMA OthersTyped ==
  ASSUME TypeOK, Return \/ Cancel \/ ReadQuery \/ (\E q \in Addr : HandleQuery(q))
  PROVE  TypeOK'
<1>1. ASSUME NEW q \in Addr, HandleQuery(q) PROVE TypeOK'
  <2>1. querierSourceIP' \in [Workers \cup {"recvIGMP"} -> Addr \cup {NoAddr}]
    BY <1>1 DEF HandleQuery, TypeOK
  <2>2. QueryNotifyCh' \in 0 .. ChannelSize
    BY <1>1 DEF HandleQuery, TypeOK
  <2> QED BY <1>1, <2>1, <2>2 DEF HandleQuery, TypeOK, app
<1>2. CASE Return \/ Cancel
  <2>1. ctxDone' \in BOOLEAN /\ crashed' \in BOOLEAN /\ returned' \in BOOLEAN
    BY <1>2, ZenonT(30) DEF Return, Cancel, TypeOK
  <2>2. UNCHANGED <<ToNetworkCh, QueryNotifyCh, pc, items, querierSourceIP>>
    BY <1>2 DEF Return, Cancel
  <2> QED BY <2>1, <2>2 DEF TypeOK
<1>3. CASE ReadQuery
  <2>1. QueryNotifyCh' \in 0 .. ChannelSize
    BY <1>3 DEF ReadQuery, TypeOK
  <2> QED BY <1>3, <2>1 DEF ReadQuery, TypeOK, app
<1> QED BY <1>1, <1>2, <1>3

\* Nothing of the library changes.
LEMMA UnchangedTyped == TypeOK /\ UNCHANGED vars => TypeOK'
BY DEF vars, app, TypeOK

\* Every step of the workers, the application and the queriers.
LEMMA SendersTypedStep == TypeOK /\ [HNext]_hvars => TypeOK'
<1> SUFFICES ASSUME TypeOK, [HNext]_hvars PROVE TypeOK'
    OBVIOUS
<1>1. ASSUME NEW w \in Workers, HWorker(w) PROVE TypeOK'
  BY <1>1, WorkerTyped DEF HWorker, HSend, worker
<1>2. ASSUME NEW c \in Channels, NEW batch \in Batches, HSubmit(c, batch) PROVE TypeOK'
  BY <1>2, SubmitTyped DEF HSubmit
<1>3. ASSUME NEW q \in Addr, HandleQuery(q) PROVE TypeOK'
  BY <1>3, OthersTyped
<1>4. CASE Return \/ ReadQuery \/ Cancel
  BY <1>4, OthersTyped
<1>5. CASE UNCHANGED hvars
  BY <1>5, UnchangedTyped DEF hvars
<1> QED BY <1>1, <1>2, <1>3, <1>4, <1>5 DEF HNext

\* The channels of the senders keep to their capacity, and what is taken from
\* them or sent by a worker is always what was put in: a list of groups.
THEOREM SendersTypeCorrect == HSpec => []TypeOK
<1>1. HInit => TypeOK
  BY SendersTypedInit DEF HInit
<1> QED BY <1>1, SendersTypedStep, PTL DEF HSpec

-----------------------------------------------------------------------------
(* What is submitted is sent in order: InOrder and Outbox *)

\* A worker between two batches has nothing left, and connectQueryToReport,
\* which passes a list it never assigns, never has anything.
Idle == \A w \in Workers : pc[w] # "send" \/ w \notin Channels => items[w] = <<>>

Packets ==
  [type : {"v2", "leave"}, group : Group, dst : Addr \cup {NoAddr, unicastDst, allRouters, IGMPHosts}]

HTyped ==
  /\ submitted \in [Channels -> Seq(Seq(Group))]
  /\ log \in [Workers -> Seq(Packets)]

OInv == TypeOK /\ Idle /\ HTyped

\* The packet for an item is of its group.
LEMMA PacketTyped ==
  ASSUME TypeOK, NEW w \in Workers, items[w] # <<>>
  PROVE  packet(w) \in Packets /\ packet(w).group = Head(items[w])
<1>1. Head(items[w]) \in Group
  BY DEF TypeOK
<1>2. destinationNetIP(w) \in Addr \cup {NoAddr, unicastDst}
  BY DEF destinationNetIP, TypeOK
<1> QED BY <1>1, <1>2 DEF packet, Packets

\* The groups of the packets sent, with one packet more.
LEMMA GroupsAppend ==
  ASSUME NEW s \in Seq(Packets), NEW e \in Packets
  PROVE  Groups(s) \in Seq(Group) /\ Groups(Append(s, e)) = Append(Groups(s), e.group)
<1>1. e.group \in Group /\ \A i \in DOMAIN s : s[i].group \in Group
  <2>1. \A i \in DOMAIN s : s[i] \in Packets
    OBVIOUS
  <2>2. \A r \in Packets : r.group \in Group
    BY DEF Packets
  <2> QED BY <2>1, <2>2
<1>2. Len(s) \in Nat /\ DOMAIN s = 1 .. Len(s) /\ DOMAIN Append(s, e) = 1 .. Len(s) + 1
  OBVIOUS
<1>3. Groups(s) \in Seq(Group) /\ Len(Groups(s)) = Len(s)
  BY <1>1, <1>2 DEF Groups
<1>4. /\ \A i \in 1 .. Len(s) : Append(s, e)[i] = s[i]
      /\ Append(s, e)[Len(s) + 1] = e
  OBVIOUS
<1>5. Groups(Append(s, e)) \in Seq(Group) /\ Len(Groups(Append(s, e))) = Len(s) + 1
  BY <1>1, <1>2, <1>4 DEF Groups
<1>6. Append(Groups(s), e.group) \in Seq(Group) /\ Len(Append(Groups(s), e.group)) = Len(s) + 1
  BY <1>1, <1>3
<1>7. \A i \in 1 .. Len(s) + 1 : Groups(Append(s, e))[i] = Append(Groups(s), e.group)[i]
  BY <1>1, <1>2, <1>3, <1>4 DEF Groups
<1> QED BY <1>3, <1>5, <1>6, <1>7, SeqEqual

\* Nothing is submitted or sent at the start.
LEMMA OInit == HInit => OInv /\ InOrder /\ Out!Init
<1> SUFFICES ASSUME HInit PROVE OInv /\ InOrder /\ Out!Init
    OBVIOUS
<1>1. TypeOK
  BY SendersTypedInit DEF HInit
<1>2. Idle /\ HTyped
  BY DEF HInit, Init, Idle, HTyped
<1>3. \A w \in Workers : Groups(log[w]) = <<>> /\ items[w] = <<>>
  BY DEF HInit, Init, Groups
<1>4. \A c \in Channels : FlattenSeq(ToNetworkCh[c]) = <<>> /\ FlattenSeq(submitted[c]) = <<>>
  BY FlattenEmpty DEF HInit, Init
<1>5. <<>> \o <<>> = <<>>
  <2>1. <<>> \in Seq(Group)
    OBVIOUS
  <2> QED BY ONLY <2>1, ConcatEmptySeq
<1>6. InOrder
  BY <1>3, <1>4, <1>5 DEF InOrder
<1>7. Out!Init
  BY <1>3, <1>4, <1>5 DEF Out!Init, Left, SentOf
<1> QED BY <1>1, <1>2, <1>6, <1>7 DEF OInv

\* The types of the history, and who has items left.
LEMMA OStep == OInv /\ [HNext]_hvars => OInv'
<1> SUFFICES ASSUME OInv, [HNext]_hvars PROVE Idle' /\ HTyped'
    BY SendersTypedStep DEF OInv
<1>0. TypeOK /\ Idle /\ HTyped /\ items \in [Workers -> Seq(Group)] /\ pc \in [Workers -> {"select", "send", "done"}]
  BY DEF OInv, TypeOK
<1>1. ASSUME NEW w \in Workers, HSend(w) PROVE Idle' /\ HTyped'
  <2>1. log[w] \in Seq(Packets) /\ packet(w) \in Packets
    BY <1>0, <1>1, PacketTyped DEF HSend, SendItem, HTyped
  <2>2. Append(log[w], packet(w)) \in Seq(Packets)
    BY <2>1
  <2>3. HTyped'
    BY <1>0, <1>1, <2>2 DEF HSend, HTyped
  <2>4. Idle'
    BY <1>0, <1>1 DEF HSend, SendItem, Idle
  <2> QED BY <2>3, <2>4
<1>2. ASSUME NEW w \in Workers, Receive(w) \/ ReceiveQuery(w) \/ Stop(w) \/ Finish(w), UNCHANGED history
      PROVE  Idle' /\ HTyped'
  <2>1. Idle'
    BY <1>0, <1>2 DEF Receive, ReceiveQuery, Stop, Finish, Idle
  <2> QED BY <1>0, <1>2, <2>1 DEF HTyped, history
<1>3. ASSUME NEW c \in Channels, NEW batch \in Batches, HSubmit(c, batch) PROVE Idle' /\ HTyped'
  <2>1. Append(submitted[c], batch) \in Seq(Seq(Group))
    BY <1>0 DEF HTyped
  <2> QED BY <1>0, <1>3, <2>1 DEF HSubmit, Submit, HTyped, Idle
<1>4. CASE UNCHANGED <<pc, items, history>>
  BY <1>0, <1>4 DEF Idle, HTyped, history
<1>5. ASSUME NEW w \in Workers, Crash(w), UNCHANGED history PROVE UNCHANGED <<pc, items, history>>
  BY <1>5 DEF Crash
<1>6. ASSUME NEW q \in Addr, HandleQuery(q), UNCHANGED history PROVE UNCHANGED <<pc, items, history>>
  BY <1>6 DEF HandleQuery
<1>7. ASSUME Return \/ ReadQuery \/ Cancel, UNCHANGED history PROVE UNCHANGED <<pc, items, history>>
  BY <1>7 DEF Return, ReadQuery, Cancel
<1>8. CASE UNCHANGED hvars
  BY <1>4, <1>8 DEF hvars, vars, history
<1> QED BY <1>1, <1>2, <1>3, <1>4, <1>5, <1>6, <1>7, <1>8 DEF HNext, HWorker

\* All the parts are sequences of groups.
LEMMA PartsTyped ==
  OInv => /\ \A c \in Channels : /\ FlattenSeq(ToNetworkCh[c]) \in Seq(Group)
                                 /\ FlattenSeq(submitted[c]) \in Seq(Group)
                                 /\ Left(c) \in Seq(Group)
          /\ \A w \in Workers : items[w] \in Seq(Group) /\ Groups(log[w]) \in Seq(Group)
<1> SUFFICES ASSUME OInv
             PROVE  /\ \A c \in Channels : /\ FlattenSeq(ToNetworkCh[c]) \in Seq(Group)
                                           /\ FlattenSeq(submitted[c]) \in Seq(Group)
                                           /\ Left(c) \in Seq(Group)
                    /\ \A w \in Workers : items[w] \in Seq(Group) /\ Groups(log[w]) \in Seq(Group)
    OBVIOUS
<1>1. \A s \in Seq(Seq(Group)) : FlattenSeq(s) \in Seq(Group)
  BY ONLY FlattenTyped
<1>2. ASSUME NEW c \in Channels
      PROVE  ToNetworkCh[c] \in Seq(Seq(Group)) /\ submitted[c] \in Seq(Seq(Group))
  BY DEF OInv, TypeOK, HTyped
<1>3. ASSUME NEW w \in Workers PROVE items[w] \in Seq(Group) /\ log[w] \in Seq(Packets)
  BY DEF OInv, TypeOK, HTyped
<1>4. \A s \in Seq(Packets) : Groups(s) \in Seq(Group)
  <2>1. \A s \in Seq(Packets) : \A i \in DOMAIN s : s[i] \in Packets
    OBVIOUS
  <2>2. \A r \in Packets : r.group \in Group
    BY DEF Packets
  <2> QED BY <2>1, <2>2 DEF Groups
<1>5. ASSUME NEW c \in Channels PROVE Left(c) \in Seq(Group)
  <2>1. FlattenSeq(ToNetworkCh[c]) \in Seq(Group)
    BY <1>1, <1>2
  <2>2. (IF c \in Workers THEN items[c] ELSE <<>>) \in Seq(Group)
    BY <1>3
  <2> QED BY <2>1, <2>2, ConcatProperties DEF Left
<1> QED BY <1>1, <1>2, <1>3, <1>4, <1>5

\* The next group of a kind is sent.
LEMMA SendOrder ==
  ASSUME OInv, InOrder, NEW w \in Workers, HSend(w)
  PROVE  InOrder' /\ Out!Next
<1>1. /\ pc[w] = "send" /\ items[w] # <<>> /\ items' = [items EXCEPT ![w] = Tail(items[w])]
      /\ log' = [log EXCEPT ![w] = Append(log[w], packet(w))]
      /\ UNCHANGED <<ToNetworkCh, submitted>>
  BY DEF HSend, SendItem
<1>2. w \in Channels
  BY <1>1 DEF OInv, Idle
<1> DEFINE f == FlattenSeq(ToNetworkCh[w])
           g == Groups(log[w])
           i == items[w]
<1>3. f \in Seq(Group) /\ g \in Seq(Group) /\ i \in Seq(Group)
  BY <1>2, PartsTyped
<1>4. Groups(log'[w]) = Append(g, Head(i))
  <2>1. packet(w) \in Packets /\ packet(w).group = Head(items[w]) /\ log[w] \in Seq(Packets)
    BY <1>1, PacketTyped DEF OInv, HTyped
  <2>2. log'[w] = Append(log[w], packet(w))
    BY <1>1 DEF OInv, HTyped
  <2> QED BY <2>1, <2>2, GroupsAppend
<1>5. items'[w] = Tail(i)
  BY <1>1 DEF OInv, TypeOK
<1>6. \A v \in Workers : v # w => items'[v] = items[v] /\ log'[v] = log[v]
  BY <1>1 DEF OInv, TypeOK, HTyped
<1>7. /\ (Append(g, Head(i)) \o Tail(i)) \o f = (g \o i) \o f
      /\ i \o f # <<>> /\ Head(i \o f) = Head(i) /\ Tail(i \o f) = Tail(i) \o f
  <2>1. i # <<>>
    BY <1>1
  <2> HIDE DEF f, g, i
  <2>2. \A x, y, z \in Seq(Group) :
          y # <<>> => /\ (Append(x, Head(y)) \o Tail(y)) \o z = (x \o y) \o z
                      /\ y \o z # <<>> /\ Head(y \o z) = Head(y) /\ Tail(y \o z) = Tail(y) \o z
    BY ONLY QueueParts
  <2> QED BY ONLY <1>3, <2>1, <2>2
<1>8. InOrder'
  <2> SUFFICES ASSUME NEW v \in Workers \cap Channels
               PROVE  Groups(log'[v]) \o items'[v] \o FlattenSeq(ToNetworkCh'[v]) = FlattenSeq(submitted'[v])
      BY DEF InOrder
  <2>1. Groups(log[v]) \o items[v] \o FlattenSeq(ToNetworkCh[v]) = FlattenSeq(submitted[v])
    BY DEF InOrder
  <2>2. CASE v = w
    <3>1. Groups(log'[v]) \o items'[v] \o FlattenSeq(ToNetworkCh'[v]) = (Append(g, Head(i)) \o Tail(i)) \o f
      BY <1>1, <1>4, <1>5, <2>2
    <3> QED BY <1>1, <1>7, <2>1, <2>2, <3>1
  <2>3. CASE v # w
    BY <1>1, <1>6, <2>1, <2>3
  <2> QED BY <2>2, <2>3
<1>9. Out!SendNext(w)
  <2>1. Left(w) = i \o f /\ SentOf(w) = g
    BY DEF Left, SentOf
  <2>2. Left(w)' = Tail(i) \o f /\ SentOf(w)' = Append(g, Head(i))
    BY <1>1, <1>4, <1>5 DEF Left, SentOf
  <2>3. \A c \in Channels : c # w => Left(c)' = Left(c) /\ SentOf(c)' = SentOf(c)
    <3> SUFFICES ASSUME NEW c \in Channels, c # w
                 PROVE  Left(c)' = Left(c) /\ SentOf(c)' = SentOf(c)
        OBVIOUS
    <3> HIDE DEF f, g, i
    <3>1. CASE c \in Workers
      <4>1. items'[c] = items[c] /\ log'[c] = log[c] /\ ToNetworkCh'[c] = ToNetworkCh[c]
        BY <1>1, <1>6, <3>1
      <4> QED BY <3>1, <4>1 DEF Left, SentOf
    <3>2. CASE c \notin Workers
      BY <1>1, <3>2 DEF Left, SentOf
    <3> QED BY <3>1, <3>2
  <2> HIDE DEF f, g, i
  <2>4. Left(w) # <<>> /\ Left(w)' = Tail(Left(w)) /\ SentOf(w)' = Append(SentOf(w), Head(Left(w)))
    BY <1>7, <2>1, <2>2
  <2>5. /\ [c \in Channels |-> SentOf(c)]' =
             [[c \in Channels |-> SentOf(c)] EXCEPT ![w] = Append(SentOf(w), Head(Left(w)))]
        /\ [c \in Channels |-> Left(c)]' = [[c \in Channels |-> Left(c)] EXCEPT ![w] = Tail(Left(w))]
    BY <2>3, <2>4
  <2> QED BY <1>2, <2>4, <2>5 DEF Out!SendNext
<1> QED BY <1>2, <1>8, <1>9 DEF Out!Next

\* A worker takes the oldest batch of its channel, when it has sent the last one.
LEMMA ReceiveOrder ==
  ASSUME OInv, InOrder, NEW w \in Workers, Receive(w), UNCHANGED history
  PROVE  InOrder' /\ UNCHANGED Out!vars
<1>1. /\ w \in Channels /\ items[w] = <<>> /\ ToNetworkCh[w] # <<>>
      /\ ToNetworkCh[w] \in Seq(Seq(Group)) /\ UNCHANGED <<log, submitted>>
  BY DEF Receive, OInv, Idle, TypeOK, history
<1> DEFINE h == Head(ToNetworkCh[w])
           f == FlattenSeq(Tail(ToNetworkCh[w]))
           g == Groups(log[w])
<1>2. h \in Seq(Group) /\ f \in Seq(Group) /\ g \in Seq(Group)
  <2>1. Head(ToNetworkCh[w]) \in Seq(Group) /\ Tail(ToNetworkCh[w]) \in Seq(Seq(Group))
    BY <1>1
  <2> QED BY <2>1, FlattenTyped, PartsTyped
<1>3. FlattenSeq(ToNetworkCh[w]) = h \o f
  BY <1>1, FlattenHead
<1>4. items'[w] = h /\ FlattenSeq(ToNetworkCh'[w]) = f
  BY <1>1 DEF Receive, OInv, TypeOK
<1>5. /\ \A v \in Workers : v # w => items'[v] = items[v]
      /\ \A c \in Channels : c # w => ToNetworkCh'[c] = ToNetworkCh[c]
  BY DEF Receive, OInv, TypeOK
<1>6. (g \o h) \o f = (g \o <<>>) \o (h \o f) /\ <<>> \o (h \o f) = h \o f
  <2> HIDE DEF g, h, f
  <2>1. g \o <<>> = g
    BY <1>2, ConcatEmptySeq
  <2>2. (g \o h) \o f = g \o (h \o f)
    BY <1>2, ConcatAssociative
  <2>3. h \o f \in Seq(Group)
    BY <1>2, ConcatProperties
  <2>4. <<>> \o (h \o f) = h \o f
    BY <2>3, ConcatEmptySeq
  <2> QED BY <2>1, <2>2, <2>4, Zenon
<1>7. InOrder'
  <2> SUFFICES ASSUME NEW v \in Workers \cap Channels
               PROVE  Groups(log'[v]) \o items'[v] \o FlattenSeq(ToNetworkCh'[v]) = FlattenSeq(submitted'[v])
      BY DEF InOrder
  <2>1. Groups(log[v]) \o items[v] \o FlattenSeq(ToNetworkCh[v]) = FlattenSeq(submitted[v])
    BY DEF InOrder
  <2>2. CASE v = w
    <3>1. (g \o <<>>) \o (h \o f) = FlattenSeq(submitted[v])
      BY <1>1, <1>3, <2>1, <2>2
    <3> QED BY <1>1, <1>4, <1>6, <2>2, <3>1
  <2>3. CASE v # w
    BY <1>1, <1>5, <2>1, <2>3
  <2> QED BY <2>2, <2>3
<1>8. \A c \in Channels : Left(c)' = Left(c) /\ SentOf(c)' = SentOf(c)
  <2> SUFFICES ASSUME NEW c \in Channels PROVE Left(c)' = Left(c) /\ SentOf(c)' = SentOf(c)
      OBVIOUS
  <2>1. CASE c = w
    <3>1. Left(w)' = h \o f
      BY <1>4 DEF Left
    <3>2. Left(w) = <<>> \o (h \o f)
      BY <1>1, <1>3 DEF Left
    <3> QED BY <1>1, <1>6, <2>1, <3>1, <3>2 DEF SentOf
  <2>2. CASE c # w /\ c \in Workers
    BY <1>1, <1>5, <2>2 DEF Left, SentOf
  <2>3. CASE c # w /\ c \notin Workers
    BY <1>1, <1>5, <2>3 DEF Left, SentOf
  <2> QED BY <2>1, <2>2, <2>3
<1> QED BY <1>7, <1>8 DEF Out!vars

\* A batch joins its kind at the end.
LEMMA SubmitOrder ==
  ASSUME OInv, InOrder, NEW c \in Channels, NEW batch \in Batches, HSubmit(c, batch)
  PROVE  InOrder' /\ Out!Next
<1>1. /\ ToNetworkCh' = [ToNetworkCh EXCEPT ![c] = Append(ToNetworkCh[c], batch)]
      /\ submitted' = [submitted EXCEPT ![c] = Append(submitted[c], batch)]
      /\ UNCHANGED <<items, log>>
  BY DEF HSubmit, Submit
<1>2. /\ ToNetworkCh[c] \in Seq(Seq(Group)) /\ submitted[c] \in Seq(Seq(Group))
      /\ batch \in Seq(Group)
  BY DEF OInv, TypeOK, HTyped
<1>3. /\ ToNetworkCh'[c] = Append(ToNetworkCh[c], batch) /\ submitted'[c] = Append(submitted[c], batch)
      /\ \A d \in Channels : d # c => ToNetworkCh'[d] = ToNetworkCh[d] /\ submitted'[d] = submitted[d]
  BY <1>1 DEF OInv, TypeOK, HTyped
<1> DEFINE f == FlattenSeq(ToNetworkCh[c])
           u == FlattenSeq(submitted[c])
<1>4. FlattenSeq(ToNetworkCh'[c]) = f \o batch /\ FlattenSeq(submitted'[c]) = u \o batch
  BY <1>2, <1>3, FlattenAppend
<1>5. f \in Seq(Group) /\ u \in Seq(Group)
  BY PartsTyped
<1>6. \A g, i \in Seq(Group) : /\ (g \o i) \o (f \o batch) = ((g \o i) \o f) \o batch
                              /\ i \o (f \o batch) = (i \o f) \o batch
  <2> HIDE DEF f, u
  <2>1. \A x, y, z \in Seq(Group) : (x \o y) \o z = x \o (y \o z)
    BY ONLY ConcatAssociative
  <2>2. \A x, y \in Seq(Group) : x \o y \in Seq(Group)
    BY ONLY ConcatProperties
  <2> SUFFICES ASSUME NEW g \in Seq(Group), NEW i \in Seq(Group)
               PROVE  /\ (g \o i) \o (f \o batch) = ((g \o i) \o f) \o batch
                      /\ i \o (f \o batch) = (i \o f) \o batch
      OBVIOUS
  <2>3. f \in Seq(Group) /\ batch \in Seq(Group) /\ g \o i \in Seq(Group)
    BY <1>2, <1>5, <2>2
  <2> QED BY ONLY <2>1, <2>3, Zenon
<1>7. InOrder'
  <2> SUFFICES ASSUME NEW v \in Workers \cap Channels
               PROVE  Groups(log'[v]) \o items'[v] \o FlattenSeq(ToNetworkCh'[v]) = FlattenSeq(submitted'[v])
      BY DEF InOrder
  <2>1. Groups(log[v]) \o items[v] \o FlattenSeq(ToNetworkCh[v]) = FlattenSeq(submitted[v])
    BY DEF InOrder
  <2>2. CASE v = c
    <3>1. Groups(log[v]) \in Seq(Group) /\ items[v] \in Seq(Group)
      BY PartsTyped
    <3>2. (Groups(log[v]) \o items[v]) \o f = u
      BY <2>1, <2>2
    <3>3. (Groups(log[v]) \o items[v]) \o (f \o batch) = u \o batch
      <4> HIDE DEF f, u
      <4> QED BY <1>6, <3>1, <3>2, Zenon
    <3> QED BY <1>1, <1>4, <2>2, <3>3
  <2>3. CASE v # c
    BY <1>1, <1>3, <2>1, <2>3
  <2> QED BY <2>2, <2>3
<1>8. Out!Accept(c, batch)
  <2> DEFINE i == IF c \in Workers THEN items[c] ELSE <<>>
  <2>1. i \in Seq(Group)
    BY PartsTyped
  <2>2. Left(c) = i \o f /\ Left(c)' = i \o (f \o batch)
    BY <1>1, <1>4 DEF Left
  <2>3. Left(c)' = Left(c) \o batch
    <3> HIDE DEF f, i
    <3> QED BY <1>6, <2>1, <2>2, Zenon
  <2>4. \A d \in Channels : SentOf(d)' = SentOf(d) /\ (d # c => Left(d)' = Left(d))
    BY <1>1, <1>3 DEF Left, SentOf
  <2>5. /\ [d \in Channels |-> Left(d)]' = [[d \in Channels |-> Left(d)] EXCEPT ![c] = Left(c) \o batch]
        /\ [d \in Channels |-> SentOf(d)]' = [d \in Channels |-> SentOf(d)]
    BY <2>3, <2>4
  <2> QED BY <2>5 DEF Out!Accept
<1> QED BY <1>7, <1>8 DEF Out!Next

\* The steps that touch no group.
LEMMA OtherOrder ==
  ASSUME InOrder, UNCHANGED <<ToNetworkCh, items, history>>
  PROVE  InOrder' /\ UNCHANGED Out!vars
<1>1. \A w \in Workers \cap Channels :
        Groups(log'[w]) \o items'[w] \o FlattenSeq(ToNetworkCh'[w]) = FlattenSeq(submitted'[w])
  BY DEF InOrder, history
<1>2. \A c \in Channels : Left(c)' = Left(c) /\ SentOf(c)' = SentOf(c)
  BY DEF Left, SentOf, history
<1> QED BY <1>1, <1>2 DEF InOrder, Out!vars

\* Every step keeps the order, and is a step of Outbox or none.
LEMMA OrderStep == OInv /\ InOrder /\ [HNext]_hvars => InOrder' /\ [Out!Next]_Out!vars
<1> SUFFICES ASSUME OInv, InOrder, [HNext]_hvars PROVE InOrder' /\ [Out!Next]_Out!vars
    OBVIOUS
<1>1. ASSUME NEW w \in Workers, HSend(w) PROVE InOrder' /\ Out!Next
  BY <1>1, SendOrder
<1>2. ASSUME NEW w \in Workers, Receive(w), UNCHANGED history PROVE InOrder' /\ UNCHANGED Out!vars
  BY <1>2, ReceiveOrder
<1>3. ASSUME NEW c \in Channels, NEW batch \in Batches, HSubmit(c, batch) PROVE InOrder' /\ Out!Next
  BY <1>3, SubmitOrder
<1>4. ASSUME NEW w \in Workers, ReceiveQuery(w), UNCHANGED history PROVE InOrder' /\ UNCHANGED Out!vars
  <2>1. items[w] = <<>> /\ items \in [Workers -> Seq(Group)]
    BY <1>4 DEF ReceiveQuery, OInv, Idle, TypeOK
  <2>2. items' = items /\ ToNetworkCh' = ToNetworkCh
    BY <1>4, <2>1 DEF ReceiveQuery
  <2> QED BY <1>4, <2>2, OtherOrder
<1>5. ASSUME NEW w \in Workers, Stop(w) \/ Crash(w) \/ Finish(w), UNCHANGED history
      PROVE  InOrder' /\ UNCHANGED Out!vars
  BY <1>5, OtherOrder DEF Stop, Crash, Finish
<1>6. ASSUME NEW q \in Addr, HandleQuery(q), UNCHANGED history PROVE InOrder' /\ UNCHANGED Out!vars
  BY <1>6, OtherOrder DEF HandleQuery
<1>7. ASSUME Return \/ ReadQuery \/ Cancel, UNCHANGED history PROVE InOrder' /\ UNCHANGED Out!vars
  BY <1>7, OtherOrder DEF Return, ReadQuery, Cancel
<1>8. CASE UNCHANGED hvars
  BY <1>8, OtherOrder DEF hvars, vars, history
<1> QED BY <1>1, <1>2, <1>3, <1>4, <1>5, <1>6, <1>7, <1>8 DEF HNext, HWorker

\* Nothing submitted is lost, repeated or reordered within its kind, whatever
\* the batches, the capacity and the failures are.
THEOREM SentInOrder == HSpec => []InOrder
BY OInit, OStep, OrderStep, PTL DEF HSpec

\* The senders implement Outbox: a queue for each kind, from which groups go
\* one at a time and nothing else is taken, not even by a cancel or a crash.
THEOREM SendersImplementOutbox == HSpec => ImplementsOutbox
BY OInit, OStep, OrderStep, PTL DEF HSpec, ImplementsOutbox, Out!Spec
=============================================================================
