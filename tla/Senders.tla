------------------------------ MODULE Senders ------------------------------
(***************************************************************************)
(* What goIGMP sends for the application: the goroutines                   *)
(* readMembershipReportToNetworkCh, leaveToNetworkWorker and               *)
(* connectQueryToReport, the channels they read, and the destination they  *)
(* send to.  Reports and leaves take separate channels and goroutines.     *)
(***************************************************************************)
EXTENDS Config

CONSTANTS
  conf,             \* the configuration, a member of Config
  Group,            \* multicast groups, what a MembershipItem is reduced to
  ChannelSize,      \* capacity of every channel
  Addr, NoAddr,     \* addresses of queriers, and the zero netip.Addr
  unicastDst,       \* the parsed Config.UnicastDst
  writeMayFail      \* whether a socket write can return an error

allRouters == "allRouters"
IGMPHosts  == "IGMPHosts"

\* The workers, named for what they are given to send.
Workers == (IF conf.MembershipReportsToNetwork THEN {"report"} ELSE {})
           \cup (IF conf.LeaveToNetwork THEN {"leave"} ELSE {})
           \cup (IF conf.ConnectQueryToReport THEN {"query"} ELSE {})

ASSUME ConfAssumption == conf \in Config
ASSUME SizeAssumption == ChannelSize \in Nat \ {0} /\ writeMayFail \in BOOLEAN
ASSUME AddrAssumption == NoAddr \notin Addr /\ unicastDst \notin {NoAddr, allRouters, IGMPHosts}

VARIABLES
  ctxDone, crashed, returned,   \* as in Receiver
  ToNetworkCh,      \* "report": MembershipReportToNetworkCh, "leave": LeaveToNetworkCh
  QueryNotifyCh,    \* the number of tokens in it
  pc,               \* of each worker: "select", "send" or "done"
  items,            \* of each worker: the groups of the batch not sent yet
  querierSourceIP   \* of each goroutine's own copy of the IGMPReporter

app  == <<ctxDone, crashed, returned>>
vars == <<app, ToNetworkCh, QueryNotifyCh, pc, items, querierSourceIP>>

\* The channels a goroutine of the application sends on.  LeaveToNetworkCh is
\* nil unless LeaveToNetwork is set; nobody reads the other one unless
\* MembershipReportsToNetwork is set, but it exists.
Channels == {"report"} \cup (IF conf.LeaveToNetwork THEN {"leave"} ELSE {})

TypeOK ==
  /\ ctxDone \in BOOLEAN /\ crashed \in BOOLEAN /\ returned \in BOOLEAN
  /\ ToNetworkCh \in [Channels -> Seq(Seq(Group))]
  /\ \A c \in Channels : Len(ToNetworkCh[c]) <= ChannelSize
  /\ QueryNotifyCh \in 0 .. ChannelSize
  /\ pc \in [Workers -> {"select", "send", "done"}]
  /\ items \in [Workers -> Seq(Group)]
  /\ querierSourceIP \in [Workers \cup {"recvIGMP"} -> Addr \cup {NoAddr}]

Init ==
  /\ ctxDone = FALSE /\ crashed = FALSE /\ returned = FALSE
  /\ ToNetworkCh = [c \in Channels |-> <<>>]
  /\ QueryNotifyCh = 0
  /\ pc = [w \in Workers |-> "select"]
  /\ items = [w \in Workers |-> <<>>]
  /\ querierSourceIP = [x \in Workers \cup {"recvIGMP"} |-> NoAddr]

-----------------------------------------------------------------------------
(* Steps of the workers *)

\* The two cases of the select; when both are ready either may be taken.
Receive(w) ==
  /\ pc[w] = "select" /\ w \in Channels /\ ToNetworkCh[w] # <<>>
  /\ items' = [items EXCEPT ![w] = Head(ToNetworkCh[w])]
  /\ ToNetworkCh' = [ToNetworkCh EXCEPT ![w] = Tail(@)]
  /\ pc' = [pc EXCEPT ![w] = "send"]
  /\ UNCHANGED <<app, QueryNotifyCh, querierSourceIP>>

\* connectQueryToReport passes mi, which is declared and never assigned.
ReceiveQuery(w) ==
  /\ pc[w] = "select" /\ w = "query" /\ QueryNotifyCh > 0
  /\ QueryNotifyCh' = QueryNotifyCh - 1
  /\ items' = [items EXCEPT ![w] = <<>>]
  /\ pc' = [pc EXCEPT ![w] = "send"]
  /\ UNCHANGED <<app, ToNetworkCh, querierSourceIP>>

\* Mutant: the select has no case for the context.
StopNever(w) == FALSE /\ UNCHANGED vars

Stop(w) ==
  /\ pc[w] = "select" /\ ctxDone
  /\ pc' = [pc EXCEPT ![w] = "done"]
  /\ UNCHANGED <<app, ToNetworkCh, QueryNotifyCh, items, querierSourceIP>>

destinationNetIP(w) ==
  IF querierSourceIP[w] = NoAddr THEN unicastDst ELSE querierSourceIP[w]

\* The packet built for the next item: a V2 report or a leave.
packet(w) ==
  [type  |-> IF w = "leave" THEN "leave" ELSE "v2",
   group |-> Head(items[w]),
   dst   |-> IF conf.UnicastMembershipReports THEN destinationNetIP(w)
             ELSE IF w = "leave" THEN allRouters ELSE IGMPHosts]

\* One iteration of the loop over the items: packet(w) goes out on OUT.
SendItem(w) ==
  /\ pc[w] = "send" /\ items[w] # <<>> /\ OUT \in RawSides(conf)
  /\ items' = [items EXCEPT ![w] = Tail(@)]
  /\ UNCHANGED <<app, ToNetworkCh, QueryNotifyCh, pc, querierSourceIP>>

\* Mutant: a failed write is logged and the loop goes on with the next item.
CrashNot(w) ==
  /\ pc[w] = "send" /\ items[w] # <<>> /\ (OUT \notin RawSides(conf) \/ writeMayFail)
  /\ items' = [items EXCEPT ![w] = Tail(@)]
  /\ UNCHANGED <<app, ToNetworkCh, QueryNotifyCh, pc, querierSourceIP>>

\* conRaw[OUT] is nil, the group is no valid address, or the write fails: log.Fatal.
Crash(w) ==
  /\ pc[w] = "send" /\ items[w] # <<>> /\ (OUT \notin RawSides(conf) \/ writeMayFail)
  /\ crashed' = TRUE
  /\ UNCHANGED <<ctxDone, returned, ToNetworkCh, QueryNotifyCh, pc, items, querierSourceIP>>

\* Mutant: the loop ends after the first item.
FinishEarly(w) ==
  /\ pc[w] = "send"
  /\ pc' = [pc EXCEPT ![w] = "select"]
  /\ items' = [items EXCEPT ![w] = <<>>]
  /\ UNCHANGED <<app, ToNetworkCh, QueryNotifyCh, querierSourceIP>>

\* Mutant: the worker leaves its outer loop as well.
FinishStops(w) ==
  /\ pc[w] = "send" /\ items[w] = <<>>
  /\ pc' = [pc EXCEPT ![w] = "done"]
  /\ UNCHANGED <<app, ToNetworkCh, QueryNotifyCh, items, querierSourceIP>>

Finish(w) ==
  /\ pc[w] = "send" /\ items[w] = <<>>
  /\ pc' = [pc EXCEPT ![w] = "select"]
  /\ UNCHANGED <<app, ToNetworkCh, QueryNotifyCh, items, querierSourceIP>>

worker(w) ==
  Receive(w) \/ ReceiveQuery(w) \/ Stop(w) \/ SendItem(w) \/ Crash(w) \/ Finish(w)

\* WG.Wait in Run also waits for the receivers, which end only after a cancel;
\* that they do is a property of Receiver.
Return ==
  /\ ~ returned /\ ctxDone /\ \A w \in Workers : pc[w] = "done"
  /\ returned' = TRUE
  /\ UNCHANGED <<ctxDone, crashed, ToNetworkCh, QueryNotifyCh, pc, items, querierSourceIP>>

-----------------------------------------------------------------------------
(* Steps of the other goroutines that matter here *)

\* Mutant: a capacity off by one.
HandleQueryBeyond(q) ==
  /\ conf.QueryNotify
  /\ QueryNotifyCh' = IF QueryNotifyCh <= ChannelSize THEN QueryNotifyCh + 1 ELSE QueryNotifyCh
  /\ querierSourceIP' = [querierSourceIP EXCEPT !["recvIGMP"] = q]
  /\ UNCHANGED <<app, ToNetworkCh, pc, items>>

\* recvIGMP handles a query from q: it notifies without blocking, and sets the
\* source in its own copy of the IGMPReporter, which is a value receiver.
HandleQuery(q) ==
  /\ conf.QueryNotify
  /\ QueryNotifyCh' = IF QueryNotifyCh < ChannelSize THEN QueryNotifyCh + 1 ELSE QueryNotifyCh
  /\ querierSourceIP' = [querierSourceIP EXCEPT !["recvIGMP"] = q]
  /\ UNCHANGED <<app, ToNetworkCh, pc, items>>

\* The application sends a batch; it waits while the channel is full.
Submit(c, batch) ==
  /\ Len(ToNetworkCh[c]) < ChannelSize
  /\ ToNetworkCh' = [ToNetworkCh EXCEPT ![c] = Append(@, batch)]
  /\ UNCHANGED <<app, QueryNotifyCh, pc, items, querierSourceIP>>

\* The application reads QueryNotifyCh, as connectQueryToReport may too.
ReadQuery ==
  /\ QueryNotifyCh > 0
  /\ QueryNotifyCh' = QueryNotifyCh - 1
  /\ UNCHANGED <<app, ToNetworkCh, pc, items, querierSourceIP>>

Cancel ==
  /\ ~ ctxDone
  /\ ctxDone' = TRUE
  /\ UNCHANGED <<crashed, returned, ToNetworkCh, QueryNotifyCh, pc, items, querierSourceIP>>
=============================================================================
