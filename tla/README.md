# A verification of goIGMP

goIGMP is an IGMP proxy. It listens for IGMP with raw sockets, one per interface
and multicast group, relays what it hears between an inside and an outside
interface, tells an application about queries and membership reports, and sends
reports and leaves for it. This directory holds a TLA+ model of it, the TLC
configurations that check the model on small instances, and theorems about it
that TLAPS checks. Paths below are relative to the root of the repository.

## 1. Inventory

| component | source | state | operations |
|---|---|---|---|
| configuration and derived tables | `goIGMP.go:78-120,247-324` | `conf`, `Interfaces`, `OutsideInterfaces`, `NetIFIndex`, `IntOutName` | filled once by `NewIGMPReporter`; only `IntOutName` changes later |
| constructor and `Run` | `goIGMP.go:182-473`, `goIGMP_socket.go` | `uCon`, `mConIGMP[side][group]`, `conRaw[side]`, the wait group | opens sockets in overlapping blocks, starts goroutines |
| `recvIGMP` receivers | `goIGMP_recv.go`, `goIGMP_proxy.go:10-34` | per goroutine: a buffer, a packet, the chosen side | read with deadline, filter, decode, notify, relay |
| buffer pool | `goIGMP_recv.go:16-23` | `bytePool` (a `sync.Pool` of 200-byte buffers) | `Get`, `Put` |
| `outInterfaceSelector` | `goIGMP_out_selector.go` | the value received | stores the side the inside is proxied to |
| notification channels | `goIGMP.go:298-306`, `goIGMP_recv.go:174-235` | `QueryNotifyCh`, `MembershipReportFromNetworkCh` | non-blocking sends by the receivers, reads by the application |
| `recvUnicastIGMP` | `goIGMP_recv_unicast.go`, `goIGMP_proxy.go:36-60` | a pooled buffer, the unicast socket | read unicast IGMP inside, send it as multicast outside |
| report and leave senders | `goIGMP_membership.go`, `goIGMP_send_membership_report.go`, `goIGMP_leave.go`, `goIGMP_ipv4Header.go` | the channels from the application | build and send reports and leaves |
| self query | `goIGMP_send_self_query.go` | a ticker per side | `RunSelfQuery` starts a goroutine per side that sends queries |
| example reporter | `example/membership_reporter.go` | `singletonCh`, the groups of the kernel | reports memberships on a query, sends leaves |
| example program | `cmd/goIGMPexample` | flags, context | starts a reporter; a handler cancels the context on a signal, sleeps and exits |
| address maps | `goIGMP.go:486-556` | `mapIPtoNetIP`, `mapIPtoNetAddr`, `mapNetAddrtoIP` | filled once; the keys of the socket maps and of the filter |
| metrics, debug | the other files | none that steers behaviour | |

They interact as follows. The application sends on `OutInterfaceSelectorCh`,
`MembershipReportToNetworkCh` and `LeaveToNetworkCh` and reads `QueryNotifyCh`
and `MembershipReportFromNetworkCh`. The goroutines share `IntOutName` (a
`sync.Map`: the selector stores, the receivers load), the pool, and the raw
connections. The kernel delivers a copy of every IGMP packet to every raw
socket, whatever group the socket joined, so who relays a packet is decided only
by the filters of `recvIGMP`. A context ends the loops; `Run` waits for
them, and the signal handler ends the process whether they have ended or not.

What is hard here: buffers that pass through a dozen put-and-continue paths; a
switch of the outside interface between a receiver's two loads of `IntOutName`;
relaying each packet once although every socket has a copy of it; packets of our
own that loop back; notifications on bounded channels without blocking; shutdown
of goroutines that block in a read or a receive, against the clock of a signal handler; combinations of eleven flags
that open sockets in one place and use them in another.

What makes each component correct:

* constructor and `Run`: whatever is started finds its sockets; no socket is
  opened twice; the socket a receiver reads has joined that receiver's group.
* receivers: each packet is relayed at most once, across, to its own group and
  with its own bytes; it is relayed unless something says not to; own packets
  are not relayed.
* `recvUnicastIGMP`: what it reads it sends, once, in order and translated.
* pool: a buffer has one owner, whoever the goroutine is.
* selector: a switch takes effect, with a bound on what still follows the old
  choice.
* channels: no query goes unnoticed.
* shutdown: `Run` returns after the context is cancelled and leaves nothing of
  its own running; the time that takes is bounded, and shorter than the handler's
  sleep when the deadlines are chosen so.

## 2. Modules

| module | models |
|---|---|
| `Config` | the flags of `Config` and what the code derives from them, as operators of a configuration |
| `Configurations` | the configurations of the repository's README that the runs use |
| `Setup`, `MCSetup` | the constructor and `Run` block by block, for every configuration |
| `BytePool` | the `sync.Pool` and the bytes of its buffers, which the next three modules share |
| `Receiver`, `MCReceiver` | all `recvIGMP` goroutines, the selector, the channels, the sockets, the application |
| `Forwarding` | the abstract proxy that `Proxy` implements |
| `UnicastProxy`, `MCUnicastProxy` | `recvUnicastIGMP`, beside receivers and a selector that share its pool and `IntOutName` |
| `Proxy`, `MCProxy` | `Receiver`, an instance of `UnicastProxy` and `selfQuery` over one pool, one `IntOutName` and one network |
| `Shutdown`, `MCShutdown` | the example program in time: `main`, the signal handler, and `Run`'s goroutines with their deadlines |
| `Senders` | the goroutines that send reports and leaves, and the channels they read |
| `SendersOrder`, `MCSenders` | `Senders` with an application that submits anything, and the history of what was sent |
| `Outbox` | the abstract senders that `SendersOrder` implements: a queue for each kind of message |
| `MembershipReporter` | the example application on top of `Senders` |
| `ReporterLeaves`, `MCMembershipReporter` | the same with the history of what each `gratuitiousReporter` has reported and not left |
| `Filtering` | the loop that keeps some elements of a list, which `findGroupsToLeave` is and `TranslatesAll` speaks of |
| `SequenceInduction` | lemmas on flattened and filtered sequences that grow at an end |
| `SetupProofs`, `ReceiverProofs`, `UnicastProxyProofs`, `ProxyProofs`, `SendersProofs`, `MembershipReporterProofs`, `ShutdownProofs` | theorems |

`Config` is the hinge: every other module takes from it which sides receive,
send and relay, and `Setup` shows (`Agrees`) that the constructor, executed block
by block, leaves exactly those connections. `Proxy` is the composition: it extends
`Receiver`, takes `recvUnicastIGMP` from `UnicastProxy` by `INSTANCE`, and checks that
the receivers are to it what `UnicastProxy`'s own environment says (`UnicastAmidOthers`,
which is that module's `Spec` under the instance). `SendersOrder` and
`MembershipReporter` both extend `Senders`: the first with an arbitrary
application, the second with the example one. `MembershipReporterProofs` takes the
lemmas on the types of `Senders` from `SendersProofs`.

### How state and actions correspond to the code

* **`Setup`**. `step` is the block the constructor or `Run` is at. An entry of
  `mConIGMP`, under a side and an address, lists what the sockets opened for it
  have joined, and `conRaw` counts, so that a second opening shows; `started`
  collects the `go` statements. Each `if` block is an action. A `net.IP` is its
  length and the address it stands for, since `netip.Addr` tells 4 bytes from 16.
  `Fatal` is any failing system call of the blocks that make one, and the panic on
  an invalid `UnicastDst` (`goIGMP.go:279`).
* **`Receiver`**. A receiver is a pair of side and group, as `Run` starts them.
  `pc[r]` names what comes next: `top` (the `select` on the context), `read`,
  `filter` (everything up to the decoding), `dispatch` (the switch on the type),
  `load` and `write`. `buf`, `pkt`, `out` are locals; `late` counts packets handled
  after a deselection and `unseenQuery` remembers a query the application has not
  read: both are history. `bytePool[b]` counts how often a buffer is in the pool,
  `data[b]` holds cells: a packet of length `len` fills the first `len` of `BufLen`
  cells, the rest keep what they had. `GetBuf` may return any pooled buffer or a
  new one of zeros. `sock[r]` is the socket's queue: `Deliver` gives a copy to any
  set of receivers, so the kernel may drop any copy. Decisions in one action are
  those that use only the packet and one load of `IntOutName`.
* **`UnicastProxy`**. The same program counters for one goroutine. `OtherUse` is
  a step of a receiver, seen from the pool: it gets, fills or puts a buffer, one
  that this goroutine holds only if it is in the pool all the same. `Store` is the
  selector's and `OtherCrash` another goroutine's `log.Fatal`. `received` and the
  field `read` of `wire` are history.
* **`Proxy`**. Variables of `recvUnicastIGMP` that have namesakes in `Receiver` begin
  with `u`. What any of the goroutines multicasts comes back to the receivers
  (`Echo`), and a unicast packet reaches their raw sockets too. `Multicasting`,
  `Unicasting` and `SelfQuery` are steps of the three kinds of goroutine; `ReturnAll`
  adds the unicast goroutine to what `Run` waits for. `NotNew` says that a buffer
  made by `New` is one that nobody holds.
* **`Shutdown`**. `at[x]` is a goroutine's place, `timer[x]` what is left of its read or
  write, `sleep` what is left of the handler's; `waited` and `more` are history.
  `Tick` is a unit of time and happens only when no step that takes none is due
  and no timer has run out. `readDeadline` is the flag.
* **`Senders`**. `pc[w]` and `items[w]` are a worker's place in its loop and what is
  left of the batch. `ToNetworkCh["report"]` is `MembershipReportToNetworkCh`,
  `["leave"]` is `LeaveToNetworkCh`. `IGMPReporter` methods have value receivers
  and run in goroutines, so `querierSourceIP` has an entry for each of those
  copies. A `MembershipItem` is reduced to its group.
* **`MembershipReporter`**. `at[x]` is where `membershipReporter` (`"main"`) or a
  `gratuitiousReporter` (a slot) is: at its `select`, in the `Range` of
  `buildMembershipItems`, before the send of leaves or reports, before
  `<-singletonCh`. `Range` visits one key per step while viewers come and go.
  The code that fills `localStreams` and notifies is not in this repository;
  `Join` and `Leave` are external and allow whatever the channel allows.
* **`ReporterLeaves`**. `owed[i]` is history: a batch that a step of the reporter at
  `i` puts into the reports' channel adds its groups, one put into the leaves'
  channel takes them away. It looks at the channels only, so it is independent of
  what the reporter remembers in `previousGroups`.
* **`Outbox`**. `pending` of a kind is what a worker has left of its batch followed by
  its channel, flattened; `sent` is the groups of its packets.

`log.Fatal` and a nil dereference set `crashed`, after which nothing happens.
Every buffer of the model is one of `Bufs`; a receiver whose `New` finds none
waits, which the code's pool never does.

## 3. What is checked

Runs that must hold:

| run | instance | shows |
|---|---|---|
| `setup` | all 2048 flag sets, 3 sides that may share kernel indexes, 3 groups | `Agrees`: the sockets opened, receivers started, and index map are those of `Config`; `OpenedOnce`: overlapping blocks share sockets; `Ready`: whichever side is selected, every connection that a goroutine uses is open, but for three defects; `HearsItsGroup`: a receiver's socket has joined its group and its filter matches that group alone, through three maps and two lengths of address |
| `special_alt` | special unicast mode, 2 outside interfaces, 1 group, 3 queries, 2 selections, capacity 1, failing reads | `QueryPending`: coalescing never loses the last query; `LateBound`: after a switch at most the packet in hand still follows the old choice |
| `full` | both directions, packets of length 1 and 2 in buffers of length 2, failing writes, fair | `BufExclusive`, `PayloadIntact`; `RelayedEventually`, `ReturnsAfterCancel` |
| `unicast` | 3 unicast packets (`v1`, `v3`, leave), a query that a receiver leaves in the pool, 2 buffers, a failing read, failing writes, 2 outside interfaces, fair | `SendsWhatItRead` although the pool is shared; `TranslatesAll`: nothing skipped or repeated, in order, until a read fails; `SentEventually`; `EndsAfterCancel` |
| `proxy` | proxying from outside to inside, the receivers of 2 groups, a packet from the network to one of them, a unicast packet translated to the other, own queries, any two of these in flight, loopback, failing writes | `PoolExclusive`: one owner per buffer among both kinds of goroutine; `UnicastAmidOthers`: the receivers are the environment `UnicastProxy` assumes; `ImplementsForwarding`: both sockets get a copy of all that is sent, and yet each packet is relayed at most once, across, to its group; `EchoesEnd`; `QuietAfterReturn` |
| `shutdown` | 4 configurations, read deadlines 1 to 4, write deadline 1, sleep 4, signals at any time, fair | `DrainBound`: a read plus a write deadline after the cancel `Run` has returned; `GracefulExit`: the handler cuts a goroutine off only if its sleep is no longer than that; `OneMore`: at most one packet per reader after the cancel; `EndsAfterSignal` |
| `senders` | 3 workers, capacity 1, batches of 0, 1 and 2 groups, 2 per channel, failing writes, fair | `InOrder`; `ImplementsOutbox`: each kind is a queue from which nothing but the next group to send is taken; `AllSent`, `RunReturns` |
| `reporter` | 1 group, 2 slots, queries, fair | `AtMostOneReporter`; `NoneForgotten`: a `gratuitiousReporter` that ends has left all it reported, unless cancelled; `OnlyReported`: it leaves nothing else, and once for a report; `LeftEventually`; `EndsOrStuck`: the only thing that outlives a cancel is a blocking send to a worker that stopped first |

The first run of `Setup`, `Receiver`, `UnicastProxy`, `Senders` and `MembershipReporter`
also checks the type invariant. Each module has small
operators named `...Never`, `...Early`, `...Beyond` and so on, commented
"Mutant": a plausible error in the code, against which the properties are
tested, one for every property. They are not part of the specification.

Runs that must fail, one disagreement each:

| run | property | the code |
|---|---|---|
| `full_loop` | `OwnNeverRelayed` | the test for our own address compares two types and never holds (`goIGMP_recv.go:109`); with both directions and loopback a packet goes round |
| `full_alt` | `NoNilWrite` | `conRaw[ALTOUT]` is never opened (`goIGMP.go:371`), so relaying to the selected `ALTOUT` dereferences nil |
| `senders_querier` | `ToTheQuerier` | the querier's address is stored in a copy (`goIGMP_recv.go:172`) |
| `reporter_lost` | `ViewedReported` | a notification between the last round and `<-singletonCh` is lost (`example/membership_reporter.go:180`) |

The models contain more of what the code does and a reader may not expect,
without a run of its own:

* `Ready` names three defects, each the dereference of a nil connection, and shows
  that there is no other. With an alternative interface and notifications alone
  receivers start on `ALTOUT` without sockets, since the block for notifications opens those of
  `OUT` (`goIGMP.go:341`). With `LeaveToNetwork` alone no raw connection is opened for the
  worker to send on (`goIGMP.go:443`). And the selector stores any side it is sent
  (`goIGMP_out_selector.go:22`), but `conRaw[ALTOUT]` is never opened (`goIGMP.go:369`), nor,
  when only the outside is relayed to, `conRaw[INSIDE]`: `full_alt` runs into
  that one. The first two need no interleaving, and no document speaks of them.
* `outInterfaceSelector` does not look at the context (`goIGMP_out_selector.go:20`), so
  with an alternative interface `Run` never returns and the signal handler is what
  ends the program; `DrainBound` excludes that case and says so.
* With the example program's defaults, a read deadline of 10 s, a write deadline of
  5 s and a sleep of 5 s, the condition of `GracefulExit` is not met: the handler
  exits while receivers still wait in a read (`cmd/goIGMPexample/goIGMPexample.go:188`).
* A version 3 report that `recvUnicastIGMP` multicasts to 224.0.0.22 on the outside
  comes back to the outside receivers and is relayed to the inside, once: the test
  for our own address fails here too. `EchoesEnd` says that it stops there.
* `selfQuery` has neither the context nor the wait group: it goes on sending after
  `Run` has returned. `QuietAfterReturn` is about what `Run` started.
* When its channel is full and the worker that reads it has stopped with the
  context, the application's send blocks for ever
  (`example/membership_reporter.go:279`); `EndsOrStuck` shows that nothing else does.
* A second `NewIGMPReporter` in a process panics: `promauto` registers the counters
  again (`goIGMP.go:194`).
* `WriteTo` relays all of a reused buffer, the tail of an earlier packet included
  (`goIGMP_proxy.go:27`); `PayloadIntact` is about the bytes received.
* `proxyIt` has no case for `ALTOUT`: what arrives there is never relayed to the
  inside, even when it is selected (`goIGMP_recv.go:269`).
* `ReadError` of `UnicastProxy`: after a failed read the old content of the buffer
  is handled as a packet (`goIGMP_recv_unicast.go:54`), hence the condition in
  `TranslatesAll`.
* `ReceiveQuery` of `Senders`: `connectQueryToReport` sends an empty list for every
  query (`goIGMP_membership.go:83`).

### Bounds, and why they are enough

* Packets carry an identity and arrive once each (`Inputs`, `Unicast`). In `Receiver`
  and `UnicastProxy` three of them give two in flight and one in a buffer used before. The relay decision is
  per packet, the interaction is between at most two receivers and a buffer, or
  two receivers and a selection.
* `Bufs` is 2 (3 in `full_alt`): with two receivers that is enough for one to
  take what the other has just given back; in `proxy` three goroutines share two. A receiver whose `Get` finds no
  buffer free waits, which the code's pool never does; the theorems hold for any
  number.
* `BufLen` is 1, or 2 where the tail of a buffer matters. `ChannelSize` is 1:
  full after one send. `MaxSelects` is 2: there and back. `MaxHops` is 1 in
  `full_loop`: one loop is enough to see a packet return. `MaxErrors` bounds failed reads: one is enough
  for a stale buffer to be handled. In `proxy` it is 0: the stale buffer may hold a
  packet that a receiver relays or has relayed, and `EchoesEnd` is not true of that.
  There `MaxHops` is 2, a copy of a copy, and `MaxPackets` 2: a packet from the network, a
  unicast packet and the queries of our own, any two of them, with all copies that
  come back. Three at once multiply the states, and `ForwardsOnce` and the
  other theorems on `Proxy` hold for any number. `MaxSubmits` is 2 batches per channel: one in the channel, one
  in hand.
* Two groups and their receivers in `proxy`: each socket gets what is sent to either
  group, so it is the filter that keeps one receiver from relaying what is the
  other's. `setup` has all three. Flags that only start
  goroutines a run does not look at are off.
* `readMayFail` lets a read fail while packets wait. It is FALSE in `full`, because
  `RelayedEventually` is only true of reads that fail by their deadline: one that
  always fails never relays anything. The theorems hold for both values.
* Two slots: a second `gratuitiousReporter` has room to start, and must not. One
  viewed group that comes and goes. Groups meet in the lists, which are sent as a
  whole, and in `findGroupsToLeave`, where one may be left while another is
  reported: that is not in the run, and is what `FindsGroupsToLeave`,
  `NothingForgotten` and `LeavesOnlyReported` prove for any number of groups.
* `shutdown` has read deadlines below, at and above what the sleep of 4 leaves room
  for (3 with a write of 1), so both sides of `GracefulExit` occur; only the order
  and sums of these numbers matter. Receivers of one group: they are alike.
* Buffers are a symmetry set in `special_alt` and `proxy`, which check no liveness.

All these runs say `CHECK_DEADLOCK FALSE`, because a cancelled reporter stops,
and so do the constructor and a process that has ended.

### Fairness

Weak fairness of each goroutine: Go's scheduler runs what can run, and a read
ends with a packet or at its deadline (`SetReadDeadline` before every read).
Strong fairness only where the language makes a random choice or queues: a
`select` with several ready cases picks at random, so it does not pass over the
context for ever; goroutines that wait to send on a channel are served in turn;
the ticker ticks. In `Shutdown` time goes on when nothing is due, main and the
handler are scheduled, and a write ends. Nothing is assumed of the network, the application, viewers or
queriers: they may do nothing. Properties that need a packet or a cancel are
leads-to formulas that start from it.

## 4. What is proved

TLAPS checks these for every configuration, any number of groups, packets,
buffers and slots, every capacity and every deadline, from the assumptions named in the modules
(identities of packets are unique, capacities are positive, sentinels are not
values):

| theorem | says | argument |
|---|---|---|
| `TypeCorrect` | `TypeOK` of `Receiver` | not inductive on its own: `WriteTo` sends what a buffer's first cell holds. `InFlight` adds what the program counter says of the locals: a receiver past `GetBuf` has a buffer, past `ReadFrom` that buffer's first cell is a packet |
| `Exclusive` | `BufExclusive` | every step uses the pool in one of four ways (`PoolUse`: no change, a `Get` by a receiver that holds none, a `Put` of one's own buffer, letting go of it without one), and each keeps ownership exclusive |
| `Intact` | `PayloadIntact` | `Owned`: from `ReadFrom` on the cells of a held buffer are those of the packet; by `Exclusive` only its owner fills it |
| `NotificationPending` | `QueryPending` | the send leaves a token or finds the channel full, hence not empty |
| `SwitchTakesEffect` | `LateBound` | `LateInv`: a receiver that has handled its late packet has none waiting in `dispatch`, and its side is deselected, so the filter lets no other through |
| `UnicastTypeCorrect` | `TypeOK` of `UnicastProxy` | with `Holding` |
| `SendsWhatItReads` | `SendsWhatItRead` | `Holding`: no buffer is in the pool twice, the one in hand is not in it between `Get` and `Put`, and it holds the packet read |
| `TranslatesEverything` | `TranslatesAll` | `Translating`: until a read fails the packet in hand is the one read, and is sent only if it is a report or a leave. `OnlyAppend` says what one more packet adds to the packets to translate, `PktsAppend` what one more entry adds to those sent |
| `PoolIsExclusive` | `PoolExclusive` of `Proxy` | every step of a receiver or of `recvUnicastIGMP` does one of three things to the pool and its own buffer (`UseOf`, `UnicastUse`), and the program counter says which goroutines hold one |
| `ImplementsUnicastProxy` | `UnicastAmidOthers` | step simulation: a receiver's step is `OtherUse`, `OtherCrash` or a stutter of `UnicastProxy`, which needs that its buffer is not the one `recvUnicastIGMP` holds (`PoolExclusive`) and that it reads only packets of `Readable`, a set closed under coming back (`ReadableClosed`); `SelectorStore` is `Store`. With it `SendsWhatItReads` holds of the composition; `UnicastInput` is the assumption it rests on |
| `QuietOnceReturned` | `QuietAfterReturn` | when `returned` holds all counters are at `done`, where no step is enabled |
| `ForwardsOnce` | `ImplementsForwarding` | assumes `MaxErrors = 0`: no read of `recvUnicastIGMP` fails but by its deadline. `FInv` says why no packet is relayed twice: whatever is sent differs in identity or in the number of times it came back from all that was sent before (`SentOnce`), so what comes back was not there before (`FreshCopy`) and no receiver finds one packet twice (`ReadOnce`, `QueueStep`); the filter lets a packet through to one receiver only (`Addressed`); a unicast packet is to none of the groups; and `Across` keeps `IntOutName` pointing to the other side. `WriteTo` is then `Relay`, every other step an `Arrival` |
| `EchoesStop` | `EchoesEnd` | under `OneWay`: relaying to the inside only, and different kernel interfaces. `Inwards`: all that receivers sent went to the inside, so what a receiver on the outside accepts came back of a translation or of a query of our own, once |
| `SendersTypeCorrect` | `TypeOK` of `Senders` | inductive as it is, for an application that submits any batches |
| `SentInOrder` | `InOrder` | `OInv`: a worker between two batches has nothing left. A step then moves one group or one batch from one part of the equation to the next: `FlattenHead` when a batch is received, `FlattenAppend` when one is submitted, `QueueParts` when a group is sent |
| `SendersImplementOutbox` | `ImplementsOutbox` | step simulation with the same lemmas: `SendItem` is `SendNext`, `Submit` is `Accept`, all else stutters |
| `DrainBounded` | `DrainBound` | the invariant keeps a budget: for every goroutine still running, the time waited and what its place in the loop may still take add up to at most `DrainTime` |
| `ExitsGracefully` | `GracefulExit` | the same budget, with the handler's sleep running down in step with the time waited |
| `AtMostOneMore` | `OneMore` | a reader that has counted a packet is past its read, and the context stops it at `top` |
| `NothingLeaks` | `OpenedOnce` | `ConsOpened`: before each block the open sockets and raw connections are exactly those of a set of sides (`Opened`, `RawOpened`), and opening a side twice adds nothing (`CreateConns`, `OpenRaw`) |
| `ConfigAgrees` | `Agrees` | the set of sides after the last block is `McastSides`, `RawSides`; `Launched` says the same of the goroutines block by block; `LookupIs`: of several names with one index the last in `Interfaces_` stays |
| `ConnectionsReady` | `Ready` | from the same invariant: the sets of sides opened, against those of the goroutines started and of every side that can be selected while they run; what is missing is one of the three defects |
| `GroupsKeptApart` | `HearsItsGroup` | `MapsFilled`: after `makeIPMaps` all three maps are in their 4-byte form and undo each other |
| `SetupTypeCorrect` | `TypeOK` of `Setup` | with the same invariant, which says what the sockets are |
| `OneReporter` | `AtMostOneReporter` | `Single`: the token in `singletonCh` stands for the one reporter that runs |
| `ReporterTypeCorrect` | `MTypeOK` | inductive with the lemmas on `Senders`; that `findGroupsToLeave` returns a list of groups is `OnlyTyped` |
| `FindsGroupsToLeave` | | what `findGroupsToLeave` returns has the elements of the previous list that are not in the current one: `OnlyElements`, by induction over the list |
| `NothingForgotten`, `LeavesOnlyReported` | `NoneForgotten`, `OnlyReported` | `Remembering`: at its `select` and in its `Range` a reporter remembers in `previousGroups` what it owes, and before the report what it owes is in the list at hand. After a cancel a new reporter may start in a slot whose last one left nothing, hence the conditions on `ctxDone` |

`IdentityAssumption` of `Proxy` is what `ForwardsOnce` and `EchoesStop` need of the identities the model gives to
packets, which are no part of the code: a packet of our own, one from the network and one that is unicast are never
the same one, and each arrives once. That a unicast packet is to none of the groups is what makes it unicast.
`ForwardsOnce` is not true without `MaxErrors = 0`: after another error `recvUnicastIGMP` sends the old
content of its buffer again (`goIGMP_recv_unicast.go:54`), and the second copy that comes back is relayed like the first.

Induction over sequences. The library's induction theorems take an operator as a
parameter, which the provers cannot instantiate. `SequenceInduction` states
induction for a set instead (`SetInduction`: a set that has 0 and is closed under
successor has every number), and gets it from the well-foundedness of strict
inclusion between finite sets, which the library has without such a parameter:
if some number were missing, one of the intervals up to a missing number would be
minimal. From it follow that steps can be iterated (`Iteration`), so that the
recursive functions in `FlattenSeq` and `Only` exist, and `AppendInduction` over
sequences.

`SentInOrder` and `SendersImplementOutbox` are about `HSpec` for every `MaxSubmits`, hence
for any number of batches.

Only model-checked: all liveness, which TLAPS does not reach: `RelayedEventually`,
`ReturnsAfterCancel`, `SentEventually`, `EndsAfterCancel`, `AllSent`, `RunReturns`,
`LeftEventually`, `EndsOrStuck` and `EndsAfterSignal`. `NothingForgotten` is the safe part
of `LeftEventually`: a reporter cannot end without the leaves, that it ends or goes on
is left to TLC. Every invariant, action property and refinement that a run checks
and finds true is a theorem.

## 5. What is not modelled

* Bytes: decoding and serialising is the `gopacket` fork's; a packet is its
  type, group and length.
* Metrics and debug log.
* Socket options: which of them the kernel honours is its own affair. That a
  system call fails in the constructor is `Fatal`.
* The ticks of `selfQuery` in time, and more than one query of a side.
* The application in `Shutdown`: the example program gives the workers nothing to
  send, so they only wait there; `Senders` has them at work, without time.
* No order is promised between a leave and the report before it, since they take
  different channels and goroutines; no property claims one.

## 6. Plan

Done in the order of importance: `Config`, `Receiver` with `Forwarding` and its
proofs, `Setup`, `Senders`, `MembershipReporter`, `UnicastProxy` and their proofs; then
`BytePool` and `Proxy`, which compose the receiving goroutines, and `Shutdown`, both
with proofs; the address maps in `Setup`; the proofs that `Setup` opens what
`Config` says and that `Proxy` implements `Forwarding`; induction over sequences, with
it `InOrder`, `TranslatesAll` and `findGroupsToLeave` for every history, and `Outbox`; and
`ReporterLeaves`. What is left: the composition of `MembershipReporter` with `Outbox`, so
that a group owed is followed to the wire, and a safe part of the other liveness
properties where there is one, as `NoneForgotten` is of `LeftEventually`.
