---------------------------- MODULE SendersOrder ----------------------------
(***************************************************************************)
(* Senders with an application that submits at most MaxSubmits batches on  *)
(* each channel, and the history of what was submitted and what was sent.  *)
(***************************************************************************)
EXTENDS Senders, SequencesExt

CONSTANTS
  Batches,      \* the batches the application may submit
  MaxSubmits    \* bound: batches submitted on each channel

ASSUME BatchAssumption == Batches \subseteq Seq(Group) /\ MaxSubmits \in Nat

VARIABLES
  submitted,    \* history: the batches submitted on each channel
  log           \* history: the packets each worker has sent

history == <<submitted, log>>
hvars   == <<vars, history>>

HInit ==
  /\ Init
  /\ submitted = [c \in Channels |-> <<>>]
  /\ log = [w \in Workers |-> <<>>]

HSend(w) == SendItem(w) /\ log' = [log EXCEPT ![w] = Append(@, packet(w))] /\ UNCHANGED submitted

HWorker(w) ==
  \/ HSend(w)
  \/ /\ Receive(w) \/ ReceiveQuery(w) \/ Stop(w) \/ Crash(w) \/ Finish(w)
     /\ UNCHANGED history

HSubmit(c, batch) ==
  /\ Len(submitted[c]) < MaxSubmits
  /\ Submit(c, batch)
  /\ submitted' = [submitted EXCEPT ![c] = Append(@, batch)]
  /\ UNCHANGED log

HNext ==
  /\ ~ crashed
  /\ \/ \E w \in Workers : HWorker(w)
     \/ \E c \in Channels, batch \in Batches : HSubmit(c, batch)
     \/ \E q \in Addr : HandleQuery(q) /\ UNCHANGED history
     \/ /\ Return \/ ReadQuery \/ Cancel
        /\ UNCHANGED history

HSpec == HInit /\ [][HNext]_hvars

\* Go schedules every goroutine that can run, and a select with several ready
\* cases picks one at random, so it does not pass over the context for ever.
\* Nothing is assumed of the application and of the queriers.
HFairSpec ==
  /\ HSpec
  /\ \A w \in Workers : /\ WF_hvars(~ crashed /\ HWorker(w))
                        /\ SF_hvars(~ crashed /\ Stop(w) /\ UNCHANGED history)
  /\ WF_hvars(~ crashed /\ Return /\ UNCHANGED history)

-----------------------------------------------------------------------------
(* Properties *)

Groups(packets) == [i \in DOMAIN packets |-> packets[i].group]

\* Nothing submitted is lost, repeated or reordered within a kind: what a
\* worker has sent, what is left of its batch and what waits in its channel
\* make up what the application submitted, at every moment.
InOrder ==
  \A w \in Workers \cap Channels :
    Groups(log[w]) \o items[w] \o FlattenSeq(ToNetworkCh[w]) = FlattenSeq(submitted[w])

\* What is left of each kind in its worker's batch and in its channel, and the
\* groups that were sent of it.
Left(c)   == (IF c \in Workers THEN items[c] ELSE <<>>) \o FlattenSeq(ToNetworkCh[c])
SentOf(c) == IF c \in Workers THEN Groups(log[c]) ELSE <<>>

\* The workers and their channels implement Outbox, a queue for each kind that
\* loses nothing and sends one group at a time; what connectQueryToReport does
\* is no step of it.
Out == INSTANCE Outbox WITH
         Kind <- Channels, Batch <- Batches,
         pending <- [c \in Channels |-> Left(c)], sent <- [c \in Channels |-> SentOf(c)]

ImplementsOutbox == Out!Spec

\* Everything submitted is sent in the end, unless the context is cancelled or
\* a write fails.
AllSent ==
  \A w \in Workers \cap Channels :
    submitted[w] # <<>> ~> \/ ctxDone \/ crashed
                           \/ Groups(log[w]) = FlattenSeq(submitted[w])

\* After a cancel Run returns, whatever still waits in the channels.
RunReturns == ctxDone ~> (returned \/ crashed)

\* destinationNetIP "returns the unicast destination of the querier in the
\* case of QueryHost": once a query was handled, a unicast report goes to the
\* source of the last one.
ToTheQuerier ==
  [][\A w \in Workers :
       SendItem(w) /\ conf.UnicastMembershipReports /\ querierSourceIP["recvIGMP"] # NoAddr
         => packet(w).dst = querierSourceIP["recvIGMP"]]_hvars
=============================================================================
