------------------------- MODULE MembershipReporter -------------------------
(***************************************************************************)
(* The example application on top of Senders: the goroutine                *)
(* membershipReporter, the gratuitiousReporter goroutines it starts, the   *)
(* channel singletonCh between them, and the map localStreams of the groups*)
(* somebody views, which other goroutines change at any time.              *)
(***************************************************************************)
EXTENDS Senders, Filtering, SequencesExt

CONSTANT Slot       \* where gratuitiousReporter goroutines can live

\* createGoIGMPReporter sets these flags.
ASSUME ClientAssumption == conf.QueryNotify /\ conf.MembershipReportsToNetwork /\ conf.LeaveToNetwork
                           /\ "main" \notin Slot

VARIABLES
  localStreams,   \* the groups somebody views
  mRptNotifyCh,   \* the number of tokens in it
  singletonCh,    \* the number of tokens in it
  at,             \* where "main" and each gratuitiousReporter are
  scan,           \* what Range in buildMembershipItems has yet to visit
  groups,         \* what buildMembershipItems has built so far
  previousGroups  \* of each gratuitiousReporter

local == <<at, scan, groups, previousGroups>>
mapp  == <<localStreams, mRptNotifyCh, singletonCh, local>>
mvars == <<vars, mapp>>

Routine == {"main"} \cup Slot
Place   == {"off", "select", "range", "report", "release", "wait", "done"}

MTypeOK ==
  /\ TypeOK
  /\ localStreams \subseteq Group
  /\ mRptNotifyCh \in 0 .. 1 /\ singletonCh \in 0 .. 1
  /\ at \in [Routine -> Place]
  /\ scan \in [Routine -> SUBSET Group]
  /\ groups \in [Routine -> Seq(Group)]
  /\ previousGroups \in [Slot -> Seq(Group)]

MInit ==
  /\ Init
  /\ localStreams = {} /\ mRptNotifyCh = 0 /\ singletonCh = 0
  /\ at = [x \in Routine |-> IF x = "main" THEN "select" ELSE "off"]
  /\ scan = [x \in Routine |-> {}]
  /\ groups = [x \in Routine |-> <<>>]
  /\ previousGroups = [x \in Slot |-> <<>>]

Move(x, label) == at' = [at EXCEPT ![x] = label]

\* buildMembershipItems starts to Range over the streams there are now: the
\* sync.Map of Go 1.22, which go.mod asks for, fixes the keys it visits here.
StartRange(x) ==
  /\ Move(x, "range")
  /\ scan' = [scan EXCEPT ![x] = localStreams]
  /\ groups' = [groups EXCEPT ![x] = <<>>]
  /\ UNCHANGED previousGroups

\* Range visits one key, in no particular order; one deleted by then is not seen.
Visit(x) ==
  /\ at[x] = "range"
  /\ \E k \in scan[x] :
       /\ scan' = [scan EXCEPT ![x] = @ \ {k}]
       /\ groups' = IF k \in localStreams THEN [groups EXCEPT ![x] = Append(@, k)] ELSE groups
  /\ UNCHANGED <<vars, localStreams, mRptNotifyCh, singletonCh, at, previousGroups>>

\* Mutant: continue before the assignment.
SendReportForgets(x) ==
  /\ at[x] = "report"
  /\ Submit("report", groups[x])
  /\ Move(x, "select")
  /\ groups' = [groups EXCEPT ![x] = <<>>]
  /\ UNCHANGED <<localStreams, mRptNotifyCh, singletonCh, scan, previousGroups>>

\* sendMemberShipReport: tries, then blocks.  Both send when there is room.
SendReport(x) ==
  /\ at[x] = "report"
  /\ Submit("report", groups[x])
  /\ Move(x, "select")
  /\ previousGroups' = IF x = "main" THEN previousGroups
                                     ELSE [previousGroups EXCEPT ![x] = groups[x]]
  /\ groups' = [groups EXCEPT ![x] = <<>>]
  /\ UNCHANGED <<localStreams, mRptNotifyCh, singletonCh, scan>>

-----------------------------------------------------------------------------
(* membershipReporter *)

\* Where the next gratuitiousReporter lives.  Slots only tell goroutines apart.
freeSlot == CHOOSE i \in Slot : at[i] = "off"

\* Mutant: a channel of length two.
NotifiedTwo ==
  /\ at["main"] = "select" /\ mRptNotifyCh > 0
  /\ mRptNotifyCh' = mRptNotifyCh - 1
  /\ IF singletonCh < 2
       THEN /\ singletonCh' = singletonCh + 1
            /\ \E i \in Slot : at[i] = "off"
            /\ Move(freeSlot, "select")
       ELSE UNCHANGED <<singletonCh, at>>
  /\ UNCHANGED <<vars, localStreams, scan, groups, previousGroups>>

\* A notification starts a gratuitiousReporter if singletonCh has room.
Notified ==
  /\ at["main"] = "select" /\ mRptNotifyCh > 0
  /\ mRptNotifyCh' = mRptNotifyCh - 1
  /\ IF singletonCh < 1
       THEN /\ singletonCh' = singletonCh + 1
            /\ \E i \in Slot : at[i] = "off"
            /\ Move(freeSlot, "select")
       ELSE UNCHANGED <<singletonCh, at>>
  /\ UNCHANGED <<vars, localStreams, scan, groups, previousGroups>>

Queried ==
  /\ at["main"] = "select"
  /\ ReadQuery /\ StartRange("main")
  /\ UNCHANGED <<localStreams, mRptNotifyCh, singletonCh>>

\* It answers with the groups it found, if any.
Answer ==
  /\ at["main"] = "range" /\ scan["main"] = {}
  /\ Move("main", IF groups["main"] = <<>> THEN "select" ELSE "report")
  /\ UNCHANGED <<vars, localStreams, mRptNotifyCh, singletonCh, scan, groups, previousGroups>>

MainDone ==
  /\ at["main"] = "select" /\ ctxDone
  /\ Move("main", "wait")
  /\ UNCHANGED <<vars, localStreams, mRptNotifyCh, singletonCh, scan, groups, previousGroups>>

\* w.Wait() for Run.
MainReturn ==
  /\ at["main"] = "wait" /\ returned
  /\ Move("main", "done")
  /\ UNCHANGED <<vars, localStreams, mRptNotifyCh, singletonCh, scan, groups, previousGroups>>

\* The case of its select for MembershipReportFromNetworkCh only counts what it
\* receives and is left out.
membershipReporter ==
  Notified \/ Queried \/ Visit("main") \/ Answer \/ SendReport("main") \/ MainDone \/ MainReturn

-----------------------------------------------------------------------------
(* gratuitiousReporter *)

Tick(i) ==
  /\ at[i] = "select" /\ StartRange(i)
  /\ UNCHANGED <<vars, localStreams, mRptNotifyCh, singletonCh>>

\* Mutant: the arguments swapped.
findGroupsSwapped(current, previous) == Only(current, Group \ ToSet(previous))

\* findGroupsToLeave: the groups of previous that are not in current.
findGroupsToLeave(current, previous) == Only(previous, Group \ ToSet(current))

\* sendLeaves also sends an empty list.  Without groups this was the last round.
FindAndLeave(i) ==
  /\ at[i] = "range" /\ scan[i] = {}
  /\ Submit("leave", findGroupsToLeave(groups[i], previousGroups[i]))
  /\ Move(i, IF groups[i] = <<>> THEN "release" ELSE "report")
  /\ UNCHANGED <<localStreams, mRptNotifyCh, singletonCh, scan, groups, previousGroups>>

\* Mutant: no case for the context.
ReporterNever(i) == FALSE /\ UNCHANGED mvars

ReporterDone(i) ==
  /\ at[i] = "select" /\ ctxDone
  /\ Move(i, "release")
  /\ UNCHANGED <<vars, localStreams, mRptNotifyCh, singletonCh, scan, groups, previousGroups>>

\* <-singletonCh; the goroutine does nothing more that matters.
Release(i) ==
  /\ at[i] = "release" /\ singletonCh > 0
  /\ singletonCh' = singletonCh - 1
  /\ Move(i, "off")
  /\ previousGroups' = [previousGroups EXCEPT ![i] = <<>>]
  /\ UNCHANGED <<vars, localStreams, mRptNotifyCh, scan, groups>>

gratuitiousReporter(i) ==
  Tick(i) \/ Visit(i) \/ FindAndLeave(i) \/ SendReport(i) \/ ReporterDone(i) \/ Release(i)

-----------------------------------------------------------------------------
(* The rest of the application and of the library *)

\* Somebody starts to view a group; the first viewer notifies, others may.
Join(g) ==
  /\ g \notin localStreams
  /\ localStreams' = localStreams \cup {g}
  /\ \/ mRptNotifyCh = 0 /\ mRptNotifyCh' = 1
     \/ localStreams # {} /\ UNCHANGED mRptNotifyCh
  /\ UNCHANGED <<vars, singletonCh, local>>

Leave(g) ==
  /\ g \in localStreams
  /\ localStreams' = localStreams \ {g}
  /\ UNCHANGED <<vars, mRptNotifyCh, singletonCh, local>>

MLibrary ==
  /\ (\E w \in Workers : worker(w)) \/ Return \/ (\E q \in Addr : HandleQuery(q)) \/ Cancel
  /\ UNCHANGED mapp

MNext ==
  /\ ~ crashed
  /\ \/ membershipReporter
     \/ \E i \in Slot : gratuitiousReporter(i)
     \/ \E g \in Group : Join(g) \/ Leave(g)
     \/ MLibrary

MSpec == MInit /\ [][MNext]_mvars

\* Go schedules every goroutine that can run, and the ticker ticks.  Goroutines
\* that wait to send are served in their turn, and a select with several ready
\* cases picks one at random, so it does not pass over the context for ever.
\* Viewers and queriers may do nothing.
MFairness ==
  /\ \A w \in Workers : WF_mvars(~ crashed /\ worker(w) /\ UNCHANGED mapp)
  /\ WF_mvars(~ crashed /\ Return /\ UNCHANGED mapp)
  /\ SF_mvars(~ crashed /\ membershipReporter) /\ SF_mvars(~ crashed /\ MainDone)
  /\ \A i \in Slot : SF_mvars(~ crashed /\ gratuitiousReporter(i))
                   /\ SF_mvars(~ crashed /\ ReporterDone(i))

-----------------------------------------------------------------------------
(* Properties *)

\* "Using singletonCh to make sure only one instance of gratuitiousReporter is
\* running": the token in the channel stands for the one that runs.
AtMostOneReporter ==
  /\ \A i, j \in Slot : at[i] # "off" /\ at[j] # "off" => i = j
  /\ singletonCh = 1 <=> \E i \in Slot : at[i] # "off"

\* A gratuitiousReporter is about to report a group, or did in its last round.
Reports(i, g) ==
  \/ at[i] = "report" /\ g \in ToSet(groups[i])
  \/ at[i] = "select" /\ g \in ToSet(previousGroups[i])

\* A group that is reported although nobody views it any more is left: the
\* leave worker gets it, also when its viewers go while the report is sent, and
\* when the reporter ends because no group remains.  Unless it is viewed again,
\* or the context is cancelled.
LeftEventually ==
  \A g \in Group, i \in Slot :
    (Reports(i, g) /\ g \notin localStreams)
    ~> (g \in ToSet(items["leave"]) \/ g \in localStreams \/ ctxDone \/ crashed)

\* A goroutine waits for room in a channel that nobody reads any more.
Stuck(x) ==
  \/ /\ at[x] = "report" /\ pc["report"] = "done" /\ Len(ToNetworkCh["report"]) = ChannelSize
  \/ /\ at[x] = "range" /\ scan[x] = {} /\ x # "main"
     /\ pc["leave"] = "done" /\ Len(ToNetworkCh["leave"]) = ChannelSize

\* After a cancel every goroutine of the application ends, except one that is
\* caught in a blocking send to a worker that stopped first.
EndsOrStuck ==
  ctxDone ~> (crashed \/ \A x \in Routine : at[x] \in {"off", "done"} \/ Stuck(x))

\* "If we hit this path, then gratuitiousReporter is already running, so we
\* don't start it": a notification about a viewed group leads to a report of it
\* unless nobody views it any more or the context is cancelled.
ViewedReported ==
  \A g \in Group :
    (g \in localStreams /\ mRptNotifyCh > 0)
    ~> (g \in ToSet(items["report"]) \/ g \notin localStreams \/ ctxDone \/ crashed)
=============================================================================
