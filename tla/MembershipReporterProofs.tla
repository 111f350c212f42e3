---------------------- MODULE MembershipReporterProofs ----------------------
(***************************************************************************)
(* For any number of slots, groups and queriers: at most one               *)
(* gratuitiousReporter runs, because the token in singletonCh stands for   *)
(* the one that does; and the types of the application and of the library  *)
(* under it, with the lemmas of SendersProofs about the latter; and what a *)
(* gratuitiousReporter remembers is what it still owes the network.        *)
(***************************************************************************)
EXTENDS ReporterLeaves, SendersProofs

\* The property is inductive as soon as at is a function and the channel holds
\* no more than its capacity.
Single ==
  /\ DOMAIN at = Routine
  /\ singletonCh \in {0, 1}
  /\ AtMostOneReporter

USE ClientAssumption

\* There is no reporter and no token at first.
LEMMA SingleInit == MInit => Single
BY DEF MInit, Single, AtMostOneReporter, Routine

\* A goroutine that moves between two places of its loop, and leaves the channel
\* alone, is neither started nor ended.
LEMMA MoveKeeps ==
  ASSUME Single, NEW x \in Routine, at[x] # "off", NEW label, label # "off",
         Move(x, label), singletonCh' = singletonCh
  PROVE  Single'
<1>1. DOMAIN at' = Routine /\ \A y \in Routine : at'[y] = IF y = x THEN label ELSE at[y]
  BY DEF Single, Move
<1>2. \A y \in Slot : at'[y] # "off" <=> at[y] # "off"
  BY <1>1 DEF Routine
<1> QED BY <1>1, <1>2 DEF Single, AtMostOneReporter

\* Nothing the property speaks of changes.
LEMMA StillKeeps == Single /\ UNCHANGED <<at, singletonCh>> => Single'
BY DEF Single, AtMostOneReporter

\* A notification starts a gratuitiousReporter only if the channel was empty,
\* and then there was none.
LEMMA NotifiedStep == Single /\ Notified => Single'
<1> SUFFICES ASSUME Single, Notified PROVE Single'
    OBVIOUS
<1>1. CASE singletonCh < 1
  <2>1. PICK i \in Slot : at[i] = "off" /\ Move(i, "select")
    BY <1>1 DEF Notified, freeSlot
  <2>2. singletonCh = 0 /\ singletonCh' = 1
    BY <1>1 DEF Notified, Single
  <2>3. \A j \in Slot : at[j] = "off"
    BY <2>2 DEF Single, AtMostOneReporter
  <2>4. DOMAIN at' = Routine /\ \A j \in Routine : at'[j] = IF j = i THEN "select" ELSE at[j]
    BY <2>1 DEF Single, Move, Routine
  <2>5. at'[i] # "off" /\ \A j \in Slot : at'[j] # "off" => j = i
    BY <2>3, <2>4 DEF Routine
  <2> QED BY <2>2, <2>4, <2>5 DEF Single, AtMostOneReporter
<1>2. CASE ~ (singletonCh < 1)
  BY <1>2, StillKeeps DEF Notified
<1> QED BY <1>1, <1>2

\* The reporter that takes the token out was the only one.
LEMMA ReleaseStep == ASSUME NEW i \in Slot, Single, Release(i) PROVE Single'
<1>1. at[i] = "release" /\ Move(i, "off")
  BY DEF Release
<1>2. singletonCh = 1 /\ singletonCh' = 0
  BY DEF Single, Release
<1>3. \A j \in Slot : at[j] # "off" => j = i
  BY <1>1 DEF Single, AtMostOneReporter
<1>4. DOMAIN at' = Routine /\ \A j \in Routine : at'[j] = IF j = i THEN "off" ELSE at[j]
  BY <1>1 DEF Single, Move, Routine
<1>5. \A j \in Slot : at'[j] = "off"
  BY <1>3, <1>4 DEF Routine
<1> QED BY <1>2, <1>4, <1>5 DEF Single, AtMostOneReporter

\* The steps of membershipReporter.
LEMMA MainStep == Single /\ membershipReporter => Single'
<1> SUFFICES ASSUME Single, membershipReporter PROVE Single'
    OBVIOUS
<1>0. "main" \in Routine
  BY DEF Routine
<1>1. CASE Notified
  BY <1>1, NotifiedStep
<1>2. CASE Queried
  BY <1>0, <1>2, MoveKeeps DEF Queried, StartRange
<1>3. CASE Visit("main")
  BY <1>3, StillKeeps DEF Visit
<1>4. CASE Answer
  <2>1. /\ at["main"] # "off" /\ singletonCh' = singletonCh
        /\ Move("main", "select") \/ Move("main", "report")
    BY <1>4 DEF Answer
  <2> QED BY <1>0, <2>1, MoveKeeps
<1>5. CASE SendReport("main")
  BY <1>0, <1>5, MoveKeeps DEF SendReport
<1>6. CASE MainDone
  BY <1>0, <1>6, MoveKeeps DEF MainDone
<1>7. CASE MainReturn
  BY <1>0, <1>7, MoveKeeps DEF MainReturn
<1> QED BY <1>1, <1>2, <1>3, <1>4, <1>5, <1>6, <1>7 DEF membershipReporter

\* The steps of a gratuitiousReporter.
LEMMA ReporterStep ==
  ASSUME NEW i \in Slot, Single, gratuitiousReporter(i) PROVE Single'
<1>0. i \in Routine
  BY DEF Routine
<1>1. CASE Tick(i)
  BY <1>0, <1>1, MoveKeeps DEF Tick, StartRange
<1>2. CASE Visit(i)
  BY <1>2, StillKeeps DEF Visit
<1>3. CASE FindAndLeave(i)
  <2>1. /\ at[i] # "off" /\ singletonCh' = singletonCh
        /\ Move(i, "release") \/ Move(i, "report")
    BY <1>3 DEF FindAndLeave
  <2> QED BY <1>0, <2>1, MoveKeeps
<1>4. CASE SendReport(i)
  BY <1>0, <1>4, MoveKeeps DEF SendReport
<1>5. CASE ReporterDone(i)
  BY <1>0, <1>5, MoveKeeps DEF ReporterDone
<1>6. CASE Release(i)
  BY <1>6, ReleaseStep
<1> QED BY <1>1, <1>2, <1>3, <1>4, <1>5, <1>6 DEF gratuitiousReporter

\* Every step of the application and of the library.
LEMMA SingleInductive == Single /\ [MNext]_mvars => Single'
<1> SUFFICES ASSUME Single, [MNext]_mvars PROVE Single'
    OBVIOUS
<1>1. CASE membershipReporter
  BY <1>1, MainStep
<1>2. ASSUME NEW i \in Slot, gratuitiousReporter(i) PROVE Single'
  BY <1>2, ReporterStep
<1>3. ASSUME NEW g \in Group, Join(g) \/ Leave(g) PROVE Single'
  BY <1>3, StillKeeps DEF Join, Leave, local
<1>4. CASE MLibrary \/ UNCHANGED mvars
  BY <1>4, StillKeeps DEF MLibrary, mvars, mapp, local
<1> QED BY <1>1, <1>2, <1>3, <1>4 DEF MNext

\* singletonCh does what its comment promises: only one instance of
\* gratuitiousReporter is running, whatever the viewers, queriers and workers do.
THEOREM OneReporter == MSpec => []AtMostOneReporter
<1>1. Single => AtMostOneReporter
  BY DEF Single
<1> QED BY <1>1, SingleInit, SingleInductive, PTL DEF MSpec

-----------------------------------------------------------------------------
(* The types of the application and of the library under it *)

\* The part of MTypeOK that is about the application.
AppTyped ==
  /\ localStreams \subseteq Group
  /\ mRptNotifyCh \in 0 .. 1 /\ singletonCh \in 0 .. 1
  /\ at \in [Routine -> Place]
  /\ scan \in [Routine -> SUBSET Group]
  /\ groups \in [Routine -> Seq(Group)]
  /\ previousGroups \in [Slot -> Seq(Group)]

\* MTypeOK in two parts.
LEMMA AppTypedIs == MTypeOK <=> TypeOK /\ AppTyped
BY DEF MTypeOK, AppTyped

\* findGroupsToLeave returns a list of groups.
LEMMA LeavesTyped ==
  ASSUME NEW cur, NEW previous \in Seq(Group)
  PROVE  findGroupsToLeave(cur, previous) \in Seq(Group)
BY OnlyTyped DEF findGroupsToLeave

\* Nobody views a group at first, and no channel holds anything.
LEMMA ReporterTypedInit == MInit => MTypeOK
<1> SUFFICES ASSUME MInit PROVE AppTyped
    BY SendersTypedInit, AppTypedIs DEF MInit
<1>1. /\ at \in [Routine -> Place]
      /\ scan \in [Routine -> SUBSET Group]
  BY DEF MInit, Place
<1>2. groups \in [Routine -> Seq(Group)] /\ previousGroups \in [Slot -> Seq(Group)]
  BY DEF MInit
<1> QED BY <1>1, <1>2 DEF MInit, AppTyped

\* A goroutine moves to a place of its loop.
LEMMA MoveTyped ==
  ASSUME AppTyped, NEW x, NEW label \in Place,
         Move(x, label)
  PROVE  at' \in [Routine -> Place]
BY DEF AppTyped, Move

\* What every goroutine of the application does: it goes through localStreams
\* and submits a report of what it found.
LEMMA RoutineTyped ==
  ASSUME MTypeOK, NEW x \in Routine
  PROVE  /\ StartRange(x) /\ UNCHANGED <<localStreams, mRptNotifyCh, singletonCh>> => AppTyped'
         /\ Visit(x) => MTypeOK'
         /\ SendReport(x) => MTypeOK'
<1>0. TypeOK /\ AppTyped /\ groups[x] \in Seq(Group)
  BY AppTypedIs DEF AppTyped
<1>1. ASSUME StartRange(x), UNCHANGED <<localStreams, mRptNotifyCh, singletonCh>> PROVE AppTyped'
  <2>1. groups' \in [Routine -> Seq(Group)] /\ scan' \in [Routine -> SUBSET Group]
    BY <1>0, <1>1 DEF StartRange, AppTyped
  <2>2. at' \in [Routine -> Place]
    BY <1>0, <1>1, MoveTyped DEF StartRange, Place
  <2> QED BY <1>0, <1>1, <2>1, <2>2 DEF StartRange, AppTyped
<1>2. ASSUME Visit(x) PROVE MTypeOK'
  <2>1. PICK k \in scan[x] : /\ scan' = [scan EXCEPT ![x] = @ \ {k}]
                             /\ groups' = IF k \in localStreams THEN [groups EXCEPT ![x] = Append(@, k)] ELSE groups
    BY <1>2 DEF Visit
  <2>2. k \in Group
    BY <1>0, <2>1 DEF AppTyped
  <2>3. scan' \in [Routine -> SUBSET Group]
    BY <1>0, <2>1 DEF AppTyped
  <2>4. Append(groups[x], k) \in Seq(Group)
    BY <1>0, <2>2
  <2>5. groups' \in [Routine -> Seq(Group)]
    BY <1>0, <2>1, <2>4 DEF AppTyped
  <2>6. AppTyped'
    BY <1>0, <1>2, <2>3, <2>5 DEF Visit, AppTyped
  <2>7. TypeOK'
    BY <1>0, <1>2, UnchangedTyped DEF Visit
  <2>8. (MTypeOK <=> TypeOK /\ AppTyped)'
    BY AppTypedIs, PTL
  <2> QED BY <2>6, <2>7, <2>8
<1>3. ASSUME SendReport(x) PROVE MTypeOK'
  <2>1. TypeOK'
    <3>1. "report" \in Channels /\ Submit("report", groups[x])
      BY <1>3 DEF SendReport, Channels
    <3> QED BY <1>0, <3>1, SubmitTyped
  <2>2. groups' \in [Routine -> Seq(Group)] /\ previousGroups' \in [Slot -> Seq(Group)]
    <3>1. groups' = [groups EXCEPT ![x] = <<>>] /\ <<>> \in Seq(Group)
      BY <1>3 DEF SendReport
    <3>2. groups' \in [Routine -> Seq(Group)]
      BY <1>0, <3>1 DEF AppTyped
    <3>3. CASE x = "main"
      BY <1>0, <1>3, <3>2, <3>3 DEF SendReport, AppTyped
    <3>4. CASE x # "main"
      <4>1. x \in Slot /\ previousGroups' = [previousGroups EXCEPT ![x] = groups[x]]
        BY <1>3, <3>4 DEF SendReport, Routine
      <4> QED BY <1>0, <3>2, <4>1 DEF AppTyped
    <3> QED BY <3>3, <3>4
  <2>3. at' \in [Routine -> Place]
    BY <1>0, <1>3, MoveTyped DEF SendReport, Place
  <2>4. AppTyped'
    BY <1>0, <1>3, <2>2, <2>3 DEF SendReport, AppTyped
  <2>8. (MTypeOK <=> TypeOK /\ AppTyped)'
    BY AppTypedIs, PTL
  <2> QED BY <2>1, <2>4, <2>8
<1> QED BY <1>1, <1>2, <1>3

\* The steps of membershipReporter.
LEMMA MainTyped == MTypeOK /\ membershipReporter => MTypeOK'
<1> SUFFICES ASSUME MTypeOK, membershipReporter PROVE TypeOK' /\ AppTyped'
  <2>1. (MTypeOK <=> TypeOK /\ AppTyped)'
    BY AppTypedIs, PTL
  <2> QED BY <2>1
<1>0. TypeOK /\ AppTyped /\ "main" \in Routine
  BY AppTypedIs DEF Routine
<1>1. CASE Notified
  <2>1. mRptNotifyCh' \in 0 .. 1 /\ singletonCh' \in 0 .. 1
    BY <1>0, <1>1 DEF Notified, AppTyped
  <2>2. at' \in [Routine -> Place]
    BY <1>0, <1>1, MoveTyped DEF Notified, AppTyped, Place
  <2>3. AppTyped'
    BY <1>0, <1>1, <2>1, <2>2 DEF Notified, AppTyped
  <2> QED BY <1>0, <1>1, <2>3, UnchangedTyped DEF Notified
<1>2. CASE Queried
  <2>1. AppTyped'
    BY <1>0, <1>2, RoutineTyped DEF Queried
  <2> QED BY <1>0, <1>2, <2>1, OthersTyped DEF Queried
<1>3. CASE Visit("main") \/ SendReport("main")
  <2>1. (MTypeOK <=> TypeOK /\ AppTyped)'
    BY AppTypedIs, PTL
  <2> QED BY <1>0, <1>3, <2>1, RoutineTyped
<1>4. CASE Answer \/ MainDone \/ MainReturn
  <2>1. at' \in [Routine -> Place]
    BY <1>0, <1>4, MoveTyped DEF Answer, MainDone, MainReturn, Place
  <2>2. UNCHANGED <<vars, localStreams, mRptNotifyCh, singletonCh, scan, groups, previousGroups>>
    BY <1>4 DEF Answer, MainDone, MainReturn
  <2>3. AppTyped'
    BY <1>0, <2>1, <2>2 DEF AppTyped
  <2> QED BY <1>0, <2>2, <2>3, UnchangedTyped
<1> QED BY <1>1, <1>2, <1>3, <1>4 DEF membershipReporter

\* A leave is submitted with a list of groups, like a report.
LEMMA GratuitiousTyped ==
  ASSUME NEW i \in Slot PROVE MTypeOK /\ gratuitiousReporter(i) => MTypeOK'
<1> SUFFICES ASSUME MTypeOK, gratuitiousReporter(i) PROVE TypeOK' /\ AppTyped'
  <2>1. (MTypeOK <=> TypeOK /\ AppTyped)'
    BY AppTypedIs, PTL
  <2> QED BY <2>1
<1>0. TypeOK /\ AppTyped /\ i \in Routine
  BY AppTypedIs DEF Routine
<1>1. CASE Tick(i)
  <2>1. AppTyped'
    BY <1>0, <1>1, RoutineTyped DEF Tick
  <2> QED BY <1>0, <1>1, <2>1, UnchangedTyped DEF Tick
<1>2. CASE Visit(i) \/ SendReport(i)
  <2>1. (MTypeOK <=> TypeOK /\ AppTyped)'
    BY AppTypedIs, PTL
  <2> QED BY <1>0, <1>2, <2>1, RoutineTyped
<1>3. CASE FindAndLeave(i)
  <2>1. "leave" \in Channels
    BY ClientAssumption DEF Channels
  <2>2. findGroupsToLeave(groups[i], previousGroups[i]) \in Seq(Group)
    BY <1>0, LeavesTyped DEF AppTyped
  <2>3. TypeOK'
    BY <1>0, <1>3, <2>1, <2>2, SubmitTyped DEF FindAndLeave
  <2>4. at' \in [Routine -> Place]
    BY <1>0, <1>3, MoveTyped DEF FindAndLeave, Place
  <2> QED BY <1>0, <1>3, <2>3, <2>4 DEF FindAndLeave, AppTyped
<1>4. CASE ReporterDone(i)
  <2>1. at' \in [Routine -> Place]
    BY <1>0, <1>4, MoveTyped DEF ReporterDone, Place
  <2>2. AppTyped'
    BY <1>0, <1>4, <2>1 DEF ReporterDone, AppTyped
  <2> QED BY <1>0, <1>4, <2>2, UnchangedTyped DEF ReporterDone
<1>5. CASE Release(i)
  <2>1. at' \in [Routine -> Place]
    BY <1>0, <1>5, MoveTyped DEF Release, Place
  <2>2. singletonCh' \in 0 .. 1 /\ previousGroups' \in [Slot -> Seq(Group)]
    BY <1>0, <1>5 DEF Release, AppTyped
  <2>3. AppTyped'
    BY <1>0, <1>5, <2>1, <2>2 DEF Release, AppTyped
  <2> QED BY <1>0, <1>5, <2>3, UnchangedTyped DEF Release
<1> QED BY <1>1, <1>2, <1>3, <1>4, <1>5 DEF gratuitiousReporter

\* Every step of the application and of the library.
LEMMA ReporterTypedStep == MTypeOK /\ [MNext]_mvars => MTypeOK'
<1> SUFFICES ASSUME MTypeOK, [MNext]_mvars PROVE MTypeOK'
    OBVIOUS
<1>0. /\ TypeOK /\ AppTyped /\ (MTypeOK <=> TypeOK /\ AppTyped)'
  <2>1. (MTypeOK <=> TypeOK /\ AppTyped)'
    BY AppTypedIs, PTL
  <2> QED BY <2>1, AppTypedIs
<1>1. CASE membershipReporter
  BY <1>1, MainTyped
<1>2. ASSUME NEW i \in Slot, gratuitiousReporter(i) PROVE MTypeOK'
  BY <1>2, GratuitiousTyped
<1>3. ASSUME NEW g \in Group, Join(g) \/ Leave(g) PROVE MTypeOK'
  <2>1. localStreams' \subseteq Group /\ mRptNotifyCh' \in 0 .. 1
    BY <1>0, <1>3 DEF Join, Leave, AppTyped
  <2>2. UNCHANGED <<vars, singletonCh, local>>
    BY <1>3 DEF Join, Leave
  <2>3. AppTyped'
    BY <1>0, <2>1, <2>2 DEF AppTyped, local
  <2> QED BY <1>0, <2>2, <2>3, UnchangedTyped
<1>4. CASE MLibrary
  <2>1. TypeOK'
    BY <1>0, <1>4, WorkerTyped, OthersTyped DEF MLibrary
  <2> QED BY <1>0, <1>4, <2>1 DEF MLibrary, mapp, local, AppTyped
<1>5. CASE UNCHANGED mvars
  BY <1>0, <1>5, UnchangedTyped DEF mvars, mapp, local, AppTyped
<1> QED BY <1>1, <1>2, <1>3, <1>4, <1>5 DEF MNext

\* The application sends lists of groups on channels that exist and have room,
\* whatever Range saw of the streams; its own two channels keep to one token.
THEOREM ReporterTypeCorrect == MSpec => []MTypeOK
BY ReporterTypedInit, ReporterTypedStep, PTL DEF MSpec

-----------------------------------------------------------------------------
(* Every group reported is left *)

\* findGroupsToLeave returns the previous groups that are not current, all of
\* them and no other.
THEOREM FindsGroupsToLeave ==
  ASSUME NEW cur \in Seq(Group), NEW previous \in Seq(Group)
  PROVE  ToSet(findGroupsToLeave(cur, previous)) = ToSet(previous) \ ToSet(cur)
<1>1. ToSet(Only(previous, Group \ ToSet(cur))) = ToSet(previous) \cap (Group \ ToSet(cur))
  BY ONLY OnlyElements
<1>2. ToSet(previous) \subseteq Group
  BY DEF ToSet
<1> QED BY <1>1, <1>2 DEF findGroupsToLeave

\* What the gratuitiousReporter at i remembers of what it owes: exactly that,
\* unless the context is cancelled, when a new one may start and the one before
\* it has gone without leaving.
Remembers(i) ==
  /\ at[i] \in {"select", "range"} => /\ ToSet(previousGroups[i]) \subseteq owed[i]
                                      /\ owed[i] \subseteq ToSet(previousGroups[i]) \/ ctxDone
  /\ at[i] = "report" => owed[i] \subseteq ToSet(groups[i]) \/ ctxDone
  /\ at[i] \in {"off", "release"} => owed[i] = {} \/ ctxDone
  /\ at[i] = "off" => previousGroups[i] = <<>>

Remembering ==
  /\ DOMAIN owed = Slot
  /\ \A i \in Slot : Remembers(i)

\* What a step does to the history of those who do not move, and of one who
\* moves without putting a batch into a channel.
LEMMA NothingAdded ==
  ASSUME MTypeOK, LNext, NEW i \in Slot, ~ Moves(i) \/ ToNetworkCh' = ToNetworkCh
  PROVE  owed'[i] = owed[i] /\ (Moves(i) => Added("leave") = {})
<1>1. CASE ~ Moves(i)
  BY <1>1 DEF LNext
<1>2. CASE ToNetworkCh' = ToNetworkCh
  <2>1. Added("leave") = {} /\ Added("report") = {}
    <3>1. ASSUME NEW c \in Channels PROVE Added(c) = {}
      <4>1. Len(ToNetworkCh'[c]) = Len(ToNetworkCh[c]) /\ Len(ToNetworkCh[c]) \in Nat
        BY <1>2 DEF MTypeOK, TypeOK
      <4> QED BY <4>1 DEF Added
    <3>2. "report" \in Channels /\ "leave" \in Channels
      BY DEF Channels
    <3> QED BY <3>1, <3>2
  <2> QED BY <2>1 DEF LNext
<1> QED BY <1>1, <1>2

\* A batch submitted is what this step adds to its channel, and nothing is added
\* to the other.
LEMMA SubmitAdds ==
  ASSUME MTypeOK, NEW c \in Channels, NEW batch \in Seq(Group), Submit(c, batch)
  PROVE  Added(c) = ToSet(batch) /\ \A d \in Channels : d # c => Added(d) = {}
<1>1. ToNetworkCh \in [Channels -> Seq(Seq(Group))]
  BY DEF MTypeOK, TypeOK
<1>2. /\ ToNetworkCh'[c] = Append(ToNetworkCh[c], batch)
      /\ \A d \in Channels : d # c => ToNetworkCh'[d] = ToNetworkCh[d]
  BY <1>1 DEF Submit
<1>3. /\ Len(ToNetworkCh'[c]) = Len(ToNetworkCh[c]) + 1 /\ Len(ToNetworkCh[c]) \in Nat
      /\ ToNetworkCh'[c][Len(ToNetworkCh[c]) + 1] = batch
  BY <1>1, <1>2
<1>4. Last(ToNetworkCh'[c]) = batch
  BY <1>3 DEF Last
<1>5. Added(c) = ToSet(batch)
  BY <1>3, <1>4 DEF Added
<1>6. ASSUME NEW d \in Channels, d # c PROVE Added(d) = {}
  <2>1. Len(ToNetworkCh'[d]) = Len(ToNetworkCh[d]) /\ Len(ToNetworkCh[d]) \in Nat
    BY <1>1, <1>2, <1>6
  <2> QED BY <2>1 DEF Added
<1> QED BY <1>5, <1>6

\* What is remembered by those who keep their place.
LEMMA OthersRemember ==
  ASSUME Remembering, MTypeOK, LNext, ctxDone => ctxDone', NEW i \in Slot,
         at'[i] = at[i], previousGroups'[i] = previousGroups[i],
         at[i] = "report" => groups'[i] = groups[i]
  PROVE  Remembers(i)'
<1>1. owed'[i] = owed[i]
  BY NothingAdded DEF Moves
<1> QED BY <1>1 DEF Remembering, Remembers

\* A report makes what is reported owed, and remembered.
LEMMA ReportRemembered ==
  ASSUME Remembering, MTypeOK, LNext, NEW i \in Slot, SendReport(i)
  PROVE  Remembers(i)' /\ (Moves(i) => Added("leave") \subseteq owed[i])
<1>1. /\ at[i] = "report" /\ Submit("report", groups[i]) /\ groups[i] \in Seq(Group)
      /\ at'[i] = "select" /\ previousGroups'[i] = groups[i] /\ ctxDone' = ctxDone
  BY DEF SendReport, MTypeOK, Move, Routine, Submit, app
<1>2. Added("report") = ToSet(groups[i]) /\ Added("leave") = {}
  <2>1. "report" \in Channels /\ "leave" \in Channels
    BY DEF Channels
  <2> QED BY <1>1, <2>1, SubmitAdds
<1>3. owed'[i] = owed[i] \cup ToSet(groups[i])
  BY <1>1, <1>2 DEF LNext, Moves
<1> QED BY <1>1, <1>2, <1>3 DEF Remembering, Remembers

\* A leave is of groups owed, and what remains owed is in the groups found.
LEMMA LeaveRemembered ==
  ASSUME Remembering, MTypeOK, LNext, NEW i \in Slot, FindAndLeave(i)
  PROVE  Remembers(i)' /\ (Moves(i) => Added("leave") \subseteq owed[i])
<1>1. /\ at[i] = "range" /\ groups[i] \in Seq(Group) /\ previousGroups[i] \in Seq(Group)
      /\ Submit("leave", findGroupsToLeave(groups[i], previousGroups[i]))
      /\ at'[i] = IF groups[i] = <<>> THEN "release" ELSE "report"
      /\ groups' = groups /\ ctxDone' = ctxDone
  BY DEF FindAndLeave, MTypeOK, Move, Routine, Submit, app
<1>2. /\ Added("leave") = ToSet(previousGroups[i]) \ ToSet(groups[i])
      /\ Added("report") = {}
  <2>1. "report" \in Channels /\ "leave" \in Channels
    BY DEF Channels
  <2>2. findGroupsToLeave(groups[i], previousGroups[i]) \in Seq(Group)
    BY <1>1, LeavesTyped
  <2>3. ToSet(findGroupsToLeave(groups[i], previousGroups[i])) = ToSet(previousGroups[i]) \ ToSet(groups[i])
    BY <1>1, FindsGroupsToLeave
  <2> QED BY <1>1, <2>1, <2>2, <2>3, SubmitAdds
<1>3. owed'[i] = owed[i] \ (ToSet(previousGroups[i]) \ ToSet(groups[i]))
  BY <1>1, <1>2 DEF LNext, Moves
<1>4. groups[i] = <<>> => ToSet(groups[i]) = {}
  BY DEF ToSet
<1>5. /\ ToSet(previousGroups[i]) \subseteq owed[i]
      /\ owed[i] \subseteq ToSet(previousGroups[i]) \/ ctxDone
  BY <1>1 DEF Remembering, Remembers
<1> QED BY <1>1, <1>2, <1>3, <1>4, <1>5 DEF Remembers

\* The steps of a gratuitiousReporter, for itself.
LEMMA ReporterRemembers ==
  ASSUME Remembering, MTypeOK, LNext, NEW i \in Slot, gratuitiousReporter(i)
  PROVE  Remembers(i)' /\ (Moves(i) => Added("leave") \subseteq owed[i])
<1>0. at \in [Routine -> Place] /\ previousGroups \in [Slot -> Seq(Group)] /\ i \in Routine
  BY DEF MTypeOK, Routine
<1>1. CASE SendReport(i)
  BY <1>1, ReportRemembered
<1>2. CASE FindAndLeave(i)
  BY <1>2, LeaveRemembered
<1>3. CASE Tick(i)
  <2>1. /\ at[i] = "select" /\ at'[i] = "range" /\ previousGroups' = previousGroups
        /\ ctxDone' = ctxDone /\ ToNetworkCh' = ToNetworkCh
    BY <1>0, <1>3 DEF Tick, StartRange, Move, vars, app
  <2> QED BY <2>1, NothingAdded DEF Remembering, Remembers
<1>4. CASE Visit(i)
  <2>1. /\ at[i] = "range" /\ at' = at /\ previousGroups' = previousGroups /\ ctxDone' = ctxDone
    BY <1>4 DEF Visit, vars, app
  <2> QED BY <2>1, OthersRemember DEF Moves
<1>5. CASE ReporterDone(i)
  <2>1. /\ at'[i] = "release" /\ ctxDone' = ctxDone /\ ctxDone /\ ToNetworkCh' = ToNetworkCh
    BY <1>0, <1>5 DEF ReporterDone, Move, vars, app
  <2> QED BY <2>1, NothingAdded DEF Remembers
<1>6. CASE Release(i)
  <2>1. /\ at[i] = "release" /\ at'[i] = "off" /\ previousGroups'[i] = <<>>
        /\ ctxDone' = ctxDone /\ ToNetworkCh' = ToNetworkCh
    BY <1>0, <1>6 DEF Release, Move, vars, app
  <2> QED BY <2>1, NothingAdded DEF Remembering, Remembers
<1> QED BY <1>1, <1>2, <1>3, <1>4, <1>5, <1>6 DEF gratuitiousReporter

\* Its steps do not touch what the others remember.
LEMMA ReporterAlone ==
  ASSUME MTypeOK, NEW i \in Slot, gratuitiousReporter(i), NEW j \in Slot, j # i
  PROVE  /\ at'[j] = at[j] /\ previousGroups'[j] = previousGroups[j] /\ groups'[j] = groups[j]
         /\ ctxDone' = ctxDone
<1>0. /\ at \in [Routine -> Place] /\ previousGroups \in [Slot -> Seq(Group)]
      /\ groups \in [Routine -> Seq(Group)] /\ j \in Routine /\ i # "main"
  BY DEF MTypeOK, Routine
<1>1. CASE Tick(i)
  BY <1>0, <1>1 DEF Tick, StartRange, Move, vars, app
<1>2. CASE Visit(i)
  BY <1>0, <1>2 DEF Visit, vars, app
<1>3. CASE FindAndLeave(i)
  BY <1>0, <1>3 DEF FindAndLeave, Move, Submit, app
<1>4. CASE SendReport(i)
  BY <1>0, <1>4 DEF SendReport, Move, Submit, app
<1>5. CASE ReporterDone(i)
  BY <1>0, <1>5 DEF ReporterDone, Move, vars, app
<1>6. CASE Release(i)
  BY <1>0, <1>6 DEF Release, Move, vars, app
<1> QED BY <1>1, <1>2, <1>3, <1>4, <1>5, <1>6 DEF gratuitiousReporter

\* The steps of membershipReporter start a gratuitiousReporter or leave them be.
LEMMA MainRemembers ==
  ASSUME Remembering, MTypeOK, LNext, membershipReporter, NEW i \in Slot
  PROVE  Remembers(i)' /\ (Moves(i) => Added("leave") \subseteq owed[i])
<1>0. /\ at \in [Routine -> Place] /\ groups \in [Routine -> Seq(Group)]
      /\ i \in Routine /\ "main" \in Routine /\ i # "main"
  BY DEF MTypeOK, Routine
<1>1. CASE Notified
  <2>1. /\ previousGroups' = previousGroups /\ groups' = groups /\ ctxDone' = ctxDone
        /\ ToNetworkCh' = ToNetworkCh
    BY <1>1 DEF Notified, vars, app
  <2>2. CASE at'[i] = at[i]
    BY <2>1, <2>2, OthersRemember DEF Moves
  <2>3. CASE at'[i] # at[i]
    <3>1. \E k \in Slot : at[k] = "off"
      BY <1>1, <2>3 DEF Notified
    <3>2. at[freeSlot] = "off" /\ Move(freeSlot, "select")
      BY <1>1, <2>3, <3>1 DEF Notified, freeSlot
    <3>3. at[i] = "off" /\ at'[i] = "select"
      BY <1>0, <2>3, <3>2 DEF Move
    <3>4. ToSet(<<>>) = {}
      BY DEF ToSet
    <3> QED BY <2>1, <3>3, <3>4, NothingAdded DEF Remembering, Remembers
  <2> QED BY <2>2, <2>3
<1>2. CASE ~ Notified
  <2>1. /\ at'[i] = at[i] /\ previousGroups'[i] = previousGroups[i] /\ groups'[i] = groups[i]
        /\ ctxDone' = ctxDone
    <3>1. CASE Queried
      BY <1>0, <3>1 DEF Queried, ReadQuery, StartRange, Move, app
    <3>2. CASE Visit("main")
      BY <1>0, <3>2 DEF Visit, vars, app
    <3>3. CASE Answer \/ MainDone \/ MainReturn
      <4>1. (\E label : Move("main", label)) /\ UNCHANGED <<vars, groups, previousGroups>>
        BY <3>3 DEF Answer, MainDone, MainReturn
      <4> QED BY <1>0, <4>1 DEF Move, vars, app
    <3>4. CASE SendReport("main")
      BY <1>0, <3>4 DEF SendReport, Submit, Move, app
    <3> QED BY <1>2, <3>1, <3>2, <3>3, <3>4 DEF membershipReporter
  <2> QED BY <2>1, OthersRemember DEF Moves
<1> QED BY <1>1, <1>2

\* Every step.
LEMMA RemembersStep ==
  Remembering /\ MTypeOK /\ [LNext]_lvars
    => Remembering' /\ [\A i \in Slot : Moves(i) => Added("leave") \subseteq owed[i]]_lvars
<1> SUFFICES ASSUME Remembering, MTypeOK, LNext
             PROVE  /\ Remembering'
                    /\ \A i \in Slot : Moves(i) => Added("leave") \subseteq owed[i]
  <2>1. ASSUME Remembering, UNCHANGED lvars PROVE Remembering'
    BY <2>1 DEF Remembering, Remembers, lvars, mvars, vars, app, mapp, local
  <2> QED BY <2>1
<1>1. ASSUME NEW i \in Slot PROVE Remembers(i)' /\ (Moves(i) => Added("leave") \subseteq owed[i])
  <2>1. CASE membershipReporter
    BY <2>1, MainRemembers
  <2>2. ASSUME NEW j \in Slot, gratuitiousReporter(j)
        PROVE  Remembers(i)' /\ (Moves(i) => Added("leave") \subseteq owed[i])
    <3>1. CASE j = i
      BY <2>2, <3>1, ReporterRemembers
    <3>2. CASE j # i
      <4>1. /\ at'[i] = at[i] /\ previousGroups'[i] = previousGroups[i] /\ groups'[i] = groups[i]
            /\ ctxDone' = ctxDone
        BY <2>2, <3>2, ReporterAlone
      <4> QED BY <4>1, OthersRemember DEF Moves
    <3> QED BY <3>1, <3>2
  <2>3. CASE (\E g \in Group : Join(g) \/ Leave(g)) \/ MLibrary
    <3>1. UNCHANGED local /\ (ctxDone => ctxDone')
      <4>1. CASE \E g \in Group : Join(g) \/ Leave(g)
        BY <4>1 DEF Join, Leave, vars, app
      <4>2. CASE MLibrary
        <5>1. UNCHANGED local
          BY <4>2 DEF MLibrary, mapp
        <5>2. ctxDone => ctxDone'
          BY <4>2 DEF MLibrary, worker, Receive, ReceiveQuery, Stop, SendItem, Crash, Finish, Return,
                      HandleQuery, Cancel, app
        <5> QED BY <5>1, <5>2
      <4> QED BY <2>3, <4>1, <4>2
    <3> QED BY <3>1, OthersRemember DEF Moves, local
  <2> QED BY <2>1, <2>2, <2>3 DEF LNext, MNext
<1>2. DOMAIN owed' = Slot
  BY DEF LNext
<1> QED BY <1>1, <1>2 DEF Remembering

\* Nobody owes anything at first.
LEMMA RemembersInit == LInit => Remembering
<1> SUFFICES ASSUME LInit PROVE Remembering
    OBVIOUS
<1>1. ASSUME NEW i \in Slot PROVE at[i] = "off" /\ owed[i] = {} /\ previousGroups[i] = <<>>
  BY DEF LInit, MInit, Routine
<1>2. DOMAIN owed = Slot
  BY DEF LInit
<1> QED BY <1>1, <1>2 DEF Remembering, Remembers

\* A gratuitiousReporter that ends has left every group it reported, unless the
\* context was cancelled: however the streams change while it goes through them.
THEOREM NothingForgotten == LSpec => []NoneForgotten
<1>1. LInit => MTypeOK /\ Remembering
  BY ReporterTypedInit, RemembersInit DEF LInit
<1>2. MTypeOK /\ [LNext]_lvars => MTypeOK'
  BY ReporterTypedStep DEF LNext, lvars
<1>3. Remembering => NoneForgotten
  BY DEF Remembering, Remembers, NoneForgotten
<1> QED BY <1>1, <1>2, <1>3, RemembersStep, PTL DEF LSpec

\* A gratuitiousReporter leaves only what it has reported, and once for a report.
THEOREM LeavesOnlyReported == LSpec => OnlyReported
<1>1. LInit => MTypeOK /\ Remembering
  BY ReporterTypedInit, RemembersInit DEF LInit
<1>2. MTypeOK /\ [LNext]_lvars => MTypeOK'
  BY ReporterTypedStep DEF LNext, lvars
<1> QED BY <1>1, <1>2, RemembersStep, PTL DEF LSpec, OnlyReported
=============================================================================
