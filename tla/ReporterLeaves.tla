--------------------------- MODULE ReporterLeaves ---------------------------
(***************************************************************************)
(* MembershipReporter with the history of what each gratuitiousReporter    *)
(* still owes the network: the groups it reported and has not left since.  *)
(* The history follows what is put into the channels, not what the         *)
(* reporter remembers.                                                     *)
(***************************************************************************)
EXTENDS MembershipReporter

VARIABLE owed     \* history: of each gratuitiousReporter

lvars == <<mvars, owed>>

\* The groups of the batch that this step puts into a channel.
Added(c) ==
  IF Len(ToNetworkCh'[c]) > Len(ToNetworkCh[c])
    THEN ToSet(Last(ToNetworkCh'[c]))
    ELSE {}

\* Who moves in a step is who put the batch there.
Moves(i) == at'[i] # at[i]

LInit == MInit /\ owed = [i \in Slot |-> {}]

LNext ==
  /\ MNext
  /\ owed' = [i \in Slot |-> IF Moves(i) THEN (owed[i] \ Added("leave")) \cup Added("report")
                                         ELSE owed[i]]

LSpec == LInit /\ [][LNext]_lvars

\* owed only follows the other variables, so the fairness is about those.
LFairSpec == LSpec /\ MFairness

-----------------------------------------------------------------------------
(* Properties *)

\* "continue" follows the assignment to previousGroups, and a round without
\* groups still leaves the previous ones: when a gratuitiousReporter ends it has
\* left every group it has reported, unless the context was cancelled.
NoneForgotten ==
  \A i \in Slot : at[i] \in {"off", "release"} => owed[i] = {} \/ ctxDone

\* A gratuitiousReporter leaves a group only if it has reported it, and once for
\* a report; it does not leave for what was reported in answer to a query, nor
\* for what another gratuitiousReporter reported before.
OnlyReported ==
  [][\A i \in Slot : Moves(i) => Added("leave") \subseteq owed[i]]_lvars
=============================================================================
