--------------------------- MODULE Configurations ---------------------------
(***************************************************************************)
(* The configurations the runs use: those of the README of the repository, *)
(* and cut-down ones that leave out what a run does not look at.           *)
(***************************************************************************)
EXTENDS Config

Flags == {"AltOut", "ProxyOutToIn", "ProxyInToOut", "UnicastProxyInToOut",
          "QueryNotify", "MembershipReportsFromNetwork", "MembershipReportsToNetwork",
          "UnicastMembershipReports", "LeaveToNetwork", "ConnectQueryToReport",
          "MembershipReportsReader"}

With(flags) == [f \in Flags |-> f \in flags]

\* "Proxy from outside to inside", with one and with two outside interfaces.
MCSpecialAlt == With({"AltOut", "ProxyOutToIn", "UnicastProxyInToOut", "QueryNotify"})
MCOut        == With({"ProxyOutToIn", "UnicastProxyInToOut"})

\* "Full Proxy Mode", without and with the alternative outside interface.
MCFull    == With({"ProxyOutToIn", "ProxyInToOut", "MembershipReportsFromNetwork"})
MCFullAlt == With({"AltOut", "ProxyOutToIn", "ProxyInToOut"})

\* "Client Mode", and with the connection of queries to reports for testing.
MCClient  == With({"QueryNotify", "MembershipReportsFromNetwork", "MembershipReportsToNetwork",
                   "UnicastMembershipReports", "LeaveToNetwork"})
MCAll     == With({"QueryNotify", "MembershipReportsToNetwork", "LeaveToNetwork",
                   "ConnectQueryToReport"})
=============================================================================
