------------------------ MODULE MCMembershipReporter ------------------------
(***************************************************************************)
(* Small instances of MembershipReporter with its history, ReporterLeaves, *)
(* in the configuration of createGoIGMPReporter.                           *)
(***************************************************************************)
EXTENDS ReporterLeaves, Configurations
=============================================================================
