------------------------------ MODULE MCSetup ------------------------------
(***************************************************************************)
(* Setup for all 2048 configurations, with the three groups of the source, *)
(* and interface names that may denote the same kernel interface.          *)
(***************************************************************************)
EXTENDS Setup

MCGroups == {"allHosts", "allRouters", "IGMPHosts"}
MCIndex  == {1, 2}
=============================================================================
