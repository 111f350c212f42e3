----------------------------- MODULE MCShutdown -----------------------------
(***************************************************************************)
(* Small instances of Shutdown: read deadlines below, at and above what    *)
(* the handler's sleep leaves room for, with and without a relay and an    *)
(* alternative interface.                                                  *)
(***************************************************************************)
EXTENDS Shutdown, Configurations

MCConfigs == {MCOut, MCSpecialAlt, MCClient, MCAll}
MCGroups  == {"allHosts"}
=============================================================================
