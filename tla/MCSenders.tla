----------------------------- MODULE MCSenders -----------------------------
(***************************************************************************)
(* Small instances of SendersOrder: the client mode of the README of the   *)
(* repository, and the self-contained test set-up with ConnectQueryToReport.*)
(***************************************************************************)
EXTENDS SendersOrder, Configurations

\* Batches of no, one and two groups.
MCBatches == {<<>>, <<"g1">>, <<"g2", "g1">>}
=============================================================================
