---------------------------- MODULE MCDashboard ----------------------------
(* One row of one portal; the portal's first sync may be missing.            *)
EXTENDS Dashboard

CONSTANTS s1

MCProviderOf == [j \in {s1} |-> "CU12"]
=============================================================================
