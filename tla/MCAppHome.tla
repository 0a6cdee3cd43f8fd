----------------------------- MODULE MCAppHome -----------------------------
(* Small instances of AppHome.                                             *)
EXTENDS AppHome, TLC

AllFaults == HomeFaultKinds
Crashes == {"crash"}
=============================================================================
