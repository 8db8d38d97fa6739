---------------------------- MODULE MCStateFile ----------------------------
(* Instances of StateFile for TLC. *)
EXTENDS StateFile

CONSTANTS alerts, incidents

TwoStreams == {alerts, incidents}
=============================================================================
