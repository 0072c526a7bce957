---------------------------- MODULE MCMissionLoop ----------------------------
(***************************************************************************)
(* Instances of MissionLoop for TLC.                                       *)
(***************************************************************************)
EXTENDS MissionLoop

Fleet == <<"SC-01", "SC-02", "SC-03", "SC-04">>
=============================================================================
