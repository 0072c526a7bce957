--------------------------- MODULE MCGroundStation ---------------------------
(***************************************************************************)
(* Instances of GroundStation for TLC.                                     *)
(***************************************************************************)
EXTENDS GroundStation

Trio == <<"SC-01", "SC-02", "SC-03">>
TrioCraft == {"SC-01", "SC-02", "SC-03"}
=============================================================================
