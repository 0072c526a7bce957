------------------------------- MODULE MCLiveLink -------------------------------
(***************************************************************************)
(* Instances of LiveLink for TLC.                                          *)
(***************************************************************************)
EXTENDS LiveLink

Shape(mode, faults, strain) == [mode |-> mode, faults |-> faults, strain |-> strain]

\* A craft at rest; one whose mode is behind its faults; one in trouble; one on its way back.
SomeShapes ==
    {Shape("NORMAL", {}, 0),
     Shape("EMERGENCY", {}, 10),
     Shape("SAFE", {"HIGH_TEMP"}, 0),
     Shape("RECOVERY", {"COMM_TIMEOUT"}, 0)}

SomeLinks == {{}, {[down |-> "SC-01", relay |-> "SC-02"]}}
=============================================================================
