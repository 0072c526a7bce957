-------------------------- MODULE MCTelemetryServer --------------------------
(***************************************************************************)
(* Instances of TelemetryServer for TLC.                                   *)
(***************************************************************************)
EXTENDS TelemetryServer

BothWriters == {TelemSrv, FaultInj}

OneEach == [w \in BothWriters |-> 1]

OneAndTwo == [w \in BothWriters |-> IF w = TelemSrv THEN 2 ELSE 1]
=============================================================================
