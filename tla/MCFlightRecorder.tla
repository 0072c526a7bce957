--------------------------- MODULE MCFlightRecorder ---------------------------
(***************************************************************************)
(* Instances of FlightRecorder for TLC.                                    *)
(***************************************************************************)
EXTENDS FlightRecorder, TLC

WriterSymmetry == Permutations(Writers)
=============================================================================
