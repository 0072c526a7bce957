-------------------------- MODULE MCFaultManagement --------------------------
(***************************************************************************)
(* Instances of FaultManagement for TLC.                                   *)
(***************************************************************************)
EXTENDS FaultManagement, TLC

InstanceSymmetry == Permutations(Instances)
=============================================================================
