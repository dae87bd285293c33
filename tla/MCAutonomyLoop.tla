--------------------------- MODULE MCAutonomyLoop ---------------------------
(***************************************************************************)
(* Small instances of AutonomyLoop.                                        *)
(***************************************************************************)
EXTENDS AutonomyLoop, TLC

\* The drivers differ in nothing but their names.
DriverSymmetry == Permutations(Drivers)
=============================================================================
