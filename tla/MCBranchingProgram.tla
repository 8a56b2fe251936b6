------------------------- MODULE MCBranchingProgram -------------------------
(***************************************************************************)
(* Instances of BranchingProgram for TLC.                                  *)
(***************************************************************************)
EXTENDS BranchingProgram
=============================================================================
