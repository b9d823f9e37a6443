-------------------------- MODULE MCDeployConfirm --------------------------
(***************************************************************************)
(* Instances of DeployConfirm for TLC.                                     *)
(***************************************************************************)
EXTENDS DeployConfirm, TLC

Interchangeable == Permutations(Revisions) \cup Permutations(Operators)
=============================================================================
