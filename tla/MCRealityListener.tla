------------------------- MODULE MCRealityListener -------------------------
(***************************************************************************)
(* An instance of RealityListener for TLC: two revisions whose listener    *)
(* configurations are accepted and one whose configuration is not.         *)
(***************************************************************************)
EXTENDS RealityListener

CONSTANTS c1, c2, rejected
=============================================================================
