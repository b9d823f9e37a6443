----------------------------- MODULE MCHostPass -----------------------------
(***************************************************************************)
(* An instance of HostPass for TLC: two revisions, the second of which     *)
(* moves one client to another resolver and no longer admits the other.    *)
(***************************************************************************)
EXTENDS HostPass, TLC

CONSTANTS r1, r2, p1, p2, k1, k2, home, office, alice, bob

MCPlanOf == r1 :> p1 @@ r2 :> p2
MCConfOf == p1 :> k1 @@ p2 :> k2
MCResolverOf ==
  p1 :> (alice :> home @@ bob :> home) @@ p2 :> (alice :> office @@ bob :> None)
=============================================================================
