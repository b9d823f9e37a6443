------------------------------ MODULE MCUpstreams ------------------------------
(***************************************************************************)
(* An instance of Upstreams for TLC: two upstreams, offered in one order.  *)
(***************************************************************************)
EXTENDS Upstreams

CONSTANTS a, b

OneOrder == {<<a, b>>}
=============================================================================
