------------------------ MODULE MCBreakerRefinement ------------------------
(***************************************************************************)
(* An instance of BreakerRefinement for TLC.                               *)
(***************************************************************************)
EXTENDS BreakerRefinement

CONSTANTS c1, c2, c3

ThreeCallers == {c1, c2, c3}
=============================================================================
