---------------------------- MODULE MCController ----------------------------
(***************************************************************************)
(* Instances of Controller for TLC: rates on both sides of the clamp and   *)
(* zero; a velocity of 2 makes steps of 1, 2 and 4 that pass most targets. *)
(***************************************************************************)
EXTENDS Controller

MCTargets == {-3, 0, 2, 7}

MCRates == {-1, 0, 1, 2, 3}

=============================================================================
