----------------------------- MODULE MCHalAlloc -----------------------------
(***************************************************************************)
(* A segment of 71 bytes with an odd header, and sizes of every alignment  *)
(* class, 3 included: requests are refused, both ends meet, and both are   *)
(* misaligned for most requests.                                           *)
(***************************************************************************)
EXTENDS HalAlloc

=============================================================================
