------------------------------ MODULE MCTiming ------------------------------
(* A second of three ns, a period of four with a correction of one, a timer *)
(* of two, and a wall clock that may be set forward and back, by more and   *)
(* by fewer timeouts than an int of two bits counts.                        *)
EXTENDS CycleTimer

CorrectionRequests == {-2, 0, 2}

=============================================================================
