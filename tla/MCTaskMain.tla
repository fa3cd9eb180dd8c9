----------------------------- MODULE MCTaskMain -----------------------------
(* A queue of two messages: one of the main thread and one of the real-time *)
(* thread fill it.                                                          *)
EXTENDS TaskMain

=============================================================================
