------------------------------ MODULE MCRtTask ------------------------------
(***************************************************************************)
(* Instances of RtTask for TLC.  Two tasks make the thread lock and the    *)
(* slot search meaningful; semaphores that hold at most two tokens let     *)
(* every duplicated token be seen.                                         *)
(***************************************************************************)
EXTENDS RtTask

=============================================================================
