-------------------------- MODULE MCCommandChannel --------------------------
(***************************************************************************)
(* Instances of CommandChannel for TLC: two commands are enough for one to *)
(* be overwritten by the next before the loop has taken it, and two        *)
(* parameter values tell a torn command from a whole one.                  *)
(***************************************************************************)
EXTENDS CommandChannel

=============================================================================
