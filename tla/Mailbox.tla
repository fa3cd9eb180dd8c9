------------------------------- MODULE Mailbox -------------------------------
(***************************************************************************)
(* What the command channel of ExampleTask amounts to: a box for one       *)
(* command.  A new command replaces one that was not yet taken, and a      *)
(* command that is taken is executed once, whole.                          *)
(***************************************************************************)
EXTENDS Naturals, Sequences

CONSTANTS Cmd, Nothing

VARIABLES
    box,        \* the command in the box, or Nothing
    put,        \* how many commands were put in so far
    executed    \* the commands taken out, in order

vars == <<box, put, executed>>

Init == box = Nothing /\ put = 0 /\ executed = <<>>

Put == /\ box' \in Cmd
       /\ put' = put + 1
       /\ UNCHANGED executed

Take == /\ box # Nothing
        /\ executed' = Append(executed, box)
        /\ box' = Nothing
        /\ UNCHANGED put

Next == Put \/ Take

Spec == Init /\ [][Next]_vars

=============================================================================
