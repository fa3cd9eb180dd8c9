------------------------------ MODULE MsgQueue ------------------------------
(***************************************************************************)
(* The queue of messages of uspace_rtapi_app.cpp: rtapi_print_msg pushes   *)
(* into a lock-free queue of fixed capacity, from any thread, and one      *)
(* thread prints what is in it until stopprintf cancels it.  Of a message  *)
(* only its sender is kept: the main program ("main"), the main program    *)
(* once stopprintf has drained the queue ("late"), a real-time thread      *)
(* ("rt").                                                                 *)
(***************************************************************************)
EXTENDS Naturals, Sequences

CONSTANT QueueCap       \* capacity<128> of the queue

ASSUME QueueCapAssumption == QueueCap \in Nat \ {0}

VARIABLES
    queue,          \* rtapi_msg_queue
    drainer,        \* where queue_function is, and the message it holds
    cancelled,      \* pthread_cancel was called
    waiting         \* history: messages of "main" accepted and not printed

queueVars == <<queue, drainer, cancelled, waiting>>

Senders == {"main", "late", "rt"}

Drainers == {"none", "test", "consume", "done"} \cup Senders

QueueInit == queue = <<>> /\ drainer = "none" /\ cancelled = FALSE /\ waiting = 0

Counts(m) == IF m = "main" THEN 1 ELSE 0

\* Variant: the queue grows.
push_unbounded(m) ==
    /\ queue' = Append(queue, m) /\ waiting' = waiting + Counts(m)
    /\ UNCHANGED <<drainer, cancelled>>

\* default_rtapi_msg_handler: a message for which there is no room is dropped
push(m) ==
    /\ IF Len(queue) < QueueCap
       THEN queue' = Append(queue, m) /\ waiting' = waiting + Counts(m)
       ELSE UNCHANGED <<queue, waiting>>
    /\ UNCHANGED <<drainer, cancelled>>

\* pthread_testcancel, and cancellation off
queue_function_test ==
    /\ drainer = "test"
    /\ drainer' = IF cancelled THEN "done" ELSE "consume"
    /\ UNCHANGED <<queue, cancelled, waiting>>

\* consume_all takes messages until there is none; then cancellation is on
queue_function_pop ==
    /\ drainer = "consume"
    /\ IF queue = <<>> THEN drainer' = "test" /\ UNCHANGED queue
                       ELSE drainer' = Head(queue) /\ queue' = Tail(queue)
    /\ UNCHANGED <<cancelled, waiting>>

\* Variant: cancellation stays on, and fputs is a cancellation point.
queue_function_print_cancellable ==
    /\ drainer \in Senders
    /\ drainer' = IF cancelled THEN "done" ELSE "consume"
    /\ waiting' = waiting - (IF cancelled THEN 0 ELSE Counts(drainer))
    /\ UNCHANGED <<queue, cancelled>>

queue_function_print ==
    /\ drainer \in Senders
    /\ drainer' = "consume" /\ waiting' = waiting - Counts(drainer)
    /\ UNCHANGED <<queue, cancelled>>

queue_function == queue_function_test \/ queue_function_pop \/ queue_function_print

\* printfMaster
printfMaster == drainer' = "test" /\ UNCHANGED <<queue, cancelled, waiting>>

\* stopprintf: cancel, join, print what is left one message after the other;
\* without a thread it does nothing
stop_cancel == cancelled' = (drainer # "none") /\ UNCHANGED <<queue, drainer, waiting>>

Joined == drainer \in {"none", "done"}

Drained == drainer = "none" \/ queue = <<>>

stop_consume ==
    /\ queue' = Tail(queue) /\ waiting' = waiting - Counts(Head(queue))
    /\ UNCHANGED <<drainer, cancelled>>

QueueTypeOK ==
    /\ Len(queue) <= QueueCap /\ \A i \in DOMAIN queue : queue[i] \in Senders
    /\ drainer \in Drainers
    /\ cancelled \in BOOLEAN
    /\ waiting \in 0 .. QueueCap + 1

=============================================================================
