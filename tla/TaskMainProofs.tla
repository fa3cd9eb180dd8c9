--------------------------- MODULE TaskMainProofs ---------------------------
(***************************************************************************)
(* Proofs about TaskMain for any capacity of the message queue, any number *)
(* of processes one after the other and failing or reliable system calls:  *)
(* type correctness, the clean exit, the messages that are printed, and    *)
(* where a fault can come from.                                            *)
(***************************************************************************)
EXTENDS TaskMain, FiniteSets, FiniteSetTheorems, TLAPS

-----------------------------------------------------------------------------
(* Counting the messages of the main program in the queue. *)

MainsIn(q) == {i \in 1 .. Len(q) : q[i] = "main"}

Mains(q) == Cardinality(MainsIn(q))

\* There are no more of them than there are messages.
LEMMA MainsBound ==
    ASSUME NEW q \in Seq(Senders)
    PROVE  /\ IsFiniteSet(MainsIn(q)) /\ Mains(q) \in Nat /\ Mains(q) <= Len(q)
           /\ q = <<>> => Mains(q) = 0
<1>1. Len(q) \in Nat
  OBVIOUS
<1>2. IsFiniteSet(1 .. Len(q)) /\ Cardinality(1 .. Len(q)) = Len(q)
  BY <1>1, FS_Interval
<1>3. MainsIn(q) \in SUBSET (1 .. Len(q))
  BY DEF MainsIn
<1>4. IsFiniteSet(MainsIn(q)) /\ Mains(q) <= Len(q)
  BY <1>2, <1>3, FS_Subset DEF Mains
<1>5. Mains(q) \in Nat
  BY <1>4, FS_CardinalityType DEF Mains
<1>6. q = <<>> => Mains(q) = 0
  BY <1>1, <1>4, <1>5
<1> QED
  BY <1>4, <1>5, <1>6

\* An appended message counts when the main program sent it.
LEMMA MainsAppend ==
    ASSUME NEW q \in Seq(Senders), NEW m \in Senders
    PROVE  Mains(Append(q, m)) = Mains(q) + Counts(m)
<1>1. Len(q) \in Nat /\ IsFiniteSet(MainsIn(q))
  BY MainsBound
<1>2. CASE m = "main"
  <2>1. MainsIn(Append(q, m)) = MainsIn(q) \cup {Len(q) + 1}
    BY <1>1, <1>2 DEF MainsIn
  <2>2. Len(q) + 1 \notin MainsIn(q)
    BY <1>1 DEF MainsIn
  <2> QED
    BY <2>1, <2>2, <1>1, <1>2, FS_AddElement DEF Mains, Counts
<1>3. CASE m # "main"
  <2>1. MainsIn(Append(q, m)) = MainsIn(q)
    BY <1>1, <1>3 DEF MainsIn
  <2> QED
    BY <2>1, <1>3, MainsBound DEF Mains, Counts
<1> QED
  BY <1>2, <1>3

\* A message taken from the front no longer counts.
LEMMA MainsTail ==
    ASSUME NEW q \in Seq(Senders), q # <<>>
    PROVE  /\ Tail(q) \in Seq(Senders) /\ Head(q) \in Senders
           /\ Len(Tail(q)) = Len(q) - 1 /\ Len(q) \in Nat
           /\ Mains(q) = Mains(Tail(q)) + Counts(Head(q))
<1> DEFINE t == Tail(q)
           shift == [i \in MainsIn(t) |-> i + 1]
           moved == {i + 1 : i \in MainsIn(t)}
<1>1. /\ t \in Seq(Senders) /\ Head(q) \in Senders /\ Len(t) = Len(q) - 1
      /\ Len(q) \in Nat /\ Len(t) \in Nat
      /\ Head(q) = q[1] /\ \A i \in 1 .. Len(t) : t[i] = q[i + 1]
  OBVIOUS
<1>2. IsFiniteSet(MainsIn(t))
  BY <1>1, MainsBound
<1>3. MainsIn(t) \subseteq Nat \ {0}
  BY <1>1 DEF MainsIn
<1>4. shift \in Bijection(MainsIn(t), moved)
  <2>1. shift \in [MainsIn(t) -> moved]
    OBVIOUS
  <2>2. \A a, b \in MainsIn(t) : shift[a] = shift[b] => a = b
    BY <1>3
  <2>3. \A b \in moved : \E a \in MainsIn(t) : shift[a] = b
    OBVIOUS
  <2> QED
    BY <2>1, <2>2, <2>3 DEF Bijection, Injection, Surjection, IsInjective
<1>5. IsFiniteSet(moved) /\ Cardinality(moved) = Mains(t)
  <2> HIDE DEF t, shift, moved
  <2>1. ExistsBijection(MainsIn(t), moved)
    BY <1>4 DEF ExistsBijection
  <2> QED
    BY <1>2, <2>1, FS_Bijection DEF Mains
<1>6. 1 \notin moved
  BY <1>3
<1>7. MainsIn(q) \ {1} = moved
  <2>1. ASSUME NEW i \in MainsIn(q), i # 1
        PROVE  i \in moved
    <3>1. i \in Nat /\ i - 1 \in 1 .. Len(t) /\ i = (i - 1) + 1
      BY <1>1, <2>1 DEF MainsIn
    <3>2. i - 1 \in MainsIn(t)
      BY <1>1, <2>1, <3>1 DEF MainsIn
    <3> QED
      BY <3>1, <3>2
  <2>2. ASSUME NEW i \in MainsIn(t)
        PROVE  i + 1 \in MainsIn(q) /\ i + 1 # 1
    BY <1>1, <2>2 DEF MainsIn
  <2> QED
    BY <2>1, <2>2
<1>8. CASE Head(q) = "main"
  <2>1. MainsIn(q) = moved \cup {1}
    BY <1>1, <1>7, <1>8 DEF MainsIn
  <2> QED
    BY <2>1, <1>1, <1>5, <1>6, <1>8, FS_AddElement DEF Mains, Counts
<1>9. CASE Head(q) # "main"
  <2>1. MainsIn(q) = moved
    BY <1>1, <1>7, <1>9 DEF MainsIn
  <2>2. Mains(q) = Mains(t) /\ Mains(t) \in Nat
    BY <2>1, <1>1, <1>5, MainsBound DEF Mains
  <2> QED
    BY <2>2, <1>1, <1>9 DEF Counts
<1> QED
  BY <1>1, <1>8, <1>9

-----------------------------------------------------------------------------
(* The queue. *)

\* waiting counts the messages of the main program that are in the queue, and
\* the one the printing thread holds.
QueueInv ==
    /\ queue \in Seq(Senders) /\ Len(queue) <= QueueCap
    /\ drainer \in Drainers
    /\ waiting = Mains(queue) + Counts(drainer)

\* What a step can do to the queue.
queue_reset == queue' = <<>> /\ drainer' = "none" /\ cancelled' = FALSE /\ waiting' = 0

QueueStep ==
    \/ \E m \in Senders : push(m)
    \/ printfMaster /\ drainer = "none"
    \/ stop_cancel
    \/ ~Drained /\ stop_consume
    \/ queue_function_test \/ queue_function_pop \/ queue_function_print
    \/ queue_reset
    \/ UNCHANGED queueVars

\* No message is lost or counted twice, whatever is done to the queue.
LEMMA QueueStepKeeps ==
    ASSUME QueueInv, QueueStep
    PROVE  QueueInv'
<1> USE QueueCapAssumption
<1>1. Mains(queue) \in Nat /\ Len(queue) \in Nat
  BY MainsBound DEF QueueInv
<1>2. ASSUME NEW m \in Senders, push(m) PROVE QueueInv'
  <2>1. CASE Len(queue) < QueueCap
    <3>1. queue' \in Seq(Senders) /\ Len(queue') = Len(queue) + 1
      BY <1>2, <2>1 DEF push, QueueInv
    <3>2. Mains(queue') = Mains(queue) + Counts(m)
      BY <1>2, <2>1, MainsAppend DEF push, QueueInv
    <3> QED
      BY <1>1, <1>2, <2>1, <3>1, <3>2 DEF push, QueueInv, Counts
  <2>2. CASE ~(Len(queue) < QueueCap)
    BY <1>2, <2>2 DEF push, QueueInv
  <2> QED
    BY <2>1, <2>2
<1>3. ASSUME printfMaster, drainer = "none" PROVE QueueInv'
  BY <1>1, <1>3 DEF printfMaster, QueueInv, Drainers, Counts
<1>4. ASSUME stop_cancel PROVE QueueInv'
  BY <1>4 DEF stop_cancel, QueueInv
<1>5. ASSUME ~Drained, stop_consume PROVE QueueInv'
  <2>1. /\ queue' \in Seq(Senders) /\ Head(queue) \in Senders /\ Len(queue') = Len(queue) - 1
        /\ Mains(queue) = Mains(queue') + Counts(Head(queue))
    BY <1>5, MainsTail DEF stop_consume, Drained, QueueInv
  <2>2. Mains(queue') \in Nat
    BY <2>1, MainsBound
  <2> QED
    BY <1>1, <1>5, <2>1, <2>2 DEF stop_consume, QueueInv, Counts
<1>6. ASSUME queue_function_test PROVE QueueInv'
  BY <1>1, <1>6 DEF queue_function_test, QueueInv, Drainers, Counts
<1>7. ASSUME queue_function_pop PROVE QueueInv'
  <2>1. CASE queue = <<>>
    BY <1>1, <1>7, <2>1 DEF queue_function_pop, QueueInv, Drainers, Counts
  <2>2. CASE queue # <<>>
    <3>1. /\ queue' \in Seq(Senders) /\ Head(queue) \in Senders /\ Len(queue') = Len(queue) - 1
          /\ Mains(queue) = Mains(queue') + Counts(Head(queue))
      BY <1>7, <2>2, MainsTail DEF queue_function_pop, QueueInv
    <3>2. Mains(queue') \in Nat
      BY <3>1, MainsBound
    <3> QED
      BY <1>1, <1>7, <2>2, <3>1, <3>2 DEF queue_function_pop, QueueInv, Drainers, Counts
  <2> QED
    BY <2>1, <2>2
<1>8. ASSUME queue_function_print PROVE QueueInv'
  BY <1>1, <1>8 DEF queue_function_print, QueueInv, Drainers, Senders, Counts
<1>9. ASSUME queue_reset PROVE QueueInv'
  <2>1. <<>> \in Seq(Senders) /\ Len(<<>>) = 0
    OBVIOUS
  <2>2. Mains(<<>>) = 0
    BY <2>1, MainsBound
  <2> QED
    BY <1>9, <2>1, <2>2 DEF queue_reset, QueueInv, Drainers, Counts
<1>10. ASSUME UNCHANGED queueVars PROVE QueueInv'
  BY <1>10 DEF queueVars, QueueInv
<1> QED
  BY <1>2, <1>3, <1>4, <1>5, <1>6, <1>7, <1>8, <1>9, <1>10 DEF QueueStep

-----------------------------------------------------------------------------
(* The main thread and the printing thread. *)

ExitPlaces == {"exit_stop", "exit_release", "exit_hal", "final"}

\* The printing thread is started once; main gets behind the join only when
\* there is no printing thread any more, and to its exit only when no message
\* of its own is waiting.
PrintInv ==
    /\ program = "main" \/ program = "guard"
    /\ pc = "printfMaster" => drainer = "none"
    /\ pc \in {"client", "guard_stop"} => program = "guard"
    /\ (program = "main" /\ pc \in ExitPlaces \cup {"drain"}) => drainer \in {"none", "done"}
    /\ (program = "main" /\ pc \in ExitPlaces /\ drainer # "none") => waiting = 0

\* Every step does one thing to the queue.
LEMMA StepIsQueueStep ==
    ASSUME PrintInv, Next
    PROVE  QueueStep
<1>1. CASE main \/ main_cycle
  BY <1>1 DEF PrintInv, QueueStep, Senders, main, main_cycle, startup_printfMaster,
        startup_hal_app_main, startup_failed, main_failed, startup_complete, main_start, main_mark,
        main_leave, main_stop, main_stopped, main_stopprintf, main_join, main_drain, main_drained,
        main_final, Says, At, Quiet
<1>2. CASE task_thread_main
  BY <1>2 DEF QueueStep, task_thread_main, task_hal_init, task_hal_init_unattached,
        init_hal_param, init_task_comm_buffers, init_task_threads, task_hal_ready
<1>3. CASE task_thread_exit
  BY <1>3 DEF QueueStep, task_thread_exit, exit_stop, exit_release, exit_hal
<1>4. CASE guard
  BY <1>4 DEF QueueStep, guard, guard_init, guard_start, guard_stop, guard_send_released,
        guard_shutdown, guard_final, guard_return, Quiet
<1>5. CASE RealTime
  BY <1>5 DEF QueueStep, Senders, RealTime, thread_task, walk_begin, walk_call, walk_body,
        walk_funct_ptr, walk_next, walk_end
<1>6. CASE Printing
  BY <1>6 DEF QueueStep, Printing, queue_function
<1>7. CASE (\E sig \in Signals : emctask_quit(sig)) \/ quit_return \/ quit_again
  BY <1>7 DEF QueueStep, emctask_quit, quit_return, quit_again
<1>8. CASE restart
  BY <1>8 DEF QueueStep, queue_reset, restart
<1> QED
  BY <1>1, <1>2, <1>3, <1>4, <1>5, <1>6, <1>7, <1>8 DEF Next

LEMMA PrintInvInit == Init => PrintInv
BY ProgramsAssumption DEF Init, First, QueueInit, PrintInv, ExitPlaces

\* A signal, a real-time thread that goes on writing and the cancellation of
\* the printing thread at any of its steps leave main's account in order.
LEMMA PrintInvStep ==
    ASSUME PrintInv, QueueInv, Next
    PROVE  PrintInv'
<1> USE DEF PrintInv, ExitPlaces, Goto, At, Quiet, queueVars, fixedVars
<1>1. CASE startup_printfMaster \/ startup_hal_app_main \/ main_start \/ main_stop \/ main_stopped
  BY <1>1 DEF startup_printfMaster, printfMaster, startup_hal_app_main, main_start, main_stop,
        main_stopped
<1>2. CASE startup_failed \/ main_failed \/ startup_complete \/ main_mark \/ main_leave \/ main_cycle
  BY <1>2 DEF startup_failed, main_failed, startup_complete, main_mark, main_leave, main_cycle,
        Says, push
<1>3. CASE main_stopprintf \/ main_join
  BY <1>3 DEF main_stopprintf, stop_cancel, main_join, Joined
<1>4. CASE main_drain
  BY <1>4 DEF main_drain, stop_consume
<1>5. CASE main_drained
  <2>1. queue = <<>> => Mains(queue) = 0
    BY MainsBound DEF QueueInv
  <2>2. queue = <<>> /\ drainer = "done" => waiting = 0
    BY <2>1 DEF QueueInv, Counts
  <2> QED
    BY <1>5, <2>2 DEF main_drained, Drained
<1>6. CASE main_final
  BY <1>6 DEF main_final, push, Counts
<1>7. CASE task_thread_main
  BY <1>7 DEF task_thread_main, task_hal_init, task_hal_init_unattached, init_hal_param,
        init_task_comm_buffers, init_task_threads, task_hal_ready, TaskFails
<1>8. CASE task_thread_exit
  BY <1>8 DEF task_thread_exit, exit_stop, exit_release, exit_hal
<1>9. CASE guard
  BY <1>9 DEF guard, guard_init, guard_start, guard_stop, guard_send_released, guard_shutdown,
        guard_final, guard_return
<1>10. CASE RealTime
  <2>1. waiting \in Nat
    BY MainsBound DEF QueueInv, Counts
  <2>2. UNCHANGED <<program, pc, drainer>> /\ waiting' = waiting
    BY <1>10, <2>1 DEF RealTime, thread_task, walk_begin, walk_call, walk_body, walk_funct_ptr,
        walk_next, walk_end, push, Counts
  <2> QED
    BY <2>2
<1>11. CASE Printing
  BY <1>11 DEF Printing, queue_function, queue_function_test, queue_function_pop,
        queue_function_print, Senders
<1>12. CASE (\E sig \in Signals : emctask_quit(sig)) \/ quit_return \/ quit_again
  BY <1>12 DEF emctask_quit, quit_return, quit_again
<1>13. CASE restart
  BY <1>13, ProgramsAssumption DEF restart, First
<1> QED
  BY <1>1, <1>2, <1>3, <1>4, <1>5, <1>6, <1>7, <1>8, <1>9, <1>10, <1>11, <1>12, <1>13
  DEF Next, main

-----------------------------------------------------------------------------
(* The HAL, the component, the application segment and the thread. *)

\* threads_running and the state of the HAL say the same, and they do not run
\* while the task is set up or after task_thread_exit has stopped them: main,
\* guard and signal handler may stop them in any order, none starts them late.
HalInv ==
    /\ threads_running <=> state = "RUNNING"
    /\ lib # "attached" => state = "UNINIT"
    /\ pc \in {"printfMaster", "hal_app_main"} => lib = "none"
    /\ pc \in {"hal_app_main", "hal_init", "init_hal_param", "init_task_comm_buffers",
               "init_task_threads", "hal_ready", "exit_release", "exit_hal", "final"}
         => state # "RUNNING"
    /\ (pc = "client" /\ ~task_initialised) => state # "RUNNING"

\* The component is registered only from hal_init to hal_exit.
CompInv ==
    /\ pc \in {"hal_init", "final"} => ~comp
    /\ (pc = "client" /\ ~task_initialised) => ~comp

\* A process maps the application segment at most once: the pins it makes
\* before stay in the HAL segment and refuse a second task.
AppInv ==
    /\ app # "null" => pins
    /\ app = "released" => ~segment
    /\ pc = "init_task_comm_buffers" => app = "null" /\ pins
    /\ pc \in {"exit_hal", "final"} => app = "released"

\* task_thread_exit is called only by a program that owns the task, and then the
\* pins have been made.
OwnInv ==
    /\ pc \in {"init_task_threads", "hal_ready"} \/ task_initialised => pins
    /\ pc \in {"initialised", "start", "mark", "loop", "stop", "stopped",
               "guard_stop", "exit_stop", "exit_release"} => task_initialised
    /\ (pc \in {"stopprintf", "join", "drain"} /\ status # 1) => task_initialised

\* The entry thread_task stands on has been freed only after the release of the
\* segment.
WalkInv ==
    rt.at \in {"call", "body", "called", "next"} => Linked \/ app = "released"

LEMMA HalInvInit == Init => HalInv /\ CompInv /\ AppInv /\ OwnInv /\ WalkInv
BY ProgramsAssumption DEF Init, First, WalkInit, HalInv, CompInv, AppInv,
        OwnInv, WalkInv

LEMMA HalInvStep ==
    ASSUME HalInv, PrintInv, Next
    PROVE  HalInv'
<1> USE DEF HalInv, Goto, At, Quiet, Crash, HalStart, HalStop, walkVars, staticVars, halVars,
        fixedVars
<1>1. CASE startup_printfMaster \/ startup_hal_app_main
  BY <1>1 DEF startup_printfMaster, startup_hal_app_main, HalAttached
<1>2. CASE startup_failed \/ main_failed \/ startup_complete \/ main_mark \/ main_leave \/ main_cycle
  BY <1>2 DEF startup_failed, main_failed, startup_complete, main_mark, main_leave, main_cycle,
        Says
<1>3. CASE main_start \/ main_stop \/ main_stopped
  BY <1>3 DEF main_start, main_stop, main_stopped
<1>4. CASE main_stopprintf \/ main_join \/ main_drain \/ main_drained \/ main_final
  BY <1>4 DEF main_stopprintf, main_join, main_drain, main_drained, main_final
<1>5. CASE task_hal_init
  BY <1>5 DEF task_hal_init, HalAttached, TaskFails
<1>6. CASE task_hal_init_unattached \/ init_hal_param \/ init_task_comm_buffers
  BY <1>6 DEF task_hal_init_unattached, init_hal_param, init_task_comm_buffers, TaskFails
<1>7. CASE init_task_threads \/ task_hal_ready
  BY <1>7 DEF init_task_threads, task_hal_ready, TaskFails
<1>8. CASE task_thread_exit
  BY <1>8 DEF task_thread_exit, exit_stop, exit_release, exit_hal
<1>9. CASE guard
  BY <1>9 DEF guard, guard_init, guard_start, guard_stop, guard_send_released, guard_shutdown,
        guard_final, guard_return
<1>10. CASE RealTime
  BY <1>10 DEF RealTime, thread_task, walk_begin, walk_call, walk_body, walk_funct_ptr,
        walk_next, walk_end
<1>11. CASE Printing
  BY <1>11 DEF Printing
<1>12. CASE (\E sig \in Signals : emctask_quit(sig)) \/ quit_return \/ quit_again
  BY <1>12 DEF emctask_quit, quit_return, quit_again
<1>13. CASE restart
  BY <1>13 DEF restart
<1> QED
  BY <1>1, <1>2, <1>3, <1>4, <1>5, <1>6, <1>7, <1>8, <1>9, <1>10, <1>11, <1>12, <1>13
  DEF Next, main, task_thread_main

LEMMA CompInvStep ==
    ASSUME CompInv, PrintInv, Next
    PROVE  CompInv'
<1> USE DEF CompInv, Goto, At, Quiet, staticVars, halVars, fixedVars
<1>1. CASE main \/ main_cycle
  BY <1>1 DEF main, main_cycle, startup_printfMaster, startup_hal_app_main, HalAttached,
        startup_failed, main_failed, startup_complete, main_start, main_mark, main_leave,
        main_stop, main_stopped, main_stopprintf, main_join, main_drain, main_drained, main_final,
        Says
<1>2. CASE task_hal_init
  BY <1>2 DEF task_hal_init, HalAttached, TaskFails
<1>3. CASE task_hal_init_unattached \/ init_hal_param \/ init_task_comm_buffers
  BY <1>3 DEF task_hal_init_unattached, init_hal_param, init_task_comm_buffers, TaskFails
<1>4. CASE init_task_threads \/ task_hal_ready
  BY <1>4 DEF init_task_threads, task_hal_ready, TaskFails
<1>5. CASE task_thread_exit
  BY <1>5 DEF task_thread_exit, exit_stop, exit_release, exit_hal
<1>6. CASE guard
  BY <1>6 DEF guard, guard_init, guard_start, guard_stop, guard_send_released, guard_shutdown,
        guard_final, guard_return
<1>7. CASE RealTime \/ Printing
  BY <1>7 DEF RealTime, Printing
<1>8. CASE (\E sig \in Signals : emctask_quit(sig)) \/ quit_return \/ quit_again
  BY <1>8 DEF emctask_quit, quit_return, quit_again
<1>9. CASE restart
  BY <1>9 DEF restart
<1> QED
  BY <1>1, <1>2, <1>3, <1>4, <1>5, <1>6, <1>7, <1>8, <1>9 DEF Next, task_thread_main

LEMMA OwnInvStep ==
    ASSUME OwnInv, AppInv, PrintInv, Next
    PROVE  OwnInv'
<1> USE DEF OwnInv, Goto, At, Quiet, staticVars, keptVars
<1>1. CASE main \/ main_cycle
  BY <1>1 DEF main, main_cycle, startup_printfMaster, startup_hal_app_main,
        startup_failed, main_failed, startup_complete, main_start, main_mark, main_leave,
        main_stop, main_stopped, main_stopprintf, main_join, main_drain, main_drained, main_final,
        Says
<1>2. CASE task_thread_main
  BY <1>2 DEF task_thread_main, task_hal_init, task_hal_init_unattached, init_hal_param,
        init_task_comm_buffers, init_task_threads, task_hal_ready, TaskFails, AppInv
<1>3. CASE task_thread_exit
  BY <1>3 DEF task_thread_exit, exit_stop, exit_release, exit_hal
<1>4. CASE guard
  BY <1>4 DEF guard, guard_init, guard_start, guard_stop, guard_send_released, guard_shutdown,
        guard_final, guard_return
<1>5. CASE RealTime \/ Printing
  BY <1>5 DEF RealTime, Printing
<1>6. CASE (\E sig \in Signals : emctask_quit(sig)) \/ quit_return \/ quit_again
  BY <1>6 DEF emctask_quit, quit_return, quit_again
<1>7. CASE restart
  <2>1. task_initialised' = FALSE /\ pc' \in {"printfMaster", "client"}
    BY <1>7 DEF restart, First
  <2> QED
    BY <2>1
<1> QED
  BY <1>1, <1>2, <1>3, <1>4, <1>5, <1>6, <1>7 DEF Next

LEMMA AppInvStep ==
    ASSUME AppInv, OwnInv, Next
    PROVE  AppInv'
<1> USE DEF AppInv, Goto, At, Quiet, Crash, walkVars, keptVars
<1>1. CASE main \/ main_cycle
  BY <1>1, ProgramsAssumption DEF main, main_cycle, startup_printfMaster, startup_hal_app_main,
        startup_failed, main_failed, startup_complete, main_start, main_mark, main_leave,
        main_stop, main_stopped, main_stopprintf, main_join, main_drain, main_drained, main_final,
        Says
<1>2. CASE task_thread_main
  BY <1>2 DEF task_thread_main, task_hal_init, task_hal_init_unattached, init_hal_param,
        init_task_comm_buffers, init_task_threads, task_hal_ready, TaskFails
<1>3. CASE task_thread_exit
  BY <1>3 DEF task_thread_exit, exit_stop, exit_release, exit_hal, OwnInv
<1>4. CASE guard
  BY <1>4 DEF guard, guard_init, guard_start, guard_stop, guard_send_released, guard_shutdown,
        guard_final, guard_return
<1>5. CASE RealTime \/ Printing
  BY <1>5 DEF RealTime, thread_task, walk_begin, walk_call, walk_body, walk_funct_ptr, walk_next,
        walk_end, Printing
<1>6. CASE (\E sig \in Signals : emctask_quit(sig)) \/ quit_return \/ quit_again
  BY <1>6 DEF emctask_quit, quit_return, quit_again
<1>7. CASE restart
  <2>1. app' = "null" /\ pc' \in {"printfMaster", "client"}
    BY <1>7 DEF restart, First
  <2> QED
    BY <2>1
<1> QED
  BY <1>1, <1>2, <1>3, <1>4, <1>5, <1>6, <1>7 DEF Next

-----------------------------------------------------------------------------
(* Types, in two parts: values and Booleans. *)

ValueTypes ==
    /\ funct_list \in MountedLists
    /\ app \in {"null", "mapped", "released"}
    /\ rt \in [at : RtPlaces, entry : Functs \cup {"none"}]
    /\ ended \in Ends
    /\ program \in Programs /\ pc \in Places /\ status \in 0 .. 1
    /\ handler \in Signals \cup {"none"}
    /\ lib \in {"none", "attached", "failed"}
    /\ state \in {"UNINIT", "ACTIVE", "RUNNING"}
    /\ runs \in 1 .. MaxRuns

BooleanTypes ==
    /\ cancelled \in BOOLEAN /\ threads_running \in BOOLEAN
    /\ done \in BOOLEAN /\ threads_started \in BOOLEAN /\ task_initialised \in BOOLEAN
    /\ comp \in BOOLEAN /\ failed \in BOOLEAN
    /\ pins \in BOOLEAN /\ segment \in BOOLEAN /\ mutex \in BOOLEAN

\* The entries of a list the thread may have are functions.
LEMMA MountedFacts ==
    ASSUME NEW list \in MountedLists
    PROVE  /\ \A i \in DOMAIN list : list[i] \in Functs
           /\ list # <<>> => 1 \in DOMAIN list /\ Head(list) = list[1]
BY DEF MountedLists, Functs

LEMMA TypesInit == Init => ValueTypes /\ BooleanTypes
<1>1. Init => ValueTypes
  BY ProgramsAssumption, MaxRunsAssumption DEF Init, WalkInit, First, ValueTypes, MountedLists,
        RtPlaces, Ends, Places
<1>2. Init => BooleanTypes
  BY DEF Init, QueueInit, WalkInit, BooleanTypes
<1> QED
  BY <1>1, <1>2

LEMMA ValueTypesStep ==
    ASSUME ValueTypes, Next
    PROVE  ValueTypes'
<1> USE DEF ValueTypes, Places, Goto, At, Quiet, Crash, walkVars, halVars, fixedVars
<1>1. CASE startup_printfMaster \/ startup_hal_app_main
  BY <1>1 DEF startup_printfMaster, startup_hal_app_main, HalAttached
<1>2. CASE startup_failed \/ main_failed \/ startup_complete \/ main_mark \/ main_leave \/ main_cycle
  BY <1>2 DEF startup_failed, main_failed, startup_complete, main_mark, main_leave, main_cycle,
        Says
<1>3. CASE main_start \/ main_stop \/ main_stopped
  BY <1>3 DEF main_start, main_stop, main_stopped, HalStart, HalStop
<1>4. CASE main_stopprintf \/ main_join \/ main_drain \/ main_drained \/ main_final
  BY <1>4 DEF main_stopprintf, main_join, main_drain, main_drained, main_final, Ends
<1>5. CASE task_hal_init \/ task_hal_init_unattached \/ init_hal_param
  BY <1>5 DEF task_hal_init, task_hal_init_unattached, init_hal_param, HalAttached, TaskFails,
        Ends
<1>6. CASE init_task_comm_buffers \/ init_task_threads \/ task_hal_ready
  BY <1>6 DEF init_task_comm_buffers, init_task_threads, task_hal_ready, TaskFails,
        MountedLists, RtPlaces
<1>7. CASE task_thread_exit
  BY <1>7 DEF task_thread_exit, exit_stop, exit_release, exit_hal, HalStop, MountedLists
<1>8. CASE guard
  BY <1>8 DEF guard, guard_init, guard_start, guard_stop, guard_send_released, guard_shutdown,
        guard_final, guard_return, HalStart, HalStop, Ends
<1>9. CASE RealTime
  <2>1. rt' \in [at : RtPlaces, entry : Functs \cup {"none"}]
    BY <1>9, MountedFacts DEF RealTime, thread_task, walk_begin, walk_call, walk_body,
        walk_funct_ptr, walk_next, walk_end, RtGoto, RtPlaces, EntriesBehind
  <2>2. ended' \in Ends /\ UNCHANGED <<funct_list, app, pc, status, handler, lib, state, program, runs>>
    BY <1>9 DEF RealTime, thread_task, walk_begin, walk_call, walk_body, walk_funct_ptr,
        walk_next, walk_end, Ends
  <2> QED
    BY <2>1, <2>2
<1>10. CASE Printing
  BY <1>10 DEF Printing
<1>11. CASE (\E sig \in Signals : emctask_quit(sig)) \/ quit_return \/ quit_again
  BY <1>11 DEF emctask_quit, quit_return, quit_again, HalStop, Ends
<1>12. CASE restart
  BY <1>12, MaxRunsAssumption DEF restart, First, MountedLists, RtPlaces, Ends
<1> QED
  BY <1>1, <1>2, <1>3, <1>4, <1>5, <1>6, <1>7, <1>8, <1>9, <1>10, <1>11, <1>12
  DEF Next, main, task_thread_main

\* The thread gets a new entry from the list it walks; exit_hal frees its
\* entries when the segment has been released.
LEMMA WalkInvStep ==
    ASSUME WalkInv, AppInv, ValueTypes, Next
    PROVE  WalkInv'
<1> USE DEF WalkInv, Linked, Quiet, walkVars
<1>1. CASE main \/ main_cycle
  <2>1. UNCHANGED <<rt, funct_list, app>>
    BY <1>1 DEF main, main_cycle, startup_printfMaster, startup_hal_app_main,
        startup_failed, main_failed, startup_complete, main_start, main_mark, main_leave,
        main_stop, main_stopped, main_stopprintf, main_join, main_drain, main_drained, main_final,
        Says
  <2> QED
    BY <2>1
<1>2. CASE task_hal_init \/ task_hal_init_unattached \/ init_hal_param \/ task_hal_ready
  BY <1>2 DEF task_hal_init, task_hal_init_unattached, init_hal_param, task_hal_ready, Crash
<1>3. CASE init_task_comm_buffers
  BY <1>3 DEF init_task_comm_buffers, AppInv, At
<1>4. CASE init_task_threads
  BY <1>4 DEF init_task_threads
<1>5. CASE task_thread_exit
  BY <1>5 DEF task_thread_exit, exit_stop, exit_release, exit_hal, AppInv, At
<1>6. CASE guard
  BY <1>6 DEF guard, guard_init, guard_start, guard_stop, guard_send_released, guard_shutdown,
        guard_final, guard_return, Crash
<1>7. CASE walk_begin
  BY <1>7, MountedFacts DEF walk_begin, RtAt, ValueTypes
<1>8. CASE walk_call \/ walk_body \/ walk_funct_ptr
  BY <1>8 DEF walk_call, walk_body, walk_funct_ptr, RtAt, RtGoto, Crash, ValueTypes
<1>9. CASE walk_next
  BY <1>9 DEF walk_next, RtAt, RtGoto, EntriesBehind, Crash, ValueTypes
<1>10. CASE walk_end
  BY <1>10 DEF walk_end
<1>11. CASE Printing
  BY <1>11 DEF Printing
<1>12. CASE (\E sig \in Signals : emctask_quit(sig)) \/ quit_return \/ quit_again
  BY <1>12 DEF emctask_quit, quit_return, quit_again
<1>13. CASE restart
  BY <1>13 DEF restart
<1> QED
  BY <1>1, <1>2, <1>3, <1>4, <1>5, <1>6, <1>7, <1>8, <1>9, <1>10, <1>11, <1>12, <1>13
  DEF Next, task_thread_main, RealTime, thread_task

\* What the operations the actions share do to the Booleans.
LEMMA HalFlag ==
    ASSUME threads_running \in BOOLEAN, HalStart \/ HalStop
    PROVE  threads_running' \in BOOLEAN
BY Zenon DEF HalStart, HalStop

LEMMA PushFlag ==
    ASSUME NEW m, push(m)
    PROVE  cancelled' = cancelled
BY DEF push

LEMMA BooleanTypesStep ==
    ASSUME BooleanTypes, Next
    PROVE  BooleanTypes'
<1> USE DEF BooleanTypes, Quiet, Crash, queueVars, walkVars, staticVars, halVars, keptVars
<1>1. CASE startup_printfMaster \/ startup_hal_app_main
  BY <1>1, Zenon DEF startup_printfMaster, printfMaster, startup_hal_app_main, HalAttached
<1>2. CASE startup_failed \/ main_failed \/ startup_complete \/ main_mark \/ main_leave \/ main_cycle
  <2>1. CASE startup_failed
    BY <2>1, PushFlag, Zenon DEF startup_failed, Says
  <2>2. CASE main_failed
    BY <2>2, PushFlag, Zenon DEF main_failed, Says
  <2>3. CASE startup_complete
    BY <2>3, PushFlag, Zenon DEF startup_complete, Says
  <2>4. CASE main_mark
    BY <2>4, PushFlag, Zenon DEF main_mark
  <2>5. CASE main_leave
    BY <2>5, PushFlag, Zenon DEF main_leave, Says
  <2>6. CASE main_cycle
    BY <2>6, PushFlag, Zenon DEF main_cycle, Says
  <2> QED
    BY <1>2, <2>1, <2>2, <2>3, <2>4, <2>5, <2>6, Zenon
<1>3. CASE main_start \/ main_stop \/ main_stopped
  <2>1. CASE main_start
    BY <2>1, HalFlag, Zenon DEF main_start
  <2>2. CASE main_stop
    BY <2>2, HalFlag, Zenon DEF main_stop
  <2>3. CASE main_stopped
    BY <2>3, Zenon DEF main_stopped
  <2> QED
    BY <1>3, <2>1, <2>2, <2>3, Zenon
<1>4. CASE main_stopprintf \/ main_join \/ main_drain \/ main_drained \/ main_final
  <2>1. CASE main_stopprintf
    BY <2>1, Zenon DEF main_stopprintf, stop_cancel
  <2>2. CASE main_join
    BY <2>2, Zenon DEF main_join
  <2>3. CASE main_drain
    BY <2>3, Zenon DEF main_drain, stop_consume
  <2>4. CASE main_drained
    BY <2>4, Zenon DEF main_drained
  <2>5. CASE main_final
    BY <2>5, PushFlag, Zenon DEF main_final
  <2> QED
    BY <1>4, <2>1, <2>2, <2>3, <2>4, <2>5, Zenon
<1>5. CASE task_hal_init \/ task_hal_init_unattached
  <2>1. /\ comp' = comp \/ comp' = FALSE \/ comp' = TRUE
        /\ failed' = failed \/ failed' = TRUE
        /\ UNCHANGED <<cancelled, threads_running, done, threads_started, task_initialised, pins, segment, mutex>>
    BY <1>5 DEF task_hal_init, task_hal_init_unattached, HalAttached, TaskFails
  <2> QED
    BY <2>1, Zenon
<1>6. CASE init_hal_param \/ init_task_comm_buffers
  <2>1. CASE init_hal_param
    BY <2>1, Zenon DEF init_hal_param, TaskFails
  <2>2. CASE init_task_comm_buffers
    BY <2>2, Zenon DEF init_task_comm_buffers, TaskFails
  <2> QED
    BY <1>6, <2>1, <2>2, Zenon
<1>7. CASE init_task_threads \/ task_hal_ready
  BY <1>7, Zenon DEF init_task_threads, task_hal_ready, TaskFails
<1>8. CASE task_thread_exit
  BY <1>8, Zenon DEF task_thread_exit, exit_stop, exit_release, exit_hal, HalStop
<1>9. CASE guard
  <2>1. CASE guard_init
    BY <2>1, Zenon DEF guard_init
  <2>2. CASE guard_start
    BY <2>2, HalFlag, Zenon DEF guard_start
  <2>3. CASE guard_stop
    BY <2>3, HalFlag, Zenon DEF guard_stop
  <2>4. CASE guard_send_released
    BY <2>4, Zenon DEF guard_send_released
  <2>5. CASE guard_shutdown
    BY <2>5, Zenon DEF guard_shutdown
  <2>6. CASE guard_final
    BY <2>6, Zenon DEF guard_final
  <2>7. CASE guard_return
    BY <2>7, Zenon DEF guard_return
  <2> QED
    BY <1>9, <2>1, <2>2, <2>3, <2>4, <2>5, <2>6, <2>7, Zenon DEF guard
<1>10. CASE RealTime
  <2>1. UNCHANGED <<cancelled, threads_running>>
    BY <1>10 DEF RealTime, thread_task, walk_begin, walk_call, walk_body, walk_funct_ptr,
        walk_next, walk_end, push
  <2>2. UNCHANGED <<staticVars, comp, failed, keptVars>>
    BY <1>10, Zenon DEF RealTime
  <2> QED
    BY <2>1, <2>2, Zenon
<1>11. CASE Printing
  BY <1>11, Zenon DEF Printing, queue_function, queue_function_test, queue_function_pop,
        queue_function_print
<1>12. CASE (\E sig \in Signals : emctask_quit(sig)) \/ quit_return \/ quit_again
  <2>1. CASE \E sig \in Signals : emctask_quit(sig)
    BY <2>1, Zenon DEF emctask_quit
  <2>2. CASE quit_return
    BY <2>2, HalFlag, Zenon DEF quit_return
  <2>3. CASE quit_again
    BY <2>3, Zenon DEF quit_again
  <2> QED
    BY <1>12, <2>1, <2>2, <2>3, Zenon
<1>13. CASE restart
  BY <1>13, Zenon DEF restart
<1> QED
  BY <1>1, <1>2, <1>3, <1>4, <1>5, <1>6, <1>7, <1>8, <1>9, <1>10, <1>11, <1>12, <1>13, Zenon
  DEF Next, main, task_thread_main

-----------------------------------------------------------------------------
(* The properties the runs check, from what is inductive. *)

\* A process that ended makes no step; only the next one is started.
LEMMA EndedStops ==
    ASSUME Next, ended # "no"
    PROVE  restart
BY DEF Next, main, main_cycle, task_thread_main, task_thread_exit, guard, RealTime, Printing,
    startup_printfMaster, startup_hal_app_main, startup_failed, main_failed, startup_complete,
    main_start, main_mark, main_leave, main_stop, main_stopped, main_stopprintf, main_join,
    main_drain, main_drained, main_final, task_hal_init, task_hal_init_unattached, init_hal_param,
    init_task_comm_buffers, init_task_threads, task_hal_ready, exit_stop, exit_release, exit_hal,
    guard_init, guard_start, guard_stop, guard_send_released, guard_shutdown, guard_final,
    guard_return, thread_task, walk_begin, walk_call, walk_body, walk_funct_ptr, walk_next,
    walk_end, emctask_quit, quit_return, quit_again, Says, At, RtAt

\* How a process ends.
LEMMA HowItEnds ==
    ASSUME Next, ended = "no", ended' # "no"
    PROVE  \/ main_drained /\ ended' = "exit1"
           \/ main_final \/ guard_return \/ quit_again
           \/ ended' = "crashed" /\ (task_hal_init_unattached \/ guard_send_released \/ RealTime)
<1> USE DEF walkVars, Quiet, Crash
<1>1. CASE main \/ main_cycle
  BY <1>1 DEF main, main_cycle, startup_printfMaster, startup_hal_app_main, startup_failed,
        main_failed, startup_complete, main_start, main_mark, main_leave, main_stop, main_stopped,
        main_stopprintf, main_join, main_drain, main_drained, Says
<1>2. CASE task_thread_main
  BY <1>2 DEF task_thread_main, task_hal_init, task_hal_init_unattached, init_hal_param,
        init_task_comm_buffers, init_task_threads, task_hal_ready
<1>3. CASE task_thread_exit
  BY <1>3 DEF task_thread_exit, exit_stop, exit_release, exit_hal
<1>4. CASE guard
  BY <1>4 DEF guard, guard_init, guard_start, guard_stop, guard_send_released, guard_shutdown,
        guard_final
<1>5. CASE RealTime \/ Printing
  BY <1>5 DEF RealTime, thread_task, walk_begin, walk_call, walk_body, walk_funct_ptr, walk_next,
        walk_end, Printing
<1>6. CASE (\E sig \in Signals : emctask_quit(sig)) \/ quit_return \/ quit_again
  BY <1>6 DEF emctask_quit, quit_return
<1>7. CASE restart
  BY <1>7 DEF restart
<1> QED
  BY <1>1, <1>2, <1>3, <1>4, <1>5, <1>6, <1>7 DEF Next

ProgramInv ==
    /\ ValueTypes /\ BooleanTypes /\ QueueInv
    /\ PrintInv /\ HalInv /\ CompInv /\ AppInv /\ OwnInv /\ WalkInv
    /\ CleanExit /\ MessagesPrinted /\ FaultsOnlyAfterRelease

LEMMA CleanExitStep ==
    ASSUME ProgramInv, Next
    PROVE  CleanExit'
<1>1. CASE ended # "no"
  BY <1>1, EndedStops DEF restart, CleanExit
<1>2. CASE ended = "no" /\ ended' = "exit0"
  <2>1. main_final \/ guard_return
    BY <1>2, HowItEnds DEF main_drained, quit_again
  <2>2. CASE main_final
    BY <2>2 DEF main_final, At, ProgramInv, HalInv, CompInv, AppInv, CleanExit, halVars, keptVars,
          fixedVars
  <2>3. CASE guard_return
    BY <2>3 DEF guard_return, At, ProgramInv, PrintInv, HalInv, CompInv, AppInv, CleanExit, halVars,
          keptVars, fixedVars
  <2> QED
    BY <2>1, <2>2, <2>3
<1> QED
  BY <1>1, <1>2 DEF CleanExit

LEMMA MessagesPrintedStep ==
    ASSUME ProgramInv, Next
    PROVE  MessagesPrinted'
<1>1. CASE ended # "no"
  BY <1>1, EndedStops DEF restart, MessagesPrinted
<1>2. CASE ended = "no" /\ ended' \in {"exit0", "exit1"}
  <2>1. main_drained \/ main_final \/ guard_return
    BY <1>2, HowItEnds DEF quit_again
  <2>2. CASE main_drained
    <3>1. queue = <<>> => Mains(queue) = 0
      BY MainsBound DEF ProgramInv, QueueInv
    <3> QED
      BY <2>2, <3>1 DEF main_drained, At, Drained, ProgramInv, PrintInv, QueueInv, Counts,
            MessagesPrinted, queueVars, fixedVars
  <2>3. CASE main_final
    BY <2>3 DEF main_final, push, Counts, At, ProgramInv, PrintInv, ExitPlaces, MessagesPrinted,
          fixedVars
  <2>4. CASE guard_return
    BY <2>4 DEF guard_return, At, ProgramInv, PrintInv, MessagesPrinted, fixedVars
  <2> QED
    BY <2>1, <2>2, <2>3, <2>4
<1> QED
  BY <1>1, <1>2 DEF MessagesPrinted

LEMMA FaultsOnlyAfterReleaseStep ==
    ASSUME ProgramInv, Next
    PROVE  FaultsOnlyAfterRelease'
<1>1. CASE ended # "no"
  BY <1>1, EndedStops DEF restart, FaultsOnlyAfterRelease
<1>2. CASE ended = "no" /\ ended' = "crashed"
  <2>1. task_hal_init_unattached \/ guard_send_released \/ RealTime
    BY <1>2, HowItEnds DEF main_drained, main_final, guard_return, quit_again
  <2>2. CASE task_hal_init_unattached \/ guard_send_released
    BY <2>2 DEF task_hal_init_unattached, guard_send_released, Crash, halVars,
          FaultsOnlyAfterRelease
  <2>3. CASE RealTime
    BY <1>2, <2>3 DEF RealTime, thread_task, walk_begin, walk_call, walk_body, walk_funct_ptr,
          walk_next, walk_end, RtAt, Crash, ProgramInv, WalkInv, FaultsOnlyAfterRelease
  <2> QED
    BY <2>1, <2>2, <2>3
<1> QED
  BY <1>1, <1>2 DEF FaultsOnlyAfterRelease

-----------------------------------------------------------------------------
(* The theorems. *)

LEMMA ProgramInvInit == Init => ProgramInv
<1> SUFFICES ASSUME Init PROVE ProgramInv
  OBVIOUS
<1>1. ValueTypes /\ BooleanTypes /\ PrintInv /\ HalInv /\ CompInv /\ AppInv /\ OwnInv /\ WalkInv
  BY TypesInit, PrintInvInit, HalInvInit
<1>2. QueueInv
  <2>1. <<>> \in Seq(Senders) /\ Len(<<>>) = 0
    OBVIOUS
  <2>2. Mains(<<>>) = 0
    BY <2>1, MainsBound
  <2> QED
    BY <2>1, <2>2, QueueCapAssumption DEF Init, QueueInit, QueueInv, Drainers, Counts
<1>3. CleanExit /\ MessagesPrinted /\ FaultsOnlyAfterRelease
  BY DEF Init, WalkInit, CleanExit, MessagesPrinted, FaultsOnlyAfterRelease
<1> QED
  BY <1>1, <1>2, <1>3 DEF ProgramInv

LEMMA ProgramInvStutter ==
    ASSUME ProgramInv, UNCHANGED vars
    PROVE  ProgramInv'
<1> USE DEF vars, queueVars, walkVars, staticVars, halVars, keptVars, fixedVars
<1>1. (ValueTypes /\ PrintInv /\ HalInv /\ CompInv /\ AppInv /\ OwnInv)'
  BY DEF ProgramInv, ValueTypes, PrintInv, HalInv, CompInv, AppInv, OwnInv
<1>2. BooleanTypes'
  BY Zenon DEF ProgramInv, BooleanTypes
<1>3. QueueInv' /\ WalkInv'
  BY DEF ProgramInv, QueueInv, WalkInv, Linked
<1>4. (CleanExit /\ MessagesPrinted /\ FaultsOnlyAfterRelease)'
  BY DEF ProgramInv, CleanExit, MessagesPrinted, FaultsOnlyAfterRelease
<1> QED
  BY <1>1, <1>2, <1>3, <1>4 DEF ProgramInv

LEMMA ProgramInvInvariant == Spec => []ProgramInv
<1>1. ProgramInv /\ Next => ProgramInv'
  BY StepIsQueueStep, QueueStepKeeps, PrintInvStep, HalInvStep, CompInvStep, OwnInvStep,
        AppInvStep, ValueTypesStep, WalkInvStep, BooleanTypesStep, CleanExitStep,
        MessagesPrintedStep, FaultsOnlyAfterReleaseStep DEF ProgramInv
<1>2. ProgramInv /\ UNCHANGED vars => ProgramInv'
  BY ProgramInvStutter
<1> QED
  BY <1>1, <1>2, ProgramInvInit, PTL DEF Spec

\* All variables stay in their types; in particular the messages of the main
\* program that are accepted and not printed are at most those in the queue and
\* the one the printing thread holds.
THEOREM ProgramTypes == Spec => []TypeOK
<1>1. ProgramInv => TypeOK
  <2> SUFFICES ASSUME ProgramInv PROVE TypeOK
    OBVIOUS
  <2>1. QueueTypeOK
    <3>1. Len(queue) <= QueueCap /\ (\A i \in DOMAIN queue : queue[i] \in Senders) /\ drainer \in Drainers
      BY DEF ProgramInv, QueueInv
    <3>2. Mains(queue) \in Nat /\ Mains(queue) <= Len(queue) /\ Len(queue) \in Nat
      BY MainsBound DEF ProgramInv, QueueInv
    <3>3. waiting \in 0 .. QueueCap + 1
      BY <3>1, <3>2, QueueCapAssumption DEF ProgramInv, QueueInv, Counts
    <3>4. cancelled \in BOOLEAN
      BY Zenon DEF ProgramInv, BooleanTypes
    <3> QED
      BY <3>1, <3>3, <3>4, Zenon DEF QueueTypeOK
  <2>2. threads_running \in BOOLEAN
    BY Zenon DEF ProgramInv, BooleanTypes
  <2>3. {done, threads_started, task_initialised, comp, failed, pins, segment, mutex} \subseteq BOOLEAN
    BY Zenon DEF ProgramInv, BooleanTypes
  <2> QED
    BY <2>1, <2>2, <2>3, Zenon DEF ProgramInv, ValueTypes, WalkTypeOK, TypeOK
<1> QED
  BY <1>1, ProgramInvInvariant, PTL

\* A program whose task was initialised and that ends by itself has stopped the
\* threads, removed the application segment and deregistered its component,
\* whenever the signals came and whatever failed.
THEOREM ExitIsClean == Spec => []CleanExit
<1>1. ProgramInv => CleanExit
  BY DEF ProgramInv
<1> QED
  BY <1>1, ProgramInvInvariant, PTL

\* What the main program printed before stopprintf, and the queue took, is on
\* the terminal when it exits, for every capacity of the queue.
THEOREM MessagesArePrinted == Spec => []MessagesPrinted
<1>1. ProgramInv => MessagesPrinted
  BY DEF ProgramInv
<1> QED
  BY <1>1, ProgramInvInvariant, PTL

\* A fault is always the use of what task_thread_exit has released, or of a HAL
\* segment that was never attached.
THEOREM FaultsFollowRelease == Spec => []FaultsOnlyAfterRelease
<1>1. ProgramInv => FaultsOnlyAfterRelease
  BY DEF ProgramInv
<1> QED
  BY <1>1, ProgramInvInvariant, PTL

=============================================================================
