----------------------------- MODULE RtTaskProofs -----------------------------
(***************************************************************************)
(* Proofs about RtTask for any number of tasks, any semaphore limit, with  *)
(* and without the thread lock.                                            *)
(***************************************************************************)
EXTENDS RtTask, TLAPS

CtlStep(t) == CtlCall(t) \/ CtlContinue(t)

LEMMA ConstantFacts ==
    /\ MaxTasks \in Nat /\ MaxTasks # 0
    /\ SemMax \in Nat /\ SemMax # 0
    /\ NoTask \notin Tasks
    /\ Tasks \subseteq Nat
BY MaxTasksAssumption, SemMaxAssumption DEF Tasks, NoTask

LEMMA InitTypeOK == Init => TypeOK
BY ConstantFacts DEF Init, TypeOK, TaskStates, ThreadSteps, CtlSteps, Idle

\* A post never takes a semaphore over its limit.
LEMMA PostedType ==
    ASSUME NEW sem \in [Tasks -> 0 .. SemMax], NEW t \in Tasks
    PROVE  Posted(sem, t) \in [Tasks -> 0 .. SemMax]
BY ConstantFacts DEF Posted

LEMMA CtlTypeOK ==
    ASSUME TypeOK, NEW t \in Tasks, CtlStep(t)
    PROVE  TypeOK'
<1> USE DEF TypeOK, TaskStates, CtlSteps, At, Idle
<1>1. CASE task_start(t) BY <1>1, ConstantFacts DEF task_start
<1>2. CASE task_pause(t) BY <1>2, ConstantFacts DEF task_pause
<1>3. CASE task_resume(t) BY <1>3, ConstantFacts DEF task_resume
<1>4. CASE task_delete(t) BY <1>4, ConstantFacts DEF task_delete
<1>5. CASE task_new(t) BY <1>5, ConstantFacts DEF task_new
<1>6. CASE task_start_created(t) BY <1>6, ConstantFacts DEF task_start_created, ThreadSteps
<1>7. CASE task_start_failed(t) BY <1>7, ConstantFacts DEF task_start_failed
<1>8. CASE task_pause_set(t) BY <1>8, ConstantFacts DEF task_pause_set
<1>9. CASE task_pause_post(t) BY <1>9, ConstantFacts, PostedType DEF task_pause_post
<1>10. CASE task_resume_post(t) BY <1>10, ConstantFacts, PostedType DEF task_resume_post
<1>11. CASE task_delete_post(t) BY <1>11, ConstantFacts, PostedType DEF task_delete_post
<1>12. CASE task_delete_cancel(t) BY <1>12, ConstantFacts DEF task_delete_cancel
<1>13. CASE task_delete_no_thread(t) BY <1>13, ConstantFacts DEF task_delete_no_thread
<1>14. CASE task_delete_join(t) BY <1>14, ConstantFacts DEF task_delete_join, ThreadSteps
<1>15. CASE task_delete_crash(t) BY <1>15, ConstantFacts DEF task_delete_crash
<1>16. CASE task_delete_free(t) BY <1>16, ConstantFacts DEF task_delete_free
<1>17. QED BY <1>1, <1>2, <1>3, <1>4, <1>5, <1>6, <1>7, <1>8, <1>9, <1>10, <1>11, <1>12, <1>13, <1>14, <1>15, <1>16
           DEF CtlStep, CtlCall, CtlContinue

LEMMA ThreadTypeOK ==
    ASSUME TypeOK, NEW t \in Tasks, Thread(t)
    PROVE  TypeOK'
<1> USE DEF TypeOK, Goto, ThreadSteps
<1>1. CASE wrapper(t) BY <1>1, ConstantFacts DEF wrapper, Acquire
<1>2. CASE wait_relock(t) BY <1>2, ConstantFacts DEF wait_relock, Acquire
<1>3. CASE self_pause(t) BY <1>3, ConstantFacts DEF self_pause
<1>4. CASE self_resume(t) BY <1>4, ConstantFacts DEF self_resume
<1>5. CASE self_pause_set(t) BY <1>5, ConstantFacts DEF self_pause_set, TaskStates
<1>6. CASE self_pause_post(t) BY <1>6, ConstantFacts, PostedType DEF self_pause_post
<1>7. CASE self_resume_post(t) BY <1>7, ConstantFacts, PostedType DEF self_resume_post
<1>8. CASE wait(t) BY <1>8, ConstantFacts DEF wait
<1>9. CASE wait_cancelled(t) BY <1>9, ConstantFacts DEF wait_cancelled
<1>10. CASE wait_testcancel(t) BY <1>10, ConstantFacts DEF wait_testcancel
<1>11. CASE wait_trywait(t) BY <1>11, ConstantFacts DEF wait_trywait
<1>12. CASE wait_semwait(t) BY <1>12, ConstantFacts DEF wait_semwait
<1>13. CASE wait_woken(t) BY <1>13, ConstantFacts DEF wait_woken, TaskStates
<1>14. CASE wait_sleep(t) BY <1>14, ConstantFacts DEF wait_sleep
<1>15. QED BY <1>1, <1>2, <1>3, <1>4, <1>5, <1>6, <1>7, <1>8, <1>9, <1>10, <1>11, <1>12, <1>13, <1>14
           DEF Thread, Locking, SelfCall, Running

LEMMA NextTypeOK == TypeOK /\ [Next]_vars => TypeOK'
<1> SUFFICES ASSUME TypeOK, [Next]_vars PROVE TypeOK'
    OBVIOUS
<1>1. CASE allocate_task_id
  BY <1>1, ConstantFacts DEF allocate_task_id, TypeOK, TaskStates, CtlSteps, At
<1>2. ASSUME NEW t \in Tasks, CtlCall(t) \/ CtlContinue(t) PROVE TypeOK'
  BY <1>2, CtlTypeOK DEF CtlStep
<1>3. ASSUME NEW t \in Tasks, Thread(t) PROVE TypeOK'
  BY <1>3, ThreadTypeOK
<1>4. CASE UNCHANGED vars
  BY <1>4 DEF vars, TypeOK
<1>5. QED BY <1>1, <1>2, <1>3, <1>4 DEF Next, Crashed

\* Every reachable state is well typed: in particular no semaphore leaves
\* 0 .. SEM_VALUE_MAX, whatever the interleaving of the control thread's calls
\* with the task threads' waits.
THEOREM TypeCorrect == Spec => []TypeOK
BY InitTypeOK, NextTypeOK, PTL DEF Spec

-----------------------------------------------------------------------------
(* No thread outlives its task. *)

TaskThreadInv == TypeOK /\ CallInv /\ NoThreadWithoutTask

LEMMA InitTaskThreadInv == Init => TaskThreadInv
BY InitTypeOK, ConstantFacts DEF Init, TaskThreadInv, CallInv, NoThreadWithoutTask, Idle, At

LEMMA CtlTaskThreadInv ==
    ASSUME TaskThreadInv, NEW t \in Tasks, CtlStep(t)
    PROVE  (CallInv /\ NoThreadWithoutTask)'
<1> USE DEF TaskThreadInv, TypeOK, CallInv, NoThreadWithoutTask, At, Idle
<1>1. CASE task_start(t) BY <1>1, ConstantFacts DEF task_start
<1>2. CASE task_pause(t) BY <1>2, ConstantFacts DEF task_pause
<1>3. CASE task_resume(t) BY <1>3, ConstantFacts DEF task_resume
<1>4. CASE task_delete(t) BY <1>4, ConstantFacts DEF task_delete
<1>5. CASE task_new(t) BY <1>5, ConstantFacts DEF task_new
<1>6. CASE task_start_created(t) BY <1>6, ConstantFacts DEF task_start_created
<1>7. CASE task_start_failed(t) BY <1>7, ConstantFacts DEF task_start_failed
<1>8. CASE task_pause_set(t) BY <1>8, ConstantFacts DEF task_pause_set
<1>9. CASE task_pause_post(t) BY <1>9, ConstantFacts DEF task_pause_post
<1>10. CASE task_resume_post(t) BY <1>10, ConstantFacts DEF task_resume_post
<1>11. CASE task_delete_post(t) BY <1>11, ConstantFacts DEF task_delete_post
<1>12. CASE task_delete_cancel(t) BY <1>12, ConstantFacts DEF task_delete_cancel
<1>13. CASE task_delete_no_thread(t) BY <1>13, ConstantFacts DEF task_delete_no_thread
<1>14. CASE task_delete_join(t) BY <1>14, ConstantFacts DEF task_delete_join
<1>15. CASE task_delete_crash(t) BY <1>15, ConstantFacts DEF task_delete_crash
<1>16. CASE task_delete_free(t) BY <1>16, ConstantFacts DEF task_delete_free
<1>17. QED BY <1>1, <1>2, <1>3, <1>4, <1>5, <1>6, <1>7, <1>8, <1>9, <1>10, <1>11, <1>12, <1>13, <1>14, <1>15, <1>16
           DEF CtlStep, CtlCall, CtlContinue

LEMMA ThreadTaskThreadInv ==
    ASSUME TaskThreadInv, NEW t \in Tasks, Thread(t)
    PROVE  (CallInv /\ NoThreadWithoutTask)'
<1> USE DEF TaskThreadInv, TypeOK, CallInv, NoThreadWithoutTask, At, Goto
<1>1. CASE wrapper(t) BY <1>1, ConstantFacts DEF wrapper
<1>2. CASE wait_relock(t) BY <1>2, ConstantFacts DEF wait_relock
<1>3. CASE self_pause(t) BY <1>3, ConstantFacts DEF self_pause
<1>4. CASE self_resume(t) BY <1>4, ConstantFacts DEF self_resume
<1>5. CASE self_pause_set(t) BY <1>5, ConstantFacts DEF self_pause_set
<1>6. CASE self_pause_post(t) BY <1>6, ConstantFacts DEF self_pause_post
<1>7. CASE self_resume_post(t) BY <1>7, ConstantFacts DEF self_resume_post
<1>8. CASE wait(t) BY <1>8, ConstantFacts DEF wait
<1>9. CASE wait_cancelled(t) BY <1>9, ConstantFacts DEF wait_cancelled, CancellationPoints
<1>10. CASE wait_testcancel(t) BY <1>10, ConstantFacts DEF wait_testcancel
<1>11. CASE wait_trywait(t) BY <1>11, ConstantFacts DEF wait_trywait
<1>12. CASE wait_semwait(t) BY <1>12, ConstantFacts DEF wait_semwait
<1>13. CASE wait_woken(t) BY <1>13, ConstantFacts DEF wait_woken
<1>14. CASE wait_sleep(t) BY <1>14, ConstantFacts DEF wait_sleep
<1>15. QED BY <1>1, <1>2, <1>3, <1>4, <1>5, <1>6, <1>7, <1>8, <1>9, <1>10, <1>11, <1>12, <1>13, <1>14
           DEF Thread, Locking, SelfCall, Running

LEMMA NextTaskThreadInv == TaskThreadInv /\ [Next]_vars => TaskThreadInv'
<1> SUFFICES ASSUME TaskThreadInv, [Next]_vars PROVE (CallInv /\ NoThreadWithoutTask)'
    BY NextTypeOK DEF TaskThreadInv
<1>1. CASE allocate_task_id
  BY <1>1, ConstantFacts
     DEF allocate_task_id, TaskThreadInv, TypeOK, CallInv, NoThreadWithoutTask, At, Idle
<1>2. ASSUME NEW t \in Tasks, CtlCall(t) \/ CtlContinue(t) PROVE (CallInv /\ NoThreadWithoutTask)'
  BY <1>2, CtlTaskThreadInv DEF CtlStep
<1>3. ASSUME NEW t \in Tasks, Thread(t) PROVE (CallInv /\ NoThreadWithoutTask)'
  BY <1>3, ThreadTaskThreadInv
<1>4. CASE UNCHANGED vars
  BY <1>4 DEF vars, TaskThreadInv, CallInv, NoThreadWithoutTask
<1>5. QED BY <1>1, <1>2, <1>3, <1>4 DEF Next, Crashed

LEMMA TaskThreadInvariant == Spec => []TaskThreadInv
BY InitTaskThreadInv, NextTaskThreadInv, PTL DEF Spec

\* task_delete joins before it frees: whatever the control thread and the task
\* threads do, self commands included, no thread belongs to a free slot or to
\* a task object that has not been started.
THEOREM ThreadNeverOutlivesTask == Spec => []NoThreadWithoutTask
<1>1. TaskThreadInv => NoThreadWithoutTask BY DEF TaskThreadInv
<1>2. QED BY <1>1, TaskThreadInvariant, PTL

-----------------------------------------------------------------------------
(* One token per accepted pause of a task that only the control thread pauses. *)

TokenInv == TaskThreadInv /\ SinglePauserInv /\ PauseTokenBalance

LEMMA InitTokenInv == Init => TokenInv
BY InitTaskThreadInv, ConstantFacts
   DEF Init, TokenInv, SinglePauserInv, PauseTokenBalance, PauseTokens, Idle, At

LEMMA CtlTokenInv ==
    ASSUME TokenInv, NEW t \in Tasks, CtlStep(t)
    PROVE  (SinglePauserInv /\ PauseTokenBalance)'
<1> USE DEF TokenInv, TaskThreadInv, TypeOK, CallInv, NoThreadWithoutTask, SinglePauserInv,
            PauseTokenBalance, PauseTokens, At, Idle
<1>1. CASE task_start(t) BY <1>1, ConstantFacts DEF task_start
<1>2. CASE task_pause(t) BY <1>2, ConstantFacts DEF task_pause
<1>3. CASE task_resume(t) BY <1>3, ConstantFacts DEF task_resume
<1>4. CASE task_delete(t) BY <1>4, ConstantFacts DEF task_delete
<1>5. CASE task_new(t) BY <1>5, ConstantFacts DEF task_new
<1>6. CASE task_start_created(t) BY <1>6, ConstantFacts DEF task_start_created
<1>7. CASE task_start_failed(t) BY <1>7, ConstantFacts DEF task_start_failed
<1>8. CASE task_pause_set(t) BY <1>8, ConstantFacts DEF task_pause_set
<1>9. CASE task_pause_post(t) BY <1>9, ConstantFacts DEF task_pause_post, Posted
<1>10. CASE task_resume_post(t) BY <1>10, ConstantFacts DEF task_resume_post, Posted
<1>11. CASE task_delete_post(t) BY <1>11, ConstantFacts DEF task_delete_post, Posted
<1>12. CASE task_delete_cancel(t) BY <1>12, ConstantFacts DEF task_delete_cancel
<1>13. CASE task_delete_no_thread(t) BY <1>13, ConstantFacts DEF task_delete_no_thread
<1>14. CASE task_delete_join(t) BY <1>14, ConstantFacts DEF task_delete_join
<1>15. CASE task_delete_crash(t) BY <1>15, ConstantFacts DEF task_delete_crash
<1>16. CASE task_delete_free(t) BY <1>16, ConstantFacts DEF task_delete_free
<1>17. QED BY <1>1, <1>2, <1>3, <1>4, <1>5, <1>6, <1>7, <1>8, <1>9, <1>10, <1>11, <1>12, <1>13, <1>14, <1>15, <1>16
           DEF CtlStep, CtlCall, CtlContinue

LEMMA ThreadTokenInv ==
    ASSUME TokenInv, NEW t \in Tasks, Thread(t)
    PROVE  (SinglePauserInv /\ PauseTokenBalance)'
<1> USE DEF TokenInv, TaskThreadInv, TypeOK, CallInv, NoThreadWithoutTask, SinglePauserInv,
            PauseTokenBalance, PauseTokens, At, Goto
<1>1. CASE wrapper(t) BY <1>1, ConstantFacts DEF wrapper
<1>2. CASE wait_relock(t) BY <1>2, ConstantFacts DEF wait_relock
<1>3. CASE self_pause(t) BY <1>3, ConstantFacts DEF self_pause
<1>4. CASE self_resume(t) BY <1>4, ConstantFacts DEF self_resume
<1>5. CASE self_pause_set(t) BY <1>5, ConstantFacts DEF self_pause_set
<1>6. CASE self_pause_post(t) BY <1>6, ConstantFacts DEF self_pause_post, Posted
<1>7. CASE self_resume_post(t) BY <1>7, ConstantFacts DEF self_resume_post, Posted
<1>8. CASE wait(t) BY <1>8, ConstantFacts DEF wait
<1>9. CASE wait_cancelled(t) BY <1>9, ConstantFacts DEF wait_cancelled, CancellationPoints
<1>10. CASE wait_testcancel(t) BY <1>10, ConstantFacts DEF wait_testcancel
<1>11. CASE wait_trywait(t) BY <1>11, ConstantFacts DEF wait_trywait
<1>12. CASE wait_semwait(t) BY <1>12, ConstantFacts DEF wait_semwait
<1>13. CASE wait_woken(t) BY <1>13, ConstantFacts DEF wait_woken
<1>14. CASE wait_sleep(t) BY <1>14, ConstantFacts DEF wait_sleep
<1>15. QED BY <1>1, <1>2, <1>3, <1>4, <1>5, <1>6, <1>7, <1>8, <1>9, <1>10, <1>11, <1>12, <1>13, <1>14
           DEF Thread, Locking, SelfCall, Running

LEMMA NextTokenInv == TokenInv /\ [Next]_vars => TokenInv'
<1> SUFFICES ASSUME TokenInv, [Next]_vars PROVE (SinglePauserInv /\ PauseTokenBalance)'
    BY NextTaskThreadInv DEF TokenInv
<1>1. CASE allocate_task_id
  BY <1>1, ConstantFacts
     DEF allocate_task_id, TokenInv, TaskThreadInv, TypeOK, NoThreadWithoutTask, SinglePauserInv,
         PauseTokenBalance, PauseTokens, At, Idle
<1>2. ASSUME NEW t \in Tasks, CtlCall(t) \/ CtlContinue(t) PROVE (SinglePauserInv /\ PauseTokenBalance)'
  BY <1>2, CtlTokenInv DEF CtlStep
<1>3. ASSUME NEW t \in Tasks, Thread(t) PROVE (SinglePauserInv /\ PauseTokenBalance)'
  BY <1>3, ThreadTokenInv
<1>4. CASE UNCHANGED vars
  BY <1>4 DEF vars, TokenInv, SinglePauserInv, PauseTokenBalance, PauseTokens
<1>5. QED BY <1>1, <1>2, <1>3, <1>4 DEF Next, Crashed

LEMMA TokenInvariant == Spec => []TokenInv
BY InitTokenInv, NextTokenInv, PTL DEF Spec

\* Of a task that does not pause itself each accepted task_pause accounts for
\* exactly one token, in flight, in pause_sem or held by the blocked thread.
THEOREM PauseTokensBalance == Spec => []PauseTokenBalance
<1>1. TokenInv => PauseTokenBalance BY DEF TokenInv
<1>2. QED BY <1>1, TokenInvariant, PTL

\* A task that does not pause itself can be resumed whenever its thread is
\* blocked: task_resume accepts its state.
THEOREM BlockedTaskCanBeResumed == Spec => []BlockedTaskIsPaused
<1>1. TokenInv => BlockedTaskIsPaused
  BY ConstantFacts
     DEF TokenInv, TaskThreadInv, TypeOK, NoThreadWithoutTask, PauseTokenBalance, PauseTokens,
         BlockedTaskIsPaused
<1>2. QED BY <1>1, TokenInvariant, PTL

-----------------------------------------------------------------------------
(* Mutual exclusion of the task codes under the thread lock. *)

LEMMA CtlTaskCodeExclusive ==
    ASSUME TaskThreadInv, TaskCodeExclusive, NEW t \in Tasks, CtlStep(t)
    PROVE  TaskCodeExclusive'
<1> USE DEF TaskThreadInv, TypeOK, TaskCodeExclusive, InTaskCode
<1>1. CASE task_start(t) BY <1>1, ConstantFacts DEF task_start
<1>2. CASE task_pause(t) BY <1>2, ConstantFacts DEF task_pause
<1>3. CASE task_resume(t) BY <1>3, ConstantFacts DEF task_resume
<1>4. CASE task_delete(t) BY <1>4, ConstantFacts DEF task_delete
<1>5. CASE task_new(t) BY <1>5, ConstantFacts DEF task_new
<1>6. CASE task_start_created(t) BY <1>6, ConstantFacts DEF task_start_created, CallInv
<1>7. CASE task_start_failed(t) BY <1>7, ConstantFacts DEF task_start_failed
<1>8. CASE task_pause_set(t) BY <1>8, ConstantFacts DEF task_pause_set
<1>9. CASE task_pause_post(t) BY <1>9, ConstantFacts DEF task_pause_post
<1>10. CASE task_resume_post(t) BY <1>10, ConstantFacts DEF task_resume_post
<1>11. CASE task_delete_post(t) BY <1>11, ConstantFacts DEF task_delete_post
<1>12. CASE task_delete_cancel(t) BY <1>12, ConstantFacts DEF task_delete_cancel
<1>13. CASE task_delete_no_thread(t) BY <1>13, ConstantFacts DEF task_delete_no_thread
<1>14. CASE task_delete_join(t) BY <1>14, ConstantFacts DEF task_delete_join
<1>15. CASE task_delete_crash(t) BY <1>15, ConstantFacts DEF task_delete_crash
<1>16. CASE task_delete_free(t) BY <1>16, ConstantFacts DEF task_delete_free
<1>17. QED BY <1>1, <1>2, <1>3, <1>4, <1>5, <1>6, <1>7, <1>8, <1>9, <1>10, <1>11, <1>12, <1>13, <1>14, <1>15, <1>16
           DEF CtlStep, CtlCall, CtlContinue

LEMMA ThreadTaskCodeExclusive ==
    ASSUME TaskThreadInv, TaskCodeExclusive, NEW t \in Tasks, Thread(t)
    PROVE  TaskCodeExclusive'
<1> USE DEF TaskThreadInv, TypeOK, TaskCodeExclusive, InTaskCode, Goto
<1>1. CASE wrapper(t) BY <1>1, ConstantFacts DEF wrapper, Acquire
<1>2. CASE wait_relock(t) BY <1>2, ConstantFacts DEF wait_relock, Acquire
<1>3. CASE self_pause(t) BY <1>3, ConstantFacts DEF self_pause
<1>4. CASE self_resume(t) BY <1>4, ConstantFacts DEF self_resume
<1>5. CASE self_pause_set(t) BY <1>5, ConstantFacts DEF self_pause_set
<1>6. CASE self_pause_post(t) BY <1>6, ConstantFacts DEF self_pause_post
<1>7. CASE self_resume_post(t) BY <1>7, ConstantFacts DEF self_resume_post
<1>8. CASE wait(t) BY <1>8, ConstantFacts DEF wait
<1>9. CASE wait_cancelled(t) BY <1>9, ConstantFacts DEF wait_cancelled, CancellationPoints
<1>10. CASE wait_testcancel(t) BY <1>10, ConstantFacts DEF wait_testcancel
<1>11. CASE wait_trywait(t) BY <1>11, ConstantFacts DEF wait_trywait
<1>12. CASE wait_semwait(t) BY <1>12, ConstantFacts DEF wait_semwait
<1>13. CASE wait_woken(t) BY <1>13, ConstantFacts DEF wait_woken
<1>14. CASE wait_sleep(t) BY <1>14, ConstantFacts DEF wait_sleep
<1>15. QED BY <1>1, <1>2, <1>3, <1>4, <1>5, <1>6, <1>7, <1>8, <1>9, <1>10, <1>11, <1>12, <1>13, <1>14
           DEF Thread, Locking, SelfCall, Running

LEMMA NextTaskCodeExclusive ==
    TaskThreadInv /\ TaskCodeExclusive /\ [Next]_vars => TaskCodeExclusive'
<1> SUFFICES ASSUME TaskThreadInv, TaskCodeExclusive, [Next]_vars PROVE TaskCodeExclusive'
    OBVIOUS
<1>1. CASE allocate_task_id
  BY <1>1 DEF allocate_task_id, TaskCodeExclusive, InTaskCode
<1>2. ASSUME NEW t \in Tasks, CtlCall(t) \/ CtlContinue(t) PROVE TaskCodeExclusive'
  BY <1>2, CtlTaskCodeExclusive DEF CtlStep
<1>3. ASSUME NEW t \in Tasks, Thread(t) PROVE TaskCodeExclusive'
  BY <1>3, ThreadTaskCodeExclusive
<1>4. CASE UNCHANGED vars
  BY <1>4 DEF vars, TaskCodeExclusive, InTaskCode
<1>5. QED BY <1>1, <1>2, <1>3, <1>4 DEF Next, Crashed

\* Under a policy other than SCHED_FIFO no two task codes run at once, and no
\* cancelled or paused thread keeps the thread lock.
THEOREM TaskCodesExclude == Spec => []TaskCodeExclusive
<1>1. Init => TaskCodeExclusive
  BY ConstantFacts DEF Init, TaskCodeExclusive, InTaskCode
<1>2. QED BY <1>1, NextTaskCodeExclusive, TaskThreadInvariant, PTL DEF Spec

-----------------------------------------------------------------------------
(* Refinement of the documented lifecycle. *)

LEMMA ThreadsKept ==
    ASSUME NEW t \in Tasks, thr \in [Tasks -> ThreadSteps], NEW to, to # "none", thr[t] # "none",
           thr' = [thr EXCEPT ![t] = to]
    PROVE  HasThread' = HasThread
<1>1. \A u \in Tasks : (thr'[u] # "none") <=> (thr[u] # "none") OBVIOUS
<1>2. \A u \in Tasks : (thr'[u] # "none") = (thr[u] # "none") BY <1>1
<1>3. QED BY <1>2 DEF HasThread

LEMMA ThreadSet ==
    ASSUME NEW t \in Tasks, thr \in [Tasks -> ThreadSteps], NEW to, thr' = [thr EXCEPT ![t] = to]
    PROVE  HasThread' = [HasThread EXCEPT ![t] = (to # "none")]
<1>1. \A u \in Tasks : thr'[u] = IF u = t THEN to ELSE thr[u] OBVIOUS
<1>2. HasThread' = [u \in Tasks |-> thr'[u] # "none"] BY DEF HasThread
<1>3. [HasThread EXCEPT ![t] = (to # "none")]
        = [u \in Tasks |-> IF u = t THEN to # "none" ELSE thr[u] # "none"]
  BY DEF HasThread
<1>4. \A u \in Tasks : (thr'[u] # "none") = (IF u = t THEN to # "none" ELSE thr[u] # "none")
  BY <1>1
<1>5. QED BY <1>2, <1>3, <1>4

LEMMA ThreadOf == \A t \in Tasks : HasThread[t] <=> thr[t] # "none"
BY DEF HasThread

LEMMA CtlLife ==
    ASSUME TaskThreadInv, NEW t \in Tasks, CtlStep(t)
    PROVE  [Lifecycle!Next]_(Lifecycle!vars)
<1> USE DEF TaskThreadInv, TypeOK, CallInv, NoThreadWithoutTask, At, Idle
<1>u. ASSUME UNCHANGED thr PROVE UNCHANGED HasThread BY <1>u DEF HasThread
<1>s. ASSUME UNCHANGED <<state, thr>> PROVE UNCHANGED Lifecycle!vars
  BY <1>s, <1>u DEF Lifecycle!vars
<1>n. ASSUME \/ Lifecycle!Construct(t) \/ Lifecycle!Start(t) \/ Lifecycle!Created(t)
             \/ Lifecycle!Rollback(t) \/ Lifecycle!Pause(t) \/ Lifecycle!Delete(t)
             \/ Lifecycle!Release(t)
      PROVE  Lifecycle!Next
  BY <1>n DEF Lifecycle!Next
<1>1. CASE task_start(t)
  <2>1. Lifecycle!Start(t) BY <1>1, <1>u DEF task_start, Lifecycle!Start, Lifecycle!Move
  <2>2. QED BY <2>1, <1>n
<1>2. CASE task_pause(t) BY <1>2, <1>s DEF task_pause
<1>3. CASE task_resume(t) BY <1>3, <1>s DEF task_resume
<1>4. CASE task_delete(t) BY <1>4, <1>s DEF task_delete
<1>5. CASE task_new(t)
  <2>1. Lifecycle!Construct(t)
    BY <1>5, <1>u DEF task_new, Lifecycle!Construct, Lifecycle!Move
  <2>2. QED BY <2>1, <1>n
<1>6. CASE task_start_created(t)
  <2>1. state[t] = "RUNNING" /\ ~HasThread[t]
    BY <1>6, ThreadOf DEF task_start_created
  <2>2. HasThread' = [HasThread EXCEPT ![t] = ("wrapper" # "none")]
    BY <1>6, ThreadSet DEF task_start_created
  <2>3. ("wrapper" # "none") = TRUE OBVIOUS
  <2>4. HasThread' = [HasThread EXCEPT ![t] = TRUE] BY <2>2, <2>3
  <2>5. UNCHANGED state BY <1>6 DEF task_start_created
  <2>6. Lifecycle!Created(t) BY <2>1, <2>4, <2>5 DEF Lifecycle!Created
  <2>7. QED BY <2>6, <1>n
<1>7. CASE task_start_failed(t)
  <2>1. Lifecycle!Rollback(t)
    BY <1>7, <1>u, ThreadOf DEF task_start_failed, Lifecycle!Rollback, Lifecycle!Move
  <2>2. QED BY <2>1, <1>n
<1>8. CASE task_pause_set(t)
  <2>1. HasThread[t] BY <1>8, ThreadOf DEF task_pause_set
  <2>2. state[t] \in {"RUNNING", "PAUSED"}
    BY <1>8 DEF task_pause_set, TaskStates
  <2>3. UNCHANGED HasThread BY <1>8, <1>u DEF task_pause_set
  <2>4. CASE state[t] = "RUNNING"
    <3>1. Lifecycle!Pause(t)
      BY <1>8, <2>1, <2>3, <2>4 DEF task_pause_set, Lifecycle!Pause, Lifecycle!Move
    <3>2. QED BY <3>1, <1>n
  <2>5. CASE state[t] = "PAUSED"
    <3>1. state' = state BY <1>8, <2>5 DEF task_pause_set
    <3>2. QED BY <2>3, <3>1 DEF Lifecycle!vars
  <2>6. QED BY <2>2, <2>4, <2>5
<1>9. CASE task_pause_post(t) BY <1>9, <1>s DEF task_pause_post
<1>10. CASE task_resume_post(t) BY <1>10, <1>s DEF task_resume_post
<1>11. CASE task_delete_post(t) BY <1>11, <1>s DEF task_delete_post
<1>12. CASE task_delete_cancel(t) BY <1>12, <1>s DEF task_delete_cancel
<1>13. CASE task_delete_no_thread(t)
  <2>1. state[t] = "ALLOCATED" /\ ~HasThread[t]
    BY <1>13, ThreadOf DEF task_delete_no_thread
  <2>2. UNCHANGED HasThread BY <1>13, <1>u DEF task_delete_no_thread
  <2>3. HasThread[t] = FALSE BY <2>1 DEF HasThread
  <2>4. HasThread' = [HasThread EXCEPT ![t] = FALSE] BY <2>2, <2>3 DEF HasThread
  <2>5. Lifecycle!Delete(t)
    BY <1>13, <2>1, <2>4 DEF task_delete_no_thread, Lifecycle!Delete, Lifecycle!Move
  <2>6. QED BY <2>5, <1>n
<1>14. CASE task_delete_join(t)
  <2>1. HasThread[t] BY <1>14, ThreadOf DEF task_delete_join
  <2>2. state[t] \in {"RUNNING", "PAUSED"}
    BY <1>14 DEF task_delete_join, TaskStates
  <2>3. HasThread' = [HasThread EXCEPT ![t] = ("none" # "none")]
    BY <1>14, ThreadSet DEF task_delete_join
  <2>4. ("none" # "none") = FALSE OBVIOUS
  <2>5. HasThread' = [HasThread EXCEPT ![t] = FALSE] BY <2>3, <2>4
  <2>6. Lifecycle!Delete(t)
    BY <1>14, <2>1, <2>2, <2>5 DEF task_delete_join, Lifecycle!Delete, Lifecycle!Move
  <2>7. QED BY <2>6, <1>n
<1>15. CASE task_delete_crash(t) BY <1>15, <1>s DEF task_delete_crash
<1>16. CASE task_delete_free(t)
  <2>1. Lifecycle!Release(t)
    BY <1>16, <1>u DEF task_delete_free, Lifecycle!Release, Lifecycle!Move
  <2>2. QED BY <2>1, <1>n
<1>17. QED BY <1>1, <1>2, <1>3, <1>4, <1>5, <1>6, <1>7, <1>8, <1>9, <1>10, <1>11, <1>12, <1>13, <1>14, <1>15, <1>16
           DEF CtlStep, CtlCall, CtlContinue

LEMMA ThreadLife ==
    ASSUME TaskThreadInv, NEW t \in Tasks, Thread(t)
    PROVE  [Lifecycle!Next]_(Lifecycle!vars)
<1> USE DEF TaskThreadInv, TypeOK, CallInv, NoThreadWithoutTask, Goto
<1>u. UNCHANGED HasThread
  <2>1. \E to \in ThreadSteps \ {"none"} : thr[t] # "none" /\ thr' = [thr EXCEPT ![t] = to]
    BY DEF Thread, Locking, SelfCall, Running, wrapper, wait_relock, self_pause, self_resume,
           self_pause_set, self_pause_post, self_resume_post, wait, wait_cancelled,
           CancellationPoints, wait_testcancel, wait_trywait, wait_semwait, wait_woken,
           wait_sleep, ThreadSteps
  <2>2. QED BY <2>1, ThreadsKept
<1>s. ASSUME UNCHANGED state PROVE UNCHANGED Lifecycle!vars
  BY <1>s, <1>u DEF Lifecycle!vars
<1>h. HasThread[t] /\ state[t] \in {"RUNNING", "PAUSED"}
  <2>1. thr[t] # "none"
    BY DEF Thread, Locking, SelfCall, Running, wrapper, wait_relock, self_pause, self_resume,
           self_pause_set, self_pause_post, self_resume_post, wait, wait_cancelled,
           CancellationPoints, wait_testcancel, wait_trywait, wait_semwait, wait_woken,
           wait_sleep
  <2>2. QED BY <2>1, ThreadOf DEF TaskStates
<1>1. CASE self_pause_set(t)
  <2>1. CASE state[t] = "RUNNING"
    <3>1. Lifecycle!Pause(t)
      BY <1>1, <1>h, <1>u, <2>1 DEF self_pause_set, Lifecycle!Pause, Lifecycle!Move
    <3>2. QED BY <3>1 DEF Lifecycle!Next
  <2>2. CASE state[t] = "PAUSED"
    <3>1. state' = state BY <1>1, <2>2 DEF self_pause_set
    <3>2. QED BY <3>1, <1>s
  <2>3. QED BY <1>h, <2>1, <2>2
<1>2. CASE wait_woken(t)
  <2>1. CASE state[t] = "PAUSED"
    <3>1. Lifecycle!Resume(t)
      BY <1>2, <1>h, <1>u, <2>1 DEF wait_woken, Lifecycle!Resume, Lifecycle!Move
    <3>2. QED BY <3>1 DEF Lifecycle!Next
  <2>2. CASE state[t] = "RUNNING"
    <3>1. state' = state BY <1>2, <2>2 DEF wait_woken
    <3>2. QED BY <3>1, <1>s
  <2>3. QED BY <1>h, <2>1, <2>2
<1>3. CASE ~self_pause_set(t) /\ ~wait_woken(t)
  <2>1. UNCHANGED state
    BY <1>3 DEF Thread, Locking, SelfCall, Running, wrapper, wait_relock, self_pause,
           self_resume, self_pause_post, self_resume_post, wait, wait_cancelled,
           wait_testcancel, wait_trywait, wait_semwait, wait_sleep
  <2>2. QED BY <2>1, <1>s
<1>4. QED BY <1>1, <1>2, <1>3

\* The stored state of every task follows the lifecycle diagram of rtapi_uspace.h,
\* completed by the rollback of task_start, at every store to task->state: a task
\* is paused, resumed and deleted from RUNNING or PAUSED only while it has its
\* thread, and RUNNING goes back to ALLOCATED only before the thread exists.
THEOREM ImplementsLifecycle == Spec => FollowsLifecycle
<1>1. Init => Lifecycle!Init
  <2> SUFFICES ASSUME Init PROVE HasThread = [t \in Tasks |-> FALSE]
      BY DEF Init, Lifecycle!Init
  <2>1. \A t \in Tasks : (thr[t] # "none") = FALSE BY DEF Init
  <2>2. QED BY <2>1 DEF HasThread
<1>2. TaskThreadInv /\ [Next]_vars => [Lifecycle!Next]_(Lifecycle!vars)
  <2> SUFFICES ASSUME TaskThreadInv, [Next]_vars PROVE [Lifecycle!Next]_(Lifecycle!vars)
      OBVIOUS
  <2>1. CASE allocate_task_id
    <3>1. PICK t \in Tasks : /\ state[t] = "EMPTY"
                             /\ state' = [state EXCEPT ![t] = "INIT"]
      BY <2>1 DEF allocate_task_id
    <3>2. UNCHANGED HasThread BY <2>1 DEF allocate_task_id, HasThread
    <3>3. Lifecycle!Claim(t) BY <3>1, <3>2 DEF Lifecycle!Claim, Lifecycle!Move
    <3>4. QED BY <3>3 DEF Lifecycle!Next
  <2>2. ASSUME NEW t \in Tasks, CtlCall(t) \/ CtlContinue(t)
        PROVE  [Lifecycle!Next]_(Lifecycle!vars)
    BY <2>2, CtlLife DEF CtlStep
  <2>3. ASSUME NEW t \in Tasks, Thread(t) PROVE [Lifecycle!Next]_(Lifecycle!vars)
    BY <2>3, ThreadLife
  <2>4. CASE UNCHANGED vars
    BY <2>4 DEF vars, Lifecycle!vars, HasThread
  <2>5. QED BY <2>1, <2>2, <2>3, <2>4 DEF Next, Crashed
<1>3. QED BY <1>1, <1>2, TaskThreadInvariant, PTL DEF Spec, FollowsLifecycle, Lifecycle!Spec

=============================================================================
