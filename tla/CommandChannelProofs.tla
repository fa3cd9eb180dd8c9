------------------------ MODULE CommandChannelProofs ------------------------
(***************************************************************************)
(* Proofs about CommandChannel for any set of commands and parameters, any *)
(* number of sends and any PLL limit: the mutex excludes, what is executed *)
(* is what was sent, the newest command is not lost, and the channel       *)
(* implements Mailbox.                                                     *)
(***************************************************************************)
EXTENDS CommandChannel, TLAPS

Entry == [n : Nat, cmd : Command]

Slot == [id |-> command_id, data |-> command_data]

\* head counts the commands sent, and tail never passes it.
CountsInv == head = Len(sent) /\ tail <= head

\* Unless the user side is writing it, the slot holds the newest command; what
\* the user side has written so far is its own command.
SlotInv ==
    /\ (head > 0 /\ user.at \notin {"data", "head"}) => Slot = sent[head]
    /\ user.at \in {"data", "head"} => command_id = user.cmd.id
    /\ user.at = "head" => command_data = user.cmd.data

\* The number of the last command executed is tail, and head between the
\* execution and the store of tail.
LastInv ==
    /\ rt = "consume" => /\ tail < head /\ executed # <<>>
                         /\ executed[Len(executed)].n = head
    /\ (rt # "consume" /\ executed = <<>>) => tail = 0
    /\ (rt # "consume" /\ executed # <<>>) => executed[Len(executed)].n = tail

ChannelInv == TypeOK /\ ChannelExclusive /\ CountsInv /\ SlotInv /\ LastInv /\ ExecutedAsSent

-----------------------------------------------------------------------------
(* Facts about operators. *)

LEMMA NoCommandType == NoCommand \in Command
BY DataAssumption DEF NoCommand, Command, CommandIds

LEMMA LimitedType ==
    ASSUME NEW value \in Data
    PROVE  Limited(value) \in -PllLimit .. PllLimit
BY DataAssumption, PllLimitAssumption DEF Limited

\* What Append does, for the two histories.
LEMMA AppendFacts ==
    ASSUME NEW S, NEW s \in Seq(S), NEW e \in S
    PROVE  /\ Append(s, e) \in Seq(S)
           /\ Len(s) \in Nat
           /\ Len(Append(s, e)) = Len(s) + 1
           /\ Append(s, e) # <<>>
           /\ \A i \in 1 .. Len(s) : Append(s, e)[i] = s[i]
           /\ Append(s, e)[Len(s) + 1] = e
OBVIOUS

LEMMA EmptyIffNoLength ==
    ASSUME NEW S, NEW s \in Seq(S)
    PROVE  /\ Len(s) \in Nat
           /\ s = <<>> <=> Len(s) = 0
           /\ \A i \in 1 .. Len(s) : s[i] \in S
OBVIOUS

\* A command put in front of a sequence of commands that were executed in order
\* keeps the order when its number is higher than the last.
LEMMA ExecutedGrows ==
    ASSUME executed \in Seq(Entry), sent \in Seq(Command), ExecutedAsSent,
           NEW e \in Entry, e.n \in 1 .. Len(sent), e.cmd = sent[e.n],
           executed # <<>> => executed[Len(executed)].n < e.n,
           executed' = Append(executed, e), sent' = sent
    PROVE  ExecutedAsSent'
<1>1. /\ Len(executed) \in Nat /\ Len(executed') = Len(executed) + 1
      /\ \A i \in 1 .. Len(executed) : executed'[i] = executed[i] /\ executed[i] \in Entry
      /\ executed'[Len(executed) + 1] = e
  BY AppendFacts, EmptyIffNoLength
<1>2. \A i \in 1 .. Len(executed) : executed[i].n < e.n
  <2> SUFFICES ASSUME NEW i \in 1 .. Len(executed) PROVE executed[i].n < e.n
      OBVIOUS
  <2>1. executed # <<>> /\ Len(executed) \in 1 .. Len(executed)
    BY <1>1, EmptyIffNoLength
  <2>2. executed[i].n \in Nat /\ executed[Len(executed)].n \in Nat /\ e.n \in Nat
    BY <1>1, <2>1 DEF Entry
  <2>3. i < Len(executed) => executed[i].n < executed[Len(executed)].n
    BY <1>1, <2>1 DEF ExecutedAsSent
  <2>4. QED BY <1>1, <2>1, <2>2, <2>3
<1>3. QED BY <1>1, <1>2 DEF ExecutedAsSent

\* A command more that was sent leaves the earlier ones where they are.
LEMMA SentGrows ==
    ASSUME sent \in Seq(Command), executed \in Seq(Entry), ExecutedAsSent,
           NEW c \in Command, sent' = Append(sent, c), executed' = executed
    PROVE  ExecutedAsSent'
<1>1. /\ Len(sent) \in Nat /\ Len(sent') = Len(sent) + 1
      /\ \A i \in 1 .. Len(sent) : sent'[i] = sent[i]
  BY AppendFacts
<1>2. QED BY <1>1 DEF ExecutedAsSent

-----------------------------------------------------------------------------
(* The invariant. *)

LEMMA InitChannelInv == Init => ChannelInv
<1> SUFFICES ASSUME Init PROVE ChannelInv
    OBVIOUS
<1>1. TypeOK
  <2>1. 0 \in -PllLimit .. PllLimit BY PllLimitAssumption
  <2>2. user \in [at : UserSteps, cmd : Command] BY NoCommandType DEF Init, UserSteps
  <2>3. sent \in Seq(Command) /\ executed \in Seq([n : Nat, cmd : Command]) BY DEF Init
  <2>4. command_id \in CommandIds /\ rt \in RtSteps BY DEF Init, CommandIds, RtSteps
  <2>5. QED BY <2>1, <2>2, <2>3, <2>4, DataAssumption DEF Init, TypeOK
<1>2. ChannelExclusive /\ CountsInv /\ SlotInv /\ LastInv /\ ExecutedAsSent
  BY DEF Init, ChannelExclusive, UserHolds, RtHolds, CountsInv, SlotInv, LastInv, ExecutedAsSent
<1>3. QED BY <1>1, <1>2 DEF ChannelInv

\* Steps of the user side.
LEMMA UserChannelInv ==
    ASSUME ChannelInv, start \/ stop \/ Send \/ Sending \/ control_resume
    PROVE  ChannelInv'
<1> USE DEF ChannelInv, UserGoto
<1>0. /\ head \in Nat /\ tail \in Nat /\ sent \in Seq(Command) /\ executed \in Seq(Entry)
      /\ user.cmd \in Command /\ Len(sent) \in Nat
  BY EmptyIffNoLength DEF TypeOK, Entry
<1>1. CASE start \/ stop \/ control_resume
  <2> USE <1>1, <1>0 DEF start, stop, control_resume, channel, pins, task
  <2>1. TypeOK'
    <3>1. threads_running' \in BOOLEAN BY DEF TypeOK
    <3>2. resume_sem' \in Nat BY DEF TypeOK
    <3>3. QED BY <3>1, <3>2 DEF TypeOK
  <2>2. ChannelExclusive' BY DEF ChannelExclusive, UserHolds, RtHolds
  <2>3. CountsInv' /\ SlotInv' /\ LastInv' /\ ExecutedAsSent'
    BY DEF CountsInv, SlotInv, LastInv, ExecutedAsSent, Slot
  <2>4. QED BY <2>1, <2>2, <2>3
<1>2. CASE Send
  <2>1. PICK cmd \in [id : SentIds, data : Data] : send_command(cmd) BY <1>2 DEF Send
  <2>2. cmd \in Command BY SentIdsAssumption DEF Command
  <2> USE <2>1, <2>2, <1>0 DEF send_command, channel, pins, task
  <2>3. TypeOK' BY DEF TypeOK, UserSteps
  <2>4. ChannelExclusive' BY DEF ChannelExclusive, UserHolds, RtHolds
  <2>5. CountsInv' /\ SlotInv' /\ LastInv' /\ ExecutedAsSent'
    BY DEF CountsInv, SlotInv, LastInv, ExecutedAsSent, Slot
  <2>6. QED BY <2>3, <2>4, <2>5
<1>3. CASE send_command_get
  <2> USE <1>3, <1>0 DEF send_command_get, pins, task
  <2>1. TypeOK' BY DEF TypeOK, UserSteps
  <2>2. ChannelExclusive' BY DEF TypeOK, ChannelExclusive, UserHolds, RtHolds
  <2>3. CountsInv' /\ SlotInv' /\ LastInv' /\ ExecutedAsSent'
    BY DEF TypeOK, CountsInv, SlotInv, LastInv, ExecutedAsSent, Slot
  <2>4. QED BY <2>1, <2>2, <2>3
<1>4. CASE send_command_id
  <2> USE <1>4, <1>0 DEF send_command_id, pins, task
  <2>1. TypeOK' BY DEF TypeOK, UserSteps, Command
  <2>2. ChannelExclusive' BY DEF TypeOK, ChannelExclusive, UserHolds, RtHolds
  <2>3. CountsInv' /\ SlotInv' /\ LastInv' /\ ExecutedAsSent'
    BY DEF TypeOK, CountsInv, SlotInv, LastInv, ExecutedAsSent, Slot
  <2>4. QED BY <2>1, <2>2, <2>3
<1>5. CASE send_command_data
  <2> USE <1>5, <1>0 DEF send_command_data, pins, task
  <2>1. TypeOK' BY DEF TypeOK, UserSteps, Command
  <2>2. ChannelExclusive' BY DEF TypeOK, ChannelExclusive, UserHolds, RtHolds
  <2>3. CountsInv' /\ SlotInv' /\ LastInv' /\ ExecutedAsSent'
    BY DEF TypeOK, CountsInv, SlotInv, LastInv, ExecutedAsSent, Slot
  <2>4. QED BY <2>1, <2>2, <2>3
<1>6. CASE send_command_head
  <2> USE <1>6, <1>0 DEF send_command_head, pins, task
  <2>1. /\ sent' \in Seq(Command) /\ Len(sent') = Len(sent) + 1
        /\ sent'[Len(sent) + 1] = user.cmd
    BY AppendFacts
  <2>2. TypeOK' BY <2>1 DEF TypeOK, UserSteps
  <2>3. ChannelExclusive' /\ rt # "consume"
    BY DEF TypeOK, ChannelExclusive, UserHolds, RtHolds
  <2>4. CountsInv' BY <2>1 DEF CountsInv
  <2>5. SlotInv' BY <2>1 DEF TypeOK, CountsInv, SlotInv, Slot, Command
  <2>6. LastInv' BY <2>3 DEF LastInv
  <2>7. ExecutedAsSent' BY SentGrows
  <2>8. QED BY <2>2, <2>3, <2>4, <2>5, <2>6, <2>7
<1>7. CASE send_command_give
  <2> USE <1>7, <1>0 DEF send_command_give, pins, task
  <2>1. TypeOK' BY NoCommandType DEF TypeOK, UserSteps
  <2>2. ChannelExclusive' BY DEF TypeOK, ChannelExclusive, UserHolds, RtHolds
  <2>3. CountsInv' /\ SlotInv' /\ LastInv' /\ ExecutedAsSent'
    BY DEF TypeOK, CountsInv, SlotInv, LastInv, ExecutedAsSent, Slot
  <2>4. QED BY <2>1, <2>2, <2>3
<1>8. QED BY <1>1, <1>2, <1>3, <1>4, <1>5, <1>6, <1>7 DEF Sending

\* Steps of the real-time thread.
LEMMA RtChannelInv ==
    ASSUME ChannelInv, RealTime
    PROVE  ChannelInv'
<1> USE DEF ChannelInv, RtGoto
<1>0. /\ head \in Nat /\ tail \in Nat /\ sent \in Seq(Command) /\ executed \in Seq(Entry)
      /\ Len(sent) \in Nat /\ rt \in RtSteps
  BY EmptyIffNoLength DEF TypeOK, Entry
<1>1. CASE handler_try \/ handler_none_pending \/ handler_give
  <2> USE <1>1, <1>0 DEF handler_try, handler_none_pending, handler_give, channel, pins, task
  <2>1. TypeOK' BY DEF TypeOK, RtSteps
  <2>2. ChannelExclusive' BY DEF TypeOK, ChannelExclusive, UserHolds, RtHolds
  <2>3. CountsInv' /\ SlotInv' /\ LastInv' /\ ExecutedAsSent'
    BY DEF CountsInv, SlotInv, LastInv, ExecutedAsSent, Slot
  <2>4. QED BY <2>1, <2>2, <2>3
<1>2. CASE handler_execute
  <2> DEFINE e == [n |-> head, cmd |-> Slot]
  <2> USE <1>2, <1>0 DEF handler_execute, channel
  <2>1. e \in Entry /\ Slot \in Command BY DEF TypeOK, Entry, Command, Slot
  <2>2. executed' = Append(executed, e) BY DEF Slot
  <2>3. /\ executed' \in Seq(Entry) /\ Len(executed') = Len(executed) + 1
        /\ executed' # <<>> /\ executed'[Len(executed')] = e
    BY <2>1, <2>2, AppendFacts
  <2>4. user.at \notin {"data", "head"} /\ tail < head /\ head \in 1 .. Len(sent)
    BY DEF ChannelExclusive, UserHolds, RtHolds, CountsInv
  <2>5. TypeOK'
    <3>1. pll_correction' \in -PllLimit .. PllLimit
      BY LimitedType DEF TypeOK, Effect
    <3>2. enable_in' \in BOOLEAN /\ target_pos' \in Data BY DEF TypeOK, Effect
    <3>3. /\ task_state' \in {"RUNNING", "PAUSED"} /\ pause_sem' \in Nat /\ resume_sem' \in Nat
      BY DEF TypeOK, Effect
    <3>4. QED BY <2>3, <3>1, <3>2, <3>3 DEF TypeOK, RtSteps, Entry
  <2>6. ChannelExclusive' BY DEF ChannelExclusive, UserHolds, RtHolds
  <2>7. CountsInv' /\ SlotInv' BY DEF CountsInv, SlotInv, Slot
  <2>8. LastInv' BY <2>3, <2>4 DEF LastInv
  <2>9. ExecutedAsSent'
    <3>1. e.n \in 1 .. Len(sent) /\ e.cmd = sent[e.n]
      BY <2>4 DEF SlotInv
    <3>2. executed # <<>> => executed[Len(executed)].n < e.n
      BY <2>4 DEF LastInv
    <3>3. QED BY <2>1, <2>2, <3>1, <3>2, ExecutedGrows
  <2>10. QED BY <2>5, <2>6, <2>7, <2>8, <2>9
<1>3. CASE handler_consume
  <2> USE <1>3, <1>0 DEF handler_consume, pins, task
  <2>1. TypeOK' BY DEF TypeOK, RtSteps
  <2>2. ChannelExclusive' BY DEF ChannelExclusive, UserHolds, RtHolds
  <2>3. CountsInv' /\ SlotInv' /\ LastInv' /\ ExecutedAsSent'
    BY DEF CountsInv, SlotInv, LastInv, ExecutedAsSent, Slot
  <2>4. QED BY <2>1, <2>2, <2>3
<1>4. CASE wait_period \/ wait_pause \/ wait_resume
  <2> USE <1>4, <1>0 DEF wait_period, wait_pause, wait_resume, channel, pins, task
  <2>1. TypeOK' BY DEF TypeOK, RtSteps
  <2>2. ChannelExclusive' BY DEF ChannelExclusive, UserHolds, RtHolds
  <2>3. CountsInv' /\ SlotInv' /\ LastInv' /\ ExecutedAsSent'
    BY DEF CountsInv, SlotInv, LastInv, ExecutedAsSent, Slot
  <2>4. QED BY <2>1, <2>2, <2>3
<1>5. QED BY <1>1, <1>2, <1>3, <1>4 DEF RealTime

LEMMA NextChannelInv == ChannelInv /\ [Next]_vars => ChannelInv'
<1> SUFFICES ASSUME ChannelInv, [Next]_vars PROVE ChannelInv'
    OBVIOUS
<1>1. CASE UNCHANGED vars
  BY <1>1 DEF vars, channel, pins, task, ChannelInv, TypeOK, ChannelExclusive, UserHolds, RtHolds,
              CountsInv, SlotInv, LastInv, ExecutedAsSent, Slot
<1>2. QED BY <1>1, UserChannelInv, RtChannelInv DEF Next

LEMMA ChannelInvariant == Spec => []ChannelInv
BY InitChannelInv, NextChannelInv, PTL DEF Spec

\* One side at a time is inside the channel, and the mutex bit says so, at
\* every step of rtapi_mutex_get, rtapi_mutex_try and rtapi_mutex_give.
THEOREM ChannelExcludes == Spec => []ChannelExclusive
<1>1. ChannelInv => ChannelExclusive BY DEF ChannelInv
<1>2. QED BY <1>1, ChannelInvariant, PTL

\* taskCommandHandler executes commands as send_command sent them, in order
\* and at most once, whatever the interleaving of their loads and stores.
THEOREM CommandsExecutedAsSent == Spec => []ExecutedAsSent
<1>1. ChannelInv => ExecutedAsSent BY DEF ChannelInv
<1>2. QED BY <1>1, ChannelInvariant, PTL

\* When head and tail agree the newest command has been executed: setting tail
\* to head loses older commands and never the last.
THEOREM NewestNotLost == Spec => []NewestIsExecuted
<1>1. ChannelInv => NewestIsExecuted
  BY DEF ChannelInv, TypeOK, LastInv, NewestIsExecuted
<1>2. QED BY <1>1, ChannelInvariant, PTL

-----------------------------------------------------------------------------
(* Refinement of Mailbox. *)

taken == [i \in 1 .. Len(executed) |-> executed[i].cmd]

LEMMA InitBox == Init => Box!Init
<1> SUFFICES ASSUME Init PROVE Box!Init
    OBVIOUS
<1>1. executed = <<>> /\ Len(executed) = 0 /\ head = tail /\ head = 0 BY DEF Init
<1>2. taken = <<>> BY <1>1 DEF taken
<1>3. QED BY <1>1, <1>2 DEF Box!Init, box, taken

\* Whatever leaves the counters, the histories and "consume" alone does not
\* show in the mailbox.
LEMMA BoxStutters ==
    ASSUME UNCHANGED <<head, tail, sent, executed>>, rt = "consume" <=> rt' = "consume"
    PROVE  UNCHANGED Box!vars
BY DEF Box!vars, box

\* send_command puts a command into the box with the store of head.
LEMMA HeadPuts ==
    ASSUME ChannelInv, send_command_head
    PROVE  Box!Put
<1>1. /\ head \in Nat /\ tail \in Nat /\ head = Len(sent) /\ tail <= head
      /\ sent \in Seq(Command) /\ user.cmd \in Command
  BY DEF ChannelInv, TypeOK, CountsInv
<1>2. sent'[head + 1] = user.cmd
  BY <1>1, AppendFacts DEF send_command_head
<1>3. rt' # "consume"
  BY DEF ChannelInv, ChannelExclusive, UserHolds, RtHolds, send_command_head, UserGoto
<1>4. box' = user.cmd
  BY <1>1, <1>2, <1>3 DEF box, send_command_head
<1>5. QED BY <1>1, <1>4 DEF Box!Put, send_command_head

\* taskCommandHandler takes it out with the execution.
LEMMA ExecuteTakes ==
    ASSUME ChannelInv, handler_execute
    PROVE  Box!Take
<1> DEFINE e == [n |-> head, cmd |-> Slot]
<1>1. /\ head \in Nat /\ tail \in Nat /\ head = Len(sent) /\ tail <= head /\ head # tail
      /\ sent \in Seq(Command) /\ executed \in Seq(Entry) /\ e \in Entry
  BY DEF ChannelInv, TypeOK, CountsInv, handler_execute, Entry, Command, Slot
<1>2. sent[head] = Slot /\ sent[head] \in Command
  BY <1>1 DEF ChannelInv, ChannelExclusive, UserHolds, RtHolds, SlotInv, handler_execute, RtGoto
<1>3. box = sent[head] /\ box' = Nothing
  BY <1>1 DEF box, handler_execute, RtGoto
<1>4. box # Nothing
  BY <1>2, <1>3 DEF Command, CommandIds, Nothing
<1>5. taken' = Append(taken, box)
  <2>1. executed' = Append(executed, e) BY DEF handler_execute, Slot
  <2>2. /\ Len(executed) \in Nat /\ Len(executed') = Len(executed) + 1
        /\ \A i \in 1 .. Len(executed) : executed'[i] = executed[i] /\ executed[i] \in Entry
        /\ executed'[Len(executed) + 1] = e
    BY <1>1, <2>1, AppendFacts, EmptyIffNoLength
  <2>3. taken \in Seq(Command) /\ Len(taken) = Len(executed)
    <3>1. taken \in [1 .. Len(executed) -> Command] BY <2>2 DEF taken, Entry
    <3>2. QED BY <2>2, <3>1
  <2>4. taken' \in Seq(Command) /\ Len(taken') = Len(executed) + 1
    <3>1. executed'[Len(executed) + 1].cmd = Slot BY <2>2
    <3>2. \A i \in 1 .. Len(executed) + 1 : executed'[i].cmd \in Command
      BY <1>2, <2>2, <3>1 DEF Entry
    <3>3. taken' \in [1 .. Len(executed) + 1 -> Command] BY <2>2, <3>2 DEF taken
    <3>4. QED BY <2>2, <3>3
  <2>5. \A i \in 1 .. Len(executed) + 1 : taken'[i] = Append(taken, box)[i]
    BY <1>2, <1>3, <2>2, <2>3 DEF taken
  <2>6. Append(taken, box) \in Seq(Command) /\ Len(Append(taken, box)) = Len(executed) + 1
    BY <1>2, <1>3, <2>3, AppendFacts
  <2>7. QED BY <2>2, <2>4, <2>5, <2>6
<1>6. QED BY <1>3, <1>4, <1>5 DEF Box!Take, handler_execute, channel, taken

LEMMA NextBox == ChannelInv /\ [Next]_vars => [Box!Next]_(Box!vars)
<1> SUFFICES ASSUME ChannelInv, [Next]_vars PROVE [Box!Next]_(Box!vars)
    OBVIOUS
<1>1. CASE send_command_head BY <1>1, HeadPuts DEF Box!Next
<1>2. CASE handler_execute BY <1>2, ExecuteTakes DEF Box!Next
<1>3. CASE handler_consume
  <2>1. rt = "consume" /\ rt' # "consume" /\ head' = tail' /\ UNCHANGED <<head, executed>>
    BY <1>3 DEF handler_consume, RtGoto
  <2>2. box = Nothing /\ box' = Nothing BY <2>1 DEF box
  <2>3. QED BY <2>1, <2>2 DEF Box!vars
<1>4. CASE start \/ stop \/ Send \/ control_resume \/ UNCHANGED vars
  <2>1. UNCHANGED <<head, tail, sent, executed, rt>>
    BY <1>4 DEF start, stop, Send, send_command, control_resume, vars, channel
  <2>2. QED BY <2>1, BoxStutters
<1>5. CASE send_command_get \/ send_command_id \/ send_command_data \/ send_command_give
  <2>1. UNCHANGED <<head, tail, sent, executed, rt>>
    BY <1>5 DEF send_command_get, send_command_id, send_command_data, send_command_give
  <2>2. QED BY <2>1, BoxStutters
<1>6. CASE handler_try \/ handler_none_pending \/ handler_give
           \/ wait_period \/ wait_pause \/ wait_resume
  <2>1. UNCHANGED <<head, tail, sent, executed>> /\ rt # "consume" /\ rt' # "consume"
    BY <1>6 DEF handler_try, handler_none_pending, handler_give, wait_period, wait_pause,
                wait_resume, channel, RtGoto
  <2>2. QED BY <2>1, BoxStutters
<1>7. QED BY <1>1, <1>2, <1>3, <1>4, <1>5, <1>6 DEF Next, Sending, RealTime

\* The command channel implements a mailbox for one command: the store of head
\* is the Put, the handler's execution the Take, and no other step shows.
THEOREM ChannelIsMailbox == Spec => IsMailbox
<1>1. Init => Box!Init BY InitBox
<1>2. ChannelInv /\ [Next]_vars => [Box!Next]_(Box!vars) BY NextBox
<1>3. QED BY <1>1, <1>2, ChannelInvariant, PTL DEF Spec, IsMailbox, Box!Spec

=============================================================================
