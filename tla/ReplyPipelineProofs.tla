------------------------- MODULE ReplyPipelineProofs -------------------------
(***************************************************************************)
(* TurnInvariant is inductive, for any number of deliveries, payloads,     *)
(* retries, crashes and deletions; the safety properties of ReplyPipeline  *)
(* follow from it, and so does the refinement of ReplyContract.            *)
(***************************************************************************)
EXTENDS ReplyPipeline, SequenceTheorems, TLAPS

\* The trim (_dead_letter: ltrim) brings any list back within the cap.
LEMMA TrimBounded ==
  ASSUME NEW list \in Seq(Tasks)
  PROVE  Trimmed(list) \in Seq(Tasks) /\ Len(Trimmed(list)) <= DeadLetterMax
<1>1. CASE Len(list) > DeadLetterMax
  <2>1. 1 \in 1..(Len(list)+1) /\ DeadLetterMax \in 0..Len(list)
    BY <1>1, PipelineAssumption
  <2>2. SubSeq(list, 1, DeadLetterMax) \in Seq(Tasks)
        /\ Len(SubSeq(list, 1, DeadLetterMax)) = DeadLetterMax
    BY <2>1, PipelineAssumption, SubSeqProperties
  <2> QED
    BY <1>1, <2>2, PipelineAssumption DEF Trimmed
<1>2. CASE ~(Len(list) > DeadLetterMax)
  BY <1>2, PipelineAssumption DEF Trimmed
<1> QED
  BY <1>1, <1>2

\* The push (_dead_letter: lpush) adds one entry.
LEMMA PushCounted ==
  ASSUME NEW list \in Seq(Tasks), NEW t \in Tasks
  PROVE  <<t>> \o list \in Seq(Tasks) /\ Len(<<t>> \o list) = Len(list) + 1
OBVIOUS

\* The part of TypeOK about the locals of the tasks.
TaskTypes ==
  /\ stage \in [Tasks -> Stages]
  /\ pos \in [Tasks -> Nat \ {0}]
  /\ ctx \in [Tasks -> Incarnations]
  /\ kind \in [Tasks -> Kinds]
  /\ tries \in [Tasks -> Nat]
  /\ \A t \in Tasks : stage[t] \in Owning => pos[t] <= Len(Payload[t])

\* The part about everything tasks share.
SharedTypes ==
  /\ retries \in [Tasks -> 0..MAX_RETRIES]
  /\ epoch \in Incarnations
  /\ row \in [Messages -> [Incarnations -> RowStates]]
  /\ cache \subseteq Messages
  /\ deadLetters \in Seq(Tasks)
  /\ untrimmed \in Nat
  /\ Len(deadLetters) <= DeadLetterMax + untrimmed
  /\ crashes \in 0..MaxCrashes
  /\ calls \in Counter
  /\ copies \in Counter
  /\ billed \in Counter
  /\ waived \subseteq Messages

\* The conjuncts of TypeOK, grouped by what a task step can change.
LEMMA TypeParts == TaskTypes' /\ SharedTypes' => TypeOK'
BY DEF TypeOK, TaskTypes, SharedTypes

\* A task works on a message of its payload.
LEMMA CurrentTyped ==
  ASSUME TypeOK, NEW t \in Tasks, AtMessage(t) \/ stage[t] \in Owning
  PROVE  Current(t) \in Messages
<1>1. Payload[t] \in Seq(Messages) /\ pos[t] \in 1..Len(Payload[t])
  BY PipelineAssumption DEF TypeOK, AtMessage
<1> QED
  BY <1>1 DEF Current

\* Counting one more call, copy or completion keeps a counter a counter.
LEMMA CounterTyped ==
  ASSUME NEW c \in Counter, NEW m \in Messages, NEW e \in Incarnations, NEW d \in Nat
  PROVE  [c EXCEPT ![m][e] = @ + d] \in Counter
BY DEF Counter

\* A task that moves to a stage has a stage.
LEMMA GoTyped ==
  ASSUME TypeOK, NEW t \in Tasks, NEW s \in Stages, Go(t, s)
  PROVE  stage' \in [Tasks -> Stages]
BY DEF TypeOK, Go

\* A handler's locals are typed once it has dropped them.
LEMMA ForgetTyped ==
  ASSUME TypeOK, NEW t \in Tasks, Forget(t)
  PROVE  /\ ctx' \in [Tasks -> Incarnations]
         /\ kind' \in [Tasks -> Kinds]
         /\ tries' \in [Tasks -> Nat]
BY PipelineAssumption DEF TypeOK, Forget, Kinds, Incarnations

\* The handler of a message returns to the payload loop: types are kept.
LEMMA ReturnTyped ==
  ASSUME TypeOK, NEW t \in Tasks, Return(t)
  PROVE  TaskTypes'
<1>1. "next" \in Stages /\ "next" \notin Owning
  BY DEF Stages, Running, Owning
<1>2. pos' \in [Tasks -> Nat \ {0}]
  BY DEF TypeOK, Return
<1>3. \A u \in Tasks : stage'[u] \in Owning => pos'[u] <= Len(Payload[u])
  BY <1>1 DEF TypeOK, Return, Go
<1> QED
  BY <1>1, <1>2, <1>3, GoTyped, ForgetTyped DEF Return, TaskTypes

\* An attempt of the task ends: types are kept.
LEMMA EndAttemptTyped ==
  ASSUME TypeOK, NEW t \in Tasks, NEW s \in Stages \ Owning, EndAttempt(t, s)
  PROVE  TaskTypes'
<1>1. pos' \in [Tasks -> Nat \ {0}]
  BY DEF TypeOK, EndAttempt
<1>2. \A u \in Tasks : stage'[u] \in Owning => pos'[u] <= Len(Payload[u])
  BY DEF TypeOK, EndAttempt, Go
<1> QED
  BY <1>1, <1>2, GoTyped, ForgetTyped DEF EndAttempt, TaskTypes

\* The provider client gives up, or falls back to plain text: types are
\* kept and no shared state is touched.
LEMMA SendFailsTyped ==
  ASSUME TypeOK, NEW t \in Tasks, stage[t] = "send", SendFails(t),
         UNCHANGED <<pos, ctx>>
  PROVE  TaskTypes'
<1>1. {"send", "failed"} \subseteq Stages \cap Owning /\ "text" \in Kinds
  BY DEF Stages, Running, Owning, Kinds
<1>2. CASE kind[t] = "buttons"
  <2>1. kind' \in [Tasks -> Kinds] /\ tries' \in [Tasks -> Nat]
    <3>1. kind' = [kind EXCEPT ![t] = "text"] /\ tries' = [tries EXCEPT ![t] = 0]
      BY <1>2 DEF SendFails
    <3> QED
      BY <1>1, <3>1 DEF TypeOK
  <2>2. UNCHANGED <<stage, pos, ctx>>
    BY <1>2 DEF SendFails
  <2> QED
    BY <2>1, <2>2 DEF TypeOK, TaskTypes
<1>3. CASE kind[t] # "buttons"
  BY <1>1, <1>3 DEF TypeOK, TaskTypes, SendFails, Go
<1> QED
  BY <1>2, <1>3

\* A queue of fresh deliveries over an empty database is well typed.
LEMMA TypeInit == Init => TypeOK
BY PipelineAssumption DEF Init, TypeOK, Stages, Kinds, Incarnations, RowStates,
   Counter, Zero, Owning

\* Every step of every task keeps the types.
LEMMA TypeStep == TypeOK /\ [Next]_vars => TypeOK'
<1> SUFFICES ASSUME TypeOK, [Next]_vars PROVE TypeOK'
  OBVIOUS
<1> USE TypeParts
<1>0. {"queued", "next", "parking", "raised", "acked", "dead"} \subseteq Stages \ Owning
  BY DEF Stages, Running, Settled, Owning
<1>1. ASSUME NEW t \in Tasks, StartTask(t) PROVE TypeOK'
  <2>1. TaskTypes'
    BY <1>1 DEF TypeOK, TaskTypes, StartTask, Go, Stages, Running, Owning,
       Kinds
  <2>2. SharedTypes'
    BY <1>1 DEF TypeOK, SharedTypes, StartTask, historyVars
  <2> QED
    BY <2>1, <2>2
<1>2. ASSUME NEW t \in Tasks, FinishTask(t) PROVE TypeOK'
  <2>1. TaskTypes'
    BY <1>2, <1>0, EndAttemptTyped DEF FinishTask
  <2>2. SharedTypes'
    BY <1>2 DEF TypeOK, SharedTypes, FinishTask, historyVars
  <2> QED
    BY <2>1, <2>2
<1>3. ASSUME NEW t \in Tasks, SkipDuplicate(t) PROVE TypeOK'
  <2>1. TaskTypes'
    BY <1>3, ReturnTyped DEF SkipDuplicate
  <2>2. SharedTypes'
    BY <1>3 DEF TypeOK, SharedTypes, SkipDuplicate, historyVars
  <2> QED
    BY <2>1, <2>2
<1>4. ASSUME NEW t \in Tasks, RecordStale(t) PROVE TypeOK'
  <2>1. TaskTypes'
    BY <1>4, ReturnTyped DEF RecordStale
  <2>2. Current(t) \in Messages
    BY <1>4, CurrentTyped DEF RecordStale, Owning
  <2>3. SharedTypes'
    BY <1>4, <2>2 DEF TypeOK, SharedTypes, RecordStale, historyVars,
       RowStates, Promised
  <2> QED
    BY <2>1, <2>3
<1>5. ASSUME NEW t \in Tasks, ClaimInbound(t) PROVE TypeOK'
  <2>1. TaskTypes'
    BY <1>5 DEF TypeOK, TaskTypes, ClaimInbound, Go, Stages, Running,
       Owning, Kinds, AtMessage
  <2>2. Current(t) \in Messages
    BY <1>5, CurrentTyped DEF ClaimInbound, Owning
  <2>3. SharedTypes'
    BY <1>5, <2>2 DEF TypeOK, SharedTypes, ClaimInbound, historyVars,
       RowStates, Promised
  <2> QED
    BY <2>1, <2>3
<1>6. ASSUME NEW t \in Tasks, LeaveToOperator(t) PROVE TypeOK'
  <2>1. TaskTypes'
    BY <1>6, ReturnTyped DEF LeaveToOperator, Waive
  <2>2. Current(t) \in Messages
    BY <1>6, CurrentTyped DEF LeaveToOperator, Waive, Owning
  <2>3. SharedTypes'
    BY <1>6, <2>2 DEF TypeOK, SharedTypes, LeaveToOperator, historyVars,
       Waive
  <2> QED
    BY <2>1, <2>3
<1>7. ASSUME NEW t \in Tasks, DeclineQuietly(t) PROVE TypeOK'
  <2>1. TaskTypes'
    BY <1>7, ReturnTyped DEF DeclineQuietly, Waive
  <2>2. Current(t) \in Messages
    BY <1>7, CurrentTyped DEF DeclineQuietly, Waive, Owning
  <2>3. SharedTypes'
    BY <1>7, <2>2 DEF TypeOK, SharedTypes, DeclineQuietly, historyVars,
       Waive
  <2> QED
    BY <2>1, <2>3
<1>8. ASSUME NEW t \in Tasks, BeginHandoff(t) PROVE TypeOK'
  <2>1. TaskTypes'
    BY <1>8 DEF TypeOK, TaskTypes, BeginHandoff, Go, Stages, Running,
       Owning, Kinds
  <2>2. SharedTypes'
    BY <1>8 DEF TypeOK, SharedTypes, BeginHandoff, historyVars
  <2> QED
    BY <2>1, <2>2
<1>9. ASSUME NEW t \in Tasks, ReplyFixed(t) PROVE TypeOK'
  <2>1. TaskTypes'
    BY <1>9 DEF TypeOK, TaskTypes, ReplyFixed, Go, Stages, Running, Owning,
       Kinds
  <2>2. SharedTypes'
    BY <1>9 DEF TypeOK, SharedTypes, ReplyFixed, historyVars
  <2> QED
    BY <2>1, <2>2
<1>10. ASSUME NEW t \in Tasks, ReplayGeneration(t) PROVE TypeOK'
  <2>1. TaskTypes'
    BY <1>10 DEF TypeOK, TaskTypes, ReplayGeneration, Go, Stages, Running,
       Owning, Kinds
  <2>2. SharedTypes'
    BY <1>10 DEF TypeOK, SharedTypes, ReplayGeneration, historyVars
  <2> QED
    BY <2>1, <2>2
<1>11. ASSUME NEW t \in Tasks, StartGeneration(t) PROVE TypeOK'
  <2>1. TaskTypes'
    BY <1>11 DEF TypeOK, TaskTypes, StartGeneration, Go, Stages, Running,
       Owning, Kinds
  <2>2. SharedTypes'
    BY <1>11 DEF TypeOK, SharedTypes, StartGeneration, historyVars
  <2> QED
    BY <2>1, <2>2
<1>12. ASSUME NEW t \in Tasks, Generate(t) PROVE TypeOK'
  <2>1. TaskTypes'
    BY <1>12 DEF TypeOK, TaskTypes, Generate, Go, Stages, Running, Owning,
       Kinds
  <2>2. Current(t) \in Messages
    BY <1>12, CurrentTyped DEF Generate, Owning
  <2>3. SharedTypes'
    BY <1>12, <2>2, CounterTyped DEF TypeOK, SharedTypes, Generate,
       historyVars
  <2> QED
    BY <2>1, <2>3
<1>13. ASSUME NEW t \in Tasks, GenerationFails(t) PROVE TypeOK'
  <2>1. TaskTypes'
    BY <1>13 DEF TypeOK, TaskTypes, GenerationFails, Go, Stages, Running,
       Owning, Kinds
  <2>2. SharedTypes'
    BY <1>13 DEF TypeOK, SharedTypes, GenerationFails, historyVars
  <2> QED
    BY <2>1, <2>2
<1>14. ASSUME NEW t \in Tasks, ReserveReply(t) PROVE TypeOK'
  <2>1. TaskTypes'
    BY <1>14 DEF TypeOK, TaskTypes, ReserveReply, Go, Stages, Running,
       Owning, Kinds
  <2>2. Current(t) \in Messages
    BY <1>14, CurrentTyped DEF ReserveReply, Owning
  <2>3. SharedTypes'
    BY <1>14, <2>2 DEF TypeOK, SharedTypes, ReserveReply, historyVars,
       RowStates, Promised
  <2> QED
    BY <2>1, <2>3
<1>15. ASSUME NEW t \in Tasks, ReservationLost(t) PROVE TypeOK'
  <2>1. TaskTypes'
    BY <1>15, ReturnTyped DEF ReservationLost
  <2>2. SharedTypes'
    BY <1>15 DEF TypeOK, SharedTypes, ReservationLost, historyVars
  <2> QED
    BY <2>1, <2>2
<1>16. ASSUME NEW t \in Tasks, SendReply(t) PROVE TypeOK'
  <2>1. TaskTypes'
    BY <1>16 DEF TypeOK, TaskTypes, SendReply, Go, Stages, Running, Owning,
       Kinds
  <2>2. Current(t) \in Messages
    BY <1>16, CurrentTyped DEF SendReply, Owning
  <2>3. SharedTypes'
    BY <1>16, <2>2, CounterTyped DEF TypeOK, SharedTypes, SendReply,
       historyVars
  <2> QED
    BY <2>1, <2>3
<1>17. ASSUME NEW t \in Tasks, PostAccepted(t) PROVE TypeOK'
  <2>1. TaskTypes'
    BY <1>17 DEF TypeOK, TaskTypes, PostAccepted, Go, Stages, Running,
       Owning, Kinds
  <2>2. Current(t) \in Messages
    BY <1>17, CurrentTyped DEF PostAccepted, Owning
  <2>3. SharedTypes'
    BY <1>17, <2>2, CounterTyped DEF TypeOK, SharedTypes, PostAccepted,
       historyVars
  <2> QED
    BY <2>1, <2>3
<1>18. ASSUME NEW t \in Tasks, PostTransient(t) PROVE TypeOK'
  <2>1. ASSUME tries[t] + 1 < MaxAttempts PROVE TaskTypes'
    <3>1. tries' \in [Tasks -> Nat] /\ UNCHANGED <<stage, pos, ctx, kind>>
      BY <1>18, <2>1 DEF TypeOK, PostTransient
    <3> QED
      BY <3>1 DEF TypeOK, TaskTypes
  <2>2. ASSUME ~(tries[t] + 1 < MaxAttempts) PROVE TaskTypes'
    BY <1>18, <2>2, SendFailsTyped DEF PostTransient
  <2>3. TaskTypes'
    BY <2>1, <2>2
  <2>4. PICK d \in {0, 1} : copies' = [copies EXCEPT ![Current(t)][ctx[t]] = @ + d]
    BY <1>18 DEF PostTransient
  <2>5. copies' \in Counter
    BY <1>18, <2>4, CurrentTyped, CounterTyped DEF PostTransient, TypeOK, Owning
  <2>6. SharedTypes'
    BY <1>18, <2>5 DEF TypeOK, SharedTypes, PostTransient
  <2> QED
    BY <2>3, <2>6
<1>19. ASSUME NEW t \in Tasks, PostRejected(t) PROVE TypeOK'
  <2>1. TaskTypes'
    BY <1>19, SendFailsTyped DEF PostRejected
  <2>2. SharedTypes'
    BY <1>19 DEF TypeOK, SharedTypes, PostRejected, historyVars
  <2> QED
    BY <2>1, <2>2
<1>20. ASSUME NEW t \in Tasks, ConfirmSent(t) PROVE TypeOK'
  <2>1. TaskTypes'
    BY <1>20 DEF TypeOK, TaskTypes, ConfirmSent, Confirm, Go, Stages,
       Running, Owning, Kinds
  <2>2. Current(t) \in Messages
    BY <1>20, CurrentTyped DEF ConfirmSent, Owning
  <2>3. SharedTypes'
    BY <1>20, <2>2 DEF TypeOK, SharedTypes, ConfirmSent, historyVars,
       Confirm, RowStates, Promised
  <2> QED
    BY <2>1, <2>3
<1>21. ASSUME NEW t \in Tasks, ConfirmUnconfirmed(t) PROVE TypeOK'
  <2>1. TaskTypes'
    BY <1>21, ReturnTyped DEF ConfirmUnconfirmed
  <2>2. Current(t) \in Messages
    BY <1>21, CurrentTyped DEF ConfirmUnconfirmed, Owning
  <2>3. SharedTypes'
    BY <1>21, <2>2 DEF TypeOK, SharedTypes, ConfirmUnconfirmed, historyVars,
       Confirm, RowStates, Promised
  <2> QED
    BY <2>1, <2>3
<1>22. ASSUME NEW t \in Tasks, AfterSend(t) PROVE TypeOK'
  <2>1. TaskTypes'
    BY <1>22, ReturnTyped DEF AfterSend
  <2>2. SharedTypes'
    BY <1>22 DEF TypeOK, SharedTypes, AfterSend, historyVars
  <2> QED
    BY <2>1, <2>2
<1>23. ASSUME NEW t \in Tasks, RetryTask(t) PROVE TypeOK'
  <2>1. TaskTypes'
    BY <1>23, <1>0, EndAttemptTyped DEF RetryTask
  <2>2. SharedTypes'
    BY <1>23, PipelineAssumption DEF TypeOK, SharedTypes, RetryTask,
       historyVars
  <2> QED
    BY <2>1, <2>2
<1>24. ASSUME NEW t \in Tasks, DeadLetter(t) PROVE TypeOK'
  <2>1. TaskTypes'
    BY <1>24, <1>0, EndAttemptTyped DEF DeadLetter
  <2>2. deadLetters' \in Seq(Tasks) /\ Len(deadLetters') = Len(deadLetters) + 1
    BY <1>24, PushCounted DEF TypeOK, DeadLetter
  <2>3. untrimmed' \in Nat /\ Len(deadLetters') <= DeadLetterMax + untrimmed'
    BY <1>24, <2>2, PipelineAssumption DEF TypeOK, DeadLetter
  <2>4. SharedTypes'
    BY <1>24, <2>2, <2>3 DEF TypeOK, SharedTypes, DeadLetter
  <2> QED
    BY <2>1, <2>4
<1>29. ASSUME NEW t \in Tasks, TrimDeadLetters(t) PROVE TypeOK'
  <2>1. TaskTypes'
    BY <1>29, <1>0, EndAttemptTyped DEF TrimDeadLetters
  <2>2. deadLetters' \in Seq(Tasks) /\ Len(deadLetters') <= DeadLetterMax + untrimmed'
    <3>1. deadLetters' \in Seq(Tasks) /\ Len(deadLetters') <= DeadLetterMax /\ untrimmed' = 0
      BY <1>29, TrimBounded DEF TypeOK, TrimDeadLetters
    <3> QED
      BY <3>1, PipelineAssumption
  <2>3. SharedTypes'
    BY <1>29, <2>2 DEF TypeOK, SharedTypes, TrimDeadLetters
  <2> QED
    BY <2>1, <2>3
<1>30. ASSUME NEW t \in Tasks, DeadLetterFails(t) PROVE TypeOK'
  <2>1. TaskTypes'
    BY <1>30, <1>0, EndAttemptTyped DEF DeadLetterFails
  <2>2. SharedTypes'
    BY <1>30 DEF TypeOK, SharedTypes, DeadLetterFails, historyVars
  <2> QED
    BY <2>1, <2>2
<1>31. ASSUME NEW t \in Tasks, GenerationTransient(t) PROVE TypeOK'
  <2>1. TaskTypes'
    <3>1. CASE tries[t] + 1 < MaxAttempts
      <4>1. tries' \in [Tasks -> Nat] /\ UNCHANGED <<stage, pos, ctx, kind>>
        BY <1>31, <3>1 DEF TypeOK, GenerationTransient
      <4> QED
        BY <4>1 DEF TypeOK, TaskTypes
    <3>2. CASE ~(tries[t] + 1 < MaxAttempts)
      BY <1>31, <3>2 DEF TypeOK, TaskTypes, GenerationTransient, Go, Stages,
         Running, Owning, Kinds
    <3> QED
      BY <3>1, <3>2
  <2>2. PICK d \in {0, 1} : billed' = [billed EXCEPT ![Current(t)][ctx[t]] = @ + d]
    BY <1>31 DEF GenerationTransient
  <2>3. billed' \in Counter
    BY <1>31, <2>2, CurrentTyped, CounterTyped
       DEF GenerationTransient, TypeOK, Owning
  <2>4. SharedTypes'
    BY <1>31, <2>3 DEF TypeOK, SharedTypes, GenerationTransient
  <2> QED
    BY <2>1, <2>4
<1>25. ASSUME NEW t \in Tasks, AckFailure(t) PROVE TypeOK'
  <2>1. TaskTypes'
    BY <1>25, <1>0, EndAttemptTyped DEF AckFailure
  <2>2. SharedTypes'
    BY <1>25 DEF TypeOK, SharedTypes, AckFailure, historyVars
  <2> QED
    BY <2>1, <2>2
<1>26. ASSUME NEW t \in Tasks, Crash(t) PROVE TypeOK'
  <2>1. TaskTypes'
    BY <1>26, <1>0, EndAttemptTyped DEF Crash
  <2>2. SharedTypes'
    BY <1>26, PipelineAssumption DEF TypeOK, SharedTypes, Crash, historyVars
  <2> QED
    BY <2>1, <2>2
<1>27. CASE DeleteConversation
  BY <1>27, PipelineAssumption
     DEF TypeOK, DeleteConversation, taskVars, historyVars, Incarnations
<1>28. CASE UNCHANGED vars
  BY <1>28 DEF TypeOK, vars, taskVars, historyVars
<1> QED
  BY <1>1, <1>2, <1>3, <1>4, <1>5, <1>6, <1>7, <1>8, <1>9, <1>10, <1>11,
     <1>12, <1>13, <1>14, <1>15, <1>16, <1>17, <1>18, <1>19, <1>20, <1>21,
     <1>22, <1>23, <1>24, <1>25, <1>26, <1>27, <1>28, <1>29, <1>30, <1>31
     DEF Next, TaskStep, Idle

\* The types hold in every reachable state (TypeOK of every run).
THEOREM TypeCorrect == Spec => []TypeOK
<1> QED
  BY TypeInit, TypeStep, PTL DEF Spec

-----------------------------------------------------------------------------
(***************************************************************************)
(* What a step of task t may do to TurnInvariant.                          *)
(***************************************************************************)

\* Only the locals of t change.
Local(t) ==
  \A u \in Tasks \ {t} :
    /\ stage'[u] = stage[u]
    /\ pos'[u] = pos[u]
    /\ ctx'[u] = ctx[u]
    /\ kind'[u] = kind[u]
    /\ tries'[u] = tries[u]

Untouched(m, e) ==
  /\ row'[m][e] = row[m][e]
  /\ calls'[m][e] = calls[m][e]
  /\ copies'[m][e] = copies[m][e]
  /\ billed'[m][e] = billed[m][e]

\* No other task owns the turn.
Free(t, m, e) == \A u \in Tasks \ {t} : Owns(u) => Turn(u) # <<m, e>>

\* A turn t may change, because nobody else owns it.
Changed(t, m, e) ==
  /\ Free(t, m, e)
  /\ HistoryAgrees(m, e)'
  /\ row[m][e] # "absent" => row'[m][e] # "absent"

\* A recorded message stays recorded, deletions of its conversation included.
LEMMA RecordedStays ==
  ASSUME TypeOK, TypeOK', epoch <= epoch', NEW m \in Messages,
         \A e \in Incarnations : row[m][e] # "absent" => row'[m][e] # "absent",
         Recorded(m)
  PROVE  Recorded(m)'
<1>1. PICK e \in 0..epoch : row[m][e] # "absent"
  BY DEF Recorded
<1>2. e \in Incarnations /\ e \in 0..epoch'
  BY <1>1, PipelineAssumption DEF TypeOK, Incarnations
<1> QED
  BY <1>1, <1>2 DEF Recorded

\* What a delivery carries are messages.
LEMMA PayloadTyped ==
  ASSUME NEW t \in Tasks, NEW i \in 1..Len(Payload[t])
  PROVE  Payload[t][i] \in Messages
<1>1. Payload[t] \in Seq(Messages)
  BY PipelineAssumption
<1> QED
  BY <1>1

\* A step in which task t works on its own turn keeps the invariant, given
\* what it does to that turn: all other turns are left alone.
LEMMA TurnStep ==
  ASSUME TypeOK, TypeOK', TurnInvariant, NEW t \in Tasks, Local(t),
         epoch' = epoch,
         \A m \in Messages, e \in Incarnations :
           Untouched(m, e) \/ Changed(t, m, e),
         Owns(t)' => /\ OwnerKnows(t)'
                     /\ \/ Owns(t) /\ Turn(t)' = Turn(t)
                        \/ Free(t, Current(t)', ctx'[t]),
         PassedIsRecorded(t)'
  PROVE  TurnInvariant'
<1>1. ASSUME NEW u \in Tasks \ {t}, Owns(u)'
      PROVE  Owns(u) /\ Turn(u)' = Turn(u) /\ OwnerKnows(u)'
  <2>1. Owns(u) /\ Turn(u)' = Turn(u) /\ Current(u)' = Current(u)
    BY <1>1 DEF Local, Owns, Turn, Current
  <2>2. Current(u) \in Messages /\ ctx[u] \in Incarnations
    BY <2>1, CurrentTyped DEF TypeOK, Owns
  <2>3. Untouched(Current(u), ctx[u])
    BY <2>1, <2>2 DEF Changed, Free, Turn
  <2>4. OwnerKnows(u)
    BY <2>1 DEF TurnInvariant
  <2> QED
    BY <1>1, <2>1, <2>3, <2>4 DEF OwnerKnows, Local, Untouched
<1>2. OneOwnerPerTurn'
  <2> SUFFICES ASSUME NEW u \in Tasks, NEW v \in Tasks, Owns(u)', Owns(v)',
                      Turn(u)' = Turn(v)', u # v
               PROVE  FALSE
    BY DEF OneOwnerPerTurn
  <2>1. CASE u # t /\ v # t
    BY <1>1, <2>1 DEF TurnInvariant, OneOwnerPerTurn
  <2>2. ASSUME NEW w \in Tasks \ {t}, Owns(w)', Owns(t)', Turn(w)' = Turn(t)'
        PROVE  FALSE
    <3>1. Owns(w) /\ Turn(w)' = Turn(w)
      BY <1>1, <2>2
    <3>2. CASE Owns(t) /\ Turn(t)' = Turn(t)
      BY <2>2, <3>1, <3>2 DEF TurnInvariant, OneOwnerPerTurn
    <3>3. CASE Free(t, Current(t)', ctx'[t])
      BY <2>2, <3>1, <3>3 DEF Free, Turn
    <3> QED
      BY <2>2, <3>2, <3>3
  <2> QED
    BY <2>1, <2>2
<1>3. \A u \in Tasks : Owns(u)' => OwnerKnows(u)'
  BY <1>1
<1>4. ASSUME NEW m \in Messages, NEW e \in Incarnations
      PROVE  HistoryAgrees(m, e)'
  <2>1. CASE Untouched(m, e)
    BY <2>1 DEF TurnInvariant, HistoryAgrees, Untouched
  <2>2. CASE Changed(t, m, e)
    BY <2>2 DEF Changed
  <2> QED
    BY <2>1, <2>2
<1>5. ASSUME NEW m \in Messages, Recorded(m) PROVE Recorded(m)'
  <2>1. \A e \in Incarnations : row[m][e] # "absent" => row'[m][e] # "absent"
    BY DEF Untouched, Changed
  <2>2. epoch <= epoch'
    BY DEF TypeOK, Incarnations
  <2> QED
    BY <1>5, <2>1, <2>2, RecordedStays
<1>6. ASSUME NEW u \in Tasks \ {t} PROVE PassedIsRecorded(u)'
  <2>1. stage'[u] = stage[u] /\ pos'[u] = pos[u]
    BY DEF Local
  <2>2. PassedIsRecorded(u)
    BY DEF TurnInvariant
  <2> QED
    BY <1>5, <2>1, <2>2, PayloadTyped DEF PassedIsRecorded, Owns
<1> QED
  BY <1>2, <1>3, <1>4, <1>6 DEF TurnInvariant

\* The owner of a turn moves to another stage of it.
LEMMA OwnStep ==
  ASSUME TypeOK, TypeOK', TurnInvariant, NEW t \in Tasks, Owns(t), Local(t),
         stage'[t] \in Owning, pos'[t] = pos[t], ctx'[t] = ctx[t], epoch' = epoch,
         \A m \in Messages, e \in Incarnations :
           Untouched(m, e) \/ <<m, e>> = Turn(t),
         HistoryAgrees(Current(t), ctx[t])',
         OwnerKnows(t)'
  PROVE  TurnInvariant'
<1>1. Turn(t)' = Turn(t) /\ Current(t)' = Current(t)
  BY DEF Turn, Current
<1>2. Current(t) \in Messages /\ ctx[t] \in Incarnations
  BY CurrentTyped DEF TypeOK, Owns
<1>3. Free(t, Current(t), ctx[t])
  BY DEF Free, TurnInvariant, OneOwnerPerTurn, Turn
<1>4. row'[Current(t)][ctx[t]] # "absent"
  BY <1>1 DEF OwnerKnows
<1>5. Changed(t, Current(t), ctx[t])
  BY <1>1, <1>3, <1>4 DEF Changed, HistoryAgrees
<1>6. \A m \in Messages, e \in Incarnations : Untouched(m, e) \/ Changed(t, m, e)
  BY <1>5 DEF Turn
<1>7. PassedIsRecorded(t)'
  <2>1. ASSUME NEW i \in 1..Len(Payload[t]), i < pos[t]
        PROVE  Recorded(Payload[t][i])'
    <3>1. Payload[t][i] \in Messages /\ Recorded(Payload[t][i])
      BY <2>1, PayloadTyped DEF TurnInvariant, PassedIsRecorded
    <3>2. \A e \in Incarnations :
            row[Payload[t][i]][e] # "absent" => row'[Payload[t][i]][e] # "absent"
      BY <1>6, <3>1 DEF Untouched, Changed
    <3>3. epoch <= epoch'
      BY DEF TypeOK, Incarnations
    <3> QED
      BY <3>1, <3>2, <3>3, RecordedStays
  <2>2. stage'[t] # "acked"
    BY DEF Owning
  <2> QED
    BY <2>1, <2>2 DEF PassedIsRecorded
<1> QED
  BY <1>1, <1>6, <1>7, TurnStep

\* A handler returns: its message is recorded, the turn is given up.
LEMMA ReturnStep ==
  ASSUME TypeOK, TypeOK', TurnInvariant, NEW t \in Tasks, Return(t),
         AtMessage(t) \/ Owns(t), epoch' = epoch,
         \A m \in Messages, e \in Incarnations :
           Untouched(m, e) \/ Changed(t, m, e),
         NEW c \in 0..epoch, row'[Current(t)][c] # "absent"
  PROVE  TurnInvariant'
<1>1. Local(t) /\ stage'[t] = "next" /\ pos'[t] = pos[t] + 1
  BY DEF TypeOK, Return, Go, Forget, Local
<1>2. ~ Owns(t)'
  BY <1>1 DEF Owns, Owning
<1>3. ASSUME NEW i \in 1..Len(Payload[t]), i < pos[t] + 1
      PROVE  Recorded(Payload[t][i])'
  <2>1. CASE i = pos[t]
    BY <2>1 DEF Recorded, Current
  <2>2. CASE i < pos[t]
    <3>1. Payload[t][i] \in Messages /\ Recorded(Payload[t][i])
      BY <2>2, PayloadTyped DEF TurnInvariant, PassedIsRecorded, AtMessage
    <3>2. \A e \in Incarnations :
            row[Payload[t][i]][e] # "absent" => row'[Payload[t][i]][e] # "absent"
      BY <3>1 DEF Untouched, Changed
    <3>3. epoch <= epoch'
      BY DEF TypeOK, Incarnations
    <3> QED
      BY <3>1, <3>2, <3>3, RecordedStays
  <2> QED
    BY <1>3, <2>1, <2>2 DEF TypeOK
<1>4. PassedIsRecorded(t)'
  BY <1>1, <1>3 DEF PassedIsRecorded
<1> QED
  BY <1>1, <1>2, <1>4, TurnStep

\* An attempt ends: nothing shared changes.
LEMMA EndStep ==
  ASSUME TypeOK, TypeOK', TurnInvariant, NEW t \in Tasks,
         NEW s \in {"queued", "parking", "raised", "acked", "dead"}, EndAttempt(t, s),
         UNCHANGED <<epoch, row, calls, copies, billed>>,
         s = "acked" => stage[t] = "next" /\ pos[t] > Len(Payload[t])
  PROVE  TurnInvariant'
<1>1. Local(t) /\ stage'[t] = s
  BY DEF TypeOK, EndAttempt, Go, Forget, Local
<1>2. ~ Owns(t)' /\ stage'[t] # "next"
  BY <1>1 DEF Owns, Owning
<1>3. \A m : Recorded(m) => Recorded(m)'
  BY DEF Recorded
<1>4. PassedIsRecorded(t)
  BY DEF TurnInvariant
<1>5. PassedIsRecorded(t)'
  <2>1. CASE s = "acked"
    <3>1. \A i \in 1..Len(Payload[t]) : i < pos[t]
      BY <2>1, PipelineAssumption DEF TypeOK
    <3>2. \A i \in 1..Len(Payload[t]) : Recorded(Payload[t][i])
      BY <2>1, <3>1, <1>4 DEF PassedIsRecorded
    <3> QED
      BY <1>2, <1>3, <3>2 DEF PassedIsRecorded
  <2>2. CASE s # "acked"
    BY <1>1, <1>2, <2>2 DEF PassedIsRecorded
  <2> QED
    BY <2>1, <2>2
<1>6. \A m \in Messages, e \in Incarnations : Untouched(m, e)
  BY DEF Untouched
<1> QED
  BY <1>1, <1>2, <1>5, <1>6, TurnStep

-----------------------------------------------------------------------------
(***************************************************************************)
(* TurnInvariant is inductive.                                             *)
(***************************************************************************)

\* Nothing is owned and nothing has happened before the first delivery.
LEMMA TurnInit == Init => TurnInvariant
<1> SUFFICES ASSUME Init PROVE TurnInvariant
  OBVIOUS
<1>1. \A t \in Tasks : ~ Owns(t) /\ PassedIsRecorded(t)
  BY DEF Init, Owns, Owning, PassedIsRecorded
<1>2. \A m \in Messages, e \in Incarnations : HistoryAgrees(m, e)
  BY PipelineAssumption DEF Init, Zero, HistoryAgrees
<1> QED
  BY <1>1, <1>2 DEF TurnInvariant, OneOwnerPerTurn

\* Deleting the conversation takes no turn away from its owner: the owner
\* goes on in the incarnation it loaded.
LEMMA DeleteStep ==
  ASSUME TypeOK, TypeOK', TurnInvariant, DeleteConversation
  PROVE  TurnInvariant'
<1> USE DEF DeleteConversation, taskVars, historyVars
<1>1. OneOwnerPerTurn'
  BY DEF TurnInvariant, OneOwnerPerTurn, Owns, Turn, Current
<1>2. ASSUME NEW t \in Tasks, Owns(t)' PROVE OwnerKnows(t)'
  <2>1. OwnerKnows(t)
    BY <1>2 DEF TurnInvariant, Owns
  <2>2. ctx[t] <= epoch => ctx[t] <= epoch'
    BY DEF TypeOK, Incarnations
  <2> QED
    BY <2>1, <2>2 DEF OwnerKnows, Current
<1>3. ASSUME NEW m \in Messages, NEW e \in Incarnations PROVE HistoryAgrees(m, e)'
  <2>1. HistoryAgrees(m, e)
    BY DEF TurnInvariant
  <2>2. e > epoch' => e > epoch
    BY DEF TypeOK, Incarnations
  <2> QED
    BY <2>1, <2>2 DEF HistoryAgrees
<1>4. ASSUME NEW t \in Tasks PROVE PassedIsRecorded(t)'
  <2>1. PassedIsRecorded(t)
    BY DEF TurnInvariant
  <2>2. epoch <= epoch'
    BY DEF TypeOK, Incarnations
  <2>3. \A m \in Messages : Recorded(m) => Recorded(m)'
    BY <2>2, RecordedStays
  <2> QED
    BY <2>1, <2>3, PayloadTyped DEF PassedIsRecorded, Owns
<1> QED
  BY <1>1, <1>2, <1>3, <1>4 DEF TurnInvariant

\* What the invariant says of the turn a task owns.
LEMMA KnownTurn ==
  ASSUME TypeOK, TurnInvariant, NEW t \in Tasks, Owns(t)
  PROVE  /\ Current(t) \in Messages
         /\ ctx[t] \in Incarnations
         /\ OwnerKnows(t)
         /\ HistoryAgrees(Current(t), ctx[t])
<1>1. Current(t) \in Messages /\ ctx[t] \in Incarnations
  BY CurrentTyped DEF TypeOK, Owns
<1> QED
  BY <1>1 DEF TurnInvariant

\* The counters of a turn are numbers.
LEMMA TurnCounted ==
  ASSUME TypeOK, NEW m \in Messages, NEW e \in Incarnations
  PROVE  calls[m][e] \in Nat /\ copies[m][e] \in Nat /\ billed[m][e] \in Nat
<1>1. calls \in Counter /\ copies \in Counter /\ billed \in Counter
  BY DEF TypeOK
<1> QED
  BY <1>1 DEF Counter

\* Every step of every task, every crash and every deletion keeps the
\* invariant.
LEMMA InvariantStep == TypeOK /\ TypeOK' /\ TurnInvariant /\ [Next]_vars => TurnInvariant'
<1> SUFFICES ASSUME TypeOK, TypeOK', TurnInvariant, [Next]_vars
             PROVE  TurnInvariant'
  OBVIOUS
<1> USE DEF historyVars
<1>1. ASSUME NEW t \in Tasks, StartTask(t) PROVE TurnInvariant'
  <2>1. \A m \in Messages, e \in Incarnations : Untouched(m, e)
    BY <1>1 DEF StartTask, Untouched
  <2>2. Local(t) /\ stage'[t] = "next" /\ ~ Owns(t)'
    BY <1>1 DEF StartTask, TypeOK, Go, Local, Owns, Owning
  <2>3. PassedIsRecorded(t)'
    BY <1>1, <2>2 DEF StartTask, TypeOK, PassedIsRecorded
  <2> QED
    BY <1>1, <2>1, <2>2, <2>3, TurnStep DEF StartTask
<1>2. ASSUME NEW t \in Tasks, FinishTask(t) PROVE TurnInvariant'
  BY <1>2, EndStep DEF FinishTask
<1>3. ASSUME NEW t \in Tasks, RetryTask(t) PROVE TurnInvariant'
  BY <1>3, EndStep DEF RetryTask
<1>4. ASSUME NEW t \in Tasks, DeadLetter(t) PROVE TurnInvariant'
  BY <1>4, EndStep DEF DeadLetter
<1>5. ASSUME NEW t \in Tasks, AckFailure(t) PROVE TurnInvariant'
  BY <1>5, EndStep DEF AckFailure
<1>6. ASSUME NEW t \in Tasks, Crash(t) PROVE TurnInvariant'
  BY <1>6, EndStep DEF Crash
<1>7. ASSUME NEW t \in Tasks, SkipDuplicate(t) PROVE TurnInvariant'
  <2>1. \A m \in Messages, e \in Incarnations : Untouched(m, e)
    BY <1>7 DEF SkipDuplicate, Untouched
  <2>2. epoch \in 0..epoch
    BY DEF TypeOK, Incarnations
  <2> QED
    BY <1>7, <2>1, <2>2, ReturnStep DEF SkipDuplicate
<1>8. ASSUME NEW t \in Tasks, LeaveToOperator(t) PROVE TurnInvariant'
  <2>1. \A m \in Messages, e \in Incarnations : Untouched(m, e)
    BY <1>8 DEF LeaveToOperator, Waive, Untouched
  <2>2. Owns(t)
    BY <1>8 DEF LeaveToOperator, Waive, Owns, Owning
  <2>3. ctx[t] \in 0..epoch /\ row'[Current(t)][ctx[t]] # "absent"
    BY <1>8, <2>2 DEF LeaveToOperator, Waive, TurnInvariant, OwnerKnows, TypeOK, Incarnations
  <2> QED
    BY <1>8, <2>1, <2>2, <2>3, ReturnStep DEF LeaveToOperator, Waive
<1>9. ASSUME NEW t \in Tasks, DeclineQuietly(t) PROVE TurnInvariant'
  <2>1. \A m \in Messages, e \in Incarnations : Untouched(m, e)
    BY <1>9 DEF DeclineQuietly, Waive, Untouched
  <2>2. Owns(t)
    BY <1>9 DEF DeclineQuietly, Waive, Owns, Owning
  <2>3. ctx[t] \in 0..epoch /\ row'[Current(t)][ctx[t]] # "absent"
    BY <1>9, <2>2 DEF DeclineQuietly, Waive, TurnInvariant, OwnerKnows, TypeOK, Incarnations
  <2> QED
    BY <1>9, <2>1, <2>2, <2>3, ReturnStep DEF DeclineQuietly, Waive
<1>10. ASSUME NEW t \in Tasks, ReservationLost(t) PROVE TurnInvariant'
  <2>1. \A m \in Messages, e \in Incarnations : Untouched(m, e)
    BY <1>10 DEF ReservationLost, Untouched
  <2>2. Owns(t)
    BY <1>10 DEF ReservationLost, Owns, Owning
  <2>3. ctx[t] \in 0..epoch /\ row'[Current(t)][ctx[t]] # "absent"
    BY <1>10, <2>2 DEF ReservationLost, TurnInvariant, OwnerKnows, TypeOK, Incarnations
  <2> QED
    BY <1>10, <2>1, <2>2, <2>3, ReturnStep DEF ReservationLost
<1>11. ASSUME NEW t \in Tasks, AfterSend(t) PROVE TurnInvariant'
  <2>1. \A m \in Messages, e \in Incarnations : Untouched(m, e)
    BY <1>11 DEF AfterSend, Untouched
  <2>2. Owns(t)
    BY <1>11 DEF AfterSend, Owns, Owning
  <2>3. ctx[t] \in 0..epoch /\ row'[Current(t)][ctx[t]] # "absent"
    BY <1>11, <2>2 DEF AfterSend, TurnInvariant, OwnerKnows, TypeOK, Incarnations
  <2> QED
    BY <1>11, <2>1, <2>2, <2>3, ReturnStep DEF AfterSend
<1>12. ASSUME NEW t \in Tasks, BeginHandoff(t) PROVE TurnInvariant'
  <2>1. \A m \in Messages, e \in Incarnations : Untouched(m, e)
    BY <1>12 DEF BeginHandoff, Untouched
  <2>2. Owns(t) /\ Local(t) /\ stage'[t] \in Owning
    BY <1>12 DEF BeginHandoff, TypeOK, Go, Local, Owns, Owning
  <2>3. OwnerKnows(t)'
    BY <1>12, <2>2 DEF BeginHandoff, TypeOK, Go, TurnInvariant, OwnerKnows, Current
  <2>4. HistoryAgrees(Current(t), ctx[t])'
    BY <1>12, <2>2, KnownTurn DEF BeginHandoff, Current, HistoryAgrees
  <2> QED
    BY <1>12, <2>1, <2>2, <2>3, <2>4, OwnStep DEF BeginHandoff
<1>13. ASSUME NEW t \in Tasks, ReplyFixed(t) PROVE TurnInvariant'
  <2>1. \A m \in Messages, e \in Incarnations : Untouched(m, e)
    BY <1>13 DEF ReplyFixed, Untouched
  <2>2. Owns(t) /\ Local(t) /\ stage'[t] \in Owning
    BY <1>13 DEF ReplyFixed, TypeOK, Go, Local, Owns, Owning
  <2>3. OwnerKnows(t)'
    BY <1>13, <2>2 DEF ReplyFixed, TypeOK, Go, TurnInvariant, OwnerKnows, Current
  <2>4. HistoryAgrees(Current(t), ctx[t])'
    BY <1>13, <2>2, KnownTurn DEF ReplyFixed, Current, HistoryAgrees
  <2> QED
    BY <1>13, <2>1, <2>2, <2>3, <2>4, OwnStep DEF ReplyFixed
<1>14. ASSUME NEW t \in Tasks, ReplayGeneration(t) PROVE TurnInvariant'
  <2>1. \A m \in Messages, e \in Incarnations : Untouched(m, e)
    BY <1>14 DEF ReplayGeneration, Untouched
  <2>2. Owns(t) /\ Local(t) /\ stage'[t] \in Owning
    BY <1>14 DEF ReplayGeneration, TypeOK, Go, Local, Owns, Owning
  <2>3. OwnerKnows(t)'
    BY <1>14, <2>2 DEF ReplayGeneration, TypeOK, Go, TurnInvariant, OwnerKnows, Current
  <2>4. HistoryAgrees(Current(t), ctx[t])'
    BY <1>14, <2>2, KnownTurn DEF ReplayGeneration, Current, HistoryAgrees
  <2> QED
    BY <1>14, <2>1, <2>2, <2>3, <2>4, OwnStep DEF ReplayGeneration
<1>15. ASSUME NEW t \in Tasks, StartGeneration(t) PROVE TurnInvariant'
  <2>1. \A m \in Messages, e \in Incarnations : Untouched(m, e)
    BY <1>15 DEF StartGeneration, Untouched
  <2>2. Owns(t) /\ Local(t) /\ stage'[t] \in Owning
    BY <1>15 DEF StartGeneration, TypeOK, Go, Local, Owns, Owning
  <2>3. OwnerKnows(t)'
    BY <1>15, <2>2, PipelineAssumption
       DEF StartGeneration, TypeOK, Go, TurnInvariant, OwnerKnows, Current
  <2>4. HistoryAgrees(Current(t), ctx[t])'
    BY <1>15, <2>2, KnownTurn DEF StartGeneration, Current, HistoryAgrees
  <2> QED
    BY <1>15, <2>1, <2>2, <2>3, <2>4, OwnStep DEF StartGeneration
<1>16. ASSUME NEW t \in Tasks, GenerationFails(t) PROVE TurnInvariant'
  <2>1. \A m \in Messages, e \in Incarnations : Untouched(m, e)
    BY <1>16 DEF GenerationFails, Untouched
  <2>2. Owns(t) /\ Local(t) /\ stage'[t] \in Owning
    BY <1>16 DEF GenerationFails, TypeOK, Go, Local, Owns, Owning
  <2>3. OwnerKnows(t)'
    BY <1>16, <2>2 DEF GenerationFails, TypeOK, Go, TurnInvariant, OwnerKnows, Current
  <2>4. HistoryAgrees(Current(t), ctx[t])'
    BY <1>16, <2>2, KnownTurn DEF GenerationFails, Current, HistoryAgrees
  <2> QED
    BY <1>16, <2>1, <2>2, <2>3, <2>4, OwnStep DEF GenerationFails
<1>17. ASSUME NEW t \in Tasks, Generate(t) PROVE TurnInvariant'
  <2>1. Owns(t) /\ Local(t) /\ stage'[t] \in Owning
    BY <1>17 DEF Generate, TypeOK, Go, Local, Owns, Owning
  <2>2. \A m \in Messages, e \in Incarnations :
          Untouched(m, e) \/ <<m, e>> = Turn(t)
    BY <1>17 DEF Generate, TypeOK, Counter, Turn, Untouched
  <2> DEFINE m == Current(t)
             e == ctx[t]
  <2>3. /\ Current(t)' = m /\ ctx'[t] = e
        /\ epoch' = epoch
        /\ m \in Messages /\ e \in Incarnations
        /\ calls[m][e] \in Nat /\ copies[m][e] \in Nat /\ billed[m][e] \in Nat
    <3>1. UNCHANGED <<pos, ctx, epoch>>
      BY <1>17 DEF Generate
    <3>2. m \in Messages /\ e \in Incarnations
      BY <2>1, KnownTurn
    <3>3. Current(t)' = m /\ ctx'[t] = e
      BY <3>1 DEF Current
    <3> QED
      BY <3>1, <3>2, <3>3, TurnCounted
  <2>4. UNCHANGED <<row, calls, copies>> /\ billed'[m][e] = billed[m][e] + 1
    BY <1>17, <2>3 DEF Generate, TypeOK, Counter
  <2>5. OwnerKnows(t) /\ HistoryAgrees(m, e)
    BY <2>1, KnownTurn
  <2> HIDE DEF m, e
  <2>8. OwnerKnows(t)'
    <3>1. stage[t] = "generating" /\ stage'[t] = "reserve"
      BY <1>17 DEF Generate, Go, TypeOK
    <3> QED
      BY <2>3, <2>4, <2>5, <3>1 DEF OwnerKnows, m, e
  <2>9. HistoryAgrees(Current(t), ctx[t])'
    <3>1. row[m][e] = "recorded" /\ billed[m][e] < MaxAttempts
      BY <1>17, <2>3, <2>5, PipelineAssumption DEF Generate, OwnerKnows, TypeOK, m, e
    <3>2. billed'[m][e] <= MaxAttempts
      BY <2>3, <2>4, <3>1, PipelineAssumption
    <3> QED
      BY <2>3, <2>4, <2>5, <3>1, <3>2 DEF HistoryAgrees
  <2> QED
    BY <1>17, <2>1, <2>2, <2>8, <2>9, OwnStep DEF Generate
<1>29. ASSUME NEW t \in Tasks, TrimDeadLetters(t) PROVE TurnInvariant'
  BY <1>29, EndStep DEF TrimDeadLetters
<1>30. ASSUME NEW t \in Tasks, DeadLetterFails(t) PROVE TurnInvariant'
  BY <1>30, EndStep DEF DeadLetterFails
<1>31. ASSUME NEW t \in Tasks, GenerationTransient(t) PROVE TurnInvariant'
  <2>1. Owns(t) /\ Local(t) /\ stage'[t] \in Owning
    BY <1>31 DEF GenerationTransient, TypeOK, Go, Local, Owns, Owning
  <2>2. \A m \in Messages, e \in Incarnations :
          Untouched(m, e) \/ <<m, e>> = Turn(t)
    BY <1>31 DEF GenerationTransient, TypeOK, Counter, Turn, Untouched
  <2> DEFINE m == Current(t)
             e == ctx[t]
  <2>3. /\ Current(t)' = m /\ ctx'[t] = e
        /\ epoch' = epoch
        /\ m \in Messages /\ e \in Incarnations
        /\ calls[m][e] \in Nat /\ copies[m][e] \in Nat /\ billed[m][e] \in Nat
    <3>1. UNCHANGED <<pos, ctx, epoch>>
      BY <1>31 DEF GenerationTransient
    <3>2. m \in Messages /\ e \in Incarnations
      BY <2>1, KnownTurn
    <3>3. Current(t)' = m /\ ctx'[t] = e
      BY <3>1 DEF Current
    <3> QED
      BY <3>1, <3>2, <3>3, TurnCounted
  <2>4. /\ UNCHANGED <<row, calls, copies, kind>>
        /\ billed'[m][e] \in {billed[m][e], billed[m][e] + 1}
    <3>1. UNCHANGED <<row, calls, copies, kind>>
      BY <1>31 DEF GenerationTransient
    <3>2. PICK d \in {0, 1} : billed' = [billed EXCEPT ![m][e] = @ + d]
      BY <1>31 DEF GenerationTransient
    <3>3. billed \in [Messages -> [Incarnations -> Nat]]
      BY DEF TypeOK, Counter
    <3> HIDE DEF m, e
    <3>4. billed'[m][e] = billed[m][e] + d
      BY <2>3, <3>2, <3>3
    <3> QED
      BY <2>3, <3>1, <3>4
  <2>5. OwnerKnows(t) /\ HistoryAgrees(m, e)
    BY <2>1, KnownTurn
  <2> HIDE DEF m, e
  <2>6. /\ row[m][e] = "recorded" /\ e <= epoch
        /\ tries[t] < MaxAttempts /\ billed[m][e] <= tries[t]
    BY <1>31, <2>5 DEF GenerationTransient, OwnerKnows, m, e
  <2>7. tries[t] \in Nat /\ MaxAttempts \in Nat \ {0}
    BY PipelineAssumption DEF TypeOK
  <2>8. OwnerKnows(t)'
    <3>1. CASE tries[t] + 1 < MaxAttempts
      <4>1. stage'[t] = "generating" /\ tries'[t] = tries[t] + 1
        BY <1>31, <3>1 DEF GenerationTransient, TypeOK
      <4> QED
        BY <2>3, <2>4, <2>6, <2>7, <3>1, <4>1 DEF OwnerKnows
    <3>2. CASE ~(tries[t] + 1 < MaxAttempts)
      <4>1. stage'[t] = "reserve"
        BY <1>31, <3>2 DEF GenerationTransient, Go, TypeOK
      <4> QED
        BY <2>3, <2>4, <2>6, <4>1 DEF OwnerKnows
    <3> QED
      BY <3>1, <3>2
  <2>9. HistoryAgrees(Current(t), ctx[t])'
    <3>1. billed'[m][e] <= MaxAttempts
      BY <2>3, <2>4, <2>6, <2>7
    <3> QED
      BY <2>3, <2>4, <2>5, <2>6, <3>1 DEF HistoryAgrees
  <2> QED
    BY <1>31, <2>1, <2>2, <2>8, <2>9, OwnStep DEF GenerationTransient
<1>18. ASSUME NEW t \in Tasks, ReserveReply(t) PROVE TurnInvariant'
  <2>1. Owns(t) /\ Local(t) /\ stage'[t] \in Owning
    BY <1>18 DEF ReserveReply, TypeOK, Go, Local, Owns, Owning
  <2>2. \A m \in Messages, e \in Incarnations :
          Untouched(m, e) \/ <<m, e>> = Turn(t)
    BY <1>18 DEF ReserveReply, TypeOK, Counter, Turn, Untouched
  <2>8. OwnerKnows(t)'
    BY <1>18, <2>1, KnownTurn DEF ReserveReply, TypeOK, Counter, Go, OwnerKnows,
       HistoryAgrees, Current
  <2>9. HistoryAgrees(Current(t), ctx[t])'
    BY <1>18, <2>1, KnownTurn DEF ReserveReply, TypeOK, Counter, OwnerKnows,
       HistoryAgrees, Current
  <2> QED
    BY <1>18, <2>1, <2>2, <2>8, <2>9, OwnStep DEF ReserveReply
<1>19. ASSUME NEW t \in Tasks, SendReply(t) PROVE TurnInvariant'
  <2>1. Owns(t) /\ Local(t) /\ stage'[t] \in Owning
    BY <1>19 DEF SendReply, TypeOK, Go, Local, Owns, Owning
  <2>2. \A m \in Messages, e \in Incarnations :
          Untouched(m, e) \/ <<m, e>> = Turn(t)
    BY <1>19 DEF SendReply, TypeOK, Counter, Turn, Untouched
  <2> DEFINE m == Current(t)
             e == ctx[t]
  <2>3. /\ Current(t)' = m /\ ctx'[t] = e
        /\ epoch' = epoch
        /\ m \in Messages /\ e \in Incarnations
        /\ calls[m][e] \in Nat /\ copies[m][e] \in Nat /\ billed[m][e] \in Nat
    <3>1. UNCHANGED <<pos, ctx, epoch>>
      BY <1>19 DEF SendReply
    <3>2. m \in Messages /\ e \in Incarnations
      BY <2>1, KnownTurn
    <3>3. Current(t)' = m /\ ctx'[t] = e
      BY <3>1 DEF Current
    <3> QED
      BY <3>1, <3>2, <3>3, TurnCounted
  <2>4. UNCHANGED <<row, copies, billed>> /\ calls'[m][e] = calls[m][e] + 1
    BY <1>19, <2>3 DEF SendReply, TypeOK, Counter
  <2>5. OwnerKnows(t) /\ HistoryAgrees(m, e)
    BY <2>1, KnownTurn
  <2> HIDE DEF m, e
  <2>6. row[m][e] = "pending" /\ calls[m][e] = 0 /\ copies[m][e] = 0
        /\ e <= epoch
    BY <1>19, <2>5 DEF SendReply, OwnerKnows, m, e
  <2>8. OwnerKnows(t)'
    <3>1. stage'[t] = "send" /\ tries'[t] = 0
      BY <1>19 DEF SendReply, Go, TypeOK
    <3> QED
      BY <2>3, <2>4, <2>6, <3>1, PipelineAssumption DEF OwnerKnows
  <2>9. HistoryAgrees(Current(t), ctx[t])'
    BY <2>3, <2>4, <2>5, <2>6 DEF HistoryAgrees
  <2> QED
    BY <1>19, <2>1, <2>2, <2>8, <2>9, OwnStep DEF SendReply
<1>20. ASSUME NEW t \in Tasks, PostAccepted(t) PROVE TurnInvariant'
  <2>1. Owns(t) /\ Local(t) /\ stage'[t] \in Owning
    BY <1>20 DEF PostAccepted, TypeOK, Go, Local, Owns, Owning
  <2>2. \A m \in Messages, e \in Incarnations :
          Untouched(m, e) \/ <<m, e>> = Turn(t)
    BY <1>20 DEF PostAccepted, TypeOK, Counter, Turn, Untouched
  <2> DEFINE m == Current(t)
             e == ctx[t]
  <2>3. /\ Current(t)' = m /\ ctx'[t] = e
        /\ epoch' = epoch
        /\ m \in Messages /\ e \in Incarnations
        /\ calls[m][e] \in Nat /\ copies[m][e] \in Nat /\ billed[m][e] \in Nat
    <3>1. UNCHANGED <<pos, ctx, epoch>>
      BY <1>20 DEF PostAccepted
    <3>2. m \in Messages /\ e \in Incarnations
      BY <2>1, KnownTurn
    <3>3. Current(t)' = m /\ ctx'[t] = e
      BY <3>1 DEF Current
    <3> QED
      BY <3>1, <3>2, <3>3, TurnCounted
  <2>4. UNCHANGED <<row, calls, billed>> /\ copies'[m][e] = copies[m][e] + 1
    BY <1>20, <2>3 DEF PostAccepted, TypeOK, Counter
  <2>5. OwnerKnows(t) /\ HistoryAgrees(m, e)
    BY <2>1, KnownTurn
  <2> HIDE DEF m, e
  <2>6. row[m][e] = "pending" /\ e <= epoch /\ copies[m][e] < 2 * MaxAttempts
    <3>1. /\ row[m][e] = "pending" /\ e <= epoch /\ tries[t] < MaxAttempts
          /\ copies[m][e] <= IF kind[t] = "buttons" THEN tries[t]
                             ELSE MaxAttempts + tries[t]
      BY <1>20, <2>5 DEF PostAccepted, OwnerKnows, m, e
    <3>2. tries[t] \in Nat /\ MaxAttempts \in Nat \ {0}
      BY PipelineAssumption DEF TypeOK
    <3> QED
      BY <2>3, <3>1, <3>2
  <2>8. OwnerKnows(t)'
    <3>1. stage'[t] = "sent"
      BY <1>20 DEF PostAccepted, Go, TypeOK
    <3> QED
      BY <2>3, <2>4, <2>6, <3>1 DEF OwnerKnows
  <2>9. HistoryAgrees(Current(t), ctx[t])'
    BY <2>3, <2>4, <2>5, <2>6, PipelineAssumption DEF HistoryAgrees
  <2> QED
    BY <1>20, <2>1, <2>2, <2>8, <2>9, OwnStep DEF PostAccepted
<1>21. ASSUME NEW t \in Tasks, PostTransient(t) PROVE TurnInvariant'
  <2>1. Owns(t) /\ Local(t) /\ stage'[t] \in Owning
    BY <1>21 DEF PostTransient, SendFails, TypeOK, Go, Local, Owns, Owning
  <2>2. \A m \in Messages, e \in Incarnations :
          Untouched(m, e) \/ <<m, e>> = Turn(t)
    BY <1>21 DEF PostTransient, SendFails, TypeOK, Counter, Turn, Untouched
  <2> DEFINE m == Current(t)
             e == ctx[t]
  <2>3. /\ Current(t)' = m /\ ctx'[t] = e
        /\ epoch' = epoch
        /\ m \in Messages /\ e \in Incarnations
        /\ calls[m][e] \in Nat /\ copies[m][e] \in Nat /\ billed[m][e] \in Nat
    <3>1. UNCHANGED <<pos, ctx, epoch>>
      BY <1>21 DEF PostTransient
    <3>2. m \in Messages /\ e \in Incarnations
      BY <2>1, KnownTurn
    <3>3. Current(t)' = m /\ ctx'[t] = e
      BY <3>1 DEF Current
    <3> QED
      BY <3>1, <3>2, <3>3, TurnCounted
  <2>4. /\ UNCHANGED <<row, calls, billed>>
        /\ copies'[m][e] \in {copies[m][e], copies[m][e] + 1}
    BY <1>21, <2>3 DEF PostTransient, TypeOK, Counter
  <2>5. OwnerKnows(t) /\ HistoryAgrees(m, e)
    BY <2>1, KnownTurn
  <2> HIDE DEF m, e
  <2>6. /\ row[m][e] = "pending" /\ e <= epoch /\ tries[t] < MaxAttempts
        /\ copies[m][e] <= IF kind[t] = "buttons" THEN tries[t]
                           ELSE MaxAttempts + tries[t]
    BY <1>21, <2>5 DEF PostTransient, OwnerKnows, m, e
  <2>7. tries[t] \in Nat /\ MaxAttempts \in Nat \ {0}
    BY PipelineAssumption DEF TypeOK
  <2>8. OwnerKnows(t)'
    <3>1. CASE tries[t] + 1 < MaxAttempts
      <4>1. stage'[t] = "send" /\ kind'[t] = kind[t] /\ tries'[t] = tries[t] + 1
        BY <1>21, <3>1 DEF PostTransient, TypeOK
      <4> QED
        BY <2>3, <2>4, <2>6, <2>7, <3>1, <4>1 DEF OwnerKnows
    <3>2. CASE ~(tries[t] + 1 < MaxAttempts) /\ kind[t] = "buttons"
      <4>1. stage'[t] = "send" /\ kind'[t] = "text" /\ tries'[t] = 0
        BY <1>21, <3>2 DEF PostTransient, SendFails, TypeOK
      <4> QED
        BY <2>3, <2>4, <2>6, <2>7, <3>2, <4>1 DEF OwnerKnows
    <3>3. CASE ~(tries[t] + 1 < MaxAttempts) /\ kind[t] # "buttons"
      <4>1. stage'[t] = "failed"
        BY <1>21, <3>3 DEF PostTransient, SendFails, Go, TypeOK
      <4> QED
        BY <2>3, <2>4, <2>6, <4>1 DEF OwnerKnows
    <3> QED
      BY <3>1, <3>2, <3>3
  <2>9. HistoryAgrees(Current(t), ctx[t])'
    <3>1. copies'[m][e] <= 2 * MaxAttempts
      BY <2>3, <2>4, <2>6, <2>7
    <3> QED
      BY <2>3, <2>4, <2>5, <2>6, <3>1 DEF HistoryAgrees
  <2> QED
    BY <1>21, <2>1, <2>2, <2>8, <2>9, OwnStep DEF PostTransient
<1>22. ASSUME NEW t \in Tasks, PostRejected(t) PROVE TurnInvariant'
  <2>1. Owns(t) /\ Local(t) /\ stage'[t] \in Owning
    BY <1>22 DEF PostRejected, SendFails, TypeOK, Go, Local, Owns, Owning
  <2>2. \A m \in Messages, e \in Incarnations :
          Untouched(m, e) \/ <<m, e>> = Turn(t)
    BY <1>22 DEF PostRejected, SendFails, TypeOK, Counter, Turn, Untouched
  <2> DEFINE m == Current(t)
             e == ctx[t]
  <2>3. /\ Current(t)' = m /\ ctx'[t] = e
        /\ epoch' = epoch
        /\ m \in Messages /\ e \in Incarnations
        /\ calls[m][e] \in Nat /\ copies[m][e] \in Nat /\ billed[m][e] \in Nat
    <3>1. UNCHANGED <<pos, ctx, epoch>>
      BY <1>22 DEF PostRejected
    <3>2. m \in Messages /\ e \in Incarnations
      BY <2>1, KnownTurn
    <3>3. Current(t)' = m /\ ctx'[t] = e
      BY <3>1 DEF Current
    <3> QED
      BY <3>1, <3>2, <3>3, TurnCounted
  <2>4. UNCHANGED <<row, calls, copies, billed>>
    BY <1>22, <2>3 DEF PostRejected
  <2>5. OwnerKnows(t) /\ HistoryAgrees(m, e)
    BY <2>1, KnownTurn
  <2> HIDE DEF m, e
  <2>6. /\ row[m][e] = "pending" /\ e <= epoch /\ tries[t] < MaxAttempts
        /\ copies[m][e] <= IF kind[t] = "buttons" THEN tries[t]
                           ELSE MaxAttempts + tries[t]
    BY <1>22, <2>5 DEF PostRejected, OwnerKnows, m, e
  <2>7. tries[t] \in Nat /\ MaxAttempts \in Nat \ {0}
    BY PipelineAssumption DEF TypeOK
  <2>8. OwnerKnows(t)'
    <3>1. CASE kind[t] = "buttons"
      <4>1. stage'[t] = "send" /\ kind'[t] = "text" /\ tries'[t] = 0
        BY <1>22, <3>1 DEF PostRejected, SendFails, TypeOK
      <4> QED
        BY <2>3, <2>4, <2>6, <2>7, <3>1, <4>1 DEF OwnerKnows
    <3>2. CASE kind[t] # "buttons"
      <4>1. stage'[t] = "failed"
        BY <1>22, <3>2 DEF PostRejected, SendFails, Go, TypeOK
      <4> QED
        BY <2>3, <2>4, <2>6, <4>1 DEF OwnerKnows
    <3> QED
      BY <3>1, <3>2
  <2>9. HistoryAgrees(Current(t), ctx[t])'
    BY <2>3, <2>4, <2>5 DEF HistoryAgrees
  <2> QED
    BY <1>22, <2>1, <2>2, <2>8, <2>9, OwnStep DEF PostRejected
<1>23. ASSUME NEW t \in Tasks, ConfirmSent(t) PROVE TurnInvariant'
  <2>1. Owns(t) /\ Local(t) /\ stage'[t] \in Owning
    BY <1>23 DEF ConfirmSent, Confirm, TypeOK, Go, Local, Owns, Owning
  <2>2. \A m \in Messages, e \in Incarnations :
          Untouched(m, e) \/ <<m, e>> = Turn(t)
    BY <1>23 DEF ConfirmSent, Confirm, TypeOK, Counter, Turn, Untouched
  <2>8. OwnerKnows(t)'
    BY <1>23, <2>1, KnownTurn DEF ConfirmSent, Confirm, TypeOK, Counter, Go, OwnerKnows,
       HistoryAgrees, Current
  <2>9. HistoryAgrees(Current(t), ctx[t])'
    BY <1>23, <2>1, KnownTurn DEF ConfirmSent, Confirm, TypeOK, Counter, OwnerKnows,
       HistoryAgrees, Current
  <2> QED
    BY <1>23, <2>1, <2>2, <2>8, <2>9, OwnStep DEF ConfirmSent
<1>24. ASSUME NEW t \in Tasks, ConfirmUnconfirmed(t) PROVE TurnInvariant'
  <2>1. Owns(t)
    BY <1>24 DEF ConfirmUnconfirmed, Owns, Owning
  <2>2. ASSUME NEW m \in Messages, m = Current(t), NEW e \in Incarnations, e = ctx[t]
        PROVE  Changed(t, m, e)
    <3>1. Free(t, m, e)
      BY <2>1, <2>2 DEF Free, TurnInvariant, OneOwnerPerTurn, Turn
    <3>2. row[m][e] = "pending" /\ HistoryAgrees(m, e)
      BY <1>24, <2>1, <2>2, KnownTurn DEF ConfirmUnconfirmed, OwnerKnows
    <3>3. row'[m][e] \in {"pending", "unconfirmed"}
          /\ UNCHANGED <<epoch, calls, copies, billed>>
      BY <1>24, <2>2, <3>2 DEF ConfirmUnconfirmed, Confirm, TypeOK
    <3>4. HistoryAgrees(m, e)'
      BY <3>2, <3>3 DEF HistoryAgrees
    <3> QED
      BY <3>1, <3>3, <3>4 DEF Changed
  <2>3. \A m \in Messages, e \in Incarnations :
          Untouched(m, e) \/ Changed(t, m, e)
    BY <1>24, <2>2 DEF ConfirmUnconfirmed, Confirm, TypeOK, Untouched
  <2>4. /\ Current(t) \in Messages /\ ctx[t] \in Incarnations
        /\ ctx[t] \in 0..epoch /\ row[Current(t)][ctx[t]] # "absent"
    <3>1. /\ Current(t) \in Messages /\ ctx[t] \in Incarnations
          /\ ctx[t] <= epoch /\ row[Current(t)][ctx[t]] # "absent"
      BY <2>1, KnownTurn DEF OwnerKnows
    <3> QED
      BY <3>1 DEF TypeOK, Incarnations
  <2>5. row'[Current(t)][ctx[t]] # "absent"
    BY <2>3, <2>4 DEF Changed, Untouched
  <2> QED
    BY <1>24, <2>1, <2>3, <2>4, <2>5, ReturnStep DEF ConfirmUnconfirmed
<1>25. ASSUME NEW t \in Tasks, RecordStale(t) PROVE TurnInvariant'
  <2>1. Current(t) \in Messages /\ epoch \in Incarnations /\ epoch \in 0..epoch
    BY <1>25, CurrentTyped DEF RecordStale, TypeOK, Incarnations
  <2>2. Free(t, Current(t), epoch)
    BY <1>25 DEF RecordStale, Free, TurnInvariant, OwnerKnows, Turn
  <2>3. HistoryAgrees(Current(t), epoch)
    BY <2>1 DEF TurnInvariant
  <2>4. row' = [row EXCEPT ![Current(t)][epoch] = "recorded"]
        /\ UNCHANGED <<epoch, calls, copies, billed>>
    BY <1>25 DEF RecordStale
  <2>5. \A m \in Messages, e \in Incarnations :
          Untouched(m, e) \/ (m = Current(t) /\ e = epoch)
    BY <2>1, <2>4 DEF TypeOK, Untouched
  <2>6. row'[Current(t)][epoch] = "recorded"
    BY <2>1, <2>4 DEF TypeOK
  <2>7. ASSUME NEW m, m = Current(t) PROVE HistoryAgrees(m, epoch)'
    <3>1. row[m][epoch] = "absent" /\ ~(epoch > epoch)
      BY <1>25, <2>7 DEF RecordStale, TypeOK, Incarnations
    <3>2. calls[m][epoch] = 0 /\ copies[m][epoch] = 0 /\ billed[m][epoch] = 0
      BY <2>3, <2>7, <3>1 DEF HistoryAgrees
    <3> QED
      BY <2>4, <2>6, <2>7, <3>1, <3>2, PipelineAssumption DEF HistoryAgrees
  <2>8. ASSUME NEW m \in Messages, NEW e \in Incarnations
        PROVE  Untouched(m, e) \/ Changed(t, m, e)
    BY <2>2, <2>4, <2>5, <2>6, <2>7 DEF Changed, HistoryAgrees
  <2> QED
    BY <1>25, <2>1, <2>6, <2>8, ReturnStep DEF RecordStale
<1>26. ASSUME NEW t \in Tasks, ClaimInbound(t) PROVE TurnInvariant'
  <2>1. Current(t) \in Messages /\ epoch \in Incarnations /\ epoch \in 0..epoch
    BY <1>26, CurrentTyped DEF ClaimInbound, TypeOK, Incarnations
  <2>2. Free(t, Current(t), epoch)
    BY <1>26 DEF ClaimInbound, Free, TurnInvariant, OwnerKnows, Turn
  <2>3. HistoryAgrees(Current(t), epoch)
    BY <2>1 DEF TurnInvariant
  <2>4. row' = [row EXCEPT ![Current(t)][epoch] = "recorded"]
        /\ UNCHANGED <<epoch, calls, copies, billed>>
    BY <1>26 DEF ClaimInbound
  <2>5. \A m \in Messages, e \in Incarnations :
          Untouched(m, e) \/ (m = Current(t) /\ e = epoch)
    BY <2>1, <2>4 DEF TypeOK, Untouched
  <2>6. row'[Current(t)][epoch] = "recorded"
    BY <2>1, <2>4 DEF TypeOK
  <2>7. ASSUME NEW m, m = Current(t) PROVE HistoryAgrees(m, epoch)'
    <3>1. row[m][epoch] = "absent" /\ ~(epoch > epoch)
      BY <1>26, <2>7 DEF ClaimInbound, TypeOK, Incarnations
    <3>2. calls[m][epoch] = 0 /\ copies[m][epoch] = 0 /\ billed[m][epoch] = 0
      BY <2>3, <2>7, <3>1 DEF HistoryAgrees
    <3> QED
      BY <2>4, <2>6, <2>7, <3>1, <3>2, PipelineAssumption DEF HistoryAgrees
  <2>8. ASSUME NEW m \in Messages, NEW e \in Incarnations
        PROVE  Untouched(m, e) \/ Changed(t, m, e)
    BY <2>2, <2>4, <2>5, <2>6, <2>7 DEF Changed, HistoryAgrees
  <2>9. Local(t) /\ Current(t)' = Current(t) /\ ctx'[t] = epoch
        /\ stage'[t] = "claimed"
    BY <1>26 DEF ClaimInbound, Go, TypeOK, Local, Current
  <2>10. OwnerKnows(t)'
    BY <1>26, <2>1, <2>3, <2>4, <2>6, <2>9
       DEF ClaimInbound, TypeOK, Incarnations, OwnerKnows, HistoryAgrees
  <2>11. PassedIsRecorded(t)'
    <3>1. \A m \in Messages : Recorded(m) => Recorded(m)'
      <4>1. epoch <= epoch'
        BY <2>4 DEF TypeOK, Incarnations
      <4> QED
        BY <2>8, <4>1, RecordedStays DEF Untouched, Changed
    <3> QED
      BY <1>26, <2>9, <3>1, PayloadTyped
         DEF ClaimInbound, AtMessage, TurnInvariant, PassedIsRecorded
  <2> QED
    BY <1>26, <2>2, <2>4, <2>8, <2>9, <2>10, <2>11, TurnStep DEF ClaimInbound
<1>27. CASE DeleteConversation
  BY <1>27, DeleteStep
<1>28. CASE UNCHANGED vars
  BY <1>28 DEF vars, taskVars, TurnInvariant, OneOwnerPerTurn, Owns, Turn,
     Current, OwnerKnows, HistoryAgrees, PassedIsRecorded, Recorded
<1> QED
  BY <1>1, <1>2, <1>3, <1>4, <1>5, <1>6, <1>7, <1>8, <1>9, <1>10, <1>11,
     <1>12, <1>13, <1>14, <1>15, <1>16, <1>17, <1>18, <1>19, <1>20, <1>21,
     <1>22, <1>23, <1>24, <1>25, <1>26, <1>27, <1>28, <1>29, <1>30, <1>31
     DEF Next, TaskStep, Idle

-----------------------------------------------------------------------------
(***************************************************************************)
(* Theorems.                                                               *)
(***************************************************************************)

\* However many deliveries, retries, crashes and deletions: every turn has at
\* most one owner, and its stage agrees with the rows and the history.
THEOREM TurnCorrect == Spec => []TurnInvariant
<1> QED
  BY TypeInit, TypeStep, TurnInit, InvariantStep, PTL DEF Spec

\* _send_once calls the provider at most once per message and conversation.
THEOREM SendsOnce == Spec => []AtMostOneSend
<1>1. TurnInvariant => AtMostOneSend
  BY DEF TurnInvariant, HistoryAgrees, AtMostOneSend
<1> QED
  BY <1>1, TurnCorrect, PTL

\* A claimed message is put to the model once: the provider charges for no more
\* completions than the one call (openai_retry) has attempts.
THEOREM BillsStayBounded == Spec => []BillBounded
<1>1. TurnInvariant => BillBounded
  BY DEF TurnInvariant, HistoryAgrees, BillBounded
<1> QED
  BY <1>1, TurnCorrect, PTL

\* The reservation is durable before anything reaches the customer.
THEOREM EvidenceFirst == Spec => []EvidenceBeforeSend
<1>1. TypeOK /\ TurnInvariant => EvidenceBeforeSend
  <2> SUFFICES ASSUME TypeOK, TurnInvariant, NEW m \in Messages,
                      NEW e \in Incarnations, copies[m][e] > 0
               PROVE  row[m][e] \in Promised
    BY DEF EvidenceBeforeSend
  <2>1. row[m][e] \in RowStates /\ copies[m][e] # 0
    BY DEF TypeOK, Counter
  <2>2. row[m][e] \notin {"absent", "recorded"}
    BY <2>1 DEF TurnInvariant, HistoryAgrees
  <2> QED
    BY <2>1, <2>2 DEF RowStates
<1> QED
  BY <1>1, TypeCorrect, TurnCorrect, PTL

\* A reply recorded as sent is one the customer has.
THEOREM SentTrue == Spec => []SentIsTrue
<1>1. TurnInvariant => SentIsTrue
  BY DEF TurnInvariant, HistoryAgrees, SentIsTrue
<1> QED
  BY <1>1, TurnCorrect, PTL

\* The copies a customer can get of one reply are bounded by the attempts of
\* the client and of its plain-text fallback.
THEOREM CopiesStayBounded == Spec => []CopiesBounded
<1>1. TurnInvariant => CopiesBounded
  BY DEF TurnInvariant, HistoryAgrees, CopiesBounded
<1> QED
  BY <1>1, TurnCorrect, PTL

\* An acknowledged delivery has no unrecorded message.
THEOREM AcksRecorded == Spec => []AckedIsRecorded
<1>1. TurnInvariant => AckedIsRecorded
  BY DEF TurnInvariant, PassedIsRecorded, AckedIsRecorded
<1> QED
  BY <1>1, TurnCorrect, PTL

-----------------------------------------------------------------------------
(***************************************************************************)
(* Refinement of ReplyContract.                                            *)
(***************************************************************************)

\* The empty database is where the contract starts.
LEMMA ContractInit == Init => Contract!Init
BY DEF Init, Zero, Contract!Init

\* Every step of the pipeline is a step of the contract or leaves the rows
\* and the received copies as they are.
LEMMA ContractStep ==
  TypeOK /\ TurnInvariant /\ [Next]_vars => [Contract!Next]_(Contract!vars)
<1> SUFFICES ASSUME TypeOK, TurnInvariant, [Next]_vars
             PROVE  Contract!Next \/ UNCHANGED <<row, copies>>
  BY DEF Contract!vars
<1> USE DEF historyVars
<1>1. ASSUME NEW t \in Tasks,
             \/ StartTask(t) \/ FinishTask(t) \/ SkipDuplicate(t)
             \/ LeaveToOperator(t) \/ DeclineQuietly(t) \/ BeginHandoff(t)
             \/ ReplyFixed(t) \/ ReplayGeneration(t) \/ StartGeneration(t)
             \/ Generate(t) \/ GenerationTransient(t) \/ GenerationFails(t)
             \/ ReservationLost(t) \/ TrimDeadLetters(t) \/ DeadLetterFails(t)
             \/ SendReply(t) \/ PostRejected(t) \/ AfterSend(t)
             \/ RetryTask(t) \/ DeadLetter(t) \/ AckFailure(t) \/ Crash(t)
      PROVE  UNCHANGED <<row, copies>>
  BY <1>1 DEF StartTask, FinishTask, SkipDuplicate, LeaveToOperator,
     DeclineQuietly, Waive, BeginHandoff, ReplyFixed, ReplayGeneration,
     StartGeneration, Generate, GenerationTransient, GenerationFails,
     ReservationLost, TrimDeadLetters, DeadLetterFails, SendReply, PostRejected, AfterSend, RetryTask, DeadLetter, AckFailure, Crash
<1>2. ASSUME NEW t \in Tasks, RecordStale(t) \/ ClaimInbound(t)
      PROVE  Contract!Next
  <2>1. Current(t) \in Messages /\ epoch \in Incarnations
    BY <1>2, CurrentTyped DEF RecordStale, ClaimInbound, TypeOK
  <2>2. Contract!Record(Current(t), epoch)
    BY <1>2 DEF RecordStale, ClaimInbound, Contract!Record, Contract!Advance
  <2> QED
    BY <2>1, <2>2 DEF Contract!Next
<1>3. ASSUME NEW t \in Tasks, ReserveReply(t) PROVE Contract!Next
  <2>1. Current(t) \in Messages /\ epoch \in Incarnations
    BY <1>3, CurrentTyped DEF ReserveReply, TypeOK, Owning
  <2>2. Contract!Promise(Current(t), epoch)
    BY <1>3 DEF ReserveReply, Contract!Promise, Contract!Advance
  <2> QED
    BY <2>1, <2>2 DEF Contract!Next
<1>4. ASSUME NEW t \in Tasks, PostAccepted(t) \/ PostTransient(t)
      PROVE  Contract!Next \/ UNCHANGED <<row, copies>>
  <2>1. Owns(t) /\ stage[t] = "send" /\ UNCHANGED row
    BY <1>4 DEF PostAccepted, PostTransient, Owns, Owning
  <2>2. Current(t) \in Messages /\ ctx[t] \in Incarnations
        /\ row[Current(t)][ctx[t]] = "pending"
    BY <2>1, KnownTurn DEF OwnerKnows
  <2>3. PICK d \in {0, 1} : copies' = [copies EXCEPT ![Current(t)][ctx[t]] = @ + d]
    BY <1>4 DEF PostAccepted, PostTransient
  <2>4. CASE d = 0
    BY <2>1, <2>2, <2>3, <2>4 DEF TypeOK, Counter
  <2>5. CASE d = 1
    <3>1. Contract!Deliver(Current(t), ctx[t])
      BY <2>1, <2>2, <2>3, <2>5 DEF Contract!Deliver
    <3> QED
      BY <2>2, <3>1 DEF Contract!Next
  <2> QED
    BY <2>3, <2>4, <2>5
<1>5. ASSUME NEW t \in Tasks, ConfirmSent(t)
      PROVE  Contract!Next \/ UNCHANGED <<row, copies>>
  <2>1. Owns(t) /\ UNCHANGED copies
    BY <1>5 DEF ConfirmSent, Owns, Owning
  <2>2. /\ Current(t) \in Messages /\ ctx[t] \in Incarnations
        /\ row[Current(t)][ctx[t]] = "pending" /\ copies[Current(t)][ctx[t]] > 0
    BY <1>5, <2>1, KnownTurn DEF OwnerKnows, ConfirmSent
  <2>3. CASE ctx[t] = epoch
    <3>1. Contract!SettleSent(Current(t), ctx[t])
      BY <1>5, <2>1, <2>2, <2>3
         DEF ConfirmSent, Confirm, Contract!SettleSent, Contract!Advance
    <3> QED
      BY <2>2, <3>1 DEF Contract!Next
  <2>4. CASE ctx[t] # epoch
    BY <1>5, <2>1, <2>4 DEF ConfirmSent, Confirm
  <2> QED
    BY <2>3, <2>4
<1>6. ASSUME NEW t \in Tasks, ConfirmUnconfirmed(t)
      PROVE  Contract!Next \/ UNCHANGED <<row, copies>>
  <2>1. Owns(t) /\ UNCHANGED copies
    BY <1>6 DEF ConfirmUnconfirmed, Owns, Owning
  <2>2. Current(t) \in Messages /\ ctx[t] \in Incarnations
        /\ row[Current(t)][ctx[t]] = "pending"
    BY <1>6, <2>1, KnownTurn DEF OwnerKnows, ConfirmUnconfirmed
  <2>3. CASE ctx[t] = epoch
    <3>1. Contract!SettleUnconfirmed(Current(t), ctx[t])
      BY <1>6, <2>1, <2>2, <2>3
         DEF ConfirmUnconfirmed, Confirm, Contract!SettleUnconfirmed, Contract!Advance
    <3> QED
      BY <2>2, <3>1 DEF Contract!Next
  <2>4. CASE ctx[t] # epoch
    BY <1>6, <2>1, <2>4 DEF ConfirmUnconfirmed, Confirm
  <2> QED
    BY <2>3, <2>4
<1>7. CASE DeleteConversation \/ UNCHANGED vars
  BY <1>7 DEF DeleteConversation, vars
<1> QED
  BY <1>1, <1>2, <1>3, <1>4, <1>5, <1>6, <1>7 DEF Next, TaskStep, Idle

\* The task pipeline implements the contract: one record, one promise, copies
\* only under a standing promise, one settlement.
THEOREM Refinement == Spec => ImplementsContract
<1>1. Init => Contract!Init
  BY ContractInit
<1> QED
  BY <1>1, ContractStep, TypeCorrect, TurnCorrect, PTL
     DEF Spec, ImplementsContract, Contract!Spec
=============================================================================
