---------------------------- MODULE ReplyPipeline ----------------------------
(***************************************************************************)
(* From a queued webhook delivery to the customer's phone: the Celery task *)
(* (workers/tasks.py), the payload loop (services/webhook_processor.py)    *)
(* and the CLAIM - GENERATE - RESERVE - SEND - CONFIRM stages of one turn  *)
(* (services/chat_service.py), over Postgres rows, the Redis cache of      *)
(* completions and a send endpoint without idempotency key.                *)
(*                                                                         *)
(* A task is one delivery.  Meta redelivers, so several tasks may carry    *)
(* the same message; they run concurrently, raise anywhere, are retried,   *)
(* and their worker may be killed anywhere.  A database transaction is one *)
(* step: what a task did since its last commit is lost when it stops.      *)
(* Which of the possible answers a message gets is left open (the texts    *)
(* are classified by regular expressions and by the quota).                *)
(***************************************************************************)
EXTENDS Naturals, Sequences

CONSTANTS
  Tasks,          \* webhook deliveries that reached the broker
  Messages,       \* provider message ids
  Payload,        \* Payload[t]: the messages of delivery t, in order
  MAX_RETRIES,    \* retries of a task that raised (tasks.py)
  MaxAttempts,    \* retry_max_attempts: requests of one call (core/retry.py)
  DeadLetterMax,  \* dead_letter_max_entries
  MaxCrashes,     \* bound: worker kills
  MaxDeletes      \* bound: deletions of the conversation

ASSUME PipelineAssumption ==
  /\ Payload \in [Tasks -> Seq(Messages)]
  /\ MAX_RETRIES \in Nat
  /\ MaxAttempts \in Nat \ {0}
  /\ DeadLetterMax \in Nat \ {0}
  /\ MaxCrashes \in Nat
  /\ MaxDeletes \in Nat

VARIABLES
  (* one entry per task *)
  stage,        \* where it is; see Stages
  pos,          \* the message of its payload it is at
  retries,      \* self.request.retries
  ctx,          \* the incarnation of the conversation it loaded
  kind,         \* what it is sending: fixed text, buttons, or a completion
  tries,        \* requests made so far by the current call of a client
  (* shared state *)
  epoch,        \* current incarnation of the conversation
  row,          \* row[m][e]: inbound row and reply row of m in incarnation e
  cache,        \* messages with a completion under idem:reply:<id>
  deadLetters,  \* the Redis list of given-up payloads, newest first
  (* bounds and history *)
  crashes,
  calls,        \* calls[m][e]: times _send_once called the provider
  copies,       \* copies[m][e]: replies that reached the customer
  billed,       \* billed[m][e]: completions the provider charged for
  untrimmed,    \* dead letters pushed since the list was last cut
  waived        \* messages the code decided not to answer

taskVars == <<stage, pos, retries, ctx, kind, tries>>
historyVars == <<calls, copies, billed, untrimmed, waived>>
vars == <<taskVars, epoch, row, cache, deadLetters, crashes, historyVars>>

(***************************************************************************)
(* Rows of an incarnation below epoch are deleted: no statement sees them. *)
(***************************************************************************)
Incarnations == 0..MaxDeletes
Promised == {"pending", "sent", "unconfirmed"}
RowStates == {"absent", "recorded"} \cup Promised

\* Stages in which a task owns the turn of its current message.
Owning == {"claimed", "generating", "reserve", "reserved", "send",
           "sent", "failed", "after"}
Running == {"next"} \cup Owning
Settled == {"acked", "dead"}
Stages == {"queued", "parking", "raised"} \cup Running \cup Settled
Kinds == {"text", "buttons", "ai"}

Counter == [Messages -> [Incarnations -> Nat]]
Zero == [m \in Messages |-> [e \in Incarnations |-> 0]]

Current(t) == Payload[t][pos[t]]
AtMessage(t) == stage[t] = "next" /\ pos[t] <= Len(Payload[t])

Init ==
  /\ stage = [t \in Tasks |-> "queued"]
  /\ pos = [t \in Tasks |-> 1]
  /\ retries = [t \in Tasks |-> 0]
  /\ ctx = [t \in Tasks |-> 0]
  /\ kind = [t \in Tasks |-> "text"]
  /\ tries = [t \in Tasks |-> 0]
  /\ epoch = 0
  /\ row = [m \in Messages |-> [e \in Incarnations |-> "absent"]]
  /\ cache = {}
  /\ deadLetters = <<>>
  /\ crashes = 0
  /\ calls = Zero
  /\ copies = Zero
  /\ billed = Zero
  /\ untrimmed = 0
  /\ waived = {}

-----------------------------------------------------------------------------
(***************************************************************************)
(* Helpers.                                                                *)
(***************************************************************************)

Go(t, s) == stage' = [stage EXCEPT ![t] = s]

\* The locals of a handler do not outlive it.
Forget(t) ==
  /\ ctx' = [ctx EXCEPT ![t] = 0]
  /\ kind' = [kind EXCEPT ![t] = "text"]
  /\ tries' = [tries EXCEPT ![t] = 0]

\* The handler of the current message returns; the payload loop moves on.
Return(t) ==
  /\ Go(t, "next")
  /\ pos' = [pos EXCEPT ![t] = @ + 1]
  /\ Forget(t)

\* The attempt is over; another one would begin at the first message.
EndAttempt(t, s) ==
  /\ Go(t, s)
  /\ pos' = [pos EXCEPT ![t] = 1]
  /\ Forget(t)

\* Mutant of Trimmed: LTRIM's last index is inclusive.
TrimmedInclusive(list) ==
  IF Len(list) > DeadLetterMax + 1 THEN SubSeq(list, 1, DeadLetterMax + 1) ELSE list

\* LTRIM 0 .. cap - 1.
Trimmed(list) ==
  IF Len(list) > DeadLetterMax THEN SubSeq(list, 1, DeadLetterMax) ELSE list

-----------------------------------------------------------------------------
(***************************************************************************)
(* The task and its payload loop.                                          *)
(***************************************************************************)

\* A worker takes the delivery and starts at its first message.
StartTask(t) ==
  /\ stage[t] = "queued"
  /\ Go(t, "next")
  /\ pos' = [pos EXCEPT ![t] = 1]
  /\ UNCHANGED <<retries, ctx, kind, tries, epoch, row, cache, deadLetters,
                 crashes, historyVars>>

\* The loop is over, the task returns and is acknowledged (acks_late).
FinishTask(t) ==
  /\ stage[t] = "next"
  /\ pos[t] > Len(Payload[t])
  /\ EndAttempt(t, "acked")
  /\ UNCHANGED <<retries, epoch, row, cache, deadLetters, crashes,
                 historyVars>>

\* Mutant of SkipDuplicate: a duplicate ends the whole payload.
SkipDuplicateStops(t) ==
  /\ AtMessage(t)
  /\ row[Current(t)][epoch] # "absent"
  /\ EndAttempt(t, "acked")
  /\ UNCHANGED <<retries, epoch, row, cache, deadLetters, crashes,
                 historyVars>>

\* claim_inbound returns None: the row is there already.  Roll back, return.
SkipDuplicate(t) ==
  /\ AtMessage(t)
  /\ row[Current(t)][epoch] # "absent"
  /\ Return(t)
  /\ UNCHANGED <<retries, epoch, row, cache, deadLetters, crashes,
                 historyVars>>

\* A delivery past inbound_max_age is recorded and not answered.
RecordStale(t) ==
  /\ AtMessage(t)
  /\ row[Current(t)][epoch] = "absent"
  /\ row' = [row EXCEPT ![Current(t)][epoch] = "recorded"]
  /\ waived' = waived \cup {Current(t)}
  /\ Return(t)
  /\ UNCHANGED <<retries, epoch, cache, deadLetters, crashes, calls, copies,
                 billed, untrimmed>>

\* Mutant of ClaimInbound: a row already there is taken over.
ClaimInboundAnyway(t) ==
  /\ AtMessage(t)
  /\ row' = [row EXCEPT ![Current(t)][epoch] =
               IF @ = "absent" THEN "recorded" ELSE @]
  /\ ctx' = [ctx EXCEPT ![t] = epoch]
  /\ Go(t, "claimed")
  /\ UNCHANGED <<pos, retries, kind, tries, epoch, cache, deadLetters,
                 crashes, historyVars>>

\* Stage CLAIM: insert the inbound row ON CONFLICT DO NOTHING, touch, commit.
ClaimInbound(t) ==
  /\ AtMessage(t)
  /\ row[Current(t)][epoch] = "absent"
  /\ row' = [row EXCEPT ![Current(t)][epoch] = "recorded"]
  /\ ctx' = [ctx EXCEPT ![t] = epoch]
  /\ Go(t, "claimed")
  /\ UNCHANGED <<pos, retries, kind, tries, epoch, cache, deadLetters,
                 crashes, historyVars>>

-----------------------------------------------------------------------------
(***************************************************************************)
(* Choosing the answer.                                                    *)
(***************************************************************************)

Waive(t) ==
  /\ stage[t] = "claimed"
  /\ waived' = waived \cup {Current(t)}
  /\ Return(t)
  /\ UNCHANGED <<retries, epoch, row, cache, deadLetters, crashes, calls,
                 copies, billed, untrimmed>>

\* The mode loaded with the conversation is human: say nothing.
LeaveToOperator(t) == Waive(t)

\* The quota refuses and has already explained itself.
DeclineQuietly(t) == Waive(t)

\* set_mode(human) is committed before the acknowledgement is sent; on a
\* deleted row that flush raises instead.
BeginHandoff(t) ==
  /\ stage[t] = "claimed"
  /\ ctx[t] = epoch
  /\ kind' = [kind EXCEPT ![t] = "text"]
  /\ Go(t, "reserve")
  /\ UNCHANGED <<pos, retries, ctx, tries, epoch, row, cache, deadLetters,
                 crashes, historyVars>>

\* Welcome, not understood, out of scope, menu answer, unsupported type, or
\* the one notice of a refusing quota.  Menu answers carry buttons.
ReplyFixed(t) ==
  /\ stage[t] = "claimed"
  /\ \E k \in {"text", "buttons"} : kind' = [kind EXCEPT ![t] = k]
  /\ Go(t, "reserve")
  /\ UNCHANGED <<pos, retries, ctx, tries, epoch, row, cache, deadLetters,
                 crashes, historyVars>>

\* The completion of an earlier attempt is in the cache: no API call.
ReplayGeneration(t) ==
  /\ stage[t] = "claimed"
  /\ Current(t) \in cache
  /\ kind' = [kind EXCEPT ![t] = "ai"]
  /\ Go(t, "reserve")
  /\ UNCHANGED <<pos, retries, ctx, tries, epoch, row, cache, deadLetters,
                 crashes, historyVars>>

\* Cache miss: release the connection and call the model.
StartGeneration(t) ==
  /\ stage[t] = "claimed"
  /\ Current(t) \notin cache
  /\ kind' = [kind EXCEPT ![t] = "ai"]
  /\ tries' = [tries EXCEPT ![t] = 0]
  /\ Go(t, "generating")
  /\ UNCHANGED <<pos, retries, ctx, epoch, row, cache, deadLetters, crashes,
                 historyVars>>

\* The completion is bought and cached, unless Redis refuses the write.
Generate(t) ==
  /\ stage[t] = "generating"
  /\ billed' = [billed EXCEPT ![Current(t)][ctx[t]] = @ + 1]
  /\ cache' \in {cache, cache \cup {Current(t)}}
  /\ Go(t, "reserve")
  /\ UNCHANGED <<pos, retries, ctx, kind, tries, epoch, row, deadLetters,
                 crashes, calls, copies, untrimmed, waived>>

\* A timeout, a rate limit or a server error: the request may have been served
\* and charged for (d = 1) or not.  openai_retry asks again until its attempts
\* are used up; then the answer is FALLBACK_REPLY.
GenerationTransient(t) ==
  /\ stage[t] = "generating"
  /\ \E d \in {0, 1} :
       billed' = [billed EXCEPT ![Current(t)][ctx[t]] = @ + d]
  /\ IF tries[t] + 1 < MaxAttempts
     THEN tries' = [tries EXCEPT ![t] = @ + 1] /\ UNCHANGED stage
     ELSE Go(t, "reserve") /\ UNCHANGED tries
  /\ UNCHANGED <<pos, retries, ctx, kind, epoch, row, cache, deadLetters,
                 crashes, calls, copies, untrimmed, waived>>

\* The model refuses the request for good: answer with FALLBACK_REPLY.
GenerationFails(t) ==
  /\ stage[t] = "generating"
  /\ Go(t, "reserve")
  /\ UNCHANGED <<pos, retries, ctx, kind, tries, epoch, row, cache,
                 deadLetters, crashes, historyVars>>

-----------------------------------------------------------------------------
(***************************************************************************)
(* _send_once.                                                             *)
(***************************************************************************)

\* Mutant of ReserveReply: the reservation is not committed before the send.
ReserveReplyUncommitted(t) ==
  /\ stage[t] = "reserve"
  /\ ctx[t] = epoch
  /\ row[Current(t)][epoch] = "recorded"
  /\ Go(t, "reserved")
  /\ UNCHANGED <<pos, retries, ctx, kind, tries, epoch, row, cache,
                 deadLetters, crashes, historyVars>>

\* Stage RESERVE: the pending row, the ai_logs row and the touch, committed
\* together.  With its conversation deleted the insert violates the foreign
\* key and raises (RetryTask, DeadLetter).
ReserveReply(t) ==
  /\ stage[t] = "reserve"
  /\ ctx[t] = epoch
  /\ row[Current(t)][epoch] = "recorded"
  /\ row' = [row EXCEPT ![Current(t)][epoch] = "pending"]
  /\ Go(t, "reserved")
  /\ UNCHANGED <<pos, retries, ctx, kind, tries, epoch, cache, deadLetters,
                 crashes, historyVars>>

\* The unique reply_to_wa_message_id is taken: roll back, send nothing.  A
\* completion's ai_logs row is flushed first and needs the conversation.
ReservationLost(t) ==
  /\ stage[t] = "reserve"
  /\ row[Current(t)][epoch] \in Promised
  /\ kind[t] # "ai" \/ ctx[t] = epoch
  /\ Return(t)
  /\ UNCHANGED <<retries, epoch, row, cache, deadLetters, crashes,
                 historyVars>>

\* Stage SEND begins, outside any transaction.
SendReply(t) ==
  /\ stage[t] = "reserved"
  /\ calls' = [calls EXCEPT ![Current(t)][ctx[t]] = @ + 1]
  /\ tries' = [tries EXCEPT ![t] = 0]
  /\ Go(t, "send")
  /\ UNCHANGED <<pos, retries, ctx, kind, epoch, row, cache, deadLetters,
                 crashes, copies, billed, untrimmed, waived>>

\* Mutant of SendFails: the whole send is tried again.
SendFailsRetried(t) ==
  /\ Go(t, "reserved")
  /\ UNCHANGED <<kind, tries>>

\* ExternalServiceError out of the client.  Buttons fall back to plain text,
\* with attempts of its own; anything else leaves the reply unconfirmed.
SendFails(t) ==
  IF kind[t] = "buttons"
  THEN /\ kind' = [kind EXCEPT ![t] = "text"]
       /\ tries' = [tries EXCEPT ![t] = 0]
       /\ UNCHANGED stage
  ELSE /\ Go(t, "failed")
       /\ UNCHANGED <<kind, tries>>

\* 2xx: the customer has it and we know.
PostAccepted(t) ==
  /\ stage[t] = "send"
  /\ copies' = [copies EXCEPT ![Current(t)][ctx[t]] = @ + 1]
  /\ Go(t, "sent")
  /\ UNCHANGED <<pos, retries, ctx, kind, tries, epoch, row, cache,
                 deadLetters, crashes, calls, billed, untrimmed, waived>>

\* Mutant of PostTransient: one attempt too many.
PostTransientOffByOne(t) ==
  /\ stage[t] = "send"
  /\ \E d \in {0, 1} :
       copies' = [copies EXCEPT ![Current(t)][ctx[t]] = @ + d]
  /\ IF tries[t] < MaxAttempts
     THEN /\ tries' = [tries EXCEPT ![t] = @ + 1]
          /\ UNCHANGED <<stage, kind>>
     ELSE SendFails(t)
  /\ UNCHANGED <<pos, retries, ctx, epoch, row, cache, deadLetters, crashes,
                 calls, billed, untrimmed, waived>>

\* Timeout, reset connection, 429 or 5xx: the request may have been acted on
\* (d = 1) or not.  http_retry posts again until its attempts are used up.
PostTransient(t) ==
  /\ stage[t] = "send"
  /\ \E d \in {0, 1} :
       copies' = [copies EXCEPT ![Current(t)][ctx[t]] = @ + d]
  /\ IF tries[t] + 1 < MaxAttempts
     THEN /\ tries' = [tries EXCEPT ![t] = @ + 1]
          /\ UNCHANGED <<stage, kind>>
     ELSE SendFails(t)
  /\ UNCHANGED <<pos, retries, ctx, epoch, row, cache, deadLetters, crashes,
                 calls, billed, untrimmed, waived>>

\* Any other 4xx: refused for good.
PostRejected(t) ==
  /\ stage[t] = "send"
  /\ SendFails(t)
  /\ UNCHANGED <<pos, retries, ctx, epoch, row, cache, deadLetters, crashes,
                 historyVars>>

\* Stage CONFIRM.  An UPDATE by id: a deleted row matches nothing.
Confirm(t, status) ==
  row' = IF ctx[t] = epoch THEN [row EXCEPT ![Current(t)][epoch] = status]
                           ELSE row

ConfirmSent(t) ==
  /\ stage[t] = "sent"
  /\ Confirm(t, "sent")
  /\ Go(t, "after")
  /\ UNCHANGED <<pos, retries, ctx, kind, tries, epoch, cache, deadLetters,
                 crashes, historyVars>>

\* Mutant of ConfirmUnconfirmed: the failed send is recorded as sent.
ConfirmUnconfirmedAsSent(t) ==
  /\ stage[t] = "failed"
  /\ Confirm(t, "sent")
  /\ Return(t)
  /\ UNCHANGED <<retries, epoch, cache, deadLetters, crashes, historyVars>>

\* Mutant of ConfirmUnconfirmed: the reservation is released after a failure.
ConfirmUnconfirmedReleases(t) ==
  /\ stage[t] = "failed"
  /\ Confirm(t, "recorded")
  /\ Return(t)
  /\ UNCHANGED <<retries, epoch, cache, deadLetters, crashes, historyVars>>

ConfirmUnconfirmed(t) ==
  /\ stage[t] = "failed"
  /\ Confirm(t, "unconfirmed")
  /\ Return(t)
  /\ UNCHANGED <<retries, epoch, cache, deadLetters, crashes, historyVars>>

\* Record the welcome, drop the cached completion (best effort), announce.
AfterSend(t) ==
  /\ stage[t] = "after"
  /\ cache' \in {cache, IF kind[t] = "ai" THEN cache \ {Current(t)} ELSE cache}
  /\ Return(t)
  /\ UNCHANGED <<retries, epoch, row, deadLetters, crashes, historyVars>>

-----------------------------------------------------------------------------
(***************************************************************************)
(* Failures.                                                               *)
(***************************************************************************)

\* Mutant of RetryTask: the attempts are not counted.
RetryTaskForever(t) ==
  /\ stage[t] \in Running
  /\ retries[t] < MAX_RETRIES
  /\ EndAttempt(t, "queued")
  /\ UNCHANGED <<retries, epoch, row, cache, deadLetters, crashes,
                 historyVars>>

\* Any exception, the soft time limit included: autoretry_for=(Exception,).
RetryTask(t) ==
  /\ stage[t] \in Running
  /\ retries[t] < MAX_RETRIES
  /\ retries' = [retries EXCEPT ![t] = @ + 1]
  /\ EndAttempt(t, "queued")
  /\ UNCHANGED <<epoch, row, cache, deadLetters, crashes, historyVars>>

\* The last retry raised: LPUSH of the payload.
DeadLetter(t) ==
  /\ stage[t] \in Running
  /\ retries[t] >= MAX_RETRIES
  /\ deadLetters' = <<t>> \o deadLetters
  /\ untrimmed' = untrimmed + 1
  /\ EndAttempt(t, "parking")
  /\ UNCHANGED <<retries, epoch, row, cache, crashes, calls, copies, billed,
                 waived>>

\* LTRIM, a request of its own, by whichever task comes to it.
TrimDeadLetters(t) ==
  /\ stage[t] = "parking"
  /\ deadLetters' = Trimmed(deadLetters)
  /\ untrimmed' = 0
  /\ EndAttempt(t, "raised")
  /\ UNCHANGED <<retries, epoch, row, cache, crashes, calls, copies, billed,
                 waived>>

\* Redis fails before the push or between push and trim; the error is logged
\* and the original one raised.
DeadLetterFails(t) ==
  /\ \/ stage[t] \in Running /\ retries[t] >= MAX_RETRIES
     \/ stage[t] = "parking"
  /\ EndAttempt(t, "raised")
  /\ UNCHANGED <<retries, epoch, row, cache, deadLetters, crashes, historyVars>>

\* The failed task is acknowledged: nothing will run it again.
AckFailure(t) ==
  /\ stage[t] = "raised"
  /\ EndAttempt(t, "dead")
  /\ UNCHANGED <<retries, epoch, row, cache, deadLetters, crashes,
                 historyVars>>

\* The worker dies unacknowledged: the broker hands the delivery out again,
\* with the same retry count (acks_late, reject_on_worker_lost).
Crash(t) ==
  /\ stage[t] \in Running \cup {"parking", "raised"}
  /\ crashes < MaxCrashes
  /\ crashes' = crashes + 1
  /\ EndAttempt(t, "queued")
  /\ UNCHANGED <<retries, epoch, row, cache, deadLetters, historyVars>>

\* An operator deletes the conversation; its messages go with it.
DeleteConversation ==
  /\ epoch < MaxDeletes
  /\ \E m \in Messages : row[m][epoch] # "absent"
  /\ epoch' = epoch + 1
  /\ UNCHANGED <<taskVars, row, cache, deadLetters, crashes, historyVars>>

-----------------------------------------------------------------------------
TaskStep(t) ==
  \/ StartTask(t) \/ FinishTask(t) \/ SkipDuplicate(t) \/ RecordStale(t)
  \/ ClaimInbound(t)
  \/ LeaveToOperator(t) \/ DeclineQuietly(t) \/ BeginHandoff(t)
  \/ ReplyFixed(t) \/ ReplayGeneration(t) \/ StartGeneration(t)
  \/ Generate(t) \/ GenerationTransient(t) \/ GenerationFails(t)
  \/ ReserveReply(t) \/ ReservationLost(t) \/ SendReply(t)
  \/ PostAccepted(t) \/ PostTransient(t) \/ PostRejected(t)
  \/ ConfirmSent(t) \/ ConfirmUnconfirmed(t) \/ AfterSend(t)
  \/ RetryTask(t) \/ DeadLetter(t) \/ TrimDeadLetters(t) \/ DeadLetterFails(t)
  \/ AckFailure(t)

\* Every delivery has been dealt with.
Idle == (\A t \in Tasks : stage[t] \in Settled) /\ UNCHANGED vars

Next ==
  \/ \E t \in Tasks : TaskStep(t) \/ Crash(t)
  \/ DeleteConversation
  \/ Idle

Spec == Init /\ [][Next]_vars

\* The broker hands queued deliveries to workers and a running task runs on: it
\* finishes, raises, or is stopped by its time limits.  Which of them goes first
\* is not assumed: while deliveries are unsettled, some task takes a step.
FairSpec == Spec /\ WF_vars(\E t \in Tasks : TaskStep(t))

-----------------------------------------------------------------------------
(***************************************************************************)
(* The invariant the safety properties rest on.                            *)
(***************************************************************************)

Owns(t) == stage[t] \in Owning
Turn(t) == <<Current(t), ctx[t]>>

\* The claim makes its task the only one that acts on the turn: no duplicate
\* delivery, retry or redelivery ever owns the same turn at the same time.
OneOwnerPerTurn ==
  \A t, u \in Tasks : Owns(t) /\ Owns(u) /\ Turn(t) = Turn(u) => t = u

\* What the owner of a turn may rely on about its rows and its past, stage
\* by stage of _send_once and _generate_and_send.
OwnerKnows(t) ==
  LET m == Current(t)
      e == ctx[t]
  IN  /\ e <= epoch
      /\ row[m][e] # "absent"
      /\ stage[t] = "claimed" => billed[m][e] = 0
      /\ stage[t] = "generating" =>
           tries[t] < MaxAttempts /\ billed[m][e] <= tries[t]
      /\ stage[t] \in {"claimed", "generating", "reserve"} =>
           row[m][e] = "recorded"
      /\ stage[t] \in {"reserved", "send", "sent", "failed"} =>
           row[m][e] = "pending"
      /\ stage[t] = "reserved" => calls[m][e] = 0 /\ copies[m][e] = 0
      /\ stage[t] = "send" =>
           /\ tries[t] < MaxAttempts
           /\ copies[m][e] <= IF kind[t] = "buttons"
                              THEN tries[t] ELSE MaxAttempts + tries[t]
      /\ stage[t] = "sent" => copies[m][e] > 0

\* What the history of a turn says about its row.
HistoryAgrees(m, e) ==
  /\ e > epoch => row[m][e] = "absent"
  /\ row[m][e] = "absent" => billed[m][e] = 0
  /\ row[m][e] \in {"absent", "recorded"} =>
       calls[m][e] = 0 /\ copies[m][e] = 0
  /\ row[m][e] = "sent" => copies[m][e] > 0
  /\ calls[m][e] <= 1
  /\ billed[m][e] <= MaxAttempts
  /\ copies[m][e] <= 2 * MaxAttempts

Recorded(m) == \E e \in 0..epoch : row[m][e] # "absent"

\* What a task has passed, it or another task has recorded.
PassedIsRecorded(t) ==
  /\ stage[t] = "next" \/ Owns(t) =>
       \A i \in 1..Len(Payload[t]) : i < pos[t] => Recorded(Payload[t][i])
  /\ stage[t] = "acked" => \A i \in 1..Len(Payload[t]) : Recorded(Payload[t][i])

\* The inductive invariant: every turn has one owner, whose stage tells what
\* is in the database, and nothing is passed over on the way.
TurnInvariant ==
  /\ OneOwnerPerTurn
  /\ \A t \in Tasks : Owns(t) => OwnerKnows(t)
  /\ \A m \in Messages, e \in Incarnations : HistoryAgrees(m, e)
  /\ \A t \in Tasks : PassedIsRecorded(t)

-----------------------------------------------------------------------------
(***************************************************************************)
(* Properties.                                                             *)
(***************************************************************************)

\* Types: retries never pass MAX_RETRIES, a task works on a message of its
\* payload, and the dead-letter list is over its cap by no more than the
\* entries pushed since somebody last came to trim it.
TypeOK ==
  /\ stage \in [Tasks -> Stages]
  /\ pos \in [Tasks -> Nat \ {0}]
  /\ retries \in [Tasks -> 0..MAX_RETRIES]
  /\ ctx \in [Tasks -> Incarnations]
  /\ kind \in [Tasks -> Kinds]
  /\ tries \in [Tasks -> Nat]
  /\ epoch \in Incarnations
  /\ row \in [Messages -> [Incarnations -> RowStates]]
  /\ cache \subseteq Messages
  /\ deadLetters \in Seq(Tasks)
  /\ untrimmed \in Nat
  /\ Len(deadLetters) <= DeadLetterMax + untrimmed
  /\ crashes \in 0..MaxCrashes
  /\ calls \in Counter
  /\ copies \in Counter
  /\ billed \in Counter
  /\ waived \subseteq Messages
  /\ \A t \in Tasks : stage[t] \in Owning => pos[t] <= Len(Payload[t])

\* However often a delivery is repeated, retried or cut short by a crash,
\* and whatever an operator deletes meanwhile, _send_once calls the provider
\* at most once for a message of a conversation.
AtMostOneSend ==
  \A m \in Messages, e \in Incarnations : calls[m][e] <= 1

\* A claimed message is put to the model once: the provider charges for no more
\* completions than one call has attempts, and no redelivery, retry or crash
\* between claim and reservation buys another round.
BillBounded ==
  \A m \in Messages, e \in Incarnations : billed[m][e] <= MaxAttempts

\* Nothing reaches the customer before the reservation that announces it is
\* durable, so a crash in or after the send always leaves evidence.
EvidenceBeforeSend ==
  \A m \in Messages, e \in Incarnations :
    copies[m][e] > 0 => row[m][e] \in Promised

\* A reply recorded as sent is one the customer has.
SentIsTrue ==
  \A m \in Messages, e \in Incarnations :
    row[m][e] = "sent" => copies[m][e] > 0

\* The in-process repetition of an ambiguous POST is bounded: the attempts of
\* one send, and of its plain-text fallback.
CopiesBounded ==
  \A m \in Messages, e \in Incarnations : copies[m][e] <= 2 * MaxAttempts

\* A delivery is acknowledged only when every message in it has been
\* recorded: a failure at one message never drops the ones behind it.
AckedIsRecorded ==
  \A t \in Tasks : stage[t] = "acked" =>
    \A i \in 1..Len(Payload[t]) : Recorded(Payload[t][i])

\* Every delivery is dealt with in the end: acknowledged or given up after
\* its last retry.  No claim or reservation can leave one waiting forever.
EveryDeliverySettles == <>(\A t \in Tasks : stage[t] \in Settled)

\* The pipeline implements the contract customers and operators rely on.
Contract == INSTANCE ReplyContract
ImplementsContract == Contract!Spec

\* README.md: a message whose handling failed to the end is dead-lettered and
\* "visible and replayable instead of silent"; a delivery "is acknowledged only
\* after successful processing".  A message all of whose deliveries were
\* acknowledged as handled was answered, deliberately not answered, or has a
\* reservation that shows the reply it is owed.
LossIsVisible ==
  \A m \in Messages :
    LET carriers == {t \in Tasks :
                       \E i \in 1..Len(Payload[t]) : Payload[t][i] = m}
    IN  (\A t \in carriers : stage[t] = "acked") =>
          m \in waived \/ row[m][epoch] \in Promised
=============================================================================
