# TLA+ models of the WhatsApp AI bot

This directory holds a verification development for the bot: TLA+ modules
translated from the Python under `app/`, TLC configurations that check them on
small instances, and TLAPS proofs that hold for every instance. `PROJECT.json`
is the index: which definition models which lines, what each run checks, which
mutant shows that a property can fail, what was found.

Paths below are relative to the root of the repository.

## The system and its parts

| Part | State it keeps | Operations | What makes it hard | What makes it correct |
|---|---|---|---|---|
| Celery webhook task (`app/workers/`) | broker queue, retry counter, capped dead-letter list in Redis | take, retry, give up, acknowledge | late acknowledgement, redelivery after a lost worker, Redis down | every delivery settles; an acknowledged one is fully recorded |
| Webhook processor (`services/webhook_processor.py`, `stale_inbound.py`) | position in a payload | loop, staleness, dispatch | one message of a batch fails | nothing behind it is dropped |
| Chat service (`services/chat_service.py`, `repositories/message.py`) | inbound and reply rows, cached completion | claim, generate, reserve, send, confirm | concurrent duplicates, crash between any two stages, ambiguous sends, clients that ask again | one send and one call of the model per message; evidence before send |
| Session lifecycle (`services/session_service.py`, `repositories/conversation.py`) | one row per session: status, mode, welcome, goodbye, timer | open, revive, touch, claim, say goodbye, close | sweeps overlap with messages, operators and each other | one live session, one goodbye, a lost welcome stays owed |
| Operators' actions (`services/admin_service.py`, `reply_service.py`) | mode and owner of the row | take over, resume, reply, delete | a row read, then written | a person keeps the conversation until it is resumed |
| Quota (`core/quota.py`) | Redis counters, windows and blocks | check, charge, block, unblock, switch off | checked before, recorded after; Redis fails; a worker is lost in between | bounded overshoot of what is recorded, only real floods block, blocks run out |
| Webhook edge and channels (`routers/`, `channels/`) | settings, adapters | receive, queue or run inline, parse, route | several surfaces in one payload; own posts come back | private messages are not held up; no loop with itself |
| Comment invitations (`services/comment_invite.py`) | one reservation per comment | reserve, post, confirm | redelivered comments, failed and ambiguous posts | one call of the client per comment, none forgotten |
| Operator sessions (`services/auth_service.py`, `dependencies/deps.py`) | token hashes, expiries | login, resolve, revoke, purge | writes of `last_used_at` race revocations and purges | a revoked session opens nothing |
| Audit log (`services/audit_service.py`) | append-only rows | record, purge in batches | action and record in two transactions | the log is true, the successes of the admin router are on it |
| Analytics and prices (`repositories/analytics*.py`, `services/pricing_service.py`) | call log, price periods, one summary per day | query, roll up, back-fill, add and delete prices | late commits, two jobs on one day | a summary equals the live figures, up to the rounding of its cost; days add up |
| Push notifications (`services/push_dispatcher.py`, `notification_service.py`, `device_service.py`) | device rows and their locks | classify, fan out, retire, register, sign out | two fan-outs retire the same devices; a late rejection | fan-outs end; a sign-out is kept |
| Event bus and websocket (`core/events.py`, `routers/events.py`) | subscriptions | publish, upgrade, authenticate, subscribe, relay | subscribe and publish race; nobody waits for Redis to confirm | from the subscription on, the stream has no gap |
| Knowledge base (`services/ingestion.py`, `core/chunking.py`, `services/retrieval.py`) | files, documents, chunks | hash, read, split, index, prune, search | staff edit during ingestion | what the model sees comes from finished files, and is as clean as one pass makes it; a full run matches the folder |
| Answering (`services/intent.py`, `handoff.py`, `greeting.py`, `persona.py`, `price_policy.py`, `prompt_builder.py`, `utils/tokens.py`) | conversation rows, tag, cached completion | classify, route, prepare, generate, scan | classes overlap, replays, other messages and operators in between | the bot names no amount; a bargaining customer becomes a lead |
| Status receipts, configuration, command line, migrations, dashboard, mobile application | | | | not modelled, see below |

Deliveries come in through `routers/webhook.py` and `routers/meta_webhook.py`,
which queue them in Celery or run them in the process. A worker runs the payload
loop, which calls the chat service once per message; the chat service asks the
quota, reads the knowledge base, calls the model and shares the rows of
`conversations` and `messages` with the sweeper (started by beat every minute)
and with the operators' requests. There is no lock between them: Postgres
transactions, unique indexes and conditional UPDATEs are all the coordination
there is. Events, pushes and audit records follow an action; the analytics read
what the turns have written.

## Modules

| Module | What it is |
|---|---|
| `ReplyPipeline` | Queue to customer: task, payload loop, stages of a turn |
| `ReplyContract` | What the pipeline promises about one message; refined by `ReplyPipeline` |
| `ReplyPipelineProofs` | Theorems about `ReplyPipeline`, checked by TLAPS |
| `SessionLifecycle` | One customer's sessions: handlers, sweeps, operators |
| `SessionContract` | The state model of `docs/SESSION_LIFECYCLE.md`; refined by `SessionLifecycle` |
| `Quota` | The guard in front of the model, one Redis round trip per step |
| `WebhookDelivery` | Webhook routes, adapters, dispatch and comment invitations on every channel |
| `OperatorAccess` | Operator sessions, the guard of the admin routes, audit log and both purges |
| `Notifications` | Event bus, push fan-out with row locks, the dashboard's websocket |
| `AnalyticsRollup` | Call log, prices, live queries and the nightly summaries |
| `Knowledge` | Folder, ingestion script, index |
| `Answering` | Routing, history, prompt, checks of a reply; extends `Knowledge` |
| `SessionLifecycleProofs`, `QuotaProofs`, `WebhookDeliveryProofs`, `OperatorAccessProofs`, `NotificationsProofs`, `AnalyticsRollupProofs`, `AnsweringProofs` | Theorems about these modules, checked by TLAPS (`AnsweringProofs` is about `Knowledge` too) |
| `MC...` | Instances of each for TLC; the `.cfg` files are named after the run |

The modules share the system's joints rather than one state: a turn is spread
over four of them, each of which has the stages it needs in full and the others
as single steps. `ReplyPipeline` has delivery and retries, `SessionLifecycle`
the row of the conversation, `Quota` the admission, `Answering` the contents.
A step that belongs to another module is left open (nondeterministic) there, so
what a module shows does not depend on the details of the others.

### ReplyPipeline

A task is one delivery and carries a sequence of messages (`Payload`); two tasks
with the same message are a redelivery by Meta. `stage[t]` says where its
worker is:

    queued -> next -> claimed -> generating -> reserve -> reserved -> send
                                                  -> sent -> after -> next ... acked
                                                  -> failed ---------> next
    any running stage -> queued (retry, crash)
    running, out of retries -> parking -> raised -> dead

One step is one transaction or one external call. A dead letter is two of them,
a push (`DeadLetter`) and a cut of the list to its cap (`TrimDeadLetters`), and
either may be refused or lost (`DeadLetterFails`, `Crash`). `tries` counts the
requests of one call of a client: the POSTs of a send (`core/retry.py`) and the
attempts of a completion (`openai_retry`), each of which may have been acted on
although it timed out (`PostTransient`, `GenerationTransient`). `row[m][e]` joins the
inbound row of a message and the reply row reserved for it, which are unique by
`wa_message_id` and `reply_to_wa_message_id`: `absent`, `recorded` (inbound
only), `pending`, `sent`, `unconfirmed`. `e` counts deletions of the
conversation: a deletion takes the rows with it, so a task that loaded
incarnation `e` no longer finds them, while its own effects stay in the
history. An operator's deletion is thus `epoch' = epoch + 1`.

Left open, by nondeterminism: which answer a message gets (the classifiers and
the quota), whether Redis accepts a write, whether an ambiguous POST was acted
on, where a handler raises, when a worker dies. A retry starts the payload
again from its first message, as the code does. `calls`, `copies`, `billed`,
`untrimmed` and `waived` are history variables: the code does not read them.

### SessionLifecycle

The rows of one customer, a clock, and three kinds of process: the handler of
an inbound message, a sweep, an operator's request. What a handler or a request
keeps of the row it read (`mode`, `welcome`, `status`) is part of its own state
(`expire_on_commit=False`), so every later use of it is the stale value, as in
the code. SQL updates by id write only the columns they set. `set_mode` goes
through the ORM, which writes the mode only if it differs from the one loaded.
Duplicates and retries are the business of `ReplyPipeline` and are not repeated
here: a crash after the claim ends the handler.

`Channel` is the channel of the customer. Only WhatsApp and Messenger are swept
(`SweepableChannels`); a direct message of Instagram or a comment opens a
conversation that nothing ends (`docs/SESSION_LIFECYCLE.md:307-315`), so
`IdleIsClosed` is about the swept ones. Sessions, welcomes, closing messages and timer resets on outgoing messages have
their default setting (on). `greeted` and `goodbyes` are history.

### Quota

Workers check the messages of one customer. `history` and `repeats` are the
sorted sets `quota:msgs` and `quota:dup`, with the time a message was first
counted (`ZADD NX`), `blockUntil` the TTL of the block, `spend` and `tokens` the
counters of a day, `disabled` the operators' switch. A worker reads the clock
once and uses that value in later round trips, as the code does, so its cutoff
may lie before entries of others. `FailOpen` is Redis failing at any round trip.
Unblocking is two steps because it is two deletions. A completion and its record
are two steps as well, and the worker may be lost before the second. `spend` is
the counter the guard reads, not the provider's bill: the counter takes the
prices of the settings (`quota.py:435-440`), and attempts that timed out, failed
calls and lost workers are not in it. `firstSeen` and `told` are history.

### WebhookDelivery

A delivery carries items (messages, comments, echoes of the page's own posts) of
one or several surfaces. `deployment` fixes the settings for a behaviour: queue
or inline, enabled channels, invitations. `MetaChannelsFor` gives the adapters of
an envelope in the order of the registry, `Worklist` the places of the payload
they parse an event out of. `work[d]` is what an attempt has left of them; the
event it is at, `Current(d)`, is the place that is `Before` all the others: by
the order of the adapters, then by the order of the payload.
`Fail` is an exception in a task (retry from the start, in the end a dead
letter) or in the inline task (the rest of that adapter's events is dropped and
the next adapter runs). The turn of a comment is claim, reservation, post and
confirmation; the invitation follows it with a reservation of its own. Posting an
invitation is one call of the client, which makes 1 to `MaxAttempts` POSTs
(`http_retry`): `invitePosts` counts them, and a call that fails may have
delivered some (`InviteFails`). Items
grow stale at any time (`GrowOld`).

### OperatorAccess

`session` is the table of operator sessions by token; a request resolves its
token or presents the shared key, performs its action, then records it, in a
transaction of its own whose beginning is the date of the row (`BeginRecord`,
`Record`). What the action does elsewhere is not repeated; it takes effect or
fails. Login, logout and the device-token routes record nothing
(`ActUnrecorded`). `Resolve` writes `last_used_at` only, when the stored value is
older than the resolution; a row purged meanwhile is noticed by that write alone. The
session purge selects and deletes in two steps; the audit purge deletes a batch
per transaction up to a maximum of batches. `good`, `performed` and `ended` are
history.

### Notifications

Each event is handled by a dispatcher of its own: publish to Redis, classify
(which reads the mode of the conversation again), select the enabled devices in
the order of their ids, send one after the other, and retire rejected tokens in
the same transaction: `Flush` writes the object changed by an earlier rejection,
`Retire` is the conditional UPDATE. A rejection may hit a token that is alive,
since `INVALID_ARGUMENT` counts as one (`fcm.py:50-56`). `holder` has the row locks the UPDATEs take until the
commit. The application registers (which enables the row again) and signs out.
A websocket upgrades, authenticates, writes SUBSCRIBE (`Subscribe`), is told
`ready` (`Ready`) and relays; Redis processes the SUBSCRIBE before or after
`ready` (`Subscribed`).

### AnalyticsRollup

A row (a call or a message) carries the time its transaction began and becomes
visible when it commits. Jobs are the nightly run and a back-fill; each computes
a day with one SELECT on what is committed, upserts it, which waits for the lock
of the other job and rounds the cost to the digits of its column (`Grain`,
`Recorded`), and commits all its days at the end. `daily` holds the summaries;
`fresh` is history and has the days of which no row has come, gone or been
repriced since their summary was computed. A period of the dashboard starts a
number of days before now, hence in the middle of a day. Prices are periods with a
start; the queries `usage_totals`, `daily_usage` and `cost_by_model` are
operators on the rows.

### Knowledge and Answering

A text is the set of the word classes in it that some rule looks for (an amount,
a percentage, a fence marker, a placeholder, a greeting, bargaining, ...); which
Arabic or English words belong to a class is left to the tests of the
repository. Cleaning is one pass in the code, and what one pass leaves behind is
a class of its own: `Becomes` makes an amount of the second figure of a range, a
fence marker of a nested one, a placeholder of one hyphenated over a line.
Sizes are token counts. `chunk_text` is translated on lengths:
paragraphs are split into windows, packed, and given the overlap. The ingestion
script hashes, reads and indexes a file in separate steps; staff may edit
between any two. `search` returns chunks in any order, since similarity is the
embedding's business, and `retrieve` returns the hits before the first that exceeds the
limit.

A turn is received, goes to a person, the quota, fixed copy or the model; the
history is loaded and trimmed (`BuildHistory`), then the cache is asked, then the
excerpts are searched and joined with it; the completion is cached, scanned for amounts and sent. Other messages, operators, deletions,
crashes and failures of every external call fall in between.

## Runs

| Run | Result | What it shows |
|---|---|---|
| `pipeline_safety` | passes | A two-message delivery and a duplicate of its first message, a retry each, one lost worker, a dead-letter cap of one: `TypeOK`, `AtMostOneSend`, `EvidenceBeforeSend`, `SentIsTrue`, `AckedIsRecorded`, and under `FairSpec` `EveryDeliverySettles` |
| `pipeline_deletion` | passes | The same message twice, two requests per call of a client, one deletion: `TurnInvariant`, `CopiesBounded`, `BillBounded`, `ImplementsContract` |
| `pipeline_loss` | violated | `LossIsVisible`: a reply lost between claim and reservation leaves no trace |
| `session_safety` | passes | Two messages, two sweeps, one operator, one crash: `ClaimIsExclusive`, `WelcomeStaysOwed`, `HumanUntilResumed`, `ImplementsSessions`, and under `FairSpec` `IdleIsClosed` |
| `quota_safety` | passes | Two workers that may be lost, three messages (two alike), a redelivery, a Redis failure, an operator, the turn of a day: `SpendOvershootBounded`, `FloodIsReal`, `BlockIsNotRenewed` |
| `quota_silence` | violated | `SilenceWasExplained`: a customer blocked at the limit per minute is never told |
| `delivery_safety` | passes | Two page deliveries (a private message, a raising comment, a comment, the page's own echo) and a WhatsApp one, in every deployment, two POSTs per call: `InvitedOnce`, `ClaimedIsInvited`, `PrivateIsNotHeldUp`, `NeverAnswersItself` |
| `delivery_recipient` | violated | `AnsweredUnderComment`: the public answer is addressed to the commenter |
| `operators_safety` | passes | Two operators, one token, two requests of the admin router and one that logs out or registers a device, expiry, both purges: `RevokedStaysOut`, `AuditTellsTheTruth`, `SuccessIsOnRecord` |
| `notifications_safety` | passes | Two events, two devices, a dashboard, a registration or a sign-out beside them: `DisabledForCause`, `StreamHasNoGap`, `SignOutIsKept`, `NoCircularWait`, and under `FairSpec` `FanoutsEnd` |
| `analytics_safety` | passes | Two rows, two priced models, a nightly run beside a back-fill, costs that are rounded, two periods, late commits, price edits, a deletion, a failed run: `SummaryIsLive`, `DaysAddUp`, `NightsLeaveNoGap`, `PricesHoldUntilSuperseded` |
| `answering_safety` | passes | One file, two messages, four events: `TypeOK`, `ForcedRunIsCurrent`, `NoAmountFromBot`, `ExcerptsAreClean`, `HistoryIsLongestRecent`, `HaggledIsALead` |

A violated run checks one sentence of the repository's documentation or
comments against the code; `PROJECT.json` ("findings") quotes the sentence and
explains the counterexample. Each property of a passing run has a mutant of the
code's model that violates it. `TypeOK` is defined in every module. Only the pipeline (the
dead-letter list, which exceeds its cap by no more than the pushes since it was
last cut) and the answers (the sizes of the chunks) list it in a run; in the
others the remaining properties say more, and there it is proved.

### Bounds

Two deliveries are enough for every pairwise race, and the proofs show that the
number does not matter for safety. One retry and one crash give a task three
attempts, so an attempt can meet what two earlier ones left behind. One deletion
separates the turns that loaded the conversation before it from those after it.
`DeadLetterMax = 1` makes the list overflow with two given-up tasks. With
`MaxAttempts = 2` both outcomes of the retry decision occur, for a send and for a
completion; the run that has it loses no worker, which `pipeline_safety` does.

For sessions, `IdleTimeout` and `ReopenWindow` are one tick and the service
window two; three ticks cover idle, close, and reopening within and after the
window. Two rows are what one supersession needs. The customer is on Messenger, a swept
channel.

For the quota the windows are one or two ticks and the limits one or two
messages, so that several limits are reached by the same message and the day
turns within the run; the completions of `MCUsages` reach the budget by cost, by
tokens, or not at all. Deliveries have two POSTs per call, one retry, one crash
and one failure. Operators' tokens and the retention live for one tick, and batches
hold one row, so a purge needs several. Notifications have two devices and two
events, one that always notifies and one that depends on the mode, and one
action of the application, a sign-out or a registration, that falls anywhere
between the steps of both fan-outs; sequences of such actions are left to the
theorems, which bound nothing. Days are two ticks long with two of them finished
at the end, and rows may come in either half; costs are 1 and 3 and stored to
multiples of `Grain = 2`, so both are rounded. Periods of one and two days begin
on a midnight or in the middle of a day. The look-back is one day and the back-fill two, so the jobs overlap on
one day and differ on another. A row is a call of one model or a message; the
other model is only on the price list, so its prices must change nothing. Failed
calls and calls of several models are left to the theorems, which hold for any
`Contents`.

For answers, `MaxEvents` bounds everything that is not a step of the turn or the
script itself: arrivals, edits, executions, operators' steps, deletions, crashes
and failures, four in total. The first message takes every route, the second
bargains or asks for a person. `ChunkMax = 3` with an overlap and a separator of
one token makes a paragraph of six tokens split and overflow; two rows and ten
tokens make either limit of the history the tighter one.

Symmetry is used where the elements are interchangeable and no liveness is
checked (`quota_safety`, `operators_safety`, `analytics_safety`).
`CHECK_DEADLOCK FALSE` stands where a behaviour ends because its bounded inputs
are used up; the pipeline and session modules say when they may rest (`Idle`, `Rest`) and are
checked for deadlock.

### Fairness

`ReplyPipeline!FairSpec`: weak fairness of the steps of the tasks taken together.
The broker hands out what is queued and tasks have soft and hard time limits
(`workers/celery_app.py`), so while a delivery is unsettled some task goes on; no
order among them is assumed, and none is needed, because retries are counted.
Crashes are not fair and are bounded by `MaxCrashes`. `SessionLifecycle!FairSpec`: weak fairness of each
sweep, which beat emits every minute and carries to its end; nothing is assumed
about messages, operators or the clock. `Notifications!FairSpec`: weak fairness
of each dispatcher, whose steps are plain awaits of one task; failures, the
application and the websocket are not fair.

## Proofs

Each component has its theorems in a module of its own, except the ingestion,
which goes with the answers. They hold for any sets of deliveries, messages,
items, workers, operators, devices, files and texts, any payloads and any values
of the limits and bounds; the `ASSUME` of each module is all that is assumed of
its constants. Every safety invariant, every action property and every refinement
that a passing run checks is the conclusion of a theorem, and so is the type
invariant of every module; what is left to TLC is listed at the end.

| Module | Theorem | Statement |
|---|---|---|
| `ReplyPipelineProofs` | `TypeCorrect` | `Spec => []TypeOK` |
| | `TurnCorrect` | `Spec => []TurnInvariant` |
| | `SendsOnce` | `Spec => []AtMostOneSend` |
| | `BillsStayBounded` | `Spec => []BillBounded` |
| | `EvidenceFirst` | `Spec => []EvidenceBeforeSend` |
| | `SentTrue` | `Spec => []SentIsTrue` |
| | `CopiesStayBounded` | `Spec => []CopiesBounded` |
| | `AcksRecorded` | `Spec => []AckedIsRecorded` |
| | `Refinement` | `Spec => ImplementsContract` |
| `SessionLifecycleProofs` | `SessionTypes` | `Spec => []TypeOK` |
| | `SessionsConsistent` | `Spec => []SessionInvariant` |
| | `ExclusiveClaim` | `Spec => []ClaimIsExclusive` |
| | `WelcomeOwed` | `Spec => []WelcomeStaysOwed` |
| | `HumanKept` | `Spec => HumanUntilResumed` |
| | `SessionRefinement` | `Spec => ImplementsSessions` |
| `QuotaProofs` | `QuotaTypes` | `Spec => []TypeOK` |
| | `QuotaConsistent` | `Spec => [](TypeOK /\ QuotaInvariant)` |
| | `OvershootBounded` | `Spec => []SpendOvershootBounded` |
| | `FloodsAreReal` | `Spec => FloodIsReal` |
| | `BlocksEnd` | `Spec => BlockIsNotRenewed` |
| `WebhookDeliveryProofs` | `DeliveryTypes` | `Spec => []TypeOK` |
| | `DeliveriesConsistent` | `Spec => [](TypeOK /\ DeliveryInvariant)` |
| | `InviteOnlyOnce` | `Spec => []InvitedOnce` |
| | `NoneUninvited` | `Spec => []ClaimedIsInvited` |
| | `PrivateGoesFirst` | `Spec => []PrivateIsNotHeldUp` |
| | `NoEchoAnswered` | `Spec => []NeverAnswersItself` |
| `OperatorAccessProofs` | `AccessConsistent` | `Spec => [](TypeOK /\ AccessInvariant)` |
| | `RevokedIsFinal` | `Spec => []RevokedStaysOut` |
| | `AuditTrue` | `Spec => []AuditTellsTheTruth` |
| | `SuccessRecorded` | `Spec => []SuccessIsOnRecord` |
| `NotificationsProofs` | `NotificationsConsistent` | `Spec => []NotificationInvariant` |
| | `OnlyForCause` | `Spec => []DisabledForCause` |
| | `SignOutsKept` | `Spec => SignOutIsKept` |
| | `NoGap` | `Spec => []StreamHasNoGap` |
| | `NobodyStuck` | `Spec => []NoCircularWait` |
| | `NotificationTypes` | `Spec => []TypeOK` |
| `AnalyticsRollupProofs` | `RollupConsistent` | `Spec => []RollupInvariant` |
| | `NightsComplete` | `Spec => []NightsLeaveNoGap` |
| | `SummariesLive` | `SessionOffset = 0` implies `Spec => []SummaryIsLive` |
| | `DaysAlwaysAddUp` | `SessionOffset = 0` implies `Spec => []DaysAddUp` |
| | `RollupsGoOn` | `Spec => []RollupsDoNotDeadlock` |
| | `RollupTypes` | `Spec => []TypeOK` |
| | `PricesHold` | `Spec => PricesHoldUntilSuperseded` |
| `AnsweringProofs` | `AnsweringConsistent` | `Spec => [](IndexInvariant /\ TurnInvariant)` |
| | `NoAmountLeaves` | `Spec => []NoAmountFromBot` |
| | `HaggledBecomesLead` | `Spec => []HaggledIsALead` |
| | `ForcedRunCurrent` | `Spec => []ForcedRunIsCurrent` |
| | `PromptsClean` | `Spec => [](PromptsAreClean /\ ExcerptsAreClean)` |
| | `HistoryIsLongest` | `Spec => []HistoryIsLongestRecent` |
| | `AnsweringTyped` | `Spec => []TypeOK` |

Hardly any of the properties is inductive. What each proof adds:

*Pipeline.* The safety properties speak of counters, and that a task may send
once says nothing about who else may. `TurnInvariant` supplies the missing idea,
ownership. A task that has claimed a message in an incarnation owns that turn
until its handler returns or its attempt ends; (1) no two tasks own the same
turn, (2) the stage of the owner determines what the rows and the history of the
turn look like, (3) the row of a turn bounds its history even when nobody owns
it, (4) what a task has passed is recorded. Ownership is taken only from `absent`
and never again, since a row leaves `absent` for good; this is why a retry after
a crash cannot continue a turn, and also why it cannot answer it
(`pipeline_loss`). `HistoryAgrees` has the bill among the history of a turn: the
owner has been charged for no more completions than attempts it has made
(`OwnerKnows`), and a turn without an owner for no more than one call makes. The step lemmas separate what is common: `OwnStep` (the owner
moves on), `ReturnStep`, `EndStep`, `DeleteStep` all rest on `TurnStep`, which
says that a task that touches only its own turn leaves the other turns alone. The
refinement uses the same invariant: a POST happens under a pending row, and
`sent` is written only after a copy arrived.

*Sessions.* A claim is a mark on the row, and a sweep writes by id without
looking again. `SessionInvariant` says that a sweep at work holds an open row that
is marked and, before its goodbye, unthanked; that no two sweeps hold one row; and
that an open row without the mark is unthanked, which is what a later claim needs.
The claim may count on it because a revival clears the mark only of a closed row,
and a closed row is in nobody's hands. `OneLive` is the partial unique index. The
refinement maps the row to the states of the document; its obligations go action
by action (`StepKinds`, `SweepStep`).

*Quota.* The bound on the overshoot has to follow the workers: what a day has
recorded plus what the workers that passed the check may still record (`MaxCost`
for each, `CostGrows`) stays below the limit plus one completion per worker and
one per failure of Redis, since a check that cannot read the counter lets the
message through. It holds because the counter only takes what a worker past the
check brings, because a worker that is lost records nothing, and because days
that have not begun are free (`FutureIsFree`). A flood is real because the sorted
set holds times at which messages were first counted (`HistoryIsFirstSeen`). A
check past the block read the clock when there was no block
(`CheckedBeforeBlock`), so a block it sets later cannot extend one that was in
force when it asked.

*Delivery.* The reservation of an invitation is taken from `none`, once; the
delivery that took it is its only owner until its client has returned
(`InviteHasOneOwner`), and a call posts at most `MaxAttempts` times.
That a claimed comment is not forgotten is a statement about who still has it to
do (`InviteIsOwed`): an attempt that is queued or running with the comment before
it. Order enters through `PrivateIsBehind`: what lies behind an attempt was taken
up. `Before` is a total order on a worklist whose least element exists because
places are numbers (`LeastPlace`).

*Operators.* A request holds a token it has resolved; `BadStaysInvalid` says that
a token that was not good on arrival is still invalid, and that nobody past the
lookup holds one. Writes of `last_used_at` touch one column, a purge removes rows
and brings none back, and a token some request carries is not issued again. An audit row is written in
the step that answers its request and bears the time that request began its
record (`RowsMatchAnswers`); the routes that record nothing are no part of the
statement. And a purge under way has
a cutoff a retention period back (`CutoffIsOld`), so a success that is younger
stays.

*Notifications.* A fan-out works on what it selected earlier. `WrittenIsLocked`
says that the rows it has written are locked until it commits, so what it will
commit is still what it saw, and `RetiredForCause` that what it has marked was
rejected. Once a dashboard is subscribed, the
events Redis accepted are those before the subscription, those the dashboard has
been shown and those on their way to it, in this order (`SubscribedIsAsked`);
nothing is said of what lies between `ready` and a later subscription. That fan-outs do not wait in a circle is
an argument about the order of the ids: a dispatcher works off an ascending list,
so the device it wants lies behind all it has locked (`FanoutsInOrder`); the one
that holds the furthest lock of all therefore waits for nobody. The ids are
numbers and finitely many, which gives the furthest lock (`LastOne`).

*Analytics.* A summary passes through a job: computed, written, committed. Where it
is computed it equals the day's SELECT, and where it is written the SELECT with its
cost rounded, as long as no row of the day has come or gone (`HoldsAccurate` for
what a job has, `DailyIsAccurate` for the table). A job works off the last days before its own in order
(`OnCourse`), so at the end of a night every day of the look-back was written
(`Covers`). `SummariesLive` has the time zone of the database session as a
hypothesis, as the run has it: with another offset the live query cuts the days
elsewhere and the property is false. Two jobs may wait for each other's rows of
`analytics_daily`, but a job has written only days before those it has still to do
(`Forward`), so the one that wrote the last day in dispute goes on. This property,
`RollupsDoNotDeadlock`, is in no run: with a look-back of one day the nightly run
never holds a day while it waits for another, so a run of that size could not
violate it. A total is a fold over a function of rows; `TotalIsSum` shows that it
is a sum in the usual sense, `SumOfParts` that the parts of a disjoint partition
add up to the whole, both by induction on the number of rows. Rows are finitely
many, and none is of a day to come (`MoneyIsCounted`), so the whole days
of a period, its cut first day and today partition the calls, and so do their
models: `DaysAlwaysAddUp`, with the same hypothesis on the time zone. The cost of
a stored day is off by at most half a digit (`RoundedNear`), so the sum over the
days is off by at most half a digit for each (`SumsNear`); the live parts are exact. The same sums bound a summary (`SummaryTyped`):
the failed calls are a subset of the calls, which is the CHECK constraint that
would otherwise fail a whole night.

*Knowledge and answers.* While a forced run is under way in a folder nobody
edits, each listed file is still to do or settled, and what is about to be stored
is what the file holds (`RunIsOnCourse`); that the listing has every file is
`EveryFileListed`. Every chunk that is stored, or about to be, is cut from a page
of a file that was finished when it was read (`IndexedIsFinished`, over
`FinishedTexts`): this one holds in every run, edited or not, because the text
that is tested is the one that is cut up. The excerpts of a prompt are a
beginning of the hits (`RetrievedAreHits`), hence chunks of the index when the
prompt was built; each is traced to such a page (`PromptIsClean`), and an
amount, a fence marker or a placeholder in it to something in the page that one
pass does not find (`ExcerptOf`). For the turns,
`TurnInvariant` has `HaggledIsALead` of each turn and, for those of another time,
that a turn belongs to this conversation or an earlier one (`OthersSound`): a
deletion gives the conversation a new id, so no old turn is alive in it, and a
tag that was set is never cleared. The history is built by a fold that keeps what it
has while the budget lasts; after each position the part kept is the longest suffix
within the budget, or a single message, of the rows seen so far, and
the statement at the last position is `HistoryIsLongestRecent`. In the same way
each stage of the splitting (windows of a long paragraph, packing, overlap) carries
a bound on the sizes from one position to the next, which gives the chunks of
`AnsweringTyped`.

### Assumptions

Some constants carry an assumption the proofs need; each is what the code or its
environment provides. The operator of the shared key is nobody of the table, and
no token is the missing one (`AccessAssumption`). WhatsApp sends a business no
echoes of its own posts (`DeliveryAssumption`). No event has the name of the free
lock (`NotificationsAssumption`). The folder has finitely many files
(`KnowledgeAssumption`). An inbound message is neither a row of the bot nor of an
operator, and a message of an unsupported type is recorded by its type, without a
text of the customer's (`AnsweringAssumption`; `chat_service.py:917-925`). A
paragraph of a file has at least one token, since `chunk_text` skips the empty ones
(`ContentsAssumption`). There are finitely many workers and messages
(`QuotaAssumption`), devices (`NotificationsAssumption`) and rows of the call log
(`RollupAssumption`).

### Only model-checked

`EveryDeliverySettles`, `IdleIsClosed` and `FanoutsEnd` are liveness under fairness
and rest on TLC. So does what the three violated runs show: a counterexample is
found, not proved.

A fold over a sequence or a set is a recursive function, and that this function exists,
or that a property holds at every position, is in the library a theorem
with an operator as parameter, which the provers cannot instantiate. The proofs go
around it: naturals are well founded, so a set of naturals that has 0 and with each
number the next has all of them (`AllNumbers`); the recursive function is
built up to each number in this way (`SumExists`, and the section "Induction over
positions" of `AnsweringProofs`).

## Divergences

Behaviours the models have that differ from what a sentence of the repository
suggests, or that a maintainer may want to know of. The three findings of
`PROJECT.json` have runs; the others were met while modelling and are described
here. Several are trade-offs one may well accept.

*Pipeline.* `core/retry.py:77-88` asks the model again after a timeout, so a
completion may be bought more than once for a message and only the last be
recorded, which the cache of `core/idempotency.py` cannot prevent. `BillBounded` is
what holds. The dead letter is pushed and the list cut in two requests
(`workers/tasks.py:265-268`), and a failure between them is swallowed, so the
list may exceed `dead_letter_max_entries` until the next push cuts it. A retry
of a message that was claimed answers nothing (`pipeline_loss`).

*Sending.* `core/retry.py:63` repeats a POST whose outcome is unknown, so "never
sending two" (`services/chat_service.py:28-29`) holds for `_send_once`
(`AtMostOneSend`), not for the copies that may arrive (`CopiesBounded`).

*Sessions.* A conversation taken over between a sweep's claim and its close is
still closed (`docs/SESSION_LIFECYCLE.md:319` says otherwise). A turn that
loaded `mode=bot` answers after a takeover (`README.md:243-244`). Two first
messages handled at the same time are both welcomed (`README.md:19`). An
operator is told that the customer began another session when the same one was
revived (`docs/SESSION_LIFECYCLE.md:154`). A failed acknowledgement leaves the
conversation with a person and the customer untold (`docs/HANDOFF.md:166-169`).
A session claimed by a sweep that dies is never closed, since later sweeps skip
it: the exception in `IdleIsClosed`. A session closed between an operator's read
and write is written to while closed.

*Quota.* Two concurrent floods both notify; refusals for repeated text and for
the budget notify every time. The comment at `config.py:219` says that repeated
text blocks; it refuses only. Unblocking deletes the block and then the history,
and a message counted in between blocks again on the old burst.

*Delivery.* `services/comment_invite.py` says that nothing in it raises, but
errors of the database propagate. A stale Meta event is dropped without a
record. The setting `reply_to_comments` (`channels/config.py:105`) is read by
nothing. `services/comment_invite.py` reserves an invitation so that a comment gets
one, but the client below it repeats a private-reply POST whose outcome is unknown
(`channels/facebook_comments.py:88`, the same in `instagram_comments.py`), so up
to `retry_max_attempts` of them are sent; whether Meta drops the later ones is
its business. `InvitedOnce` is what the code ensures.

*Operators.* An action is committed before its audit record is, so a crash in
between leaves it unrecorded, where `docs/DEPLOYMENT.md:311` says that "Every
state-changing admin action writes a row". The
device-token routes (`routers/devices.py:32-72`) and login and logout change state
and write no row at all; `ACTION_LOGIN` and `ACTION_LOGOUT`
(`models/audit_log.py:33-34`) are used by nothing. `SuccessIsOnRecord` is what
holds: an action of the admin router whose request was answered with success is
on record. A disabled operator's sessions stop working at the next
lookup, which asks whether the operator is active; a request past it goes on.

*Notifications.* "ready" is sent when SUBSCRIBE has been written to the socket, not
when Redis has confirmed it, so an event published in between is lost although
the comment at `routers/events.py:123-124` says that a client that has seen "ready"
misses none from there on; after a reconnection likewise. `fcm.py:50-56` takes `INVALID_ARGUMENT`
for a dead token, so a malformed message turns off live ones. A rejection that is
being written when the device registers again turns it off, against the docstring
of `register` (`repositories/device_token.py`). A token rejected while the device signs out and registers again
may be turned off by the flush of the object loaded earlier
(`services/notification_service.py:225`), with no reason on the row. The counter
at line 226 is incremented whether or not the UPDATE found the row, unlike what
`repositories/device_token.py:86-88` describes.

*Analytics.* `created_at` is the start of a transaction, so a late commit lands
in a day already summed; the look-back heals it if it is within reach. An upsert
computes before it waits for the lock, so a back-fill may replace a fresher
summary until the next night. Back-dated and deleted prices and deleted
conversations change the live figures but not summaries beyond the look-back.
Stored costs are `NUMERIC(18,6)` and the live ones are not rounded before they are
shown, so the two differ by up to half a digit per day and column.
`daily_usage` buckets by the session's time zone, the roll-up by UTC; the runs, and
the theorems `SummariesLive` and `DaysAlwaysAddUp`, have them equal
(`SessionOffset = 0`).

*Knowledge and answers.* A chunk may exceed "Hard upper bound on tokens per
chunk" (`core/chunking.py`) by the overlap and the separator; `TypeOK` states the
bound that holds. A file is hashed and read separately, so an edit in between
that is later reverted is reported as unchanged while the index holds the other
text; a forced run repairs it (`ForcedRunIsCurrent`). Pruning uses the listing
made before the ingestion. Amounts are redacted in excerpts, but not in the
company's information and not in the history, and in one pass
(`price_policy.py:229-240`): of "price from 2000 to 3000" the second figure stays,
and so does a discount whose figure comes first, where "discount 10%" is hidden.
The fence is cleared in one pass too (`prompt_builder.py:135-140`), so a tag inside
a tag comes together, and a placeholder hyphenated over a line is joined after the
test for it. `ExcerptsAreClean` states what is left; a person still never gets an
amount from the bot, since the reply is scanned (`NoAmountFromBot`). The note about
a picture is appended after the history was trimmed and is in no limit, and what a
customer bargained in one turn is in the history of the later ones.
`asks_about_price` is used by nothing. With two messages at once, the one being
answered may be trimmed out of its own history. A top hit too large for the
budget ends retrieval, and the instructions then say that no document matched,
as they do after a failed search. Fixed copy is not scanned.

## Not modelled

Status receipts: one unconditional UPDATE of a column that no decision reads.
Wire formats, signature arithmetic and password hashing, the vocabularies of the
classifiers, embeddings: data without shared state, left to the tests; the models
have the decisions taken on them. The in-process HTTP rate limiter, the read-only
reports on messages and leads, configuration, logging, metrics and health, the
command line, migrations (their constraints are in the models), the dashboard
and the mobile application. Of the settings, those that select a path of a
modelled component are explored (`Deployments`, limits as CONSTANTS); switches
that turn a feature off have their default. Of the money: the provider's bill
beside the pipeline's count of completions, the second cost column of a summary,
which is treated like the first, and the rounding of the figures for display.

## Plan

Every safety property of the runs and every type invariant has its theorem. What
is left:

1. Hazards without a property (`PROJECT.json`): the operator's request that tests
   a status it loaded, the acknowledgement that fails after the mode is
   committed, receipts applied out of order.
2. The reports on messages and leads, and the text of the prompt, if they come to
   decide something.
3. Smaller proofs: the step lemmas of the sessions and of the roll-up repeat
   cases that could share a lemma.
