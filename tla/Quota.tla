-------------------------------- MODULE Quota --------------------------------
(***************************************************************************)
(* The cost and abuse guard in front of the model: app/core/quota.py and   *)
(* its caller ChatService._within_quota.  One customer writes Messages,    *)
(* Workers handle them concurrently, and every Redis round trip is a step: *)
(* the spend guard, the TTL of the block, the pipeline that counts the     *)
(* message, the block, the pipeline that counts the text.  The turn that   *)
(* is admitted calls the model and records the usage afterwards, unless    *)
(* its worker is lost.  Redis may fail at any round trip, and the guard    *)
(* then lets the message through.                                          *)
(* Keys expire with the clock; a member of a sorted set is a message with  *)
(* the time it was first counted.                                          *)
(***************************************************************************)
EXTENDS Integers, FiniteSets

CONSTANTS
  Workers, Messages,
  Text,             \* Text[m]: the fingerprint of m's text, or NoText
  NoText,
  FloodWindow, FloodLimit, BlockSeconds,
  DuplicateWindow, DuplicateLimit,
  Length, Limit,    \* of the windows "minute", "hour" and "day"
  SpendLimit, TokenLimit, Usages, MaxCost,
  WorkersDie,       \* whether a worker may be lost
  MaxTime, MaxRedeliveries, MaxFailures, MaxOps

Windows == {"minute", "hour", "day"}

ASSUME QuotaAssumption ==
  /\ {FloodWindow, FloodLimit, DuplicateWindow, DuplicateLimit} \subseteq Nat
  /\ {BlockSeconds, SpendLimit, TokenLimit} \subseteq Nat \ {0}
  /\ Length \in [Windows -> Nat \ {0}] /\ Limit \in [Windows -> Nat]
  /\ MaxCost \in Nat /\ Usages \subseteq [cost : 0 .. MaxCost, tokens : Nat]
  /\ {MaxTime, MaxRedeliveries, MaxFailures, MaxOps} \subseteq Nat
  /\ WorkersDie \in BOOLEAN
  /\ IsFiniteSet(Workers) /\ Workers # {} /\ IsFiniteSet(Messages)

VARIABLES
  clock,
  history,      \* quota:msgs, quota:dup: the time a message was counted, or -1
  repeats,
  blockUntil,   \* quota:blocked: when its TTL ends
  disabled,     \* quota:ai:disabled
  spend, tokens,\* quota:spend, quota:tokens, by day
  worker,
  unblocking,   \* an unblock request between its two deletes
  checked, redeliveries, failures, ops,
  firstSeen,    \* when a message was first counted: once a day, and per unblock
  told          \* what the customer was sent instead of an answer

vars == <<clock, history, repeats, blockUntil, disabled, spend, tokens, worker,
          unblocking, checked, redeliveries, failures, ops, firstSeen, told>>

Never == -1
Days == 0 .. MaxTime
Today == clock \div Length["day"]
Blocked == clock < blockUntil

\* message_for: the text a refusal is explained with, by its reason.
CopyFor(reason) ==
  CASE reason \in {"spend_exceeded", "tokens_exceeded", "ai_disabled"} -> "capacity"
    [] reason \in {"flooding", "spamming", "blocked"} -> "abuse"
    [] OTHER -> "rate_limit"
Copies == {"capacity", "abuse", "rate_limit"}
Idle == [pc |-> "idle"]
Checking == {"spend", "block", "count", "flood", "text"}

\* The members of a sorted set whose score lies in the last len seconds.
Recent(zset, now, len, keys) ==
  Cardinality({m \in keys : zset[m] # Never /\ zset[m] \in (now - len) .. now})

\* ZREMRANGEBYSCORE 0 .. cutoff, then ZADD NX.
Trimmed(zset, cutoff, keys) ==
  [m \in Messages |-> IF m \in keys /\ zset[m] <= cutoff THEN Never ELSE zset[m]]
Added(zset, m, now) ==
  IF zset[m] = Never THEN [zset EXCEPT ![m] = now] ELSE zset
AddedAgain(zset, m, now) == [zset EXCEPT ![m] = now]

SameText(m) == {n \in Messages : Text[n] = Text[m]}

Init ==
  /\ clock = 0 /\ blockUntil = 0 /\ disabled = FALSE /\ unblocking = FALSE
  /\ history = [m \in Messages |-> Never] /\ repeats = history
  /\ firstSeen = history
  /\ spend = [d \in Days |-> 0] /\ tokens = spend
  /\ worker = [w \in Workers |-> Idle]
  /\ checked = {} /\ redeliveries = 0 /\ failures = 0 /\ ops = 0 /\ told = {}

redisKeys == <<history, repeats, blockUntil, disabled, spend, tokens>>
counters == <<checked, redeliveries, failures, ops>>

\* The check of w ends: the message is refused, with or without a word, or it
\* may reach the model.
Refuse(w, reason, notify) ==
  /\ worker' = [worker EXCEPT ![w] = Idle]
  /\ told' = CASE notify -> told \cup {CopyFor(reason)}
              [] ~notify /\ told = {} -> {"nothing"}
              [] OTHER -> told
Admit(w) ==
  /\ worker' = [worker EXCEPT ![w] = [pc |-> "generate", msg |-> @.msg]]
  /\ UNCHANGED told
Goto(w, state) ==
  /\ worker' = [worker EXCEPT ![w] = state]
  /\ UNCHANGED told

\* A worker has claimed m and asks the quota.  A message is asked about again
\* only when its rows were deleted and Meta redelivers it.
Begin(w, m) ==
  /\ worker[w] = Idle
  /\ \A v \in Workers : worker[v].pc # "idle" => worker[v].msg # m
  /\ \/ m \notin checked /\ checked' = checked \cup {m} /\ UNCHANGED redeliveries
     \/ /\ m \in checked /\ redeliveries < MaxRedeliveries
        /\ redeliveries' = redeliveries + 1 /\ UNCHANGED checked
  /\ Goto(w, [pc |-> "spend", msg |-> m])
  /\ UNCHANGED <<clock, redisKeys, unblocking, failures, ops, firstSeen>>

\* The ceiling tested one completion too late.
CheckSpendLate(w) ==
  /\ worker[w].pc = "spend"
  /\ \/ spend[Today] > SpendLimit /\ Refuse(w, "spend_exceeded", TRUE)
     \/ spend[Today] <= SpendLimit /\ Goto(w, [worker[w] EXCEPT !.pc = "block"])
  /\ UNCHANGED <<clock, redisKeys, unblocking, counters, firstSeen>>

\* The switch and the two ceilings, read in one round trip.
CheckSpend(w) ==
  /\ worker[w].pc = "spend"
  /\ \/ disabled /\ Refuse(w, "ai_disabled", TRUE)
     \/ /\ ~disabled /\ spend[Today] >= SpendLimit
        /\ Refuse(w, "spend_exceeded", TRUE)
     \/ /\ ~disabled /\ spend[Today] < SpendLimit /\ tokens[Today] >= TokenLimit
        /\ Refuse(w, "tokens_exceeded", TRUE)
     \/ /\ ~disabled /\ spend[Today] < SpendLimit /\ tokens[Today] < TokenLimit
        /\ Goto(w, [worker[w] EXCEPT !.pc = "block"])
  /\ UNCHANGED <<clock, redisKeys, unblocking, counters, firstSeen>>

\* A blocked customer is counted all the same.
CheckBlockIgnored(w) ==
  /\ worker[w].pc = "block"
  /\ Goto(w, [pc |-> "count", msg |-> worker[w].msg, now |-> clock])
  /\ UNCHANGED <<clock, redisKeys, unblocking, counters, firstSeen>>

\* A block in force ends the check before anything is counted.
CheckBlock(w) ==
  /\ worker[w].pc = "block"
  /\ \/ Blocked /\ Refuse(w, "blocked", FALSE)
     \/ /\ ~Blocked
        /\ Goto(w, [pc |-> "count", msg |-> worker[w].msg, now |-> clock])
  /\ UNCHANGED <<clock, redisKeys, unblocking, counters, firstSeen>>

\* The windows a customer is over, and the first of them in the code's order.
Over(counts) == {v \in Windows : counts[v] > Limit[v]}
FirstOver(counts) ==
  CASE "minute" \in Over(counts) -> "minute"
    [] "minute" \notin Over(counts) /\ "hour" \in Over(counts) -> "hour"
    [] OTHER -> "day"

\* The ordinary limits: only the first message past the line is explained.
Ordinary(w, counts) ==
  \/ Over(counts) = {} /\ Admit(w)
  \/ /\ Over(counts) # {}
     /\ LET v == FirstOver(counts)
        IN Refuse(w, "rate_limited", counts[v] = Limit[v] + 1)

\* ZADD without NX: a redelivery is counted again, at the time of the redelivery.
CountMessageAgain(w) ==
  LET m == worker[w].msg
      now == worker[w].now
      added == AddedAgain(Trimmed(history, now - Length["day"], Messages), m, now)
      burst == Recent(added, now, FloodWindow, Messages)
      counts == [v \in Windows |-> Recent(added, now, Length[v], Messages)]
  IN /\ worker[w].pc = "count"
     /\ history' = added
     /\ firstSeen' = Added(firstSeen, m, now)
     /\ Goto(w, [pc |-> IF burst > FloodLimit THEN "flood" ELSE "text",
                 msg |-> m, now |-> now, counts |-> counts])
     /\ UNCHANGED <<clock, repeats, blockUntil, disabled, spend, tokens,
                    unblocking, counters>>

\* One MULTI: trim to a day, add the message once, count every window.
CountMessage(w) ==
  LET m == worker[w].msg
      now == worker[w].now
      kept == Trimmed(history, now - Length["day"], Messages)
      added == Added(kept, m, now)
      burst == Recent(added, now, FloodWindow, Messages)
      counts == [v \in Windows |-> Recent(added, now, Length[v], Messages)]
      next == [pc |-> IF burst > FloodLimit THEN "flood" ELSE "text",
               msg |-> m, now |-> now, counts |-> counts]
  IN /\ worker[w].pc = "count"
     /\ history' = added
     /\ firstSeen' = [firstSeen EXCEPT ![m] = IF kept[m] = Never THEN now ELSE @]
     /\ \/ kept[m] # Never /\ Admit(w)                       \* a redelivery
        \/ kept[m] = Never /\ burst > FloodLimit /\ Goto(w, next)
        \/ /\ kept[m] = Never /\ burst <= FloodLimit
           /\ IF Text[m] = NoText THEN Ordinary(w, counts) ELSE Goto(w, next)
     /\ UNCHANGED <<clock, repeats, blockUntil, disabled, spend, tokens,
                    unblocking, counters>>

\* SETEX; the customer is not told when a window was already exceeded.
BlockFlood(w) ==
  /\ worker[w].pc = "flood"
  /\ blockUntil' = clock + BlockSeconds
  /\ Refuse(w, "flooding", Over(worker[w].counts) = {})
  /\ UNCHANGED <<clock, history, repeats, disabled, spend, tokens, unblocking,
                 counters, firstSeen>>

\* The same text again and again: refused, without a block.  The set keeps
\* DuplicateWindow seconds, the count is over the last minute.
CountText(w) ==
  LET m == worker[w].msg
      now == worker[w].now
      added == Added(Trimmed(repeats, now - DuplicateWindow, SameText(m)), m, now)
  IN /\ worker[w].pc = "text" /\ Text[m] # NoText
     /\ repeats' = added
     /\ \/ /\ Recent(added, now, Length["minute"], SameText(m)) > DuplicateLimit
           /\ Refuse(w, "spamming", TRUE)
        \/ /\ Recent(added, now, Length["minute"], SameText(m)) <= DuplicateLimit
           /\ Ordinary(w, worker[w].counts)
     /\ UNCHANGED <<clock, history, blockUntil, disabled, spend, tokens,
                    unblocking, counters, firstSeen>>

\* Redis fails in the middle of a check: the message goes through.
FailOpen(w) ==
  /\ worker[w].pc \in Checking /\ failures < MaxFailures
  /\ failures' = failures + 1
  /\ Admit(w)
  /\ UNCHANGED <<clock, redisKeys, unblocking, checked, redeliveries, ops, firstSeen>>

\* The model has answered, after however many attempts of its client.  A usage
\* the provider did not report counts no tokens, and nothing is recorded.
Complete(w) ==
  /\ worker[w].pc = "generate"
  /\ \E u \in Usages :
       \/ u.tokens > 0 /\ Goto(w, [pc |-> "record", msg |-> worker[w].msg, usage |-> u])
       \/ u.tokens = 0 /\ Goto(w, Idle)
  /\ UNCHANGED <<clock, redisKeys, unblocking, counters, firstSeen>>

\* The model refuses or its attempts are used up.  Attempts that timed out may
\* be on the provider's bill; record_usage is not called.
GenerationFails(w) ==
  /\ worker[w].pc = "generate"
  /\ Goto(w, Idle)
  /\ UNCHANGED <<clock, redisKeys, unblocking, counters, firstSeen>>

\* record_usage: the completion that was returned, at the prices of the Settings,
\* is added to the day it is recorded on; with Redis gone it is dropped.
RecordUsage(w) ==
  LET u == worker[w].usage
  IN /\ worker[w].pc = "record"
     /\ \/ /\ spend' = [spend EXCEPT ![Today] = @ + u.cost]
           /\ tokens' = [tokens EXCEPT ![Today] = @ + u.tokens]
           /\ UNCHANGED failures
        \/ /\ failures < MaxFailures /\ failures' = failures + 1
           /\ UNCHANGED <<spend, tokens>>
     /\ Goto(w, Idle)
     /\ UNCHANGED <<clock, history, repeats, blockUntil, disabled, unblocking,
                    checked, redeliveries, ops, firstSeen>>

\* The worker dies; the redelivery finds the message claimed and does not ask.
LoseWorker(w) ==
  /\ WorkersDie /\ worker[w].pc # "idle"
  /\ Goto(w, Idle)
  /\ UNCHANGED <<clock, redisKeys, unblocking, counters, firstSeen>>

\* POST /admin/ai-toggle.
SetAiDisabled ==
  /\ ops < MaxOps /\ ops' = ops + 1
  /\ disabled' = ~disabled
  /\ UNCHANGED <<clock, history, repeats, blockUntil, spend, tokens, worker,
                 unblocking, checked, redeliveries, failures, told, firstSeen>>

\* POST /admin/customers/{wa_id}/unblock deletes the block ...
Unblock ==
  /\ ops < MaxOps /\ ops' = ops + 1
  /\ ~unblocking /\ Blocked
  /\ blockUntil' = clock /\ unblocking' = TRUE
  /\ UNCHANGED <<clock, history, repeats, disabled, spend, tokens, worker,
                 checked, redeliveries, failures, told, firstSeen>>

\* ... and, if there was one, the history.
ClearHistory ==
  /\ unblocking /\ unblocking' = FALSE
  /\ history' = [m \in Messages |-> Never]
  /\ UNCHANGED <<clock, repeats, blockUntil, disabled, spend, tokens, worker,
                 counters, told, firstSeen>>

Tick ==
  /\ clock < MaxTime /\ clock' = clock + 1
  /\ UNCHANGED <<redisKeys, worker, unblocking, counters, told, firstSeen>>

Next ==
  \/ \E w \in Workers :
       \/ \E m \in Messages : Begin(w, m)
       \/ CheckSpend(w) \/ CheckBlock(w) \/ CountMessage(w) \/ BlockFlood(w)
       \/ CountText(w) \/ FailOpen(w)
       \/ Complete(w) \/ GenerationFails(w) \/ RecordUsage(w) \/ LoseWorker(w)
  \/ SetAiDisabled \/ Unblock \/ ClearHistory \/ Tick

Spec == Init /\ [][Next]_vars
-----------------------------------------------------------------------------
(* Properties *)

\* Every key, counter and worker keeps its type.
WorkerStates ==
  [pc : {"idle"}] \cup [pc : {"spend", "block", "generate"}, msg : Messages]
    \cup [pc : {"record"}, msg : Messages, usage : Usages]
    \cup [pc : {"count"}, msg : Messages, now : Nat]
    \cup [pc : {"flood", "text"}, msg : Messages, now : Nat, counts : [Windows -> Nat]]
TypeOK ==
  /\ clock \in 0 .. MaxTime /\ blockUntil \in 0 .. (MaxTime + BlockSeconds)
  /\ {history, repeats, firstSeen} \subseteq [Messages -> Int]
  /\ disabled \in BOOLEAN /\ unblocking \in BOOLEAN
  /\ {spend, tokens} \subseteq [Days -> Nat]
  /\ worker \in [Workers -> WorkerStates]
  /\ checked \subseteq Messages /\ redeliveries \in 0 .. MaxRedeliveries
  /\ failures \in 0 .. MaxFailures /\ ops \in 0 .. MaxOps
  /\ told \subseteq Copies \cup {"nothing"}

\* The spend guard reads the total before the model is called and the usage is
\* added after it, so the ceiling is overshot, but by no more than one
\* completion per worker and one per failure of Redis: what a day has recorded,
\* with what the workers past the guard may still record, stays below the limit
\* plus that.  (The total is not the provider's bill: see RecordUsage.)
Charging == {w \in Workers : worker[w].pc \notin {"idle", "spend"}}
SpendOvershootBounded ==
  spend[Today] + MaxCost * Cardinality(Charging)
    < SpendLimit + MaxCost * (Cardinality(Workers) + failures)

\* A flood is real: a check takes a customer for flooding only when more distinct
\* messages than the limit were first counted within the window.  Redeliveries
\* within the day and checks whose clock was read earlier never make a flood.
FloodIsReal ==
  [][\A w \in Workers :
       worker[w].pc = "count" /\ worker'[w].pc = "flood" =>
         Cardinality({m \in Messages :
           /\ firstSeen'[m] # Never
           /\ firstSeen'[m] \in (worker[w].now - FloodWindow) .. worker[w].now})
             > FloodLimit]_vars

\* A block does not feed on the messages it refuses: it is renewed while in force
\* only by a check that had read the block's absence before it was set.
BlockIsNotRenewed ==
  [][Blocked /\ blockUntil' > blockUntil =>
       \E w \in Workers : /\ worker[w].pc = "flood"
                          /\ worker[w].now <= blockUntil - BlockSeconds]_vars

\* What quota.py says of a refusal: one explanation, then silence.  A message is
\* refused in silence only if this customer has been given an explanation.
SilenceWasExplained == "nothing" \notin told
=============================================================================
