--------------------------- MODULE AnalyticsRollup ---------------------------
(***************************************************************************)
(* Usage figures: the rows that customer turns write (ai_logs, messages),  *)
(* the temporal price list, the live queries of the dashboard and the      *)
(* nightly job that stores one summary per finished day.                   *)
(*                                                                         *)
(* A row carries the time at which its transaction began and becomes       *)
(* visible when it commits, so a row may appear in a day already summed    *)
(* up.  Every statement sees what was committed when it began; an upsert   *)
(* waits for the row lock of another transaction and then writes what it   *)
(* had computed before it waited.                                          *)
(***************************************************************************)
EXTENDS Integers, FiniteSets, Functions, Sequences

CONSTANTS
  Rows,           \* the rows turns will write
  Models,         \* language models, as ai_logs.model names them
  Contents,       \* what a row may hold: a message, a call or a failed call
  DefaultPrice,   \* the price of a call no price period covers
  Prices,         \* prices an administrator enters
  Starts,         \* instants from which an entered price holds
  Grain,          \* what the last digit of a stored cost stands for
  Jobs,           \* executions of the rollup task
  Nightly,        \* the one of them that beat starts
  Lookback,       \* ANALYTICS_ROLLUP_LOOKBACK_DAYS
  Backfill,       \* the look-back of a job started by hand
  Periods,        \* the days back an overview may reach
  DayLength,      \* ticks in a UTC day
  SessionOffset,  \* ticks the database session's time zone is ahead of UTC
  MaxTime,        \* bound: the last tick
  Arrivals,       \* bound: the instants at which turns begin a row
  MaxPriceEdits,  \* bound: price periods added
  MaxDeletes,     \* bound: conversations deleted
  MaxFailures     \* bound: executions that raise or lose their worker

ASSUME RollupAssumption ==
  /\ IsFiniteSet(Rows) /\ Nightly \in Jobs
  /\ Contents # {} /\ Contents \subseteq [kind : {"message", "call", "error"}, model : Models]
  /\ {Lookback, Backfill, DayLength, Grain} \cup Periods \subseteq Nat \ {0}
  /\ {MaxTime, MaxPriceEdits, MaxDeletes, MaxFailures, DefaultPrice} \subseteq Nat
  /\ Prices \subseteq Nat /\ Starts \subseteq Nat
  /\ SessionOffset \in 0 .. DayLength - 1

VARIABLES
  now,       \* the clock
  row,       \* rows of ai_logs and messages, with their transaction
  prices,    \* the table model_pricing
  daily,     \* the table analytics_daily
  job,       \* the executions of the rollup task
  nights,    \* history: the nights whose run has committed
  fresh,     \* history: the days unchanged since the last committed run read them
  lastTick,  \* the day of beat's last tick
  edits, deletes, failures

vars == <<now, row, prices, daily, job, nights, fresh, lastTick, edits, deletes, failures>>

-----------------------------------------------------------------------------
(***************************************************************************)
(* Days, prices and the live queries.                                      *)
(***************************************************************************)

Day(t) == t \div DayLength
Days == 0 .. Day(MaxTime)

\* The half-open range of one UTC day.
day_bounds(d) == d * DayLength .. (d + 1) * DayLength - 1

\* Mutant: the range stops a day early and leaves yesterday out.
complete_days_beforeShort(lookback) ==
  LET today == Day(now)
      first == IF lookback > today THEN 0 ELSE today - lookback
  IN  [i \in 1 .. today - first - 1 |-> first + i - 1]

\* The most recent finished days, oldest first (days before the first one hold
\* no rows and are left out).
complete_days_before(lookback) ==
  LET today == Day(now)
      first == IF lookback > today THEN 0 ELSE today - lookback
  IN  [i \in 1 .. today - first |-> first + i - 1]

\* Mutant: the newest period prices every call.
pricingNewest(r) ==
  LET periods == {p \in prices : p.model = row[r].model}
  IN  {p \in periods : \A q \in periods : q.from <= p.from}

\* A call is priced by the latest period that had begun when it was made.
pricing(r) ==
  LET periods == {p \in prices : p.model = row[r].model /\ p.from <= row[r].time}
  IN  {p \in periods : \A q \in periods : q.from <= p.from}

\* A failed call has no tokens; a call that succeeded has one unit of them.
Tokens(r) == IF row[r].kind = "call" THEN 1 ELSE 0
Cost(r) ==
  LET period == pricing(r)
  IN  Tokens(r) * (IF period = {} THEN DefaultPrice ELSE (CHOOSE p \in period : TRUE).price)

Committed == {r \in Rows : row[r].at = "kept"}
Logs == {r \in Committed : row[r].kind # "message"}
MessagesKept == {r \in Committed : row[r].kind = "message"}
Total(f) == FoldFunction(+, 0, f)

Since(S, t) == {r \in S : row[r].time >= t}
Figures(logs, messages) ==
  [requests |-> Cardinality(logs),
   errors |-> Cardinality({r \in logs : row[r].kind = "error"}),
   tokens |-> Total([r \in logs |-> Tokens(r)]),
   cost |-> Total([r \in logs |-> Cost(r)]),
   messages |-> Cardinality(messages)]

\* Mutant: the first instant of the period is left out.
usage_totalsAfter(since) == Figures(Since(Logs, since + 1), {})

usage_totals(since) == Figures(Since(Logs, since), {})

cost_by_model(since) ==
  [m \in {row[r].model : r \in Since(Logs, since)} |->
     Figures({r \in Since(Logs, since) : row[r].model = m}, {})]

\* date_trunc buckets by the day of the session's time zone.
daily_usage(since) ==
  LET local(r) == Day(row[r].time + SessionOffset)
      shown == Since(Committed, since)
  IN  [d \in {local(r) : r \in shown} |->
         Figures({r \in Since(Logs, since) : local(r) = d},
                 {r \in Since(MessagesKept, since) : local(r) = d})]

\* The SELECT of the rollup, over the day's range.
Summary(d) ==
  Figures({r \in Logs : row[r].time \in day_bounds(d)},
          {r \in MessagesKept : row[r].time \in day_bounds(d)})

\* The cost column keeps six decimals: what is stored is the nearest value it
\* has, the upper one when two are as near.
Rounded(cost) == ((2 * cost + Grain) \div (2 * Grain)) * Grain
Recorded(figures) == [figures EXCEPT !.cost = Rounded(@)]

-----------------------------------------------------------------------------
(***************************************************************************)
(* The state.                                                              *)
(***************************************************************************)

NoSummary == [stored |-> FALSE]
Stored(figures) == [stored |-> TRUE, figures |-> figures]

\* History: the rows of days D have changed since a run read them.
Touch(D) ==
  /\ fresh' = fresh \ D
  /\ job' = [j \in Jobs |-> [job[j] EXCEPT !.fresh = @ \ D]]

NoRow == [at |-> "none", time |-> 0, kind |-> "message", model |-> CHOOSE m \in Models : TRUE]
Row(at, c) == [at |-> at, time |-> now, kind |-> c.kind, model |-> c.model]
NoneWritten == [d \in Days |-> NoSummary]
Idle == [at |-> "idle", night |-> 0, todo |-> <<>>, computed |-> NoSummary,
         written |-> NoneWritten, fresh |-> {}]
Ended(j) == IF j = Nightly THEN Idle ELSE [Idle EXCEPT !.at = "done"]

Init ==
  /\ now = 0
  /\ row = [r \in Rows |-> NoRow]
  /\ prices = {}
  /\ daily = NoneWritten
  /\ job = [j \in Jobs |-> Idle]
  /\ nights = {} /\ fresh = {}
  /\ lastTick = 0
  /\ edits = 0 /\ deletes = 0 /\ failures = 0

Tick ==
  /\ now < MaxTime
  /\ now' = now + 1
  /\ UNCHANGED <<row, prices, daily, job, nights, fresh, lastTick, edits, deletes, failures>>

-----------------------------------------------------------------------------
(***************************************************************************)
(* Turns and administrators.                                               *)
(***************************************************************************)

\* A transaction that logs a call or a message begins; created_at is its start.
BeginRow(r) ==
  /\ row[r].at = "none" /\ now \in Arrivals
  /\ \E c \in Contents : row' = [row EXCEPT ![r] = Row("open", c)]
  /\ UNCHANGED <<now, prices, daily, job, nights, fresh, lastTick, edits, deletes, failures>>

CommitRow(r) ==
  /\ row[r].at = "open"
  /\ row' = [row EXCEPT ![r].at = "kept"]
  /\ Touch({Day(row[r].time)})
  /\ UNCHANGED <<now, prices, daily, nights, lastTick, edits, deletes, failures>>

\* Deleting a conversation takes its messages with it and keeps its calls.
DeleteConversation(r) ==
  /\ row[r].at = "kept" /\ row[r].kind = "message"
  /\ deletes < MaxDeletes
  /\ deletes' = deletes + 1
  /\ row' = [row EXCEPT ![r].at = "gone"]
  /\ Touch({Day(row[r].time)})
  /\ UNCHANGED <<now, prices, daily, nights, lastTick, edits, failures>>

Repriced(m, from) == {Day(row[r].time) : r \in {s \in Logs : row[s].model = m /\ row[s].time >= from}}

\* A period may begin now, in the past or in the future; a second one for the
\* same model and instant is refused (409) and nothing is written.
AddPricing(m, price, from) ==
  /\ edits < MaxPriceEdits
  /\ \A p \in prices : ~ (p.model = m /\ p.from = from)
  /\ edits' = edits + 1
  /\ prices' = prices \cup {[model |-> m, from |-> from, price |-> price]}
  /\ Touch(Repriced(m, from))
  /\ UNCHANGED <<now, row, daily, nights, lastTick, deletes, failures>>

DeletePricing(p) ==
  /\ p \in prices
  /\ prices' = prices \ {p}
  /\ Touch(Repriced(p.model, p.from))
  /\ UNCHANGED <<now, row, daily, nights, lastTick, edits, deletes, failures>>

-----------------------------------------------------------------------------
(***************************************************************************)
(* The rollup task.                                                        *)
(***************************************************************************)

\* The days are chosen when the task runs, not when it was queued.
Start(j, lookback) ==
  /\ job' = [job EXCEPT ![j] = [Idle EXCEPT !.at = "running", !.night = Day(now),
                                            !.todo = complete_days_before(lookback)]]
  /\ UNCHANGED <<now, row, prices, daily, nights, fresh, edits, deletes, failures>>

\* Beat's nightly tick; a night on which beat is down simply has none.
BeatTick ==
  /\ job[Nightly].at = "idle"
  /\ lastTick < Day(now)
  /\ lastTick' = Day(now)
  /\ Start(Nightly, Lookback)

\* A backfill, started by hand; each is one execution and its retries.
BackfillStart(j) ==
  /\ j # Nightly
  /\ job[j].at = "idle"
  /\ Start(j, Backfill)
  /\ UNCHANGED lastTick

\* The SELECT of rollup_day, on what is committed now.
Compute(j) ==
  /\ job[j].at = "running" /\ job[j].todo # <<>>
  /\ job' = [job EXCEPT ![j].at = "computed",
                        ![j].computed = Stored(Summary(Head(job[j].todo))),
                        ![j].fresh = @ \cup {Head(job[j].todo)}]
  /\ UNCHANGED <<now, row, prices, daily, nights, fresh, lastTick, edits, deletes, failures>>

\* Mutant: ON CONFLICT DO NOTHING.
UpsertOnce(j) ==
  LET d == Head(job[j].todo)
  IN  /\ job[j].at = "computed"
      /\ \A k \in Jobs \ {j} : ~ job[k].written[d].stored
      /\ job' = [job EXCEPT ![j].at = "running", ![j].todo = Tail(@),
                            ![j].written[d] = IF daily[d].stored THEN @
                                              ELSE Stored(Recorded(job[j].computed.figures)),
                            ![j].computed = NoSummary]
      /\ UNCHANGED <<now, row, prices, daily, nights, fresh, lastTick, edits, deletes, failures>>

\* The upsert, once no other transaction holds the day's row.
Upsert(j) ==
  LET d == Head(job[j].todo)
  IN  /\ job[j].at = "computed"
      /\ \A k \in Jobs \ {j} : ~ job[k].written[d].stored
      /\ job' = [job EXCEPT ![j].at = "running", ![j].todo = Tail(@),
                            ![j].written[d] = Stored(Recorded(job[j].computed.figures)),
                            ![j].computed = NoSummary]
      /\ UNCHANGED <<now, row, prices, daily, nights, fresh, lastTick, edits, deletes, failures>>

\* One commit for all the days.
Commit(j) ==
  /\ job[j].at = "running" /\ job[j].todo = <<>>
  /\ daily' = [d \in Days |-> IF job[j].written[d].stored THEN job[j].written[d] ELSE daily[d]]
  /\ fresh' = (fresh \ {d \in Days : job[j].written[d].stored}) \cup job[j].fresh
  /\ nights' = IF j = Nightly THEN nights \cup {job[j].night} ELSE nights
  /\ job' = [job EXCEPT ![j] = Ended(j)]
  /\ UNCHANGED <<now, row, prices, lastTick, edits, deletes, failures>>

\* An execution raises or loses its worker: its transaction is rolled back, and
\* it is retried or, after the last retry, given up until the next night.
Abandon(j) ==
  /\ job[j].at \in {"running", "computed"}
  /\ failures < MaxFailures
  /\ failures' = failures + 1
  /\ \/ job' = [job EXCEPT ![j] = [Idle EXCEPT !.at = "retry"]]
     \/ job' = [job EXCEPT ![j] = Ended(j)]
  /\ UNCHANGED <<now, row, prices, daily, nights, fresh, lastTick, edits, deletes>>

RetryTask(j) ==
  /\ job[j].at = "retry"
  /\ Start(j, IF j = Nightly THEN Lookback ELSE Backfill)
  /\ UNCHANGED lastTick

Next ==
  \/ Tick
  \/ \E r \in Rows : BeginRow(r) \/ CommitRow(r) \/ DeleteConversation(r)
  \/ \E m \in Models, price \in Prices, from \in Starts : AddPricing(m, price, from)
  \/ \E p \in prices : DeletePricing(p)
  \/ BeatTick
  \/ \E j \in Jobs : \/ BackfillStart(j) \/ Compute(j) \/ Upsert(j)
                     \/ Commit(j) \/ Abandon(j) \/ RetryTask(j)

Spec == Init /\ [][Next]_vars
-----------------------------------------------------------------------------
(***************************************************************************)
(* Properties.                                                             *)
(***************************************************************************)

Summaries ==
  {s \in [stored : {TRUE},
          figures : [requests : 0..Cardinality(Rows), errors : 0..Cardinality(Rows),
                     tokens : 0..Cardinality(Rows), cost : Nat,
                     messages : 0..Cardinality(Rows)]] :
     s.figures.errors <= s.figures.requests}

\* Every variable has its type, and a stored or waiting summary satisfies the
\* CHECK constraints of analytics_daily (no more errors than requests).
TypeOK ==
  /\ now \in 0..MaxTime
  /\ \A r \in Rows : row[r] \in [at : {"none", "open", "kept", "gone"}, time : 0..now,
                                 kind : {"message", "call", "error"}, model : Models]
  /\ prices \subseteq [model : Models, from : Starts, price : Prices]
  /\ \A d \in Days : daily[d] = NoSummary \/ daily[d] \in Summaries
  /\ \A j \in Jobs :
       /\ job[j].at \in {"idle", "running", "computed", "retry", "done"}
       /\ \A i \in DOMAIN job[j].todo : job[j].todo[i] \in 0 .. Day(now) - 1
       /\ job[j].computed = NoSummary \/ job[j].computed \in Summaries
       /\ \A d \in Days : job[j].written[d] = NoSummary \/ job[j].written[d] \in Summaries
       /\ job[j].fresh \subseteq Days
  /\ nights \subseteq Days /\ fresh \subseteq Days /\ lastTick \in Days
  /\ edits \in 0..MaxPriceEdits /\ deletes \in 0..MaxDeletes /\ failures \in 0..MaxFailures

\* What the dashboard's daily figures show for a day; a period reaches a number
\* of days back from now, so its first day is usually cut short.
since(n) == now - n * DayLength
Live(d, n) ==
  LET days == daily_usage(since(n))
  IN  IF d \in DOMAIN days THEN days[d] ELSE Figures({}, {})
Whole(d, n) == d * DayLength >= since(n)

\* A stored summary is what the daily figures of any period that holds the whole
\* day show, with the cost to the digits of its column, for as long as no row of
\* the day has come, gone or been repriced since it was computed: whatever was
\* retried, run twice or run beside a backfill (the figures of a re-run replace
\* the earlier ones, and midnight belongs to one day).
SummaryIsLive ==
  \A d \in fresh : /\ daily[d].stored
                   /\ \A n \in Periods :
                        Whole(d, n) => daily[d].figures = Recorded(Live(d, n))

\* The days add up: the summaries of a period's whole finished days and the
\* daily figures of its first day, where it is cut, and of today are the
\* overview's totals, the costs to within half a digit a summary; and the costs
\* by model are the same money exactly.
DaysAddUp ==
  \A n \in Periods :
    LET past == {d \in 0 .. Day(now) - 1 : Whole(d, n)}
        ends == {d \in 0 .. Day(now) : ~ Whole(d, n) \/ d = Day(now)}
        requests == [d \in past \cup ends |-> IF d \in past THEN daily[d].figures.requests
                                             ELSE Live(d, n).requests]
        cost == [d \in past \cup ends |-> IF d \in past THEN daily[d].figures.cost
                                         ELSE Live(d, n).cost]
        models == cost_by_model(since(n))
        modelCost == [m \in DOMAIN models |-> models[m].cost]
        totals == usage_totals(since(n))
    IN  past \subseteq fresh =>
          /\ Total(requests) = totals.requests
          /\ 2 * Total(cost) - 2 * totals.cost
                \in -(Grain * Cardinality(past)) .. Grain * Cardinality(past)
          /\ Total(modelCost) = totals.cost

\* A night whose run committed leaves none of its look-back without a summary,
\* and no day has one before it is over.
NightsLeaveNoGap ==
  /\ \A n \in nights, d \in Days : d < n /\ n - d <= Lookback => daily[d].stored
  /\ \A d \in Days : daily[d].stored => d < Day(now)

\* An upsert waits for an execution whose transaction has written the same day;
\* while one waits, one that has written a day goes on: a nightly run and a
\* backfill never wait for each other (both work oldest day first).
Waits(j) ==
  /\ job[j].at = "computed"
  /\ \E k \in Jobs \ {j} : job[k].written[Head(job[j].todo)].stored
RollupsDoNotDeadlock ==
  (\E j \in Jobs : Waits(j)) =>
    \E k \in Jobs : ~ Waits(k) /\ \E d \in Days : job[k].written[d].stored

\* "Calls made before effective_from keep using the previous price": the cost
\* of a logged call changes only when a period of its model that had begun by
\* then is entered or removed.
PricesHoldUntilSuperseded ==
  [][\A r \in Logs :
       Cost(r)' # Cost(r) =>
         \E p \in (prices \cup prices') \ (prices \cap prices') :
           p.model = row[r].model /\ p.from <= row[r].time]_<<row, prices>>

=============================================================================
