------------------------ MODULE AnalyticsRollupProofs ------------------------
(***************************************************************************)
(* The nightly summaries, for any rows, prices, jobs and look-backs: a     *)
(* summary is what the live query shows until its day changes, a night     *)
(* that committed leaves no gap, the days add up to the totals, jobs do    *)
(* not wait for each other in a circle, and the price list never rewrites  *)
(* what a call cost before a period began.                                 *)
(* A total is a fold over a function; that it is the sum of its parts is   *)
(* shown by induction on the number of rows, as the absence of a least     *)
(* counterexample.                                                         *)
(***************************************************************************)
EXTENDS AnalyticsRollup, FiniteSetTheorems, SequenceTheorems, WellFoundedInduction, TLAPS

-----------------------------------------------------------------------------
(***************************************************************************)
(* The inductive invariant.                                                *)
(***************************************************************************)

\* What may stand in analytics_daily or wait to be written there.
IsSummary(s) ==
  \/ s = NoSummary
  \/ s \in [stored : {TRUE}, figures : {s.figures}]

IsJob(J) ==
  /\ J \in [at : {"idle", "running", "computed", "retry", "done"}, night : Nat,
            todo : Seq(Nat), computed : {J.computed}, written : {J.written},
            fresh : SUBSET Days]
  /\ IsSummary(J.computed)
  /\ J.written = [d \in Days |-> J.written[d]]
  /\ \A d \in Days : IsSummary(J.written[d])

Running(J) == J.at \in {"running", "computed"}

\* A run has left the last days before its own, in order, and has written only
\* days that were over when it began.
OnCourse(J) ==
  /\ Running(J) => /\ J.night <= Day(now)
                   /\ Len(J.todo) <= J.night
                   /\ \A i \in 1 .. Len(J.todo) : J.todo[i] = J.night - Len(J.todo) + i - 1
  /\ J.at = "computed" => J.todo # <<>> /\ J.computed.stored
  /\ \A d \in Days : J.written[d].stored => Running(J) /\ d < J.night

\* What a run has read of a day that has not changed since is the day's SELECT;
\* it is about to be written or written, with the cost the column keeps.
HoldsAccurate(J) ==
  \A d \in J.fresh :
    IF J.at = "computed" /\ d = Head(J.todo)
      THEN J.computed.figures = Summary(d)
      ELSE J.written[d].stored /\ J.written[d].figures = Recorded(Summary(d))

\* A day of the nightly look-back is written or still to do.
Covers(J) ==
  Running(J) =>
    \A d \in Days : d < J.night /\ J.night - d <= Lookback =>
      J.written[d].stored \/ d >= J.night - Len(J.todo)

JobIsSound(j, J) ==
  IsJob(J) /\ OnCourse(J) /\ HoldsAccurate(J) /\ (j = Nightly => Covers(J))

StateIsTyped ==
  /\ now \in Nat /\ now <= MaxTime
  /\ row \in [Rows -> [at : {"none", "open", "kept", "gone"}, time : Nat,
                       kind : {"message", "call", "error"}, model : Models]]
  /\ daily = [d \in Days |-> daily[d]]
  /\ \A d \in Days : IsSummary(daily[d])
  /\ job = [j \in Jobs |-> job[j]]
  /\ nights \in SUBSET Nat

JobsAreSound == \A j \in Jobs : JobIsSound(j, job[j])
DailyIsAccurate ==
  /\ fresh \subseteq Days
  /\ \A d \in fresh : daily[d].stored /\ daily[d].figures = Recorded(Summary(d))

RollupInvariant ==
  /\ StateIsTyped
  /\ JobsAreSound
  /\ DailyIsAccurate
  /\ NightsLeaveNoGap

-----------------------------------------------------------------------------
(***************************************************************************)
(* Days.                                                                   *)
(***************************************************************************)

\* The constants, one by one.
LEMMA Constants ==
  /\ DayLength \in Nat /\ DayLength > 0 /\ Lookback \in Nat \ {0} /\ Backfill \in Nat \ {0}
  /\ MaxTime \in Nat /\ Nightly \in Jobs
  /\ Grain \in Nat \ {0} /\ Periods \subseteq Nat
  /\ \A c \in Contents : c.kind \in {"message", "call", "error"} /\ c.model \in Models
  /\ (CHOOSE m \in Models : TRUE) \in Models
<1>1. {Lookback, Backfill, DayLength, Grain} \cup Periods \subseteq Nat \ {0} /\ Nightly \in Jobs
      /\ MaxTime \in Nat
  BY RollupAssumption
<1>2. /\ Contents # {}
      /\ Contents \subseteq [kind : {"message", "call", "error"}, model : Models]
  BY RollupAssumption
<1>3. \A c \in Contents : c.kind \in {"message", "call", "error"} /\ c.model \in Models
  BY <1>2
<1>4. \E m : m \in Models
  BY <1>2, <1>3
<1>5. (CHOOSE m \in Models : TRUE) \in Models
  BY <1>4
<1> QED
  BY <1>1, <1>3, <1>5

\* Multiples grow with the factor.
LEMMA Multiples ==
  ASSUME NEW a \in Nat, NEW b \in Nat, NEW n \in Nat, a <= b
  PROVE  a * n \in Nat /\ b * n \in Nat /\ a * n <= b * n
<1>1. PICK k \in Nat : b = a + k
  <2>1. b - a \in Nat /\ b = a + (b - a)
    OBVIOUS
  <2> QED
    BY <2>1
<1>2. b * n = a * n + k * n /\ k * n \in Nat /\ a * n \in Nat
  BY <1>1
<1> QED
  BY <1>2

\* A tick lies in the day it is divided into.
LEMMA DayRange ==
  ASSUME NEW t \in Nat
  PROVE  /\ Day(t) \in Nat
         /\ Day(t) * DayLength <= t /\ t < (Day(t) + 1) * DayLength
<1>1. DayLength \in Nat /\ DayLength > 0
  BY Constants
<1> QED
  BY <1>1 DEF Day

\* Midnight belongs to one day: a tick is in the range of exactly its own.
LEMMA DayUnique ==
  ASSUME NEW t \in Nat, NEW d \in Nat
  PROVE  t \in day_bounds(d) <=> Day(t) = d
<1>1. DayLength \in Nat /\ DayLength > 0
  BY Constants
<1>2. Day(t) \in Nat /\ Day(t) * DayLength <= t /\ t < (Day(t) + 1) * DayLength
  BY DayRange
<1>3. d * DayLength \in Nat /\ (d + 1) * DayLength \in Nat
  BY <1>1
<1>4. t \in day_bounds(d) <=> d * DayLength <= t /\ t < (d + 1) * DayLength
  BY <1>3 DEF day_bounds
<1>5. ASSUME d * DayLength <= t, t < (d + 1) * DayLength  PROVE Day(t) = d
  <2>1. CASE d < Day(t)
    <3>1. d + 1 \in Nat /\ d + 1 <= Day(t)
      BY <1>2, <2>1
    <3>2. (d + 1) * DayLength <= Day(t) * DayLength /\ Day(t) * DayLength \in Nat
      BY <1>1, <1>2, <3>1, Multiples
    <3> QED
      BY <1>2, <1>3, <1>5, <3>2
  <2>2. CASE Day(t) < d
    <3>1. Day(t) + 1 \in Nat /\ Day(t) + 1 <= d
      BY <1>2, <2>2
    <3>2. (Day(t) + 1) * DayLength <= d * DayLength /\ (Day(t) + 1) * DayLength \in Nat
      BY <1>1, <1>2, <3>1, Multiples
    <3> QED
      BY <1>2, <1>3, <1>5, <3>2
  <2> QED
    BY <1>2, <2>1, <2>2
<1> QED
  BY <1>2, <1>4, <1>5

\* Days do not run backwards.
LEMMA DayMonotone ==
  ASSUME NEW a \in Nat, NEW b \in Nat, a <= b
  PROVE  Day(a) <= Day(b)
<1>1. DayLength \in Nat /\ DayLength > 0
  BY Constants
<1>2. /\ Day(a) \in Nat /\ Day(a) * DayLength <= a
      /\ Day(b) \in Nat /\ b < (Day(b) + 1) * DayLength
  BY DayRange
<1>3. CASE Day(b) < Day(a)
  <2>1. Day(b) + 1 \in Nat /\ Day(b) + 1 <= Day(a)
    BY <1>2, <1>3
  <2>2. (Day(b) + 1) * DayLength <= Day(a) * DayLength
        /\ (Day(b) + 1) * DayLength \in Nat /\ Day(a) * DayLength \in Nat
    BY <1>1, <1>2, <2>1, Multiples
  <2> QED
    BY <1>2, <2>2
<1> QED
  BY <1>2, <1>3

-----------------------------------------------------------------------------
(***************************************************************************)
(* Summaries.                                                              *)
(***************************************************************************)

\* The SELECT of a day depends on the committed rows of that day, on their kind
\* and on what they cost.
LEMMA SummaryKept ==
  ASSUME NEW d \in Nat,
         \A r \in Rows : row[r].time \in Nat /\ row'[r].time \in Nat,
         \A r \in Rows : row[r].at = "kept" /\ Day(row[r].time) = d => row'[r] = row[r],
         \A r \in Rows : row'[r].at = "kept" /\ Day(row'[r].time) = d => row'[r] = row[r],
         \A r \in Logs : Day(row[r].time) = d => Cost(r)' = Cost(r)
  PROVE  Summary(d)' = Summary(d)
<1> DEFINE L == {r \in Logs : row[r].time \in day_bounds(d)}
           M == {r \in MessagesKept : row[r].time \in day_bounds(d)}
           K == {r \in L : row[r].kind = "error"}
           T == [r \in L |-> Tokens(r)]
           C == [r \in L |-> Cost(r)]
<1>1. \A r \in Rows : /\ row[r].time \in day_bounds(d) <=> Day(row[r].time) = d
                      /\ row'[r].time \in day_bounds(d) <=> Day(row'[r].time) = d
  BY DayUnique
<1>2. L' = L
  BY <1>1 DEF Logs, Committed
<1>3. M' = M
  BY <1>1 DEF MessagesKept, Committed
<1>4. \A r \in L : /\ r \in Rows /\ r \in Logs /\ row[r].at = "kept"
                   /\ Day(row[r].time) = d
  BY <1>1 DEF Logs, Committed
<1>5. \A r \in L : row'[r].kind = row[r].kind /\ Cost(r)' = Cost(r)
  BY <1>4
<1>6. K' = K
  BY <1>2, <1>5
<1>7. T' = T
  <2>1. \A r \in L : Tokens(r)' = Tokens(r)
    BY <1>5 DEF Tokens
  <2>2. T' = [r \in L' |-> Tokens(r)']
    OBVIOUS
  <2> QED
    BY <1>2, <2>1, <2>2
<1>8. C' = C
  <2>1. C' = [r \in L' |-> Cost(r)']
    OBVIOUS
  <2> QED
    BY <1>2, <1>5, <2>1
<1>9. Summary(d) = [requests |-> Cardinality(L), errors |-> Cardinality(K), tokens |-> Total(T),
                    cost |-> Total(C), messages |-> Cardinality(M)]
  BY DEF Summary, Figures
<1>10. Summary(d)' = [requests |-> Cardinality(L'), errors |-> Cardinality(K'),
                      tokens |-> Total(T'), cost |-> Total(C'), messages |-> Cardinality(M')]
  BY DEF Summary, Figures
<1> HIDE DEF L, M, K, T, C
<1> QED
  BY <1>2, <1>3, <1>6, <1>7, <1>8, <1>9, <1>10

\* The price of a call is the same as long as the periods that could price it are.
LEMMA CostKept ==
  ASSUME NEW r, row'[r] = row[r],
         {p \in prices' : p.model = row[r].model /\ p.from <= row[r].time}
           = {p \in prices : p.model = row[r].model /\ p.from <= row[r].time}
  PROVE  Cost(r)' = Cost(r)
<1>1. pricing(r)' = pricing(r)
  BY DEF pricing
<1>2. Tokens(r)' = Tokens(r)
  BY DEF Tokens
<1> QED
  BY <1>1, <1>2 DEF Cost

\* Days are naturals, and those before the current one are among them.
LEMMA DaysAreNat ==
  /\ Days \subseteq Nat
  /\ \A t \in Nat, d \in Nat : t <= MaxTime /\ d <= Day(t) => d \in Days
<1>1. MaxTime \in Nat
  BY Constants
<1>2. Day(MaxTime) \in Nat
  BY <1>1, DayRange
<1>3. \A t \in Nat : t <= MaxTime => Day(t) \in Nat /\ Day(t) <= Day(MaxTime)
  BY <1>1, DayRange, DayMonotone
<1> QED
  BY <1>2, <1>3 DEF Days

-----------------------------------------------------------------------------
(***************************************************************************)
(* Steps that leave the jobs alone, and steps that mark summaries.         *)
(***************************************************************************)

\* A job that is left alone stays sound while its days do not change.
LEMMA SoundKept ==
  ASSUME NEW j \in Jobs, JobIsSound(j, job[j]), job'[j] = job[j],
         now \in Nat, now' \in Nat, now <= now',
         \A d \in Nat : Summary(d)' = Summary(d)
  PROVE  JobIsSound(j, job[j])'
<1>1. IsJob(job[j])'
  BY DEF JobIsSound, IsJob, IsSummary, NoSummary, Days, Day
<1>2. OnCourse(job[j])'
  <2>1. Day(now) \in Nat /\ Day(now') \in Nat /\ Day(now) <= Day(now')
    BY DayRange, DayMonotone
  <2>2. Day(now)' = Day(now')
    BY DEF Day
  <2>3. job[j].night \in Nat
    BY DEF JobIsSound, IsJob
  <2> QED
    BY <2>1, <2>2, <2>3 DEF JobIsSound, OnCourse, Running, Days, Day
<1>3. HoldsAccurate(job[j])'
  <2>1. job[j].fresh \subseteq Nat
    BY DaysAreNat DEF JobIsSound, IsJob
  <2>2. HoldsAccurate(job[j])
    BY DEF JobIsSound
  <2> QED
    BY <2>1, <2>2 DEF HoldsAccurate, Recorded, Rounded
<1>4. (j = Nightly => Covers(job[j]))'
  BY DEF JobIsSound, Covers, Running, Days, Day
<1> QED
  BY <1>1, <1>2, <1>3, <1>4 DEF JobIsSound

\* Rows keep the price and the days their sums when neither table is written.
LEMMA TablesKept ==
  ASSUME StateIsTyped, UNCHANGED <<row, prices>>
  PROVE  \A d \in Nat : Summary(d)' = Summary(d)
<1> SUFFICES ASSUME NEW d \in Nat PROVE Summary(d)' = Summary(d)
  OBVIOUS
<1>1. \A r \in Logs : Cost(r)' = Cost(r)
  BY CostKept
<1>2. \A r \in Rows : row[r].time \in Nat
  BY DEF StateIsTyped
<1> QED
  BY <1>1, <1>2, SummaryKept

\* What Touch does to one job.
LEMMA TouchedJob ==
  ASSUME NEW D, Touch(D), NEW j \in Jobs, IsJob(job[j])
  PROVE  /\ job'[j].at = job[j].at /\ job'[j].night = job[j].night
         /\ job'[j].todo = job[j].todo
         /\ job'[j].written = job[j].written /\ job'[j].computed = job[j].computed
         /\ job'[j].fresh = job[j].fresh \ D
         /\ IsJob(job'[j])
<1>1. PICK F : F = job[j].fresh \ D
  OBVIOUS
<1>2. job'[j] = [job[j] EXCEPT !.fresh = F]
  BY <1>1 DEF Touch
<1>3. job[j] \in [at : {"idle", "running", "computed", "retry", "done"}, night : Nat,
                  todo : Seq(Nat), computed : {job[j].computed}, written : {job[j].written},
                  fresh : SUBSET Days]
  BY DEF IsJob
<1>4. F \in SUBSET Days
  BY <1>1, <1>3
<1>5. /\ job'[j].at = job[j].at /\ job'[j].night = job[j].night
      /\ job'[j].todo = job[j].todo /\ job'[j].written = job[j].written
      /\ job'[j].computed = job[j].computed /\ job'[j].fresh = F
      /\ job'[j] \in [at : {"idle", "running", "computed", "retry", "done"}, night : Nat,
                      todo : Seq(Nat), computed : {job[j].computed}, written : {job[j].written},
                      fresh : SUBSET Days]
  BY <1>2, <1>3, <1>4
<1>6. IsJob(job'[j])
  BY <1>5 DEF IsJob
<1> QED
  BY <1>1, <1>5, <1>6

\* A step that changes rows or prices, so that some days are no longer as they
\* were read, keeps the invariant.
LEMMA TouchStep ==
  ASSUME RollupInvariant, NEW D, Touch(D), UNCHANGED <<now, daily, nights>>,
         row' \in [Rows -> [at : {"none", "open", "kept", "gone"}, time : Nat,
                            kind : {"message", "call", "error"}, model : Models]],
         \A d \in Nat \ D : Summary(d)' = Summary(d)
  PROVE  RollupInvariant'
<1>1. /\ job' = [j \in Jobs |-> job'[j]]
      /\ fresh' = fresh \ D
  BY DEF Touch
<1>2. StateIsTyped'
  BY <1>1 DEF RollupInvariant, StateIsTyped, IsSummary, NoSummary, Days, Day
<1>3. JobsAreSound'
  <2> SUFFICES ASSUME NEW j \in Jobs PROVE JobIsSound(j, job[j])'
    BY DEF JobsAreSound
  <2>1. JobIsSound(j, job[j])
    BY DEF RollupInvariant, JobsAreSound
  <2>2. /\ job'[j].at = job[j].at /\ job'[j].night = job[j].night
        /\ job'[j].todo = job[j].todo /\ job'[j].written = job[j].written
        /\ job'[j].computed = job[j].computed /\ job'[j].fresh = job[j].fresh \ D
        /\ IsJob(job'[j])
    BY <2>1, TouchedJob DEF JobIsSound
  <2>3. IsJob(job[j])'
    BY <2>2 DEF IsJob, IsSummary, NoSummary, Days, Day
  <2>4. OnCourse(job[j])'
    BY <2>1, <2>2 DEF JobIsSound, OnCourse, Running, Days, Day
  <2>5. HoldsAccurate(job[j])'
    <3>1. job[j].fresh \subseteq Nat /\ HoldsAccurate(job[j])
      BY <2>1, DaysAreNat DEF JobIsSound, IsJob
    <3> QED
      BY <2>2, <3>1 DEF HoldsAccurate, Recorded, Rounded
  <2>6. (j = Nightly => Covers(job[j]))'
    BY <2>1, <2>2 DEF JobIsSound, Covers, Running, Days, Day
  <2> QED
    BY <2>3, <2>4, <2>5, <2>6 DEF JobIsSound
<1>4. DailyIsAccurate'
  <2>1. fresh \subseteq Nat
    BY DaysAreNat DEF RollupInvariant, DailyIsAccurate
  <2> QED
    BY <1>1, <2>1 DEF RollupInvariant, DailyIsAccurate, Recorded, Rounded, Days, Day
<1>5. NightsLeaveNoGap'
  BY DEF RollupInvariant, NightsLeaveNoGap, Days, Day
<1> QED
  BY <1>2, <1>3, <1>4, <1>5 DEF RollupInvariant

-----------------------------------------------------------------------------
(***************************************************************************)
(* The clock, turns and administrators.                                    *)
(***************************************************************************)

\* A step that leaves the summaries and the jobs alone, and the sums of the days.
LEMMA QuietStep ==
  ASSUME RollupInvariant, UNCHANGED <<daily, job, nights, fresh>>,
         now' \in Nat, now <= now', now' <= MaxTime,
         row' \in [Rows -> [at : {"none", "open", "kept", "gone"}, time : Nat,
                            kind : {"message", "call", "error"}, model : Models]],
         \A d \in Nat : Summary(d)' = Summary(d)
  PROVE  RollupInvariant'
<1>1. now \in Nat /\ \A d \in Days : d \in Nat
  BY DaysAreNat DEF RollupInvariant, StateIsTyped
<1>2. StateIsTyped'
  BY DEF RollupInvariant, StateIsTyped, IsSummary, NoSummary, Days, Day
<1>3. JobsAreSound'
  BY <1>1, SoundKept DEF RollupInvariant, JobsAreSound
<1>4. DailyIsAccurate'
  BY <1>1 DEF RollupInvariant, DailyIsAccurate, Recorded, Rounded, Days, Day
<1>5. NightsLeaveNoGap'
  <2>1. Day(now) \in Nat /\ Day(now') \in Nat /\ Day(now) <= Day(now')
    BY <1>1, DayRange, DayMonotone
  <2>2. Day(now)' = Day(now')
    BY DEF Day
  <2> QED
    BY <1>1, <2>1, <2>2 DEF RollupInvariant, NightsLeaveNoGap, Days, Day
<1> QED
  BY <1>2, <1>3, <1>4, <1>5 DEF RollupInvariant

\* Time passes.
LEMMA TickStep ==
  ASSUME RollupInvariant, Tick
  PROVE  RollupInvariant'
<1>1. /\ now \in Nat /\ now' = now + 1 /\ now' <= MaxTime
      /\ UNCHANGED <<row, prices, daily, job, nights, fresh>>
  BY Constants DEF Tick, RollupInvariant, StateIsTyped
<1>2. \A d \in Nat : Summary(d)' = Summary(d)
  BY <1>1, TablesKept DEF RollupInvariant
<1>3. row' = row /\ StateIsTyped
  BY <1>1 DEF RollupInvariant
<1> QED
  BY <1>1, <1>2, <1>3, QuietStep DEF StateIsTyped

\* A transaction that has not committed shows in no sum.
LEMMA BeginStep ==
  ASSUME RollupInvariant, NEW r \in Rows, BeginRow(r)
  PROVE  RollupInvariant'
<1>1. PICK c \in Contents : row' = [row EXCEPT ![r] = Row("open", c)]
  BY DEF BeginRow
<1>2. StateIsTyped /\ now \in Nat /\ now <= MaxTime
      /\ UNCHANGED <<now, prices, daily, job, nights, fresh>> /\ row[r].at = "none"
  BY DEF BeginRow, RollupInvariant, StateIsTyped
<1>3. row \in [Rows -> [at : {"none", "open", "kept", "gone"}, time : Nat,
                        kind : {"message", "call", "error"}, model : Models]]
  BY <1>2 DEF StateIsTyped
<1>4. Row("open", c) \in [at : {"none", "open", "kept", "gone"}, time : Nat,
                          kind : {"message", "call", "error"}, model : Models]
  BY <1>2, Constants DEF Row
<1>5. row' \in [Rows -> [at : {"none", "open", "kept", "gone"}, time : Nat,
                         kind : {"message", "call", "error"}, model : Models]]
  BY <1>1, <1>3, <1>4
<1>6. row'[r].at = "open" /\ \A s \in Rows \ {r} : row'[s] = row[s]
  BY <1>1, <1>3 DEF Row
<1>7. ASSUME NEW d \in Nat PROVE Summary(d)' = Summary(d)
  <2>1. \A s \in Rows : (row'[s].at = "kept" \/ row[s].at = "kept") => row'[s] = row[s]
    BY <1>2, <1>6
  <2>2. \A s \in Logs : Cost(s)' = Cost(s)
    BY <1>2, <2>1, CostKept DEF Logs, Committed
  <2>3. \A s \in Rows : row[s].time \in Nat /\ row'[s].time \in Nat
    BY <1>3, <1>5
  <2> QED
    BY <2>1, <2>2, <2>3, SummaryKept
<1> QED
  BY <1>2, <1>5, <1>7, QuietStep

\* A row that appears or disappears changes the sums of its own day only.
LEMMA OneRowStep ==
  ASSUME RollupInvariant, NEW r \in Rows, NEW at \in {"kept", "gone"},
         row' = [row EXCEPT ![r].at = at], Touch({Day(row[r].time)}),
         UNCHANGED <<now, prices, daily, nights>>
  PROVE  RollupInvariant'
<1>1. row \in [Rows -> [at : {"none", "open", "kept", "gone"}, time : Nat,
                        kind : {"message", "call", "error"}, model : Models]]
  BY DEF RollupInvariant, StateIsTyped
<1>2. row' \in [Rows -> [at : {"none", "open", "kept", "gone"}, time : Nat,
                         kind : {"message", "call", "error"}, model : Models]]
  BY <1>1
<1>3. row'[r].time = row[r].time /\ \A s \in Rows \ {r} : row'[s] = row[s]
  BY <1>1
<1>4. ASSUME NEW d \in Nat \ {Day(row[r].time)} PROVE Summary(d)' = Summary(d)
  <2>1. /\ \A s \in Rows : Day(row[s].time) = d => row'[s] = row[s]
        /\ \A s \in Rows : Day(row'[s].time) = d => row'[s] = row[s]
    BY <1>3
  <2>2. \A s \in Logs : Day(row[s].time) = d => Cost(s)' = Cost(s)
    BY <2>1, CostKept DEF Logs, Committed
  <2>3. \A s \in Rows : row[s].time \in Nat /\ row'[s].time \in Nat
    BY <1>1, <1>2
  <2> QED
    BY <2>1, <2>2, <2>3, SummaryKept
<1> QED
  BY <1>2, <1>4, TouchStep

\* A period changes the cost of the calls of its model since it began, and the
\* sums of their days only.
LEMMA PriceStep ==
  ASSUME RollupInvariant, NEW p, Touch(Repriced(p.model, p.from)),
         prices' \subseteq prices \cup {p}, prices \subseteq prices' \cup {p},
         UNCHANGED <<now, row, daily, nights>>
  PROVE  RollupInvariant'
<1>1. row \in [Rows -> [at : {"none", "open", "kept", "gone"}, time : Nat,
                        kind : {"message", "call", "error"}, model : Models]]
  BY DEF RollupInvariant, StateIsTyped
<1>2. ASSUME NEW d \in Nat \ Repriced(p.model, p.from) PROVE Summary(d)' = Summary(d)
  <2>1. ASSUME NEW s \in Logs, Day(row[s].time) = d PROVE Cost(s)' = Cost(s)
    <3>1. ~ (row[s].model = p.model /\ row[s].time >= p.from)
      BY <1>2, <2>1 DEF Repriced
    <3>2. ~ (p.model = row[s].model /\ p.from <= row[s].time)
      BY <3>1
    <3>3. {q \in prices' : q.model = row[s].model /\ q.from <= row[s].time}
            = {q \in prices : q.model = row[s].model /\ q.from <= row[s].time}
      BY <3>2
    <3> QED
      BY <3>3, CostKept
  <2>2. \A s \in Rows : row[s].time \in Nat
    BY <1>1
  <2> QED
    BY <2>1, <2>2, SummaryKept
<1> QED
  BY <1>1, <1>2, TouchStep

-----------------------------------------------------------------------------
(***************************************************************************)
(* The rollup task.                                                        *)
(***************************************************************************)

\* A job that moves on soundly, writing no table, keeps the invariant.
LEMMA JobStep ==
  ASSUME RollupInvariant, NEW j \in Jobs, UNCHANGED <<now, row, prices, daily, nights, fresh>>,
         job' = [k \in Jobs |-> IF k = j THEN job'[j] ELSE job[k]],
         JobIsSound(j, job[j])'
  PROVE  RollupInvariant'
<1>1. now \in Nat /\ \A d \in Days : d \in Nat
  BY DaysAreNat DEF RollupInvariant, StateIsTyped
<1>2. \A d \in Nat : Summary(d)' = Summary(d)
  BY TablesKept DEF RollupInvariant
<1>3. StateIsTyped'
  <2>1. job' = [k \in Jobs |-> job'[k]]
    OBVIOUS
  <2> QED
    BY <2>1 DEF RollupInvariant, StateIsTyped, IsSummary, NoSummary, Days, Day
<1>4. JobsAreSound'
  <2>1. \A k \in Jobs \ {j} : job'[k] = job[k] /\ JobIsSound(k, job[k])
    BY DEF RollupInvariant, JobsAreSound
  <2>2. \A k \in Jobs \ {j} : JobIsSound(k, job[k])'
    BY <1>1, <1>2, <2>1, SoundKept
  <2> QED
    BY <2>2 DEF JobsAreSound
<1>5. DailyIsAccurate'
  BY <1>1, <1>2 DEF RollupInvariant, DailyIsAccurate, Recorded, Rounded, Days, Day
<1>6. NightsLeaveNoGap'
  BY DEF RollupInvariant, NightsLeaveNoGap, Days, Day
<1> QED
  BY <1>3, <1>4, <1>5, <1>6 DEF RollupInvariant

\* A job at rest holds nothing.
LEMMA AtRest ==
  ASSUME NEW j \in Jobs, NEW at \in {"idle", "retry", "done"},
         job'[j] = [Idle EXCEPT !.at = at]
  PROVE  JobIsSound(j, job[j])'
<1>1. /\ job'[j].at = at /\ job'[j].todo = <<>> /\ job'[j].night = 0
      /\ job'[j].computed = NoSummary /\ job'[j].written = NoneWritten
      /\ job'[j].fresh = {}
      /\ job'[j] \in [at : {"idle", "running", "computed", "retry", "done"}, night : Nat,
                      todo : Seq(Nat), computed : {NoSummary}, written : {NoneWritten},
                      fresh : SUBSET Days]
  <2>1. <<>> \in Seq(Nat) /\ 0 \in Nat
    OBVIOUS
  <2>2. /\ job'[j].at = at /\ job'[j].todo = <<>> /\ job'[j].night = 0
        /\ job'[j].computed = NoSummary /\ job'[j].written = NoneWritten
        /\ job'[j].fresh = {}
    BY DEF Idle
  <2>3. job'[j] \in [at : {at}, night : {0}, todo : {<<>>}, computed : {NoSummary},
                     written : {NoneWritten}, fresh : {{}}]
    BY DEF Idle
  <2> QED
    BY <2>1, <2>2, <2>3
<1>2. \A d \in Days : NoneWritten[d] = NoSummary
  BY DEF NoneWritten
<1>3. NoSummary.stored = FALSE
  BY DEF NoSummary
<1>4. IsJob(job'[j])
  BY <1>1, <1>2 DEF IsJob, IsSummary, NoneWritten
<1>5. IsJob(job[j])'
  BY <1>4 DEF IsJob, IsSummary, NoSummary, Days, Day
<1>6. OnCourse(job[j])'
  BY <1>1, <1>2, <1>3 DEF OnCourse, Running, Days, Day
<1>7. HoldsAccurate(job[j])'
  BY <1>1 DEF HoldsAccurate
<1>8. (j = Nightly => Covers(job[j]))'
  BY <1>1 DEF Covers, Running
<1> QED
  BY <1>5, <1>6, <1>7, <1>8 DEF JobIsSound

\* The days of a run: as many as the look-back reaches, ending with yesterday.
LEMMA DaysChosen ==
  ASSUME now \in Nat, NEW n \in Nat \ {0}
  PROVE  LET todo == complete_days_before(n)
         IN  /\ todo \in Seq(Nat)
             /\ Len(todo) = IF n > Day(now) THEN Day(now) ELSE n
             /\ \A i \in 1 .. Len(todo) : todo[i] = Day(now) - Len(todo) + i - 1
<1>1. PICK today \in Nat : today = Day(now)
  BY DayRange
<1>2. PICK first \in Nat : first = IF n > today THEN 0 ELSE today - n
  BY <1>1
<1>3. today - first \in Nat /\ today - first = IF n > today THEN today ELSE n
  BY <1>1, <1>2
<1>4. complete_days_before(n) = [i \in 1 .. today - first |-> first + i - 1]
  BY <1>1, <1>2 DEF complete_days_before
<1>5. \A i \in 1 .. today - first : first + i - 1 \in Nat
  BY <1>3
<1>6. complete_days_before(n) \in Seq(Nat) /\ Len(complete_days_before(n)) = today - first
  BY <1>3, <1>4, <1>5
<1> QED
  BY <1>1, <1>3, <1>4, <1>6

\* A run begins, by beat, by hand or again.
LEMMA StartStep ==
  ASSUME RollupInvariant, NEW j \in Jobs, NEW n \in Nat \ {0}, Start(j, n),
         j = Nightly => n = Lookback
  PROVE  RollupInvariant'
<1> DEFINE todo == complete_days_before(n)
<1>1. /\ UNCHANGED <<now, row, prices, daily, nights, fresh>>
      /\ job = [k \in Jobs |-> job[k]]
      /\ job' = [job EXCEPT ![j] = [Idle EXCEPT !.at = "running", !.night = Day(now),
                                                !.todo = todo]]
  BY DEF Start, RollupInvariant, StateIsTyped
<1>2. now \in Nat /\ Day(now) \in Nat /\ Day(now)' = Day(now)
  BY <1>1, DayRange DEF RollupInvariant, StateIsTyped, Day
<1>3. /\ todo \in Seq(Nat)
      /\ Len(todo) = IF n > Day(now) THEN Day(now) ELSE n
      /\ \A i \in 1 .. Len(todo) : todo[i] = Day(now) - Len(todo) + i - 1
  BY <1>2, DaysChosen
<1> HIDE DEF todo
<1>4. job' = [k \in Jobs |-> IF k = j THEN job'[j] ELSE job[k]]
      /\ job'[j] = [Idle EXCEPT !.at = "running", !.night = Day(now), !.todo = todo]
  BY <1>1
<1>5. /\ job'[j].at = "running" /\ job'[j].todo = todo /\ job'[j].night = Day(now)
      /\ job'[j].computed = NoSummary /\ job'[j].written = NoneWritten
      /\ job'[j].fresh = {}
      /\ job'[j] \in [at : {"idle", "running", "computed", "retry", "done"}, night : Nat,
                      todo : Seq(Nat), computed : {NoSummary}, written : {NoneWritten},
                      fresh : SUBSET Days]
  BY <1>2, <1>3, <1>4 DEF Idle
<1>6. \A d \in Days : NoneWritten[d] = NoSummary
  BY DEF NoneWritten
<1>7. NoSummary.stored = FALSE
  BY DEF NoSummary
<1>8. IsJob(job'[j])
  BY <1>5, <1>6 DEF IsJob, IsSummary, NoneWritten
<1>9. IsJob(job[j])'
  BY <1>8 DEF IsJob, IsSummary, NoSummary, Days, Day
<1>10. OnCourse(job[j])'
  <2>1. /\ job'[j].night <= Day(now) /\ Len(job'[j].todo) <= job'[j].night
        /\ \A i \in 1 .. Len(job'[j].todo) :
             job'[j].todo[i] = job'[j].night - Len(job'[j].todo) + i - 1
    BY <1>2, <1>3, <1>5
  <2>2. \A d \in Days : ~ job'[j].written[d].stored
    BY <1>5, <1>6, <1>7
  <2>3. job'[j].at # "computed"
    BY <1>5
  <2> QED
    BY <1>2, <2>1, <2>2, <2>3 DEF OnCourse, Days, Day
<1>11. HoldsAccurate(job[j])'
  BY <1>5 DEF HoldsAccurate
<1>12. (j = Nightly => Covers(job[j]))'
  <2>1. \A d \in Days : d \in Nat
    BY DaysAreNat
  <2>2. j = Nightly => \A d \in Days :
          d < job'[j].night /\ job'[j].night - d <= Lookback
            => d >= job'[j].night - Len(job'[j].todo)
    BY <1>2, <1>3, <1>5, <2>1, Constants
  <2> QED
    BY <2>2 DEF Covers, Days, Day
<1>13. JobIsSound(j, job[j])'
  BY <1>9, <1>10, <1>11, <1>12 DEF JobIsSound
<1> QED
  BY <1>1, <1>4, <1>13, JobStep

\* The first day of a run's list is a finished one; the rest of the list is the
\* list of a run one day further on.
LEMMA FirstDay ==
  ASSUME RollupInvariant, NEW j \in Jobs, Running(job[j]), job[j].todo # <<>>
  PROVE  LET todo == job[j].todo
         IN  /\ Head(todo) \in Days /\ Head(todo) \in Nat
             /\ Head(todo) = job[j].night - Len(todo) /\ Head(todo) < job[j].night
             /\ Tail(todo) \in Seq(Nat) /\ Len(todo) \in Nat \ {0}
             /\ Len(Tail(todo)) = Len(todo) - 1
             /\ \A i \in 1 .. Len(Tail(todo)) :
                  Tail(todo)[i] = job[j].night - Len(Tail(todo)) + i - 1
<1>1. IsJob(job[j]) /\ OnCourse(job[j]) /\ now \in Nat /\ now <= MaxTime
  BY DEF RollupInvariant, JobsAreSound, JobIsSound, StateIsTyped
<1>2. PICK todo \in Seq(Nat) : todo = job[j].todo
  BY <1>1 DEF IsJob
<1>3. PICK night \in Nat : night = job[j].night
  BY <1>1 DEF IsJob
<1>4. /\ night <= Day(now) /\ Len(todo) <= night
      /\ \A i \in 1 .. Len(todo) : todo[i] = night - Len(todo) + i - 1
  BY <1>1, <1>2, <1>3 DEF OnCourse
<1>5. todo # <<>> /\ Len(todo) \in Nat \ {0} /\ Head(todo) = todo[1]
  BY <1>2
<1>6. Head(todo) = night - Len(todo)
  BY <1>4, <1>5
<1>7. Head(todo) \in Nat /\ Head(todo) < night /\ Head(todo) <= Day(now)
  <2>1. Day(now) \in Nat
    BY <1>1, DayRange
  <2>2. PICK n \in Nat \ {0} : n = Len(todo)
    BY <1>5
  <2>3. Head(todo) = night - n /\ n <= night
    BY <1>4, <1>6, <2>2
  <2> QED
    BY <1>4, <2>1, <2>3
<1>8. Head(todo) \in Days
  BY <1>1, <1>7, DaysAreNat
<1>9. Tail(todo) \in Seq(Nat) /\ Len(Tail(todo)) = Len(todo) - 1
      /\ \A i \in 1 .. Len(Tail(todo)) : Tail(todo)[i] = todo[i + 1]
  BY <1>5
<1>10. \A i \in 1 .. Len(Tail(todo)) : Tail(todo)[i] = night - Len(Tail(todo)) + i - 1
  BY <1>4, <1>5, <1>9
<1> QED
  BY <1>2, <1>3, <1>5, <1>6, <1>7, <1>8, <1>9, <1>10

\* The SELECT: what is computed is accurate when it is computed.
LEMMA ComputeStep ==
  ASSUME RollupInvariant, NEW j \in Jobs, Compute(j)
  PROVE  RollupInvariant'
<1>1. PICK h \in Nat : h = Head(job[j].todo)
  BY FirstDay DEF Compute, Running
<1>2. PICK f : f = Summary(h)
  OBVIOUS
<1>3. Stored(f) \in [stored : {TRUE}, figures : {Stored(f).figures}]
      /\ Stored(f).figures = f /\ Stored(f).stored = TRUE
  BY DEF Stored
<1>4. IsSummary(Stored(f))
  BY <1>3 DEF IsSummary
<1>5. IsJob(job[j]) /\ OnCourse(job[j]) /\ HoldsAccurate(job[j])
      /\ (j = Nightly => Covers(job[j]))
  BY DEF RollupInvariant, JobsAreSound, JobIsSound
<1>6. /\ UNCHANGED <<now, row, prices, daily, nights, fresh>>
      /\ job[j].at = "running" /\ job[j].todo # <<>>
      /\ job = [k \in Jobs |-> job[k]]
      /\ job' = [job EXCEPT ![j].at = "computed",
                            ![j].computed = Stored(Summary(Head(job[j].todo))),
                            ![j].fresh = @ \cup {Head(job[j].todo)}]
      /\ h \in Days
  BY <1>1, FirstDay DEF Compute, RollupInvariant, StateIsTyped, Running
<1>7. PICK F \in SUBSET Days : F = job[j].fresh \cup {h}
  BY <1>5, <1>6 DEF IsJob
<1>8. job' = [k \in Jobs |-> IF k = j THEN job'[j] ELSE job[k]]
      /\ job'[j] = [job[j] EXCEPT !.at = "computed", !.computed = Stored(f), !.fresh = F]
  BY <1>1, <1>2, <1>6, <1>7
<1>9. job[j] \in [at : {"idle", "running", "computed", "retry", "done"}, night : Nat,
                  todo : Seq(Nat), computed : {job[j].computed}, written : {job[j].written},
                  fresh : SUBSET Days]
  BY <1>5 DEF IsJob
<1>10. /\ job'[j].at = "computed" /\ job'[j].night = job[j].night
       /\ job'[j].todo = job[j].todo /\ job'[j].written = job[j].written
       /\ job'[j].computed = Stored(f) /\ job'[j].fresh = F
       /\ job'[j] \in [at : {"idle", "running", "computed", "retry", "done"}, night : Nat,
                       todo : Seq(Nat), computed : {Stored(f)}, written : {job[j].written},
                       fresh : SUBSET Days]
  BY <1>8, <1>9
<1>11. IsJob(job'[j])
  BY <1>4, <1>5, <1>10 DEF IsJob
<1>12. IsJob(job[j])'
  BY <1>11 DEF IsJob, IsSummary, NoSummary, Days, Day
<1>13. OnCourse(job[j])'
  BY <1>3, <1>5, <1>6, <1>10 DEF OnCourse, Running, Days, Day
<1>14. \A d \in Nat : Summary(d)' = Summary(d)
  BY <1>6, TablesKept DEF RollupInvariant
<1>15. HoldsAccurate(job[j])'
  <2> SUFFICES ASSUME NEW d \in F
               PROVE  IF d = h THEN f = Summary(d)'
                      ELSE /\ job[j].written[d].stored
                           /\ job[j].written[d].figures = Recorded(Summary(d))'
    BY <1>1, <1>3, <1>10 DEF HoldsAccurate
  <2>1. d \in Nat /\ Summary(d)' = Summary(d)
    BY <1>7, <1>14, DaysAreNat
  <2>2. CASE d = h
    BY <1>2, <2>1, <2>2
  <2>3. CASE d # h
    <3>1. d \in job[j].fresh /\ job[j].at # "computed"
      BY <1>6, <1>7, <2>3
    <3>2. /\ job[j].written[d].stored
          /\ job[j].written[d].figures = Recorded(Summary(d))
      BY <1>5, <3>1 DEF HoldsAccurate
    <3> QED
      BY <2>1, <2>3, <3>2 DEF Recorded, Rounded
  <2> QED
    BY <2>2, <2>3
<1>16. (j = Nightly => Covers(job[j]))'
  BY <1>5, <1>6, <1>10 DEF Covers, Running, Days, Day
<1>17. JobIsSound(j, job[j])'
  BY <1>12, <1>13, <1>15, <1>16 DEF JobIsSound
<1> QED
  BY <1>6, <1>8, <1>17, JobStep

\* The upsert moves a finished day from the list to what the run has written.
LEMMA UpsertStep ==
  ASSUME RollupInvariant, NEW j \in Jobs, Upsert(j)
  PROVE  RollupInvariant'
<1>1. /\ UNCHANGED <<now, row, prices, daily, nights, fresh>> /\ job[j].at = "computed"
      /\ job = [k \in Jobs |-> job[k]]
      /\ now \in Nat /\ StateIsTyped
  BY DEF Upsert, RollupInvariant, StateIsTyped
<1>2. IsJob(job[j]) /\ OnCourse(job[j]) /\ HoldsAccurate(job[j])
      /\ (j = Nightly => Covers(job[j]))
  BY DEF RollupInvariant, JobsAreSound, JobIsSound
<1>3. Running(job[j]) /\ job[j].todo # <<>> /\ job[j].computed.stored
  BY <1>1, <1>2 DEF OnCourse, Running
<1>4. /\ Head(job[j].todo) \in Days /\ Head(job[j].todo) \in Nat
      /\ Head(job[j].todo) = job[j].night - Len(job[j].todo)
      /\ Head(job[j].todo) < job[j].night
      /\ Tail(job[j].todo) \in Seq(Nat) /\ Len(job[j].todo) \in Nat \ {0}
      /\ Len(Tail(job[j].todo)) = Len(job[j].todo) - 1
      /\ \A i \in 1 .. Len(Tail(job[j].todo)) :
           Tail(job[j].todo)[i] = job[j].night - Len(Tail(job[j].todo)) + i - 1
  BY <1>3, FirstDay
<1>5. PICK h \in Days : h = Head(job[j].todo)
  BY <1>4
<1>6. PICK rest \in Seq(Nat) : rest = Tail(job[j].todo)
  BY <1>4
<1>23. PICK new : new = Stored(Recorded(job[j].computed.figures))
  OBVIOUS
<1>24. IsSummary(new) /\ new.stored = TRUE /\ new.figures = Recorded(job[j].computed.figures)
  BY <1>23 DEF IsSummary, Stored
<1>7. PICK w : w = [job[j].written EXCEPT ![h] = new]
  OBVIOUS
<1>8. /\ w = [d \in Days |-> w[d]] /\ w[h] = new
      /\ \A d \in Days \ {h} : w[d] = job[j].written[d]
  BY <1>2, <1>7 DEF IsJob
<1>9. \A d \in Days : IsSummary(w[d])
  BY <1>2, <1>8, <1>24 DEF IsJob
<1>10. job' = [job EXCEPT ![j].at = "running", ![j].todo = rest,
                          ![j].written[h] = new, ![j].computed = NoSummary]
  BY <1>5, <1>6, <1>23 DEF Upsert
<1>11. job' = [k \in Jobs |-> IF k = j THEN job'[j] ELSE job[k]]
       /\ job'[j] = [job[j] EXCEPT !.at = "running", !.todo = rest,
                                   !.written[h] = new, !.computed = NoSummary]
  BY <1>1, <1>10
<1>12. job'[j] = [job[j] EXCEPT !.at = "running", !.todo = rest, !.written = w,
                                !.computed = NoSummary]
  BY <1>2, <1>7, <1>11 DEF IsJob
<1>13. job[j] \in [at : {"idle", "running", "computed", "retry", "done"}, night : Nat,
                   todo : Seq(Nat), computed : {job[j].computed}, written : {job[j].written},
                   fresh : SUBSET Days]
  BY <1>2 DEF IsJob
<1>14. /\ job'[j].at = "running" /\ job'[j].night = job[j].night
       /\ job'[j].todo = rest /\ job'[j].written = w /\ job'[j].computed = NoSummary
       /\ job'[j].fresh = job[j].fresh
       /\ job'[j] \in [at : {"idle", "running", "computed", "retry", "done"}, night : Nat,
                       todo : Seq(Nat), computed : {NoSummary}, written : {w},
                       fresh : SUBSET Days]
  BY <1>12, <1>13
<1>15. IsJob(job'[j])
  BY <1>8, <1>9, <1>14 DEF IsJob, IsSummary
<1>16. IsJob(job[j])'
  BY <1>15 DEF IsJob, IsSummary, NoSummary, Days, Day
<1>17. job[j].night \in Nat /\ Day(now)' = Day(now)
  BY <1>1, <1>2 DEF IsJob, Day
<1>18. OnCourse(job[j])'
  <2>1. /\ job'[j].night <= Day(now) /\ Len(rest) <= job'[j].night
        /\ \A i \in 1 .. Len(rest) : rest[i] = job'[j].night - Len(rest) + i - 1
    BY <1>2, <1>3, <1>4, <1>6, <1>14, <1>17 DEF OnCourse
  <2>2. \A d \in Days : w[d].stored => d < job'[j].night
    BY <1>2, <1>4, <1>5, <1>8, <1>14 DEF OnCourse
  <2> QED
    BY <1>14, <1>17, <2>1, <2>2 DEF OnCourse, Running, Days, Day
<1>19. \A d \in Nat : Summary(d)' = Summary(d)
  BY <1>1, TablesKept
<1>20. HoldsAccurate(job[j])'
  <2> SUFFICES ASSUME NEW d \in job[j].fresh
               PROVE  w[d].stored /\ w[d].figures = Recorded(Summary(d))'
    BY <1>14 DEF HoldsAccurate
  <2>1. d \in Days /\ d \in Nat /\ Summary(d)' = Summary(d)
    BY <1>2, <1>19, DaysAreNat DEF IsJob
  <2>2. w[d].stored /\ w[d].figures = Recorded(Summary(d))
    <3>1. CASE d = h
      <4>1. job[j].computed.figures = Summary(d)
        BY <1>1, <1>2, <1>5, <3>1 DEF HoldsAccurate
      <4> QED
        BY <1>8, <1>24, <3>1, <4>1
    <3>2. CASE d # h
      BY <1>2, <1>5, <1>8, <2>1, <3>2 DEF HoldsAccurate
    <3> QED
      BY <3>1, <3>2
  <2> QED
    BY <2>1, <2>2 DEF Recorded, Rounded
<1>21. (j = Nightly => Covers(job[j]))'
  <2> SUFFICES ASSUME j = Nightly, NEW d \in Days, d < job'[j].night,
                      job'[j].night - d <= Lookback
               PROVE  w[d].stored \/ d >= job'[j].night - Len(rest)
    BY <1>14 DEF Covers, Days, Day
  <2>1. job[j].written[d].stored \/ d >= job[j].night - Len(job[j].todo)
    BY <1>2, <1>3, <1>14 DEF Covers
  <2>2. CASE d = h
    BY <1>8, <1>24, <2>2
  <2>3. CASE d # h
    <3>1. d \in Nat /\ h \in Nat
      BY DaysAreNat
    <3>2. PICK n \in Nat, night \in Nat : n = Len(rest) /\ night = job[j].night
      BY <1>17
    <3>3. h = night - Len(job[j].todo) /\ Len(job[j].todo) = n + 1
      BY <1>4, <1>5, <1>6, <3>2
    <3>4. w[d] = job[j].written[d] /\ job'[j].night = night
      BY <1>8, <1>14, <2>3, <3>2
    <3>5. d >= night - (n + 1) => d >= night - n
      BY <2>3, <3>1, <3>3
    <3> QED
      BY <2>1, <3>2, <3>3, <3>4, <3>5
  <2> QED
    BY <2>2, <2>3
<1>22. JobIsSound(j, job[j])'
  BY <1>16, <1>18, <1>20, <1>21 DEF JobIsSound
<1> QED
  BY <1>1, <1>11, <1>22, JobStep

\* The commit: what the run wrote is stored, and no day of the look-back of a
\* night is left out.
LEMMA CommitStep ==
  ASSUME RollupInvariant, NEW j \in Jobs, Commit(j)
  PROVE  RollupInvariant'
<1>1. /\ UNCHANGED <<now, row, prices>>
      /\ job[j].at = "running" /\ job[j].todo = <<>>
      /\ daily' = [d \in Days |-> IF job[j].written[d].stored THEN job[j].written[d]
                                  ELSE daily[d]]
      /\ fresh' = (fresh \ {d \in Days : job[j].written[d].stored}) \cup job[j].fresh
      /\ nights' = IF j = Nightly THEN nights \cup {job[j].night} ELSE nights
      /\ job' = [job EXCEPT ![j] = Ended(j)]
  BY DEF Commit
<1>2. StateIsTyped /\ now \in Nat /\ job = [k \in Jobs |-> job[k]] /\ nights \subseteq Nat
  BY DEF RollupInvariant, StateIsTyped
<1>3. IsJob(job[j]) /\ OnCourse(job[j]) /\ HoldsAccurate(job[j])
      /\ (j = Nightly => Covers(job[j]))
  BY DEF RollupInvariant, JobsAreSound, JobIsSound
<1>4. \A d \in Nat : Summary(d)' = Summary(d)
  BY <1>1, <1>2, TablesKept
<1>5. \A d \in Days : d \in Nat
  BY DaysAreNat
<1>6. job[j].night \in Nat /\ job[j].night <= Day(now) /\ Len(job[j].todo) = 0
      /\ Day(now) \in Nat /\ Day(now)' = Day(now)
  BY <1>1, <1>2, <1>3, DayRange DEF IsJob, OnCourse, Running, Day
<1>7. \A d \in Days : daily'[d] = IF job[j].written[d].stored THEN job[j].written[d]
                                  ELSE daily[d]
  BY <1>1
<1>8. \A d \in Days : IsSummary(daily'[d])
  BY <1>2, <1>3, <1>7 DEF IsJob, StateIsTyped
<1>9. job' = [k \in Jobs |-> IF k = j THEN job'[j] ELSE job[k]] /\ job'[j] = Ended(j)
  BY <1>1, <1>2
<1>10. StateIsTyped'
  <2>1. daily' = [d \in Days |-> daily'[d]] /\ job' = [k \in Jobs |-> job'[k]]
    BY <1>1, <1>9
  <2>2. (\A d \in Days : IsSummary(daily[d]))'
    BY <1>8 DEF IsSummary, NoSummary, Days, Day
  <2>3. nights' \in SUBSET Nat
    BY <1>1, <1>2, <1>6
  <2> QED
    BY <1>1, <1>2, <2>1, <2>2, <2>3 DEF StateIsTyped, Days, Day
<1>11. JobsAreSound'
  <2>1. JobIsSound(j, job[j])'
    <3>1. CASE j = Nightly
      <4>2. Idle = [Idle EXCEPT !.at = "idle"]
        BY DEF Idle
      <4>1. job'[j] = [Idle EXCEPT !.at = "idle"]
        BY <1>9, <3>1, <4>2 DEF Ended
      <4> QED
        BY <4>1, AtRest
    <3>2. CASE j # Nightly
      <4>1. job'[j] = [Idle EXCEPT !.at = "done"]
        BY <1>9, <3>2 DEF Ended
      <4> QED
        BY <4>1, AtRest
    <3> QED
      BY <3>1, <3>2
  <2>2. \A k \in Jobs \ {j} : job'[k] = job[k] /\ JobIsSound(k, job[k])
    BY <1>9 DEF RollupInvariant, JobsAreSound
  <2>3. \A k \in Jobs \ {j} : JobIsSound(k, job[k])'
    BY <1>1, <1>2, <1>4, <2>2, SoundKept
  <2> QED
    BY <2>1, <2>3 DEF JobsAreSound
<1>12. DailyIsAccurate'
  <2>1. fresh \subseteq Days /\ job[j].fresh \subseteq Days
    BY <1>3 DEF RollupInvariant, DailyIsAccurate, IsJob
  <2>2. ASSUME NEW d \in fresh'
        PROVE  daily'[d].stored /\ daily'[d].figures = Recorded(Summary(d))
    <3>1. CASE d \in job[j].fresh
      <4>1. job[j].written[d].stored /\ job[j].written[d].figures = Recorded(Summary(d))
        BY <1>1, <1>3, <3>1 DEF HoldsAccurate
      <4> QED
        BY <1>7, <2>1, <3>1, <4>1
    <3>2. CASE d \notin job[j].fresh
      <4>1. d \in fresh /\ d \in Days /\ ~ job[j].written[d].stored
        BY <1>1, <2>1, <2>2, <3>2
      <4> QED
        BY <1>7, <4>1 DEF RollupInvariant, DailyIsAccurate
    <3> QED
      BY <3>1, <3>2
  <2>3. fresh' \subseteq Days
    BY <1>1, <2>1
  <2>4. \A d \in fresh' : Recorded(Summary(d))' = Recorded(Summary(d))
    BY <1>4, <1>5, <2>3 DEF Recorded, Rounded
  <2> QED
    BY <2>2, <2>3, <2>4 DEF DailyIsAccurate, Days, Day
<1>13. NightsLeaveNoGap'
  <2>1. NightsLeaveNoGap
    BY DEF RollupInvariant
  <2>2. \A d \in Days : daily[d].stored => daily'[d].stored
    BY <1>7
  <2>3. \A d \in Days : daily'[d].stored => d < Day(now)
    <3> SUFFICES ASSUME NEW d \in Days, daily'[d].stored PROVE d < Day(now)
      OBVIOUS
    <3>1. CASE job[j].written[d].stored
      <4>1. d < job[j].night
        BY <1>3, <3>1 DEF OnCourse
      <4> QED
        BY <1>5, <1>6, <4>1
    <3>2. CASE ~ job[j].written[d].stored
      BY <1>7, <2>1, <3>2 DEF NightsLeaveNoGap
    <3> QED
      BY <3>1, <3>2
  <2>4. ASSUME NEW n \in nights', NEW d \in Days, d < n, n - d <= Lookback
        PROVE  daily'[d].stored
    <3>1. CASE n \in nights
      BY <2>1, <2>2, <2>4, <3>1 DEF NightsLeaveNoGap
    <3>2. CASE n \notin nights
      <4>1. j = Nightly /\ n = job[j].night
        BY <1>1, <3>2
      <4>2. job[j].written[d].stored \/ d >= job[j].night - 0
        BY <1>1, <1>3, <1>6, <2>4, <4>1 DEF Covers, Running
      <4>3. job[j].written[d].stored
        BY <1>5, <1>6, <2>4, <4>1, <4>2
      <4> QED
        BY <1>7, <4>3
    <3> QED
      BY <3>1, <3>2
  <2> QED
    BY <1>6, <2>3, <2>4 DEF NightsLeaveNoGap, Days, Day
<1> QED
  BY <1>10, <1>11, <1>12, <1>13 DEF RollupInvariant

\* An execution fails: its transaction leaves nothing.
LEMMA AbandonStep ==
  ASSUME RollupInvariant, NEW j \in Jobs, Abandon(j)
  PROVE  RollupInvariant'
<1>1. UNCHANGED <<now, row, prices, daily, nights, fresh>> /\ job = [k \in Jobs |-> job[k]]
  BY DEF Abandon, RollupInvariant, StateIsTyped
<1>2. \/ job' = [job EXCEPT ![j] = [Idle EXCEPT !.at = "retry"]]
      \/ job' = [job EXCEPT ![j] = Ended(j)]
  BY DEF Abandon
<1>3. job' = [k \in Jobs |-> IF k = j THEN job'[j] ELSE job[k]]
      /\ (job'[j] = [Idle EXCEPT !.at = "retry"] \/ job'[j] = Ended(j))
  BY <1>1, <1>2
<1>4. Ended(j) = [Idle EXCEPT !.at = "idle"] \/ Ended(j) = [Idle EXCEPT !.at = "done"]
  BY DEF Ended, Idle
<1>5. JobIsSound(j, job[j])'
  <2>1. CASE job'[j] = [Idle EXCEPT !.at = "retry"]
    BY <2>1, AtRest
  <2>2. CASE job'[j] = [Idle EXCEPT !.at = "idle"]
    BY <2>2, AtRest
  <2>3. CASE job'[j] = [Idle EXCEPT !.at = "done"]
    BY <2>3, AtRest
  <2> QED
    BY <1>3, <1>4, <2>1, <2>2, <2>3
<1> QED
  BY <1>1, <1>3, <1>5, JobStep

-----------------------------------------------------------------------------
(***************************************************************************)
(* Sums.                                                                   *)
(***************************************************************************)

\* A set that has zero, and the successor of each number in it, has every number.
LEMMA AllNumbers ==
  ASSUME NEW T, 0 \in T, \A k \in Nat : k \in T => k + 1 \in T
  PROVE  Nat \subseteq T
<1> SUFFICES ASSUME Nat \ T # {} PROVE FALSE
  OBVIOUS
<1>1. PICK n \in Nat \ T : \A k \in Nat \ T : n <= k
  <2>1. \E x \in Nat \ T : \A y \in Nat \ T : ~ <<y, x>> \in OpToRel(<, Nat)
    BY WFMin, NatLessThanWellFounded
  <2>2. PICK x \in Nat \ T : \A y \in Nat \ T : ~ y < x
    BY <2>1 DEF OpToRel
  <2> QED
    BY <2>2
<1>2. n # 0 /\ n - 1 \in Nat
  BY <1>1
<1>3. n - 1 \in T
  BY <1>1, <1>2
<1> QED
  BY <1>1, <1>2, <1>3

\* sum[s] is the sum of W over the set s, for every set of elements of R.
IsSum(sum, R, W) ==
  /\ sum \in [SUBSET R -> Nat]
  /\ sum[{}] = 0
  /\ \A s \in SUBSET R : \A x \in s : sum[s] = W[x] + sum[s \ {x}]

\* Without an element a set has one less.
LEMMA OneLess ==
  ASSUME NEW S, IsFiniteSet(S), NEW x \in S
  PROVE  /\ IsFiniteSet(S \ {x}) /\ Cardinality(S) \in Nat /\ Cardinality(S \ {x}) \in Nat
         /\ Cardinality(S) = Cardinality(S \ {x}) + 1
  BY FS_RemoveElement, FS_CardinalityType

\* Every finite set has its sums, whatever the order of the elements.
LEMMA SumExists ==
  ASSUME NEW R, IsFiniteSet(R), NEW W \in [R -> Nat]
  PROVE  \E sum : IsSum(sum, R, W)
<1>1. PICK T : T = {n \in Nat : \A S \in SUBSET R :
                                  Cardinality(S) = n => \E sum : IsSum(sum, S, W)}
  OBVIOUS
<1>2. 0 \in T
  <2>1. ASSUME NEW S \in SUBSET R, Cardinality(S) = 0 PROVE \E sum : IsSum(sum, S, W)
    <3>1. S = {}
      BY <2>1, FS_Subset, FS_EmptySet
    <3>2. PICK sum : sum = [s \in SUBSET S |-> 0]
      OBVIOUS
    <3>3. IsSum(sum, S, W)
      BY <3>1, <3>2 DEF IsSum
    <3> QED
      BY <3>3
  <2> QED
    BY <1>1, <2>1
<1>3. ASSUME NEW k \in Nat, k \in T PROVE k + 1 \in T
  <2>1. ASSUME NEW S \in SUBSET R, Cardinality(S) = k + 1 PROVE \E sum : IsSum(sum, S, W)
    <3>1. IsFiniteSet(S) /\ S # {}
      BY <2>1, FS_Subset, FS_EmptySet
    <3>2. PICK x \in S : TRUE
      BY <3>1
    <3>3. PICK Q \in SUBSET R : Q = S \ {x}
      OBVIOUS
    <3>4. Cardinality(Q) = k
      BY <2>1, <3>1, <3>3, OneLess
    <3>5. PICK old : IsSum(old, Q, W)
      BY <1>1, <1>3, <3>4
    <3>6. /\ old \in [SUBSET Q -> Nat] /\ old[{}] = 0
          /\ \A s \in SUBSET Q : \A y \in s : old[s] = W[y] + old[s \ {y}]
      BY <3>5 DEF IsSum
    <3>7. PICK sum : sum = [s \in SUBSET S |-> IF x \in s THEN W[x] + old[s \ {x}] ELSE old[s]]
      OBVIOUS
    <3>8. \A s \in SUBSET S : s \ {x} \in SUBSET Q /\ (x \notin s => s \in SUBSET Q)
      BY <3>3
    <3>9. \A y \in S : W[y] \in Nat
      OBVIOUS
    <3>10. sum \in [SUBSET S -> Nat]
      BY <3>6, <3>7, <3>8, <3>9
    <3>11. sum[{}] = 0
      BY <3>6, <3>7
    <3>12. ASSUME NEW s \in SUBSET S, NEW y \in s PROVE sum[s] = W[y] + sum[s \ {y}]
      <4>1. CASE y = x
        BY <3>7, <4>1
      <4>2. CASE y # x /\ x \notin s
        <5>1. s \in SUBSET Q /\ s \ {y} \in SUBSET S
          BY <3>8, <4>2
        <5> QED
          BY <3>6, <3>7, <4>2, <5>1
      <4>3. CASE y # x /\ x \in s
        <5>1. s \ {y} \in SUBSET S /\ x \in s \ {y}
          BY <4>3
        <5>2. sum[s] = W[x] + old[s \ {x}] /\ sum[s \ {y}] = W[x] + old[(s \ {y}) \ {x}]
          BY <3>7, <4>3, <5>1
        <5>3. s \ {x} \in SUBSET Q /\ y \in s \ {x}
          BY <3>8, <4>3
        <5>4. old[s \ {x}] = W[y] + old[(s \ {x}) \ {y}] /\ (s \ {x}) \ {y} = (s \ {y}) \ {x}
          BY <3>6, <5>3
        <5>5. W[x] \in Nat /\ W[y] \in Nat /\ old[(s \ {y}) \ {x}] \in Nat
          <6>1. (s \ {y}) \ {x} \in SUBSET Q
            BY <3>8, <5>1
          <6> QED
            BY <3>6, <3>9, <6>1
        <5> QED
          BY <5>2, <5>4, <5>5
      <4> QED
        BY <4>1, <4>2, <4>3
    <3>13. IsSum(sum, S, W)
      BY <3>10, <3>11, <3>12 DEF IsSum
    <3> QED
      BY <3>13
  <2> QED
    BY <1>1, <2>1
<1>4. Nat \subseteq T
  BY <1>2, <1>3, AllNumbers
<1>5. Cardinality(R) \in Nat
  BY FS_CardinalityType
<1> QED
  BY <1>1, <1>4, <1>5

\* What a fold over a function does: it takes away an element, of its choice, at a time.
TakesApart(g, f) ==
  g = [s \in SUBSET DOMAIN f |->
         IF s = {} THEN 0 ELSE f[CHOOSE x \in s : TRUE] + g[s \ {CHOOSE x \in s : TRUE}]]

\* Whatever the choice, it comes to the sum.
LEMMA TotalIsSum ==
  ASSUME NEW R, IsFiniteSet(R), NEW W \in [R -> Nat], NEW sum, IsSum(sum, R, W),
         NEW A \in SUBSET R, NEW f, f = [x \in A |-> W[x]]
  PROVE  Total(f) = sum[A]
<1>1. /\ sum \in [SUBSET R -> Nat] /\ sum[{}] = 0
      /\ \A s \in SUBSET R : \A x \in s : sum[s] = W[x] + sum[s \ {x}]
  BY DEF IsSum
<1>2. PICK h : h = [s \in SUBSET A |-> sum[s]]
  OBVIOUS
<1>3. ASSUME NEW s \in SUBSET A
      PROVE  h[s] = IF s = {} THEN 0
                    ELSE f[CHOOSE x \in s : TRUE] + h[s \ {CHOOSE x \in s : TRUE}]
  <2>1. CASE s # {}
    <3>1. PICK x : x = CHOOSE y \in s : TRUE
      OBVIOUS
    <3>2. x \in s
      BY <2>1, <3>1
    <3>3. s \in SUBSET R /\ s \ {x} \in SUBSET A /\ f[x] = W[x]
      BY <3>2
    <3>4. h[s] = f[x] + h[s \ {x}]
      BY <1>1, <1>2, <3>2, <3>3
    <3> QED
      BY <2>1, <3>1, <3>4
  <2> QED
    BY <1>1, <1>2, <2>1
<1>4. TakesApart(h, f)
  BY <1>2, <1>3 DEF TakesApart
<1>5. PICK c : c = CHOOSE g : TakesApart(g, f)
  OBVIOUS
<1>6. c = [s \in SUBSET DOMAIN f |->
             IF s = {} THEN 0 ELSE f[CHOOSE x \in s : TRUE] + c[s \ {CHOOSE x \in s : TRUE}]]
  <2>1. TakesApart(c, f)
    BY <1>4, <1>5
  <2> QED
    BY <2>1 DEF TakesApart
<1>7. Total(f) = c[DOMAIN f]
  BY <1>5, Zenon DEF TakesApart, Total, FoldFunction, FoldFunctionOnSet, MapThenFoldSet
<1>8. PICK T : T = {n \in Nat : \A s \in SUBSET A : Cardinality(s) = n => c[s] = sum[s]}
  OBVIOUS
<1>9. \A s \in SUBSET A : IsFiniteSet(s)
  BY FS_Subset
<1>10. 0 \in T
  <2>1. ASSUME NEW s \in SUBSET A, Cardinality(s) = 0 PROVE c[s] = sum[s]
    <3>1. s = {}
      BY <1>9, <2>1, FS_EmptySet
    <3> QED
      BY <1>1, <1>6, <3>1
  <2> QED
    BY <1>8, <2>1
<1>11. ASSUME NEW k \in Nat, k \in T PROVE k + 1 \in T
  <2>1. ASSUME NEW s \in SUBSET A, Cardinality(s) = k + 1 PROVE c[s] = sum[s]
    <3>1. s # {}
      BY <2>1, FS_EmptySet
    <3>2. PICK x : x = CHOOSE y \in s : TRUE
      OBVIOUS
    <3>3. x \in s
      BY <3>1, <3>2
    <3>4. c[s] = f[x] + c[s \ {x}]
      BY <1>6, <3>1, <3>2
    <3>5. s \ {x} \in SUBSET A /\ Cardinality(s \ {x}) = k
      BY <1>9, <2>1, <3>3, OneLess
    <3>6. c[s \ {x}] = sum[s \ {x}]
      BY <1>8, <1>11, <3>5
    <3>7. sum[s] = W[x] + sum[s \ {x}] /\ f[x] = W[x]
      BY <1>1, <3>3
    <3> QED
      BY <3>4, <3>6, <3>7
  <2> QED
    BY <1>8, <2>1
<1>12. Nat \subseteq T
  BY <1>10, <1>11, AllNumbers
<1>13. Cardinality(A) \in Nat
  BY <1>9, FS_CardinalityType
<1> QED
  BY <1>7, <1>8, <1>12, <1>13

\* The sum over two sets that share nothing.
LEMMA SumOfTwo ==
  ASSUME NEW R, IsFiniteSet(R), NEW W \in [R -> Nat], NEW sum, IsSum(sum, R, W),
         NEW A \in SUBSET R, NEW B \in SUBSET R, A \cap B = {}
  PROVE  sum[A \cup B] = sum[A] + sum[B]
<1>1. /\ sum \in [SUBSET R -> Nat] /\ sum[{}] = 0
      /\ \A s \in SUBSET R : \A x \in s : sum[s] = W[x] + sum[s \ {x}]
  BY DEF IsSum
<1>2. PICK T : T = {n \in Nat : \A s \in SUBSET B : Cardinality(s) = n =>
                                  sum[A \cup s] = sum[A] + sum[s]}
  OBVIOUS
<1>3. \A s \in SUBSET B : IsFiniteSet(s)
  BY FS_Subset
<1>4. 0 \in T
  <2>1. ASSUME NEW s \in SUBSET B, Cardinality(s) = 0 PROVE sum[A \cup s] = sum[A] + sum[s]
    <3>1. s = {}
      BY <1>3, <2>1, FS_EmptySet
    <3>2. A \cup s = A /\ sum[A] \in Nat
      BY <1>1, <3>1
    <3> QED
      BY <1>1, <3>1, <3>2
  <2> QED
    BY <1>2, <2>1
<1>5. ASSUME NEW k \in Nat, k \in T PROVE k + 1 \in T
  <2>1. ASSUME NEW s \in SUBSET B, Cardinality(s) = k + 1 PROVE sum[A \cup s] = sum[A] + sum[s]
    <3>1. PICK x : x \in s
      <4>1. Cardinality({}) = 0
        BY FS_EmptySet
      <4>2. k + 1 # 0
        OBVIOUS
      <4>3. ASSUME s = {} PROVE FALSE
        BY <2>1, <4>1, <4>2, <4>3
      <4> QED
        BY <4>3
    <3>2. PICK q \in SUBSET B : q = s \ {x} /\ Cardinality(q) = k
      <4>1. IsFiniteSet(s)
        BY <1>3
      <4>2. Cardinality(s) = Cardinality(s \ {x}) + 1 /\ Cardinality(s \ {x}) \in Nat
        BY <3>1, <4>1, OneLess
      <4>3. Cardinality(s \ {x}) = k
        BY <2>1, <4>2
      <4> QED
        BY <4>3
    <3>3. sum[A \cup q] = sum[A] + sum[q]
      BY <1>2, <1>5, <3>2
    <3>4. PICK u \in SUBSET R : u = A \cup s /\ x \in u /\ u \ {x} = A \cup q
      <4>1. A \cup s \in SUBSET R /\ x \in A \cup s /\ (A \cup s) \ {x} = A \cup q
        BY <3>1, <3>2
      <4> QED
        BY <4>1
    <3>5. sum[A \cup s] = W[x] + sum[A \cup q] /\ sum[s] = W[x] + sum[q]
      <4>1. sum[u] = W[x] + sum[u \ {x}]
        BY <1>1, <3>4
      <4>2. s \in SUBSET R /\ sum[s] = W[x] + sum[s \ {x}]
        BY <1>1, <3>1
      <4> QED
        BY <3>2, <3>4, <4>1, <4>2
    <3>6. W[x] \in Nat /\ sum[A] \in Nat /\ sum[q] \in Nat
      BY <1>1, <3>1, <3>2
    <3> QED
      BY <3>3, <3>5, <3>6
  <2>2. k + 1 \in Nat
    OBVIOUS
  <2> QED
    BY <1>2, <2>1, <2>2
<1>6. Nat \subseteq T
  BY <1>4, <1>5, AllNumbers
<1>7. Cardinality(B) \in Nat
  BY <1>3, FS_CardinalityType
<1> QED
  BY <1>2, <1>6, <1>7

\* The sums over parts that share nothing add up to the sum over all of them.
LEMMA SumOfParts ==
  ASSUME NEW R, IsFiniteSet(R), NEW W \in [R -> Nat], NEW sum, IsSum(sum, R, W),
         NEW I, IsFiniteSet(I), NEW P \in [I -> SUBSET R],
         \A i, j \in I : i # j => P[i] \cap P[j] = {},
         NEW U, \A x : x \in U <=> \E i \in I : x \in P[i],
         NEW f \in [I -> Nat], \A i \in I : f[i] = sum[P[i]]
  PROVE  Total(f) = sum[U]
<1>1. sum \in [SUBSET R -> Nat] /\ sum[{}] = 0
  BY DEF IsSum
<1>2. PICK parts : parts = [J \in SUBSET I |-> sum[UNION {P[i] : i \in J}]]
  OBVIOUS
<1>3. \A J \in SUBSET I : UNION {P[i] : i \in J} \in SUBSET R
  OBVIOUS
<1>4. UNION {P[i] : i \in I} = U
  OBVIOUS
<1>5. parts \in [SUBSET I -> Nat]
  BY <1>1, <1>2, <1>3
<1>6. parts[{}] = 0
  <2>1. UNION {P[i] : i \in {}} = {}
    OBVIOUS
  <2> QED
    BY <1>1, <1>2, <2>1
<1>7. ASSUME NEW J \in SUBSET I, NEW j \in J PROVE parts[J] = f[j] + parts[J \ {j}]
  <2>1. PICK A \in SUBSET R : A = UNION {P[i] : i \in J \ {j}}
    BY <1>3
  <2>2. PICK B \in SUBSET R : B = P[j]
    OBVIOUS
  <2>3. A \cap B = {}
    BY <2>1, <2>2
  <2>4. UNION {P[i] : i \in J} = A \cup B
    BY <2>1, <2>2
  <2>5. sum[A \cup B] = sum[A] + sum[B]
    BY <2>3, SumOfTwo
  <2>6. sum[A] \in Nat /\ sum[B] \in Nat /\ f[j] = sum[B]
    BY <1>1, <2>2
  <2>7. parts[J] = sum[A \cup B] /\ parts[J \ {j}] = sum[A]
    BY <1>2, <2>1, <2>4
  <2> QED
    BY <2>5, <2>6, <2>7
<1>8. IsSum(parts, I, f)
  BY <1>5, <1>6, <1>7 DEF IsSum
<1>9. f = [i \in I |-> f[i]]
  OBVIOUS
<1>10. Total(f) = parts[I]
  BY <1>8, <1>9, TotalIsSum
<1> QED
  BY <1>2, <1>4, <1>10

\* A cardinality is a sum of ones.
LEMMA CardinalityIsSum ==
  ASSUME NEW R, IsFiniteSet(R)
  PROVE  IsSum([s \in SUBSET R |-> Cardinality(s)], R, [x \in R |-> 1])
<1>1. \A s \in SUBSET R : IsFiniteSet(s) /\ Cardinality(s) \in Nat
  BY FS_Subset, FS_CardinalityType
<1>2. Cardinality({}) = 0
  BY FS_EmptySet
<1>3. \A s \in SUBSET R : \A x \in s : /\ Cardinality(s) = Cardinality(s \ {x}) + 1
                                       /\ s \ {x} \in SUBSET R
  BY <1>1, OneLess
<1>4. PICK c, W : c = [s \in SUBSET R |-> Cardinality(s)] /\ W = [x \in R |-> 1]
  OBVIOUS
<1>5. ASSUME NEW s \in SUBSET R, NEW x \in s PROVE c[s] = W[x] + c[s \ {x}]
  <2>1. W[x] = 1 /\ c[s] = Cardinality(s) /\ c[s \ {x}] = Cardinality(s \ {x})
    BY <1>3, <1>4
  <2> QED
    BY <1>1, <1>3, <2>1
<1>6. c \in [SUBSET R -> Nat] /\ c[{}] = 0
  BY <1>1, <1>2, <1>4
<1>7. IsSum(c, R, W)
  BY <1>5, <1>6 DEF IsSum
<1> QED
  BY <1>4, <1>7

\* Sums of parts that are each near, on some of the places, and equal on the rest.
LEMMA SumsNear ==
  ASSUME NEW I, IsFiniteSet(I), NEW P \in SUBSET I, NEW G \in Nat,
         NEW f \in [I -> Nat], NEW g \in [I -> Nat],
         \A i \in P : 2 * f[i] - 2 * g[i] \in -G .. G,
         \A i \in I \ P : f[i] = g[i]
  PROVE  2 * Total(f) - 2 * Total(g) \in -(G * Cardinality(P)) .. G * Cardinality(P)
<1>1. PICK sf : IsSum(sf, I, f)
  BY SumExists
<1>2. PICK sg : IsSum(sg, I, g)
  BY SumExists
<1>3. /\ sf \in [SUBSET I -> Nat] /\ sf[{}] = 0
      /\ \A s \in SUBSET I : \A x \in s : sf[s] = f[x] + sf[s \ {x}]
  BY <1>1 DEF IsSum
<1>4. /\ sg \in [SUBSET I -> Nat] /\ sg[{}] = 0
      /\ \A s \in SUBSET I : \A x \in s : sg[s] = g[x] + sg[s \ {x}]
  BY <1>2 DEF IsSum
<1>5. \A s \in SUBSET I : /\ IsFiniteSet(s) /\ Cardinality(s) \in Nat
                          /\ IsFiniteSet(s \cap P) /\ Cardinality(s \cap P) \in Nat
  BY FS_Subset, FS_CardinalityType
<1>6. PICK T : T = {n \in Nat : \A s \in SUBSET I : Cardinality(s) = n =>
                      /\ 2 * sf[s] <= 2 * sg[s] + G * Cardinality(s \cap P)
                      /\ 2 * sg[s] <= 2 * sf[s] + G * Cardinality(s \cap P)}
  OBVIOUS
<1>7. 0 \in T
  <2>1. ASSUME NEW s \in SUBSET I, Cardinality(s) = 0
        PROVE  /\ 2 * sf[s] <= 2 * sg[s] + G * Cardinality(s \cap P)
               /\ 2 * sg[s] <= 2 * sf[s] + G * Cardinality(s \cap P)
    <3>1. s = {} /\ s \cap P = {}
      BY <1>5, <2>1, FS_EmptySet
    <3>2. Cardinality(s \cap P) = 0
      BY <3>1, FS_EmptySet
    <3> QED
      BY <1>3, <1>4, <3>1, <3>2
  <2> QED
    BY <1>6, <2>1
<1>8. ASSUME NEW k \in Nat, k \in T PROVE k + 1 \in T
  <2>1. ASSUME NEW s \in SUBSET I, Cardinality(s) = k + 1
        PROVE  /\ 2 * sf[s] <= 2 * sg[s] + G * Cardinality(s \cap P)
               /\ 2 * sg[s] <= 2 * sf[s] + G * Cardinality(s \cap P)
    <3>12. Cardinality({}) = 0 /\ k + 1 # 0
      BY FS_EmptySet
    <3>1. s # {}
      BY <2>1, <3>12
    <3>2. PICK x \in s : TRUE
      BY <3>1
    <3>3. PICK q \in SUBSET I : q = s \ {x}
      OBVIOUS
    <3>13. IsFiniteSet(s) /\ x \in s
      BY <1>5, <3>1, <3>2
    <3>14. Cardinality(s \ {x}) \in Nat /\ Cardinality(s) = Cardinality(s \ {x}) + 1
      BY <3>13, OneLess
    <3>4. Cardinality(q) = k
      BY <2>1, <3>3, <3>14
    <3>5. PICK c \in Nat : c = Cardinality(q \cap P)
      BY <1>5
    <3>6. PICK a \in Nat, b \in Nat : a = sf[q] /\ b = sg[q]
      BY <1>3, <1>4
    <3>7. 2 * a <= 2 * b + G * c /\ 2 * b <= 2 * a + G * c
      BY <1>6, <1>8, <3>4, <3>5, <3>6
    <3>8. PICK u \in Nat, v \in Nat : u = f[x] /\ v = g[x]
      OBVIOUS
    <3>9. sf[s] = u + a /\ sg[s] = v + b
      BY <1>3, <1>4, <3>3, <3>6, <3>8
    <3>10. CASE x \in P
      <4>1. (s \cap P) \ {x} = q \cap P /\ x \in s \cap P
        BY <3>3, <3>10
      <4>2. Cardinality(s \cap P) = c + 1
        BY <1>5, <3>5, <4>1, OneLess
      <4>3. 2 * u - 2 * v \in -G .. G
        BY <3>8, <3>10
      <4>4. G * (c + 1) = G * c + G /\ G * c \in Nat
        OBVIOUS
      <4>5. PICK e \in Nat : e = G * c
        BY <4>4
      <4>6. /\ 2 * (u + a) <= 2 * (v + b) + (e + G)
            /\ 2 * (v + b) <= 2 * (u + a) + (e + G)
        BY <3>7, <4>3, <4>5
      <4> QED
        BY <3>9, <4>2, <4>4, <4>5, <4>6
    <3>11. CASE x \notin P
      <4>1. s \cap P = q \cap P
        BY <3>3, <3>11
      <4>2. u = v
        BY <3>8, <3>11
      <4>3. G * c \in Nat
        OBVIOUS
      <4>4. PICK e \in Nat : e = G * c
        BY <4>3
      <4>5. /\ 2 * (u + a) <= 2 * (v + b) + e
            /\ 2 * (v + b) <= 2 * (u + a) + e
        BY <3>7, <4>2, <4>4
      <4>6. Cardinality(s \cap P) = c
        BY <3>5, <4>1
      <4> QED
        BY <3>9, <4>4, <4>5, <4>6
    <3> QED
      BY <3>10, <3>11
  <2> QED
    BY <1>6, <2>1
<1>9. Nat \subseteq T
  BY <1>7, <1>8, AllNumbers
<1>10. f = [x \in I |-> f[x]] /\ g = [x \in I |-> g[x]] /\ I \in SUBSET I
  OBVIOUS
<1>11. Total(f) = sf[I] /\ Total(g) = sg[I]
  BY <1>1, <1>2, <1>10, TotalIsSum
<1>12. PICK m \in Nat : m = Cardinality(P)
  BY FS_Subset, FS_CardinalityType
<1>13. I \cap P = P /\ Cardinality(I) \in Nat
  BY <1>5
<1>14. PICK a \in Nat, b \in Nat, e \in Nat : a = sf[I] /\ b = sg[I] /\ e = G * m
  BY <1>3, <1>4
<1>15. 2 * a <= 2 * b + e /\ 2 * b <= 2 * a + e
  BY <1>6, <1>9, <1>12, <1>13, <1>14
<1>16. 2 * a - 2 * b \in -e .. e
  BY <1>15
<1> QED
  BY <1>11, <1>12, <1>14, <1>16

\* What the column keeps of a cost is within half of its last digit.
LEMMA RoundedNear ==
  ASSUME NEW cost \in Nat
  PROVE  Rounded(cost) \in Nat /\ 2 * Rounded(cost) - 2 * cost \in -Grain .. Grain
<1>1. PICK G \in Nat \ {0} : G = Grain
  BY Constants
<1>2. PICK n \in Nat, a \in Nat : n = 2 * G /\ a = 2 * cost + G /\ n > 0
  BY <1>1
<1>3. PICK q : q = a \div n
  OBVIOUS
<1>4. q \in Nat /\ q * n <= a /\ a < (q + 1) * n
  BY <1>2, <1>3
<1>5. (q + 1) * n = q * n + n /\ q * n \in Nat /\ q * G \in Nat
  BY <1>2, <1>4
<1>6. q * n = 2 * (q * G)
  BY <1>2, <1>4
<1>7. Rounded(cost) = q * G
  BY <1>1, <1>2, <1>3 DEF Rounded
<1>8. PICK w \in Nat : w = q * G
  BY <1>5
<1>9. 2 * w <= 2 * cost + G /\ 2 * cost + G < 2 * w + 2 * G
  BY <1>2, <1>4, <1>5, <1>6, <1>8
<1> QED
  BY <1>1, <1>7, <1>8, <1>9

-----------------------------------------------------------------------------
(***************************************************************************)
(* The dashboard: a day, a model, the whole.                               *)
(***************************************************************************)

\* With a session in UTC, a day's bar on the dashboard is made of the rows of
\* that day in the period.
LEMMA LiveShown ==
  ASSUME SessionOffset = 0, RollupInvariant, NEW d \in Days, NEW n \in Nat
  PROVE  Live(d, n) = Figures({r \in Since(Logs, since(n)) : Day(row[r].time) = d},
                              {r \in Since(MessagesKept, since(n)) : Day(row[r].time) = d})
<1> DEFINE local(r) == Day(row[r].time + SessionOffset)
           shown == Since(Committed, since(n))
<1>1. \A r \in Rows : row[r].time \in Nat
  BY DEF RollupInvariant, StateIsTyped
<1>2. \A r \in Rows : local(r) = Day(row[r].time)
  <2>1. \A r \in Rows : row[r].time + SessionOffset = row[r].time
    BY <1>1
  <2> QED
    BY <2>1
<1>3. /\ Since(Logs, since(n)) \subseteq Rows /\ Since(MessagesKept, since(n)) \subseteq Rows
      /\ Since(Logs, since(n)) \subseteq shown /\ Since(MessagesKept, since(n)) \subseteq shown
  BY DEF Since, Logs, MessagesKept, Committed
<1>4. daily_usage(since(n))
        = [e \in {local(r) : r \in shown} |->
             Figures({r \in Since(Logs, since(n)) : local(r) = e},
                     {r \in Since(MessagesKept, since(n)) : local(r) = e})]
  BY DEF daily_usage
<1> HIDE DEF local, shown
<1>5. PICK L, M : /\ L = {r \in Since(Logs, since(n)) : Day(row[r].time) = d}
                  /\ M = {r \in Since(MessagesKept, since(n)) : Day(row[r].time) = d}
  OBVIOUS
<1>6. /\ L = {r \in Since(Logs, since(n)) : local(r) = d}
      /\ M = {r \in Since(MessagesKept, since(n)) : local(r) = d}
  BY <1>2, <1>3, <1>5
<1>7. CASE d \in {local(r) : r \in shown}
  <2>1. daily_usage(since(n))[d] = Figures(L, M) /\ d \in DOMAIN daily_usage(since(n))
    BY <1>4, <1>6, <1>7
  <2> QED
    BY <1>5, <2>1 DEF Live
<1>8. CASE d \notin {local(r) : r \in shown}
  <2>1. L = {} /\ M = {}
    BY <1>3, <1>6, <1>8
  <2>2. d \notin DOMAIN daily_usage(since(n))
    BY <1>4, <1>8
  <2> QED
    BY <1>5, <2>1, <2>2 DEF Live
<1> QED
  BY <1>7, <1>8

\* A day's SELECT is its bar in every period that holds the whole day.
LEMMA SummaryShown ==
  ASSUME SessionOffset = 0, RollupInvariant, NEW d \in Days, NEW n \in Nat, Whole(d, n)
  PROVE  Summary(d) = Live(d, n)
<1>1. /\ d \in Nat /\ now \in Nat /\ DayLength \in Nat
      /\ \A r \in Rows : row[r].time \in Nat
  BY DaysAreNat, Constants DEF RollupInvariant, StateIsTyped
<1>2. PICK first \in Nat : first = d * DayLength
  BY <1>1
<1>3. PICK begin \in Int : begin = since(n)
  BY <1>1 DEF since
<1>4. begin <= first
  BY <1>2, <1>3 DEF Whole
<1>5. ASSUME NEW r \in Rows
      PROVE  row[r].time \in day_bounds(d) <=> Day(row[r].time) = d /\ row[r].time >= begin
  <2>1. row[r].time \in day_bounds(d) <=> Day(row[r].time) = d
    BY <1>1, DayUnique
  <2>2. row[r].time \in day_bounds(d) => row[r].time >= first
    BY <1>2 DEF day_bounds
  <2> QED
    BY <1>1, <1>2, <1>3, <1>4, <2>1, <2>2
<1>6. {r \in Logs : row[r].time \in day_bounds(d)}
        = {r \in Since(Logs, since(n)) : Day(row[r].time) = d}
  BY <1>3, <1>5 DEF Since, Logs, Committed
<1>7. {r \in MessagesKept : row[r].time \in day_bounds(d)}
        = {r \in Since(MessagesKept, since(n)) : Day(row[r].time) = d}
  BY <1>3, <1>5 DEF Since, MessagesKept, Committed
<1>8. Summary(d) = Figures({r \in Since(Logs, since(n)) : Day(row[r].time) = d},
                           {r \in Since(MessagesKept, since(n)) : Day(row[r].time) = d})
  BY <1>6, <1>7 DEF Summary
<1> QED
  BY <1>8, LiveShown

\* No row is of a time to come and every price is an amount.
MoneyIsCounted ==
  /\ \A r \in Rows : row[r].time <= now
  /\ \A p \in prices : p.price \in Nat

\* What a call costs is an amount.
LEMMA CostIsAmount ==
  ASSUME MoneyIsCounted, NEW r
  PROVE  Cost(r) \in Nat
<1>1. DefaultPrice \in Nat
  BY RollupAssumption
<1>2. pricing(r) # {} => (CHOOSE p \in pricing(r) : TRUE) \in pricing(r)
  OBVIOUS
<1>3. pricing(r) \subseteq prices
  BY DEF pricing
<1>4. PICK price \in Nat : price = IF pricing(r) = {} THEN DefaultPrice
                                   ELSE (CHOOSE p \in pricing(r) : TRUE).price
  BY <1>1, <1>2, <1>3 DEF MoneyIsCounted
<1>5. Cost(r) = Tokens(r) * price
  BY <1>4 DEF Cost
<1>6. CASE Tokens(r) = 1
  BY <1>5, <1>6
<1>7. CASE Tokens(r) = 0
  BY <1>5, <1>7
<1> QED
  BY <1>6, <1>7 DEF Tokens

LEMMA MoneyInit == Init => MoneyIsCounted
<1> SUFFICES ASSUME Init PROVE MoneyIsCounted
  OBVIOUS
<1>1. \A r \in Rows : row[r].time = 0
  BY DEF Init, NoRow
<1> QED
  BY <1>1 DEF Init, MoneyIsCounted

LEMMA MoneyStep ==
  ASSUME RollupInvariant, MoneyIsCounted, [Next]_vars
  PROVE  MoneyIsCounted'
<1>1. /\ row \in [Rows -> [at : {"none", "open", "kept", "gone"}, time : Nat,
                           kind : {"message", "call", "error"}, model : Models]]
      /\ now \in Nat
  BY DEF RollupInvariant, StateIsTyped
<1>2. now' \in Nat /\ now <= now'
  <2>1. now' = now + 1 \/ now' = now
    BY DEF Next, Tick, BeginRow, CommitRow, DeleteConversation, AddPricing, DeletePricing,
           BeatTick, BackfillStart, RetryTask, Start, Compute, Upsert, Commit, Abandon, vars
  <2> QED
    BY <1>1, <2>1
<1>3. \A r \in Rows : row'[r].time <= now'
  <2>1. ASSUME NEW s \in Rows, BeginRow(s) PROVE \A r \in Rows : row'[r].time <= now'
    <3>1. PICK c \in Contents : row' = [row EXCEPT ![s] = Row("open", c)]
      BY <2>1 DEF BeginRow
    <3>2. row'[s].time = now /\ \A r \in Rows \ {s} : row'[r] = row[r]
      BY <1>1, <3>1 DEF Row
    <3> QED
      BY <1>1, <1>2, <3>2 DEF MoneyIsCounted
  <2>2. ASSUME NEW s \in Rows, CommitRow(s) \/ DeleteConversation(s)
        PROVE  \A r \in Rows : row'[r].time <= now'
    <3>1. PICK at : row' = [row EXCEPT ![s].at = at]
      BY <2>2 DEF CommitRow, DeleteConversation
    <3>2. \A r \in Rows : row'[r].time = row[r].time
      BY <1>1, <3>1
    <3> QED
      BY <1>1, <1>2, <3>2 DEF MoneyIsCounted
  <2>3. CASE row' = row
    BY <1>1, <1>2, <2>3 DEF MoneyIsCounted
  <2> QED
    BY <2>1, <2>2, <2>3
       DEF Next, Tick, AddPricing, DeletePricing, BeatTick, BackfillStart, RetryTask,
           Start, Compute, Upsert, Commit, Abandon, vars
<1>4. \A p \in prices' : p.price \in Nat
  <2>1. ASSUME NEW m \in Models, NEW price \in Prices, NEW from \in Starts,
               AddPricing(m, price, from)
        PROVE  \A p \in prices' : p.price \in Nat
    <3>1. price \in Nat
      BY RollupAssumption
    <3>2. prices' = prices \cup {[model |-> m, from |-> from, price |-> price]}
      BY <2>1 DEF AddPricing
    <3> QED
      BY <3>1, <3>2 DEF MoneyIsCounted
  <2>2. CASE prices' \subseteq prices
    BY <2>2 DEF MoneyIsCounted
  <2> QED
    BY <2>1, <2>2
       DEF Next, Tick, BeginRow, CommitRow, DeleteConversation, DeletePricing, BeatTick,
           BackfillStart, RetryTask, Start, Compute, Upsert, Commit, Abandon, vars
<1> QED
  BY <1>3, <1>4 DEF MoneyIsCounted

\* What the figures of some calls say: their number and the sum of their costs.
LEMMA FiguresOf ==
  ASSUME NEW R, IsFiniteSet(R), NEW W \in [R -> Nat], \A r \in R : W[r] = Cost(r),
         NEW sum, IsSum(sum, R, W), NEW A \in SUBSET R, NEW M
  PROVE  Figures(A, M).requests = Cardinality(A) /\ Figures(A, M).cost = sum[A]
<1>1. PICK f : f = [r \in A |-> Cost(r)]
  OBVIOUS
<1>2. f = [r \in A |-> W[r]]
  BY <1>1
<1>3. Total(f) = sum[A]
  BY <1>2, TotalIsSum
<1>4. Figures(A, M).requests = Cardinality(A) /\ Figures(A, M).cost = Total(f)
  BY <1>1 DEF Figures
<1> QED
  BY <1>3, <1>4

\* The rows of a period are of the days so far.
LEMMA DaysSoFar ==
  ASSUME RollupInvariant, MoneyIsCounted
  PROVE  /\ Day(now) \in Nat
         /\ \A d \in 0 .. Day(now) : d \in Days
         /\ \A r \in Rows : Day(row[r].time) \in 0 .. Day(now)
<1>1. now \in Nat /\ now <= MaxTime /\ \A r \in Rows : row[r].time \in Nat
  BY DEF RollupInvariant, StateIsTyped
<1>2. \A r \in Rows : row[r].time <= now
  BY DEF MoneyIsCounted
<1>3. Day(now) \in Nat
  BY <1>1, DayRange
<1>4. \A d \in 0 .. Day(now) : d \in Days
  BY <1>1, <1>3, DaysAreNat
<1>5. \A r \in Rows : Day(row[r].time) \in Nat /\ Day(row[r].time) <= Day(now)
  BY <1>1, <1>2, DayRange, DayMonotone
<1> QED
  BY <1>3, <1>4, <1>5

\* A sum is the sum over the classes its elements fall into.
LEMMA SumByClass ==
  ASSUME NEW R, IsFiniteSet(R), NEW W \in [R -> Nat], NEW sum, IsSum(sum, R, W),
         NEW I, IsFiniteSet(I), NEW class \in [R -> I]
  PROVE  \E P \in [I -> SUBSET R] :
           /\ \A i \in I : \A r : r \in P[i] <=> r \in R /\ class[r] = i
           /\ \A f \in [I -> Nat] : (\A i \in I : f[i] = sum[P[i]]) => Total(f) = sum[R]
<1>1. PICK P : P = [i \in I |-> {r \in R : class[r] = i}]
  OBVIOUS
<1>2. P \in [I -> SUBSET R] /\ \A i, j \in I : i # j => P[i] \cap P[j] = {}
  BY <1>1
<1>3. \A r : r \in R <=> \E i \in I : r \in P[i]
  BY <1>1
<1>4. \A f \in [I -> Nat] : (\A i \in I : f[i] = sum[P[i]]) => Total(f) = sum[R]
  BY <1>2, <1>3, SumOfParts
<1>5. \A i \in I : \A r : r \in P[i] <=> r \in R /\ class[r] = i
  BY <1>1
<1> QED
  BY <1>2, <1>4, <1>5

\* A sum over some rows is the sum over the days so far.
LEMMA LogsByDay ==
  ASSUME RollupInvariant, MoneyIsCounted, NEW R \in SUBSET Rows, IsFiniteSet(R),
         NEW W \in [R -> Nat], NEW sum, IsSum(sum, R, W),
         NEW f, f = [d \in 0 .. Day(now) |-> sum[{r \in R : Day(row[r].time) = d}]]
  PROVE  f \in [0 .. Day(now) -> Nat] /\ Total(f) = sum[R]
<1>1. PICK end \in Nat : end = Day(now)
  BY DaysSoFar
<1>2. PICK I : I = 0 .. end
  OBVIOUS
<1>3. IsFiniteSet(I)
  BY <1>2, FS_Interval
<1>4. PICK class : class = [r \in R |-> Day(row[r].time)]
  OBVIOUS
<1>5. class \in [R -> I]
  BY <1>1, <1>2, <1>4, DaysSoFar
<1>6. PICK P \in [I -> SUBSET R] :
        /\ \A i \in I : \A r : r \in P[i] <=> r \in R /\ class[r] = i
        /\ \A g \in [I -> Nat] : (\A i \in I : g[i] = sum[P[i]]) => Total(g) = sum[R]
  BY <1>3, <1>5, SumByClass
<1>7. ASSUME NEW i \in I PROVE P[i] = {r \in R : Day(row[r].time) = i}
  <2>1. \A r : r \in P[i] <=> r \in R /\ class[r] = i
    BY <1>6
  <2>2. \A r \in R : class[r] = Day(row[r].time)
    BY <1>4
  <2> QED
    BY <2>1, <2>2
<1>8. f \in [I -> Nat] /\ \A i \in I : f[i] = sum[P[i]]
  <2>1. sum \in [SUBSET R -> Nat]
    BY DEF IsSum
  <2> QED
    BY <1>1, <1>2, <1>6, <1>7, <2>1
<1> QED
  BY <1>1, <1>2, <1>6, <1>8

\* A sum over calls is the sum over the models that were called.
LEMMA LogsByModel ==
  ASSUME NEW R, IsFiniteSet(R), NEW W \in [R -> Nat], NEW sum, IsSum(sum, R, W),
         NEW f, f = [m \in {row[r].model : r \in R} |-> sum[{r \in R : row[r].model = m}]]
  PROVE  Total(f) = sum[R]
<1>1. PICK I, called : I = {row[r].model : r \in R} /\ called = [r \in R |-> row[r].model]
  OBVIOUS
<1>2. called \in [R -> I]
  BY <1>1
<1>3. IsFiniteSet(I)
  <2>1. called \in Surjection(R, I)
    BY <1>1 DEF Surjection
  <2> QED
    BY <2>1, FS_Surjection
<1>4. PICK P \in [I -> SUBSET R] :
        /\ \A i \in I : \A r : r \in P[i] <=> r \in R /\ called[r] = i
        /\ \A g \in [I -> Nat] : (\A i \in I : g[i] = sum[P[i]]) => Total(g) = sum[R]
  BY <1>2, <1>3, SumByClass
<1>5. ASSUME NEW m \in I PROVE P[m] = {r \in R : row[r].model = m}
  <2>1. \A r : r \in P[m] <=> r \in R /\ called[r] = m
    BY <1>4
  <2>2. \A r \in R : called[r] = row[r].model
    BY <1>1
  <2> QED
    BY <2>1, <2>2
<1>6. f \in [I -> Nat] /\ \A m \in I : f[m] = sum[P[m]]
  <2>1. sum \in [SUBSET R -> Nat]
    BY DEF IsSum
  <2> QED
    BY <1>1, <1>4, <1>5, <2>1
<1> QED
  BY <1>4, <1>6

\* The days of a period add up to its totals when the summaries of its whole
\* finished days are still true.
LEMMA DaysAddUpNow ==
  ASSUME SessionOffset = 0, RollupInvariant, MoneyIsCounted
  PROVE  DaysAddUp
<1> SUFFICES ASSUME NEW n \in Periods,
                    NEW past, past = {d \in 0 .. Day(now) - 1 : Whole(d, n)},
                    NEW ends, ends = {d \in 0 .. Day(now) : ~ Whole(d, n) \/ d = Day(now)},
                    past \subseteq fresh
             PROVE  /\ Total([d \in past \cup ends |->
                               IF d \in past THEN daily[d].figures.requests
                               ELSE Live(d, n).requests]) = usage_totals(since(n)).requests
                    /\ 2 * Total([d \in past \cup ends |->
                                   IF d \in past THEN daily[d].figures.cost
                                   ELSE Live(d, n).cost]) - 2 * usage_totals(since(n)).cost
                         \in -(Grain * Cardinality(past)) .. Grain * Cardinality(past)
                    /\ Total([m \in DOMAIN cost_by_model(since(n)) |->
                               cost_by_model(since(n))[m].cost]) = usage_totals(since(n)).cost
  BY DEF DaysAddUp
<1>1. n \in Nat /\ Grain \in Nat
  BY Constants
<1>2. /\ Day(now) \in Nat /\ \A d \in 0 .. Day(now) : d \in Days
      /\ \A r \in Rows : Day(row[r].time) \in 0 .. Day(now)
  BY DaysSoFar
<1>3. PICK I : I = 0 .. Day(now)
  OBVIOUS
<1>4. past \cup ends = I /\ past \subseteq I /\ IsFiniteSet(I)
  <2>1. PICK end \in Nat : end = Day(now)
    BY <1>2
  <2>2. IsFiniteSet(0 .. end)
    BY FS_Interval
  <2>3. past \cup ends = I /\ past \subseteq I
    BY <1>3, <2>1
  <2> QED
    BY <1>3, <2>1, <2>2, <2>3
<1>5. PICK R : R = Since(Logs, since(n))
  OBVIOUS
<1>6. R \in SUBSET Rows
  BY <1>5 DEF Since, Logs, Committed
<1>7. IsFiniteSet(R)
  BY <1>6, RollupAssumption, FS_Subset
<1>8. PICK W : W = [r \in R |-> Cost(r)]
  OBVIOUS
<1>9. W \in [R -> Nat] /\ \A r \in R : W[r] = Cost(r)
  BY <1>8, CostIsAmount
<1>10. PICK sum : IsSum(sum, R, W)
  BY <1>7, <1>9, SumExists
<1>11. PICK Ones, count : Ones = [r \in R |-> 1] /\ count = [s \in SUBSET R |-> Cardinality(s)]
  OBVIOUS
<1>12. IsSum(count, R, Ones) /\ Ones \in [R -> Nat]
  BY <1>7, <1>11, CardinalityIsSum
<1>13. ASSUME NEW A \in SUBSET R, NEW M
       PROVE  Figures(A, M).requests = count[A] /\ Figures(A, M).cost = sum[A]
  <2>1. Figures(A, M).requests = Cardinality(A) /\ Figures(A, M).cost = sum[A]
    BY <1>7, <1>9, <1>10, FiguresOf
  <2> QED
    BY <1>11, <2>1
<1> DEFINE on(d) == {r \in R : Day(row[r].time) = d}
           of(m) == {r \in R : row[r].model = m}
<1>14. (\A d : on(d) \in SUBSET R) /\ (\A m : of(m) \in SUBSET R) /\ R \in SUBSET R
  OBVIOUS
<1>15. \A d \in I : \E M : Live(d, n) = Figures(on(d), M)
  <2> SUFFICES ASSUME NEW d \in I PROVE \E M : Live(d, n) = Figures(on(d), M)
    OBVIOUS
  <2>1. d \in Days
    BY <1>2, <1>3
  <2> QED
    BY <1>1, <1>5, <2>1, LiveShown
<1>16. usage_totals(since(n)) = Figures(R, {})
  BY <1>5 DEF usage_totals
<1>17. cost_by_model(since(n)) = [m \in {row[r].model : r \in R} |-> Figures(of(m), {})]
  BY <1>5 DEF cost_by_model
<1> HIDE DEF on, of
<1>18. \A d \in I : Live(d, n).requests = count[on(d)] /\ Live(d, n).cost = sum[on(d)]
  BY <1>13, <1>14, <1>15
<1>19. usage_totals(since(n)).requests = count[R] /\ usage_totals(since(n)).cost = sum[R]
  BY <1>13, <1>14, <1>16
<1>20. ASSUME NEW d \in past
       PROVE  /\ daily[d].figures.requests = count[on(d)]
              /\ daily[d].figures.cost = Rounded(sum[on(d)])
  <2>1. d \in Days /\ d \in fresh /\ d \in I /\ Whole(d, n)
    BY <1>2, <1>3, <1>4
  <2>2. daily[d].figures = Recorded(Summary(d))
    BY <2>1 DEF RollupInvariant, DailyIsAccurate
  <2>3. Summary(d) = Live(d, n)
    BY <1>1, <2>1, SummaryShown
  <2>4. PICK M : Live(d, n) = Figures(on(d), M)
    BY <1>15, <2>1
  <2>5. PICK a, b, c, e, g :
          Live(d, n) = [requests |-> a, errors |-> b, tokens |-> c, cost |-> e, messages |-> g]
    BY <2>4 DEF Figures
  <2>6. /\ Recorded(Live(d, n)).requests = Live(d, n).requests
        /\ Recorded(Live(d, n)).cost = Rounded(Live(d, n).cost)
    BY <2>5 DEF Recorded
  <2> QED
    BY <1>18, <2>1, <2>2, <2>3, <2>6
<1>21. Total([d \in past \cup ends |-> IF d \in past THEN daily[d].figures.requests
                                       ELSE Live(d, n).requests])
         = usage_totals(since(n)).requests
  <2>1. PICK f : f = [d \in past \cup ends |-> IF d \in past THEN daily[d].figures.requests
                                               ELSE Live(d, n).requests]
    OBVIOUS
  <2>2. f = [d \in 0 .. Day(now) |-> count[on(d)]]
    BY <1>3, <1>4, <1>18, <1>20, <2>1
  <2>3. Total(f) = count[R]
    BY <1>6, <1>7, <1>12, <2>2, LogsByDay DEF on
  <2> QED
    BY <1>19, <2>1, <2>3
<1>22. 2 * Total([d \in past \cup ends |-> IF d \in past THEN daily[d].figures.cost
                                           ELSE Live(d, n).cost])
         - 2 * usage_totals(since(n)).cost
         \in -(Grain * Cardinality(past)) .. Grain * Cardinality(past)
  <2>1. PICK f : f = [d \in past \cup ends |-> IF d \in past THEN daily[d].figures.cost
                                               ELSE Live(d, n).cost]
    OBVIOUS
  <2>2. PICK g : g = [d \in 0 .. Day(now) |-> sum[on(d)]]
    OBVIOUS
  <2>9. Total(g) = sum[R]
    BY <1>6, <1>7, <1>9, <1>10, <2>2, LogsByDay DEF on
  <2>10. g \in [I -> Nat]
    <3>1. sum \in [SUBSET R -> Nat]
      BY <1>10 DEF IsSum
    <3>2. \A d \in I : sum[on(d)] \in Nat
      BY <1>14, <3>1
    <3> QED
      BY <1>3, <2>2, <3>2
  <2>3. g \in [I -> Nat] /\ Total(g) = sum[R]
    BY <2>9, <2>10
  <2>4. \A d \in I : sum[on(d)] \in Nat /\ g[d] = sum[on(d)]
    BY <1>3, <2>2, <2>3
  <2>5. \A d \in past : /\ f[d] = Rounded(g[d]) /\ f[d] \in Nat
                        /\ 2 * f[d] - 2 * g[d] \in -Grain .. Grain
    <3> SUFFICES ASSUME NEW d \in past
                 PROVE  /\ f[d] = Rounded(g[d]) /\ f[d] \in Nat
                        /\ 2 * f[d] - 2 * g[d] \in -Grain .. Grain
      OBVIOUS
    <3>1. d \in I /\ f[d] = Rounded(sum[on(d)])
      BY <1>4, <1>20, <2>1
    <3>2. PICK c \in Nat : c = g[d] /\ c = sum[on(d)]
      BY <2>4, <3>1
    <3> QED
      BY <3>1, <3>2, RoundedNear
  <2>6. \A d \in I \ past : f[d] = g[d]
    BY <1>4, <1>18, <2>1, <2>4
  <2>7. f \in [I -> Nat]
    <3>1. \A d \in I : f[d] \in Nat
      BY <2>3, <2>5, <2>6
    <3>2. f = [d \in I |-> f[d]]
      BY <1>4, <2>1
    <3> QED
      BY <3>1, <3>2
  <2>8. 2 * Total(f) - 2 * Total(g) \in -(Grain * Cardinality(past)) .. Grain * Cardinality(past)
    BY <1>1, <1>4, <2>3, <2>5, <2>6, <2>7, SumsNear
  <2> QED
    BY <1>19, <2>1, <2>3, <2>8
<1>23. Total([m \in DOMAIN cost_by_model(since(n)) |-> cost_by_model(since(n))[m].cost])
         = usage_totals(since(n)).cost
  <2>1. PICK f : f = [m \in DOMAIN cost_by_model(since(n)) |-> cost_by_model(since(n))[m].cost]
    OBVIOUS
  <2>2. f = [m \in {row[r].model : r \in R} |-> sum[of(m)]]
    BY <1>13, <1>14, <1>17, <2>1
  <2>3. Total(f) = sum[R]
    BY <1>7, <1>9, <1>10, <2>2, LogsByModel DEF of
  <2> QED
    BY <1>19, <2>1, <2>3
<1> QED
  BY <1>21, <1>22, <1>23

-----------------------------------------------------------------------------
(***************************************************************************)
(* Types.                                                                  *)
(***************************************************************************)

\* The rows counted, of any kind, are no more than there are; so are the units.
LEMMA SumAtMost ==
  ASSUME NEW R, IsFiniteSet(R), NEW W \in [R -> Nat], \A x \in R : W[x] <= 1,
         NEW sum, IsSum(sum, R, W)
  PROVE  \A A \in SUBSET R : sum[A] \in Nat /\ sum[A] <= Cardinality(A)
<1>1. /\ sum \in [SUBSET R -> Nat] /\ sum[{}] = 0
      /\ \A s \in SUBSET R : \A x \in s : sum[s] = W[x] + sum[s \ {x}]
  BY DEF IsSum
<1>2. PICK T : T = {n \in Nat : \A s \in SUBSET R : Cardinality(s) = n => sum[s] <= n}
  OBVIOUS
<1>3. \A s \in SUBSET R : IsFiniteSet(s) /\ Cardinality(s) \in Nat
  BY FS_Subset, FS_CardinalityType
<1>4. 0 \in T
  <2>1. ASSUME NEW s \in SUBSET R, Cardinality(s) = 0 PROVE sum[s] <= 0
    <3>1. s = {}
      BY <1>3, <2>1, FS_EmptySet
    <3> QED
      BY <1>1, <3>1
  <2> QED
    BY <1>2, <2>1
<1>5. ASSUME NEW k \in Nat, k \in T PROVE k + 1 \in T
  <2>1. ASSUME NEW s \in SUBSET R, Cardinality(s) = k + 1 PROVE sum[s] <= k + 1
    <3>1. s # {}
      BY <2>1, FS_EmptySet
    <3>2. PICK x \in s : TRUE
      BY <3>1
    <3>3. PICK q \in SUBSET R : q = s \ {x}
      OBVIOUS
    <3>4. Cardinality(q) = k
      BY <1>3, <2>1, <3>3, OneLess
    <3>5. sum[q] <= k /\ sum[q] \in Nat
      BY <1>1, <1>2, <1>5, <3>4
    <3>6. sum[s] = W[x] + sum[q] /\ W[x] \in Nat /\ W[x] <= 1
      BY <1>1, <3>3
    <3> QED
      BY <3>5, <3>6
  <2> QED
    BY <1>2, <2>1
<1>6. Nat \subseteq T
  BY <1>4, <1>5, AllNumbers
<1> QED
  BY <1>1, <1>2, <1>3, <1>6

\* A summary of any rows is one analytics_daily takes.
LEMMA SummaryTyped ==
  ASSUME StateIsTyped, MoneyIsCounted, NEW d
  PROVE  Stored(Summary(d)) \in Summaries
<1>1. PICK L \in SUBSET Logs : L = {r \in Logs : row[r].time \in day_bounds(d)}
  OBVIOUS
<1>2. PICK M \in SUBSET Rows : M = {r \in MessagesKept : row[r].time \in day_bounds(d)}
  BY DEF MessagesKept, Committed
<1>3. PICK K \in SUBSET L : K = {r \in L : row[r].kind = "error"}
  OBVIOUS
<1>4. IsFiniteSet(Rows)
  BY RollupAssumption
<1>5. L \in SUBSET Rows /\ K \in SUBSET Rows
  BY DEF Logs, Committed
<1>6. PICK n \in Nat : n = Cardinality(Rows)
  BY <1>4, FS_CardinalityType
<1>7. \A S \in SUBSET Rows : IsFiniteSet(S) /\ Cardinality(S) \in Nat /\ Cardinality(S) <= n
  BY <1>4, <1>6, FS_Subset, FS_CardinalityType
<1>8. Cardinality(K) <= Cardinality(L)
  BY <1>5, <1>7, FS_Subset
<1>9. PICK tokens \in 0 .. n : tokens = Total([r \in L |-> Tokens(r)])
  <2>1. PICK W : W = [r \in L |-> Tokens(r)]
    OBVIOUS
  <2>2. W \in [L -> Nat] /\ \A r \in L : W[r] <= 1
    BY <2>1 DEF Tokens
  <2>3. PICK sum : IsSum(sum, L, W)
    BY <1>5, <1>7, <2>2, SumExists
  <2>4. W = [r \in L |-> W[r]] /\ L \in SUBSET L
    BY <2>1
  <2>5. Total(W) = sum[L]
    BY <1>5, <1>7, <2>2, <2>3, <2>4, TotalIsSum
  <2>6. sum[L] \in Nat /\ sum[L] <= Cardinality(L)
    BY <1>5, <1>7, <2>2, <2>3, <2>4, SumAtMost
  <2>7. sum[L] \in 0 .. n
    BY <1>5, <1>7, <2>6
  <2> QED
    BY <2>1, <2>5, <2>7
<1>10. PICK cost \in Nat : cost = Total([r \in L |-> Cost(r)])
  <2>1. PICK W : W = [r \in L |-> Cost(r)]
    OBVIOUS
  <2>2. W \in [L -> Nat]
    BY <2>1, CostIsAmount
  <2>3. PICK sum : IsSum(sum, L, W)
    BY <1>5, <1>7, <2>2, SumExists
  <2>4. W = [r \in L |-> W[r]] /\ L \in SUBSET L
    BY <2>1
  <2>5. Total(W) = sum[L]
    BY <1>5, <1>7, <2>2, <2>3, <2>4, TotalIsSum
  <2>6. sum[L] \in Nat
    BY <2>3, <2>4 DEF IsSum
  <2> QED
    BY <2>1, <2>5, <2>6
<1>11. Summary(d) = [requests |-> Cardinality(L), errors |-> Cardinality(K), tokens |-> tokens,
                     cost |-> cost, messages |-> Cardinality(M)]
  BY <1>1, <1>2, <1>3, <1>9, <1>10 DEF Summary, Figures
<1>12. PICK a \in 0 .. n, b \in 0 .. n, c \in 0 .. n :
          a = Cardinality(L) /\ b = Cardinality(K) /\ c = Cardinality(M) /\ b <= a
  BY <1>5, <1>7, <1>8
<1>13. Stored(Summary(d))
         = [stored |-> TRUE,
            figures |-> [requests |-> a, errors |-> b, tokens |-> tokens, cost |-> cost,
                         messages |-> c]]
  BY <1>11, <1>12 DEF Stored
<1> QED
  BY <1>6, <1>9, <1>10, <1>12, <1>13 DEF Summaries

\* What stands in the table or waits to be written satisfies its constraints.
IsTyped(s) == s = NoSummary \/ s \in Summaries

\* Rounding a cost leaves it an amount.
LEMMA RecordedTyped ==
  ASSUME NEW s \in Summaries
  PROVE  Stored(Recorded(s.figures)) \in Summaries
<1>1. s.figures.cost \in Nat
  BY DEF Summaries
<1>2. Rounded(s.figures.cost) \in Nat
  BY <1>1, RoundedNear
<1>3. PICK c \in Nat : c = Rounded(s.figures.cost)
  BY <1>2
<1>4. Recorded(s.figures) = [s.figures EXCEPT !.cost = c]
  BY <1>3 DEF Recorded
<1> QED
  BY <1>4 DEF Summaries, Stored

JobIsTyped(J) ==
  /\ IsTyped(J.computed)
  /\ \A d \in Days : IsTyped(J.written[d])
  /\ Running(J) \/ J.todo = <<>>

SummariesAreTyped ==
  /\ \A d \in Days : IsTyped(daily[d])
  /\ \A j \in Jobs : JobIsTyped(job[j])

TablesAreTyped ==
  /\ prices \subseteq [model : Models, from : Starts, price : Prices]
  /\ nights \subseteq Days /\ lastTick \in Days
  /\ edits \in 0 .. MaxPriceEdits /\ deletes \in 0 .. MaxDeletes /\ failures \in 0 .. MaxFailures

\* A day that changes leaves the summaries as they are.
LEMMA TouchTyped ==
  ASSUME RollupInvariant, SummariesAreTyped, NEW D, Touch(D), daily' = daily
  PROVE  SummariesAreTyped'
<1>1. ASSUME NEW j \in Jobs PROVE JobIsTyped(job'[j])
  <2>1. IsJob(job[j]) /\ JobIsTyped(job[j])
    BY DEF RollupInvariant, JobsAreSound, JobIsSound, SummariesAreTyped
  <2>2. /\ job'[j].at = job[j].at /\ job'[j].todo = job[j].todo
        /\ job'[j].written = job[j].written /\ job'[j].computed = job[j].computed
    BY <2>1, TouchedJob
  <2> QED
    BY <2>1, <2>2 DEF JobIsTyped, Running
<1> QED
  BY <1>1
     DEF SummariesAreTyped, JobIsTyped, IsTyped, Running, Summaries, NoSummary, Days, Day

\* A step of one job that leaves it typed.
LEMMA JobTyped ==
  ASSUME RollupInvariant, SummariesAreTyped, NEW j \in Jobs,
         \A k \in Jobs \ {j} : job'[k] = job[k], JobIsTyped(job'[j]),
         \A d \in Days : IsTyped(daily'[d])
  PROVE  SummariesAreTyped'
<1>1. \A k \in Jobs : JobIsTyped(job'[k])
  BY DEF SummariesAreTyped
<1> QED
  BY <1>1
     DEF SummariesAreTyped, JobIsTyped, IsTyped, Running, Summaries, NoSummary, Days, Day

\* A run that begins, and one that is over, hold nothing.
LEMMA EmptyTyped ==
  ASSUME NEW J, J.computed = NoSummary, J.written = NoneWritten,
         Running(J) \/ J.todo = <<>>
  PROVE  JobIsTyped(J)
  BY DEF JobIsTyped, IsTyped, NoneWritten

LEMMA SummariesStep ==
  ASSUME RollupInvariant, MoneyIsCounted, SummariesAreTyped, [Next]_vars
  PROVE  SummariesAreTyped'
<1> USE DEF SummariesAreTyped
<1>1. job = [j \in Jobs |-> job[j]] /\ StateIsTyped
  BY DEF RollupInvariant, StateIsTyped
<1>2. ASSUME NEW D, Touch(D), daily' = daily PROVE SummariesAreTyped'
  BY <1>2, TouchTyped
<1>3. ASSUME NEW j \in Jobs, NEW n, Start(j, n) PROVE SummariesAreTyped'
  <2>1. /\ job' = [job EXCEPT ![j] = [Idle EXCEPT !.at = "running", !.night = Day(now),
                                                  !.todo = complete_days_before(n)]]
        /\ daily' = daily
    BY <1>3 DEF Start
  <2>2. /\ job'[j].at = "running" /\ job'[j].computed = NoSummary
        /\ job'[j].written = NoneWritten
    BY <1>1, <2>1 DEF Idle
  <2>3. JobIsTyped(job'[j])
    BY <2>2, EmptyTyped DEF Running
  <2>4. \A k \in Jobs \ {j} : job'[k] = job[k]
    BY <1>1, <2>1
  <2> QED
    BY <2>1, <2>3, <2>4, JobTyped
<1>4. ASSUME NEW j \in Jobs, Compute(j) PROVE SummariesAreTyped'
  <2>1. PICK s : s = Stored(Summary(Head(job[j].todo)))
    OBVIOUS
  <2>2. IsTyped(s)
    BY <1>1, <2>1, SummaryTyped DEF IsTyped
  <2>3. /\ job' = [job EXCEPT ![j].at = "computed", ![j].computed = s,
                              ![j].fresh = @ \cup {Head(job[j].todo)}]
        /\ daily' = daily
    BY <1>4, <2>1 DEF Compute
  <2>4. IsJob(job[j])
    BY DEF RollupInvariant, JobsAreSound, JobIsSound
  <2>5. /\ job'[j].at = "computed" /\ job'[j].computed = s
        /\ job'[j].written = job[j].written
    BY <1>1, <2>3, <2>4 DEF IsJob
  <2>6. JobIsTyped(job'[j])
    BY <2>2, <2>5 DEF JobIsTyped, Running
  <2>7. \A k \in Jobs \ {j} : job'[k] = job[k]
    BY <1>1, <2>3
  <2> QED
    BY <2>3, <2>6, <2>7, JobTyped
<1>5. ASSUME NEW j \in Jobs, Upsert(j) PROVE SummariesAreTyped'
  <2>1. PICK d : d = Head(job[j].todo)
    OBVIOUS
  <2>8. PICK new : new = Stored(Recorded(job[j].computed.figures))
    OBVIOUS
  <2>2. /\ job' = [job EXCEPT ![j].at = "running", ![j].todo = Tail(@),
                              ![j].written[d] = new, ![j].computed = NoSummary]
        /\ daily' = daily
    BY <1>5, <2>1, <2>8 DEF Upsert
  <2>3. IsJob(job[j]) /\ JobIsTyped(job[j])
    BY DEF RollupInvariant, JobsAreSound, JobIsSound
  <2>4. /\ job'[j].at = "running" /\ job'[j].computed = NoSummary
        /\ job'[j].written = [job[j].written EXCEPT ![d] = new]
    BY <1>1, <2>2, <2>3 DEF IsJob
  <2>9. new \in Summaries
    <3>1. job[j].computed.stored
      BY <1>5 DEF Upsert, RollupInvariant, JobsAreSound, JobIsSound, OnCourse
    <3>2. job[j].computed \in Summaries
      BY <2>3, <3>1 DEF JobIsTyped, IsTyped, NoSummary
    <3> QED
      BY <2>8, <3>2, RecordedTyped
  <2>5. \A e \in Days : IsTyped(job'[j].written[e])
    BY <2>3, <2>4, <2>9 DEF JobIsTyped, IsJob, IsTyped
  <2>6. JobIsTyped(job'[j])
    BY <2>4, <2>5 DEF JobIsTyped, Running, IsTyped
  <2>7. \A k \in Jobs \ {j} : job'[k] = job[k]
    BY <1>1, <2>2
  <2> QED
    BY <2>2, <2>6, <2>7, JobTyped
<1>6. ASSUME NEW j \in Jobs, job' = [job EXCEPT ![j] = Ended(j)]
      PROVE  JobIsTyped(job'[j]) /\ \A k \in Jobs \ {j} : job'[k] = job[k]
  <2>1. job'[j] = Ended(j) /\ \A k \in Jobs \ {j} : job'[k] = job[k]
    BY <1>1, <1>6
  <2>2. /\ Ended(j).computed = NoSummary /\ Ended(j).written = NoneWritten
        /\ Ended(j).todo = <<>>
    BY DEF Ended, Idle
  <2> QED
    BY <2>1, <2>2, EmptyTyped
<1>7. ASSUME NEW j \in Jobs, Commit(j) PROVE SummariesAreTyped'
  <2>1. /\ job' = [job EXCEPT ![j] = Ended(j)]
        /\ daily' = [d \in Days |-> IF job[j].written[d].stored THEN job[j].written[d]
                                    ELSE daily[d]]
    BY <1>7 DEF Commit
  <2>2. \A d \in Days : IsTyped(daily'[d])
    BY <2>1 DEF JobIsTyped
  <2> QED
    BY <1>6, <2>1, <2>2, JobTyped
<1>8. ASSUME NEW j \in Jobs, Abandon(j) PROVE SummariesAreTyped'
  <2>1. daily' = daily
    BY <1>8 DEF Abandon
  <2>2. CASE job' = [job EXCEPT ![j] = Ended(j)]
    BY <1>6, <2>1, <2>2, JobTyped
  <2>3. CASE job' = [job EXCEPT ![j] = [Idle EXCEPT !.at = "retry"]]
    <3>1. job'[j] = [Idle EXCEPT !.at = "retry"] /\ \A k \in Jobs \ {j} : job'[k] = job[k]
      BY <1>1, <2>3
    <3>2. /\ job'[j].computed = NoSummary /\ job'[j].written = NoneWritten
          /\ job'[j].todo = <<>>
      BY <3>1 DEF Idle
    <3>3. JobIsTyped(job'[j])
      BY <3>2, EmptyTyped
    <3> QED
      BY <2>1, <3>1, <3>3, JobTyped
  <2> QED
    BY <1>8, <2>2, <2>3 DEF Abandon
<1>9. CASE UNCHANGED <<daily, job>>
  BY <1>9 DEF JobIsTyped, IsTyped, Running, Summaries, NoSummary, Days, Day
<1>10. ASSUME NEW j \in Jobs, BackfillStart(j) \/ RetryTask(j) PROVE SummariesAreTyped'
  BY <1>3, <1>10 DEF BackfillStart, RetryTask
<1>11. CASE BeatTick
  BY <1>3, <1>11, Constants DEF BeatTick
<1>12. ASSUME NEW r \in Rows, BeginRow(r) \/ CommitRow(r) \/ DeleteConversation(r)
       PROVE  SummariesAreTyped'
  BY <1>2, <1>9, <1>12 DEF BeginRow, CommitRow, DeleteConversation
<1>13. ASSUME NEW m \in Models, NEW price \in Prices, NEW from \in Starts,
              AddPricing(m, price, from)
       PROVE  SummariesAreTyped'
  BY <1>2, <1>13 DEF AddPricing
<1>14. ASSUME NEW p \in prices, DeletePricing(p) PROVE SummariesAreTyped'
  BY <1>2, <1>14 DEF DeletePricing
<1>15. CASE Tick \/ UNCHANGED vars
  BY <1>9, <1>15 DEF Tick, vars
<1> QED
  BY <1>4, <1>5, <1>7, <1>8, <1>10, <1>11, <1>12, <1>13, <1>14, <1>15 DEF Next

\* The price list, the nights and the counters.
LEMMA TablesStep ==
  ASSUME RollupInvariant, TablesAreTyped, [Next]_vars
  PROVE  TablesAreTyped'
<1>1. /\ now \in Nat /\ now <= MaxTime /\ Day(now) \in Nat /\ Day(now) \in Days
      /\ {MaxTime, MaxPriceEdits, MaxDeletes, MaxFailures} \subseteq Nat
  BY RollupAssumption, DayRange, DaysAreNat DEF RollupInvariant, StateIsTyped
<1>2. \A j \in Jobs : Running(job[j]) => job[j].night \in Days
  <2>1. \A j \in Jobs : Running(job[j]) => job[j].night \in Nat /\ job[j].night <= Day(now)
    BY DEF RollupInvariant, JobsAreSound, JobIsSound, IsJob, OnCourse
  <2> QED
    BY <1>1, <2>1, DaysAreNat
<1>3. prices' \subseteq [model : Models, from : Starts, price : Prices]
  <2>1. ASSUME NEW m \in Models, NEW price \in Prices, NEW from \in Starts,
               AddPricing(m, price, from)
        PROVE  prices' \subseteq [model : Models, from : Starts, price : Prices]
    <3>1. prices' = prices \cup {[model |-> m, from |-> from, price |-> price]}
      BY <2>1 DEF AddPricing
    <3> QED
      BY <3>1 DEF TablesAreTyped
  <2>2. CASE prices' \subseteq prices
    BY <2>2 DEF TablesAreTyped
  <2> QED
    BY <2>1, <2>2
       DEF Next, Tick, BeginRow, CommitRow, DeleteConversation, DeletePricing, BeatTick,
           BackfillStart, RetryTask, Start, Compute, Upsert, Commit, Abandon, vars
<1>4. nights' \subseteq Days
  <2>1. ASSUME NEW j \in Jobs, Commit(j) PROVE nights' \subseteq Days
    <3>1. Running(job[j]) /\ nights' \subseteq nights \cup {job[j].night}
      BY <2>1 DEF Commit, Running
    <3> QED
      BY <1>2, <3>1 DEF TablesAreTyped
  <2>2. CASE nights' = nights
    BY <2>2 DEF TablesAreTyped
  <2> QED
    BY <2>1, <2>2
       DEF Next, Tick, BeginRow, CommitRow, DeleteConversation, AddPricing, DeletePricing,
           BeatTick, BackfillStart, RetryTask, Start, Compute, Upsert, Abandon, vars
<1>5. lastTick' \in Days
  <2>1. lastTick' = Day(now) \/ lastTick' = lastTick
    BY DEF Next, Tick, BeginRow, CommitRow, DeleteConversation, AddPricing, DeletePricing,
           BeatTick, BackfillStart, RetryTask, Start, Compute, Upsert, Commit, Abandon, vars
  <2> QED
    BY <1>1, <2>1 DEF TablesAreTyped
<1>6. /\ edits' \in 0 .. MaxPriceEdits /\ deletes' \in 0 .. MaxDeletes
      /\ failures' \in 0 .. MaxFailures
  <2>1. /\ edits' = edits \/ (edits < MaxPriceEdits /\ edits' = edits + 1)
        /\ deletes' = deletes \/ (deletes < MaxDeletes /\ deletes' = deletes + 1)
        /\ failures' = failures \/ (failures < MaxFailures /\ failures' = failures + 1)
    BY DEF Next, Tick, BeginRow, CommitRow, DeleteConversation, AddPricing, DeletePricing,
           BeatTick, BackfillStart, RetryTask, Start, Compute, Upsert, Commit, Abandon, vars
  <2> QED
    BY <1>1, <2>1 DEF TablesAreTyped
<1> QED
  BY <1>3, <1>4, <1>5, <1>6 DEF TablesAreTyped, Days, Day

LEMMA TypesInit == Init => SummariesAreTyped /\ TablesAreTyped
<1> SUFFICES ASSUME Init PROVE SummariesAreTyped /\ TablesAreTyped
  OBVIOUS
<1>1. SummariesAreTyped
  <2>1. \A d \in Days : IsTyped(daily[d])
    BY DEF Init, NoneWritten, IsTyped
  <2>2. \A j \in Jobs : /\ job[j].computed = NoSummary /\ job[j].written = NoneWritten
                        /\ job[j].todo = <<>>
    BY DEF Init, Idle
  <2>3. \A j \in Jobs : JobIsTyped(job[j])
    BY <2>2, EmptyTyped
  <2> QED
    BY <2>1, <2>3 DEF SummariesAreTyped
<1>2. {MaxTime, MaxPriceEdits, MaxDeletes, MaxFailures} \subseteq Nat
  BY RollupAssumption
<1>3. 0 \in Days
  BY <1>2, DayRange DEF Days
<1> QED
  BY <1>1, <1>2, <1>3 DEF Init, TablesAreTyped

LEMMA TypesHold ==
  ASSUME RollupInvariant, MoneyIsCounted, SummariesAreTyped, TablesAreTyped
  PROVE  TypeOK
<1>1. now \in 0 .. MaxTime
  BY Constants DEF RollupInvariant, StateIsTyped
<1>2. \A r \in Rows : row[r] \in [at : {"none", "open", "kept", "gone"}, time : 0 .. now,
                                  kind : {"message", "call", "error"}, model : Models]
  <2>1. \A r \in Rows : row[r] \in [at : {"none", "open", "kept", "gone"}, time : Nat,
                                    kind : {"message", "call", "error"}, model : Models]
    BY DEF RollupInvariant, StateIsTyped
  <2>2. \A r \in Rows : row[r].time \in 0 .. now
    BY <1>1, <2>1 DEF MoneyIsCounted
  <2> QED
    BY <2>1, <2>2
<1>3. ASSUME NEW j \in Jobs
      PROVE  /\ job[j].at \in {"idle", "running", "computed", "retry", "done"}
             /\ \A i \in DOMAIN job[j].todo : job[j].todo[i] \in 0 .. Day(now) - 1
             /\ IsTyped(job[j].computed) /\ \A d \in Days : IsTyped(job[j].written[d])
             /\ job[j].fresh \subseteq Days
  <2>1. IsJob(job[j]) /\ OnCourse(job[j]) /\ JobIsTyped(job[j])
    BY DEF RollupInvariant, JobsAreSound, JobIsSound, SummariesAreTyped
  <2>2. /\ job[j].at \in {"idle", "running", "computed", "retry", "done"}
        /\ job[j].todo \in Seq(Nat) /\ job[j].night \in Nat
    BY <2>1 DEF IsJob
  <2>3. Day(now) \in Nat
    BY <1>1, DayRange
  <2>4. \A i \in DOMAIN job[j].todo : job[j].todo[i] \in 0 .. Day(now) - 1
    <3>1. CASE Running(job[j])
      <4>1. PICK n \in Nat : n = Len(job[j].todo)
        BY <2>2
      <4>2. DOMAIN job[j].todo = 1 .. n
        BY <2>2, <4>1
      <4>3. PICK night \in Nat, today \in Nat : night = job[j].night /\ today = Day(now)
        BY <2>2, <2>3
      <4>4. /\ night <= today /\ n <= night
            /\ \A i \in 1 .. n : job[j].todo[i] = night - n + i - 1
        BY <2>1, <3>1, <4>1, <4>3 DEF OnCourse
      <4>5. \A i \in 1 .. n : night - n + i - 1 \in 0 .. today - 1
        BY <4>4
      <4> QED
        BY <4>2, <4>3, <4>4, <4>5
    <3>2. CASE job[j].todo = <<>>
      BY <3>2
    <3> QED
      BY <2>1, <3>1, <3>2 DEF JobIsTyped
  <2> QED
    BY <2>1, <2>2, <2>4 DEF JobIsTyped, IsJob
<1>4. (\A d \in Days : IsTyped(daily[d])) /\ fresh \subseteq Days
  BY DEF SummariesAreTyped, RollupInvariant, DailyIsAccurate
<1> QED
  BY <1>1, <1>2, <1>3, <1>4 DEF TypeOK, IsTyped, TablesAreTyped

-----------------------------------------------------------------------------
(***************************************************************************)
(* Rollups side by side.                                                   *)
(***************************************************************************)

\* A run has written no day that is not before those it has still to do.
Forward(J) == \A d \in Days : J.written[d].stored => d < J.night - Len(J.todo)
DaysGoForward == \A j \in Jobs : Forward(job[j])

\* A step of one job that leaves it going forward.
LEMMA ForwardKept ==
  ASSUME DaysGoForward, NEW j \in Jobs,
         \A k \in Jobs \ {j} : job'[k] = job[k], Forward(job'[j])
  PROVE  DaysGoForward'
<1>1. \A k \in Jobs : Forward(job'[k])
  BY DEF DaysGoForward
<1> QED
  BY <1>1 DEF DaysGoForward, Forward, Days, Day

LEMMA ForwardStep ==
  ASSUME RollupInvariant, DaysGoForward, [Next]_vars
  PROVE  DaysGoForward'
<1>1. job = [j \in Jobs |-> job[j]] /\ \A j \in Jobs : IsJob(job[j]) /\ Forward(job[j])
  BY DEF RollupInvariant, StateIsTyped, JobsAreSound, JobIsSound, DaysGoForward
<1>2. ASSUME NEW J, J.written = NoneWritten PROVE Forward(J)
  <2>1. \A d \in Days : ~ NoneWritten[d].stored
    BY DEF NoneWritten, NoSummary
  <2> QED
    BY <1>2, <2>1 DEF Forward
<1>3. ASSUME NEW D, Touch(D) PROVE DaysGoForward'
  <2>1. ASSUME NEW j \in Jobs PROVE Forward(job'[j])
    <3>1. /\ job'[j].night = job[j].night /\ job'[j].todo = job[j].todo
          /\ job'[j].written = job[j].written
      BY <1>1, <1>3, TouchedJob
    <3> QED
      BY <1>1, <3>1 DEF Forward
  <2> QED
    BY <2>1 DEF DaysGoForward, Forward, Days, Day
<1>4. ASSUME NEW j \in Jobs, NEW n, Start(j, n) PROVE DaysGoForward'
  <2>1. job' = [job EXCEPT ![j] = [Idle EXCEPT !.at = "running", !.night = Day(now),
                                               !.todo = complete_days_before(n)]]
    BY <1>4 DEF Start
  <2>2. job'[j].written = NoneWritten /\ \A k \in Jobs \ {j} : job'[k] = job[k]
    BY <1>1, <2>1 DEF Idle
  <2> QED
    BY <1>2, <2>2, ForwardKept
<1>5. ASSUME NEW j \in Jobs, Compute(j) PROVE DaysGoForward'
  <2>1. PICK s, F : job' = [job EXCEPT ![j].at = "computed", ![j].computed = s, ![j].fresh = F]
    BY <1>5 DEF Compute
  <2>2. /\ job'[j].written = job[j].written /\ job'[j].night = job[j].night
        /\ job'[j].todo = job[j].todo /\ \A k \in Jobs \ {j} : job'[k] = job[k]
    BY <1>1, <2>1 DEF IsJob
  <2>3. Forward(job'[j])
    BY <1>1, <2>2 DEF Forward
  <2> QED
    BY <2>2, <2>3, ForwardKept
<1>6. ASSUME NEW j \in Jobs, Upsert(j) PROVE DaysGoForward'
  <2>1. PICK h \in Nat : h = Head(job[j].todo)
    <3>1. job[j].at = "computed" /\ OnCourse(job[j])
      BY <1>6 DEF Upsert, RollupInvariant, JobsAreSound, JobIsSound
    <3>2. Running(job[j]) /\ job[j].todo # <<>>
      BY <3>1 DEF OnCourse, Running
    <3> QED
      BY <3>2, FirstDay
  <2>2. /\ job[j].night \in Nat /\ Len(job[j].todo) \in Nat
        /\ Len(Tail(job[j].todo)) = Len(job[j].todo) - 1
        /\ h = job[j].night - Len(job[j].todo)
    <3>1. job[j].at = "computed" /\ OnCourse(job[j]) /\ IsJob(job[j])
      BY <1>1, <1>6 DEF Upsert, RollupInvariant, JobsAreSound, JobIsSound
    <3>2. Running(job[j]) /\ job[j].todo # <<>>
      BY <3>1 DEF OnCourse, Running
    <3>3. /\ Head(job[j].todo) = job[j].night - Len(job[j].todo)
          /\ Len(job[j].todo) \in Nat \ {0}
          /\ Len(Tail(job[j].todo)) = Len(job[j].todo) - 1
      BY <3>2, FirstDay
    <3> QED
      BY <2>1, <3>1, <3>3 DEF IsJob
  <2>6. PICK new : new = Stored(Recorded(job[j].computed.figures))
    OBVIOUS
  <2>3. job' = [job EXCEPT ![j].at = "running", ![j].todo = Tail(@),
                           ![j].written[h] = new, ![j].computed = NoSummary]
    BY <1>6, <2>1, <2>6 DEF Upsert
  <2>4. /\ job'[j].written = [job[j].written EXCEPT ![h] = new]
        /\ job'[j].night = job[j].night /\ job'[j].todo = Tail(job[j].todo)
        /\ \A k \in Jobs \ {j} : job'[k] = job[k]
    BY <1>1, <2>3 DEF IsJob
  <2>5. Forward(job'[j])
    <3> SUFFICES ASSUME NEW d \in Days, job'[j].written[d].stored
                 PROVE  d < job'[j].night - Len(job'[j].todo)
      BY DEF Forward
    <3>1. d \in Nat
      BY DaysAreNat
    <3>2. CASE d = h
      BY <2>2, <2>4, <3>1, <3>2
    <3>3. CASE d # h
      <4>1. job[j].written[d].stored
        BY <1>1, <2>4, <3>3 DEF IsJob
      <4>2. d < job[j].night - Len(job[j].todo)
        BY <1>1, <4>1 DEF Forward
      <4> QED
        BY <2>2, <2>4, <3>1, <4>2
    <3> QED
      BY <3>2, <3>3
  <2> QED
    BY <2>4, <2>5, ForwardKept
<1>7. ASSUME NEW j \in Jobs, NEW E, job' = [job EXCEPT ![j] = E], E.written = NoneWritten
      PROVE  DaysGoForward'
  <2>1. job'[j].written = NoneWritten /\ \A k \in Jobs \ {j} : job'[k] = job[k]
    BY <1>1, <1>7
  <2> QED
    BY <1>2, <2>1, ForwardKept
<1>8. ASSUME NEW j \in Jobs, Commit(j) \/ Abandon(j) PROVE DaysGoForward'
  <2>1. /\ Ended(j).written = NoneWritten
        /\ [Idle EXCEPT !.at = "retry"].written = NoneWritten
    BY DEF Ended, Idle
  <2>2. \/ job' = [job EXCEPT ![j] = Ended(j)]
        \/ job' = [job EXCEPT ![j] = [Idle EXCEPT !.at = "retry"]]
    BY <1>8 DEF Commit, Abandon
  <2> QED
    BY <1>7, <2>1, <2>2
<1>9. CASE job' = job
  BY <1>9 DEF DaysGoForward, Forward, Days, Day
<1>10. ASSUME NEW j \in Jobs, BackfillStart(j) \/ RetryTask(j) PROVE DaysGoForward'
  BY <1>4, <1>10 DEF BackfillStart, RetryTask
<1>11. CASE BeatTick
  BY <1>4, <1>11, Constants DEF BeatTick
<1>12. ASSUME NEW r \in Rows, BeginRow(r) \/ CommitRow(r) \/ DeleteConversation(r)
       PROVE  DaysGoForward'
  BY <1>3, <1>9, <1>12 DEF BeginRow, CommitRow, DeleteConversation
<1>13. ASSUME NEW m \in Models, NEW price \in Prices, NEW from \in Starts,
              AddPricing(m, price, from)
       PROVE  DaysGoForward'
  BY <1>3, <1>13 DEF AddPricing
<1>14. ASSUME NEW p \in prices, DeletePricing(p) PROVE DaysGoForward'
  BY <1>3, <1>14 DEF DeletePricing
<1>15. CASE Tick \/ UNCHANGED vars
  BY <1>9, <1>15 DEF Tick, vars
<1> QED
  BY <1>5, <1>6, <1>8, <1>10, <1>11, <1>12, <1>13, <1>14, <1>15 DEF Next

\* The run that has written the last of the days in dispute waits for nobody:
\* its next day is a later one.
LEMMA LastDayGoesOn ==
  ASSUME RollupInvariant, DaysGoForward
  PROVE  RollupsDoNotDeadlock
<1> SUFFICES ASSUME NEW i \in Jobs, Waits(i)
             PROVE  \E k \in Jobs : ~ Waits(k) /\ \E d \in Days : job[k].written[d].stored
  BY DEF RollupsDoNotDeadlock
<1>1. \A j \in Jobs : job[j].at = "computed" =>
        /\ Head(job[j].todo) \in Days
        /\ Head(job[j].todo) = job[j].night - Len(job[j].todo)
  <2> SUFFICES ASSUME NEW j \in Jobs, job[j].at = "computed"
               PROVE  /\ Head(job[j].todo) \in Days
                      /\ Head(job[j].todo) = job[j].night - Len(job[j].todo)
    OBVIOUS
  <2>1. Running(job[j]) /\ job[j].todo # <<>>
    BY DEF RollupInvariant, JobsAreSound, JobIsSound, OnCourse, Running
  <2> QED
    BY <2>1, FirstDay
<1>2. PICK W : W = {d \in Days : \E k \in Jobs : job[k].written[d].stored}
  OBVIOUS
<1>3. W \subseteq Nat /\ W # {} /\ \A d \in W : d <= Day(MaxTime)
  <2>1. Head(job[i].todo) \in W
    BY <1>1, <1>2 DEF Waits
  <2>2. Day(MaxTime) \in Nat
    BY Constants, DayRange
  <2> QED
    BY <1>2, <2>1, <2>2 DEF Days
<1>4. PICK last \in W : \A d \in W : d <= last
  <2>1. PICK end \in Nat : end = Day(MaxTime)
    BY Constants, DayRange
  <2>2. PICK T : T = {n \in Nat : end - n \in W}
    OBVIOUS
  <2>3. T # {}
    <3>1. PICK d \in W : TRUE
      BY <1>3
    <3>2. end - d \in Nat /\ end - (end - d) = d
      BY <1>3, <2>1
    <3> QED
      BY <2>2, <3>1, <3>2
  <2>4. \E n \in T : \A k \in T : n <= k
    <3>1. T \in SUBSET Nat
      BY <2>2
    <3>2. \E x \in T : \A y \in T : ~ <<y, x>> \in OpToRel(<, Nat)
      BY <2>3, <3>1, WFMin, NatLessThanWellFounded
    <3>3. PICK x \in T : \A y \in T : ~ y < x
      BY <3>1, <3>2 DEF OpToRel
    <3> QED
      BY <3>1, <3>3
  <2>5. PICK n \in T : \A k \in T : n <= k
    BY <2>4
  <2>6. \A d \in W : end - d \in Nat /\ end - (end - d) = d /\ d \in Nat
    BY <1>3, <2>1
  <2>7. \A d \in W : end - d \in T
    BY <2>2, <2>6
  <2>8. PICK top \in W : top = end - n
    BY <2>2
  <2>9. \A d \in W : d <= top
    BY <2>1, <2>2, <2>5, <2>6, <2>7, <2>8
  <2> QED
    BY <2>9
<1>5. PICK k \in Jobs : job[k].written[last].stored /\ last \in Days
  BY <1>2, <1>4
<1>6. ~ Waits(k)
  <2> SUFFICES ASSUME Waits(k) PROVE FALSE
    OBVIOUS
  <2>1. PICK d \in Days : d = Head(job[k].todo) /\ d = job[k].night - Len(job[k].todo)
    BY <1>1 DEF Waits
  <2>2. d \in W
    BY <1>2, <2>1 DEF Waits
  <2>3. last < d
    BY <1>5, <2>1 DEF DaysGoForward, Forward
  <2>4. d <= last /\ d \in Nat /\ last \in Nat
    BY <1>3, <1>4, <2>2
  <2> QED
    BY <2>3, <2>4
<1> QED
  BY <1>5, <1>6

-----------------------------------------------------------------------------
(***************************************************************************)
(* Theorems.                                                               *)
(***************************************************************************)

LEMMA InitConsistent == Init => RollupInvariant
<1> SUFFICES ASSUME Init PROVE RollupInvariant
  OBVIOUS
<1>1. \A d \in Days : NoneWritten[d] = NoSummary
  BY DEF NoneWritten
<1>2. NoSummary.stored = FALSE
  BY DEF NoSummary
<1>3. /\ now = 0 /\ row = [r \in Rows |-> NoRow] /\ daily = NoneWritten
      /\ job = [j \in Jobs |-> Idle] /\ nights = {} /\ fresh = {}
  BY DEF Init
<1>4. StateIsTyped
  <2>1. NoRow \in [at : {"none", "open", "kept", "gone"}, time : Nat,
                   kind : {"message", "call", "error"}, model : Models]
    BY Constants DEF NoRow
  <2> QED
    BY <1>1, <1>3, <2>1, Constants DEF StateIsTyped, IsSummary, NoneWritten
<1>5. JobsAreSound
  <2> SUFFICES ASSUME NEW j \in Jobs PROVE JobIsSound(j, job[j])
    BY DEF JobsAreSound
  <2>1. /\ job[j].at = "idle" /\ job[j].todo = <<>> /\ job[j].night = 0
        /\ job[j].computed = NoSummary /\ job[j].written = NoneWritten
        /\ job[j].fresh = {}
    BY <1>3 DEF Idle
  <2>2. job[j] \in [at : {"idle"}, night : {0}, todo : {<<>>}, computed : {NoSummary},
                    written : {NoneWritten}, fresh : {{}}]
    BY <1>3 DEF Idle
  <2>3. IsJob(job[j])
    <3>1. <<>> \in Seq(Nat) /\ 0 \in Nat
      OBVIOUS
    <3>2. job[j] \in [at : {"idle", "running", "computed", "retry", "done"}, night : Nat,
                      todo : Seq(Nat), computed : {NoSummary}, written : {NoneWritten},
                      fresh : SUBSET Days]
      BY <2>1, <2>2, <3>1
    <3> QED
      BY <1>1, <2>1, <3>2 DEF IsJob, IsSummary, NoneWritten
  <2>4. OnCourse(job[j]) /\ HoldsAccurate(job[j]) /\ Covers(job[j])
    BY <1>1, <1>2, <2>1 DEF OnCourse, HoldsAccurate, Covers, Running
  <2> QED
    BY <2>3, <2>4 DEF JobIsSound
<1>6. DailyIsAccurate /\ NightsLeaveNoGap
  BY <1>1, <1>2, <1>3 DEF DailyIsAccurate, NightsLeaveNoGap
<1> QED
  BY <1>4, <1>5, <1>6 DEF RollupInvariant

LEMMA NextConsistent ==
  ASSUME RollupInvariant, [Next]_vars
  PROVE  RollupInvariant'
<1>1. ASSUME NEW r \in Rows, BeginRow(r) PROVE RollupInvariant'
  BY <1>1, BeginStep
<1>2. ASSUME NEW r \in Rows, CommitRow(r) PROVE RollupInvariant'
  BY <1>2, OneRowStep DEF CommitRow
<1>3. ASSUME NEW r \in Rows, DeleteConversation(r) PROVE RollupInvariant'
  BY <1>3, OneRowStep DEF DeleteConversation
<1>4. ASSUME NEW m \in Models, NEW price \in Prices, NEW from \in Starts,
             AddPricing(m, price, from)
      PROVE  RollupInvariant'
  <2>1. PICK p : p = [model |-> m, from |-> from, price |-> price]
    OBVIOUS
  <2>2. p.model = m /\ p.from = from
    BY <2>1
  <2>3. Touch(Repriced(p.model, p.from)) /\ prices' = prices \cup {p}
        /\ UNCHANGED <<now, row, daily, nights>>
    BY <1>4, <2>1, <2>2 DEF AddPricing
  <2> QED
    BY <2>3, PriceStep
<1>5. ASSUME NEW p \in prices, DeletePricing(p) PROVE RollupInvariant'
  <2>1. PICK q : q = p
    OBVIOUS
  <2>2. Touch(Repriced(q.model, q.from)) /\ prices' = prices \ {q}
        /\ UNCHANGED <<now, row, daily, nights>>
    BY <1>5, <2>1 DEF DeletePricing
  <2> QED
    BY <2>2, PriceStep
<1>6. CASE Tick
  BY <1>6, TickStep
<1>7. CASE BeatTick
  BY <1>7, StartStep, Constants DEF BeatTick
<1>8. ASSUME NEW j \in Jobs, BackfillStart(j) PROVE RollupInvariant'
  BY <1>8, StartStep, Constants DEF BackfillStart
<1>9. ASSUME NEW j \in Jobs, RetryTask(j) PROVE RollupInvariant'
  <2>1. PICK n \in Nat \ {0} : n = IF j = Nightly THEN Lookback ELSE Backfill
    BY Constants
  <2>2. Start(j, n) /\ (j = Nightly => n = Lookback)
    BY <1>9, <2>1 DEF RetryTask
  <2> QED
    BY <2>2, StartStep
<1>10. CASE UNCHANGED vars
  <2>1. now \in Nat /\ now <= MaxTime /\ StateIsTyped
    BY DEF RollupInvariant, StateIsTyped
  <2>2. UNCHANGED <<now, row, prices, daily, job, nights, fresh>>
    BY <1>10 DEF vars
  <2>3. \A d \in Nat : Summary(d)' = Summary(d)
    BY <2>1, <2>2, TablesKept
  <2> QED
    BY <2>1, <2>2, <2>3, QuietStep DEF StateIsTyped
<1> QED
  BY <1>1, <1>2, <1>3, <1>4, <1>5, <1>6, <1>7, <1>8, <1>9, <1>10,
     ComputeStep, UpsertStep, CommitStep, AbandonStep DEF Next

\* The jobs, the table of summaries and the call log fit together: what a run
\* has read of a day is that day's SELECT until a row or a price of it changes,
\* what it writes and commits is that SELECT with its cost rounded to the column,
\* and a run works off the days before its own.
THEOREM RollupConsistent == Spec => []RollupInvariant
<1> QED
  BY InitConsistent, NextConsistent, PTL DEF Spec

\* A night whose run committed has left no day of its look-back without a
\* summary, retries and other jobs or not, and no unfinished day has one.
THEOREM NightsComplete == Spec => []NightsLeaveNoGap
<1>1. RollupInvariant => NightsLeaveNoGap
  BY DEF RollupInvariant
<1> QED
  BY <1>1, RollupConsistent, PTL

\* With a database session in UTC, the bar of a day on the dashboard of any
\* period that holds the whole day is the summary the night stored, but for the
\* digits the cost column drops, until the day changes.
THEOREM SummariesLive ==
  ASSUME SessionOffset = 0
  PROVE  Spec => []SummaryIsLive
<1>1. ASSUME RollupInvariant PROVE SummaryIsLive
  <2> SUFFICES ASSUME NEW d \in fresh
               PROVE  /\ daily[d].stored
                      /\ \A n \in Periods :
                           Whole(d, n) => daily[d].figures = Recorded(Live(d, n))
    BY DEF SummaryIsLive
  <2>1. d \in Days /\ daily[d].stored /\ daily[d].figures = Recorded(Summary(d))
    BY <1>1 DEF RollupInvariant, DailyIsAccurate
  <2>2. ASSUME NEW n \in Periods, Whole(d, n) PROVE Summary(d) = Live(d, n)
    BY <1>1, <2>1, <2>2, SummaryShown, Constants
  <2> QED
    BY <2>1, <2>2
<1> QED
  BY <1>1, RollupConsistent, PTL

\* The whole is the sum of its parts on the dashboard: with a database session
\* in UTC, whenever every whole finished day of a period has a summary that no
\* row, deletion or price has overtaken, those summaries and the bars of its cut
\* first day and of today add up to the overview's requests, to its cost within
\* half a digit of the column a summary, and the costs by model are that cost.
THEOREM DaysAlwaysAddUp ==
  ASSUME SessionOffset = 0
  PROVE  Spec => []DaysAddUp
<1>1. Init => RollupInvariant /\ MoneyIsCounted
  BY InitConsistent, MoneyInit
<1>2. RollupInvariant /\ MoneyIsCounted /\ [Next]_vars => (RollupInvariant /\ MoneyIsCounted)'
  BY NextConsistent, MoneyStep
<1>3. RollupInvariant /\ MoneyIsCounted => DaysAddUp
  BY DaysAddUpNow
<1> QED
  BY <1>1, <1>2, <1>3, PTL DEF Spec

\* A nightly run and a backfill, or any number of them, never wait for each
\* other's days in a circle: the order of complete_days_before is a lock order.
THEOREM RollupsGoOn == Spec => []RollupsDoNotDeadlock
<1>1. Init => RollupInvariant /\ DaysGoForward
  <2>1. Init => DaysGoForward
    BY DEF Init, DaysGoForward, Forward, Idle, NoneWritten, NoSummary
  <2> QED
    BY <2>1, InitConsistent
<1>2. RollupInvariant /\ DaysGoForward /\ [Next]_vars => (RollupInvariant /\ DaysGoForward)'
  BY NextConsistent, ForwardStep
<1>3. RollupInvariant /\ DaysGoForward => RollupsDoNotDeadlock
  BY LastDayGoesOn
<1> QED
  BY <1>1, <1>2, <1>3, PTL DEF Spec

\* Every variable has its type, and no summary the job stores or is about to
\* store breaks the CHECK constraints of analytics_daily: it counts no more
\* failed calls than calls, and an amount that is not negative.
THEOREM RollupTypes == Spec => []TypeOK
<1> DEFINE I == RollupInvariant /\ MoneyIsCounted /\ SummariesAreTyped /\ TablesAreTyped
<1>1. Init => I
  BY InitConsistent, MoneyInit, TypesInit
<1>2. I /\ [Next]_vars => I'
  BY NextConsistent, MoneyStep, SummariesStep, TablesStep
<1>3. I => TypeOK
  BY TypesHold
<1> QED
  BY <1>1, <1>2, <1>3, PTL DEF Spec

\* The price list does not rewrite history: a logged call costs something else
\* only when a period of its model that had begun by then comes or goes.
THEOREM PricesHold == Spec => PricesHoldUntilSuperseded
<1>1. ASSUME RollupInvariant, [Next]_vars
      PROVE  [\A r \in Logs :
                Cost(r)' # Cost(r) =>
                  \E p \in (prices \cup prices') \ (prices \cap prices') :
                    p.model = row[r].model /\ p.from <= row[r].time]_<<row, prices>>
  <2> SUFFICES ASSUME NEW r \in Logs,
                      \A p \in (prices \cup prices') \ (prices \cap prices') :
                        ~ (p.model = row[r].model /\ p.from <= row[r].time)
               PROVE  Cost(r)' = Cost(r)
    OBVIOUS
  <2>1. row'[r] = row[r]
    <3>1. r \in Rows /\ row[r].at = "kept" /\ row[r].kind # "message"
      BY DEF Logs, Committed
    <3>2. row = [s \in Rows |-> row[s]]
      BY <1>1 DEF RollupInvariant, StateIsTyped
    <3>3. ASSUME NEW s \in Rows, BeginRow(s) PROVE row'[r] = row[r]
      <4>1. s # r
        BY <3>1, <3>3 DEF BeginRow
      <4> QED
        BY <3>1, <3>2, <3>3, <4>1 DEF BeginRow
    <3>4. ASSUME NEW s \in Rows, CommitRow(s) PROVE row'[r] = row[r]
      <4>1. s # r
        BY <3>1, <3>4 DEF CommitRow
      <4> QED
        BY <3>1, <3>2, <3>4, <4>1 DEF CommitRow
    <3>5. ASSUME NEW s \in Rows, DeleteConversation(s) PROVE row'[r] = row[r]
      <4>1. s # r
        BY <3>1, <3>5 DEF DeleteConversation
      <4> QED
        BY <3>1, <3>2, <3>5, <4>1 DEF DeleteConversation
    <3>6. CASE ~ (\E s \in Rows : BeginRow(s) \/ CommitRow(s) \/ DeleteConversation(s))
      <4>1. row' = row
        BY <1>1, <3>6
           DEF Next, Tick, AddPricing, DeletePricing, BeatTick, BackfillStart, RetryTask,
               Start, Compute, Upsert, Commit, Abandon, vars
      <4> QED
        BY <4>1
    <3> QED
      BY <3>3, <3>4, <3>5, <3>6
  <2>2. {p \in prices' : p.model = row[r].model /\ p.from <= row[r].time}
          = {p \in prices : p.model = row[r].model /\ p.from <= row[r].time}
    OBVIOUS
  <2> QED
    BY <2>1, <2>2, CostKept
<1> QED
  BY <1>1, RollupConsistent, PTL DEF Spec, PricesHoldUntilSuperseded

=============================================================================
