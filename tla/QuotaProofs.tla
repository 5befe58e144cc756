----------------------------- MODULE QuotaProofs -----------------------------
(***************************************************************************)
(* The quota, for any number of workers and messages, any windows, limits  *)
(* and prices: floods are real, blocks do not renew themselves, and the    *)
(* recorded spend exceeds its ceiling by at most one completion per worker *)
(* and per failure of Redis.                                               *)
(***************************************************************************)
EXTENDS Quota, FiniteSetTheorems, TLAPS

-----------------------------------------------------------------------------
(***************************************************************************)
(* The inductive invariant.                                                *)
(***************************************************************************)

\* A score in quota:msgs is the time its message was first counted.
HistoryIsFirstSeen ==
  \A m \in Messages : history[m] # Never => firstSeen[m] = history[m]

\* A check past the block key read the clock when there was no block, so a block
\* in force now was set at that moment or later.
CheckedBeforeBlock ==
  \A w \in Workers : worker[w].pc \in {"count", "flood", "text"} =>
    /\ worker[w].now <= clock
    /\ Blocked => worker[w].now <= blockUntil - BlockSeconds

\* Nothing is recorded for days that have not begun.
FutureIsFree == \A d \in Days : d > Today => spend[d] = 0

QuotaInvariant ==
  /\ HistoryIsFirstSeen
  /\ CheckedBeforeBlock
  /\ FutureIsFree
  /\ SpendOvershootBounded
-----------------------------------------------------------------------------
(***************************************************************************)
(* Arithmetic, and what a worker's record holds.                           *)
(***************************************************************************)

\* The constants, one by one.
LEMMA Constants ==
  /\ FloodWindow \in Nat /\ FloodLimit \in Nat /\ DuplicateWindow \in Nat
  /\ DuplicateLimit \in Nat /\ BlockSeconds \in Nat \ {0}
  /\ SpendLimit \in Nat \ {0} /\ TokenLimit \in Nat \ {0}
  /\ Length["day"] \in Nat \ {0} /\ Length["minute"] \in Nat \ {0}
  /\ MaxCost \in Nat /\ MaxTime \in Nat /\ MaxRedeliveries \in Nat
  /\ MaxFailures \in Nat /\ MaxOps \in Nat
BY QuotaAssumption DEF Windows

\* A day's number is at most the clock that is divided, and never goes back.
LEMMA DayBound ==
  ASSUME NEW a \in Nat, NEW b \in Nat \ {0}
  PROVE  a \div b \in 0 .. a /\ (a + 1) \div b >= a \div b
OBVIOUS

\* What k completions may cost grows with k, by MaxCost each.
LEMMA CostGrows ==
  ASSUME NEW a \in Nat, NEW b \in Nat, a <= b
  PROVE  /\ MaxCost * a \in Nat
         /\ MaxCost * a <= MaxCost * b
         /\ MaxCost * (a + 1) = MaxCost * a + MaxCost
BY Constants

\* A count of members of a sorted set is a number.
LEMMA RecentIsNat ==
  ASSUME NEW zset, NEW now, NEW len, NEW keys \in SUBSET Messages
  PROVE  Recent(zset, now, len, keys) \in Nat
<1> DEFINE S == {m \in keys : zset[m] # Never /\ zset[m] \in (now - len) .. now}
<1>1. S \subseteq Messages
  OBVIOUS
<1>2. IsFiniteSet(S)
  BY <1>1, FS_Subset, QuotaAssumption
<1>3. Cardinality(S) \in Nat
  BY <1>2, FS_CardinalityType
<1> QED
  BY <1>3 DEF Recent

\* The fields of a worker's record, by how far its check has come.
LEMMA WorkerFields ==
  ASSUME NEW s \in WorkerStates
  PROVE  /\ s.pc \in {"idle", "spend", "block", "count", "flood", "text",
                     "generate", "record"}
         /\ s.pc = "idle" => s = Idle
         /\ s.pc # "idle" => s.msg \in Messages
         /\ s.pc \in {"count", "flood", "text"} => s.now \in Nat
         /\ s.pc \in {"flood", "text"} => s.counts \in [Windows -> Nat]
         /\ s.pc = "record" => s.usage \in Usages
         /\ s.pc = "spend" => [s EXCEPT !.pc = "block"] \in WorkerStates
BY DEF WorkerStates, Idle

\* A worker is given a state of the right type.
LEMMA WorkerTyped ==
  ASSUME TypeOK, NEW w \in Workers, NEW s \in WorkerStates,
         worker' = [worker EXCEPT ![w] = s]
  PROVE  worker' \in [Workers -> WorkerStates]
BY DEF TypeOK

\* The sorted sets keep their type when they are trimmed and added to.
LEMMA ZsetTyped ==
  ASSUME NEW z \in [Messages -> Int], NEW c \in Int, NEW keys, NEW m \in Messages,
         NEW now \in Nat
  PROVE  /\ Trimmed(z, c, keys) \in [Messages -> Int]
         /\ Added(Trimmed(z, c, keys), m, now) \in [Messages -> Int]
BY DEF Trimmed, Added, Never
-----------------------------------------------------------------------------
(***************************************************************************)
(* Types.                                                                  *)
(***************************************************************************)

\* The three ways a step of a check ends keep worker and told well typed.
LEMMA RefuseTyped ==
  ASSUME TypeOK, NEW w \in Workers, NEW reason, NEW notify \in BOOLEAN,
         Refuse(w, reason, notify)
  PROVE  /\ worker' \in [Workers -> WorkerStates]
         /\ told' \subseteq Copies \cup {"nothing"}
<1>1. Idle \in WorkerStates
  BY DEF Idle, WorkerStates
<1>2. worker' \in [Workers -> WorkerStates]
  BY <1>1, WorkerTyped DEF Refuse
<1>3. CopyFor(reason) \in Copies
  BY DEF CopyFor, Copies
<1>4. told' \subseteq Copies \cup {"nothing"}
  BY <1>3 DEF Refuse, TypeOK
<1> QED
  BY <1>2, <1>4
LEMMA AdmitTyped ==
  ASSUME TypeOK, NEW w \in Workers, worker[w].pc # "idle", Admit(w)
  PROVE  /\ worker' \in [Workers -> WorkerStates]
         /\ told' \subseteq Copies \cup {"nothing"}
<1>1. worker[w] \in WorkerStates
  BY DEF TypeOK
<1>2. worker[w].msg \in Messages
  BY <1>1, WorkerFields
<1>3. [pc |-> "generate", msg |-> worker[w].msg] \in WorkerStates
  BY <1>2 DEF WorkerStates
<1>4. worker' = [worker EXCEPT ![w] = [pc |-> "generate", msg |-> worker[w].msg]]
  BY DEF Admit, TypeOK
<1> QED
  BY <1>3, <1>4, WorkerTyped DEF Admit, TypeOK
LEMMA GotoTyped ==
  ASSUME TypeOK, NEW w \in Workers, NEW s \in WorkerStates, Goto(w, s)
  PROVE  /\ worker' \in [Workers -> WorkerStates]
         /\ told' \subseteq Copies \cup {"nothing"}
BY WorkerTyped DEF Goto, TypeOK

\* What CountMessage computes has its type, and so has the state it goes to.
LEMMA CountsTyped ==
  ASSUME NEW z, NEW now \in Nat, NEW m \in Messages, NEW pc \in {"flood", "text"}
  PROVE  [pc |-> pc, msg |-> m, now |-> now,
          counts |-> [v \in Windows |-> Recent(z, now, Length[v], Messages)]]
            \in WorkerStates
<1>1. [v \in Windows |-> Recent(z, now, Length[v], Messages)] \in [Windows -> Nat]
  BY RecentIsNat
<1> QED
  BY <1>1 DEF WorkerStates

\* Today is a day of the accounts.
LEMMA TodayIsADay ==
  ASSUME TypeOK
  PROVE  Today \in Days /\ Today \in Nat /\ clock \in Nat
<1>1. clock \in Nat /\ clock <= MaxTime
  BY Constants DEF TypeOK
<1>2. Today \in 0 .. clock
  BY <1>1, DayBound, Constants DEF Today
<1> QED
  BY <1>1, <1>2, Constants DEF Days

LEMMA TypesInit == Init => TypeOK
<1> SUFFICES ASSUME Init PROVE TypeOK
  OBVIOUS
<1>1. {history, repeats, firstSeen} \subseteq [Messages -> Int]
  BY DEF Init, Never
<1>2. {spend, tokens} \subseteq [Days -> Nat]
  BY DEF Init
<1>3. worker \in [Workers -> WorkerStates]
  BY DEF Init, Idle, WorkerStates
<1>4. /\ clock \in 0 .. MaxTime /\ blockUntil \in 0 .. (MaxTime + BlockSeconds)
      /\ disabled \in BOOLEAN /\ unblocking \in BOOLEAN
      /\ checked \subseteq Messages /\ redeliveries \in 0 .. MaxRedeliveries
      /\ failures \in 0 .. MaxFailures /\ ops \in 0 .. MaxOps
      /\ told \subseteq Copies \cup {"nothing"}
  <2>1. /\ clock = 0 /\ blockUntil = 0 /\ disabled = FALSE /\ unblocking = FALSE
        /\ checked = {} /\ redeliveries = 0 /\ failures = 0 /\ ops = 0 /\ told = {}
    BY DEF Init
  <2>2. /\ clock \in 0 .. MaxTime /\ blockUntil \in 0 .. (MaxTime + BlockSeconds)
        /\ redeliveries \in 0 .. MaxRedeliveries
        /\ failures \in 0 .. MaxFailures /\ ops \in 0 .. MaxOps
    BY <2>1, Constants
  <2>3. disabled \in BOOLEAN /\ unblocking \in BOOLEAN
    BY <2>1, Zenon
  <2> QED
    BY <2>1, <2>2, <2>3
<1> QED
  BY <1>1, <1>2, <1>3, <1>4 DEF TypeOK

LEMMA TypesStep == TypeOK /\ [Next]_vars => TypeOK'
<1> SUFFICES ASSUME TypeOK, [Next]_vars PROVE TypeOK'
  OBVIOUS
<1> USE Constants
<1>0. ASSUME NEW w \in Workers
      PROVE  worker[w] \in WorkerStates
  BY DEF TypeOK
<1>1. ASSUME NEW w \in Workers, NEW m \in Messages, Begin(w, m) PROVE TypeOK'
  <2>1. [pc |-> "spend", msg |-> m] \in WorkerStates
    BY DEF WorkerStates
  <2>2. worker' \in [Workers -> WorkerStates] /\ told' \subseteq Copies \cup {"nothing"}
    BY <1>1, <2>1, GotoTyped DEF Begin
  <2>3. redeliveries' \in 0 .. MaxRedeliveries /\ checked' \subseteq Messages
    BY <1>1 DEF Begin, TypeOK
  <2> QED
    BY <1>1, <2>2, <2>3 DEF Begin, TypeOK, redisKeys
<1>2. ASSUME NEW w \in Workers, CheckSpend(w) PROVE TypeOK'
  <2>1. [worker[w] EXCEPT !.pc = "block"] \in WorkerStates
    BY <1>0, <1>2, WorkerFields DEF CheckSpend
  <2>2. worker' \in [Workers -> WorkerStates] /\ told' \subseteq Copies \cup {"nothing"}
    BY <1>2, <2>1, GotoTyped, RefuseTyped DEF CheckSpend
  <2> QED
    BY <1>2, <2>2 DEF CheckSpend, TypeOK, redisKeys, counters
<1>3. ASSUME NEW w \in Workers, CheckBlock(w) PROVE TypeOK'
  <2>1. worker[w].msg \in Messages
    BY <1>0, <1>3, WorkerFields DEF CheckBlock
  <2>2. [pc |-> "count", msg |-> worker[w].msg, now |-> clock] \in WorkerStates
    BY <2>1, TodayIsADay DEF WorkerStates
  <2>3. worker' \in [Workers -> WorkerStates] /\ told' \subseteq Copies \cup {"nothing"}
    BY <1>3, <2>2, GotoTyped, RefuseTyped DEF CheckBlock
  <2> QED
    BY <1>3, <2>3 DEF CheckBlock, TypeOK, redisKeys, counters
<1>a. ASSUME NEW w \in Workers, worker[w].pc # "idle", NEW counts \in [Windows -> Nat],
             Ordinary(w, counts)
      PROVE  worker' \in [Workers -> WorkerStates] /\ told' \subseteq Copies \cup {"nothing"}
  BY <1>a, AdmitTyped, RefuseTyped DEF Ordinary
<1>4. ASSUME NEW w \in Workers, CountMessage(w) PROVE TypeOK'
  <2>1. PICK m \in Messages, now \in Nat : m = worker[w].msg /\ now = worker[w].now
    BY <1>0, <1>4, WorkerFields DEF CountMessage
  <2> DEFINE kept == Trimmed(history, now - Length["day"], Messages)
             added == Added(kept, m, now)
             counts == [v \in Windows |-> Recent(added, now, Length[v], Messages)]
             next(pc) == [pc |-> pc, msg |-> m, now |-> now, counts |-> counts]
  <2>2. history' = added /\ added \in [Messages -> Int]
    <3>1. history' = added
      BY <1>4, <2>1 DEF CountMessage
    <3>2. history \in [Messages -> Int] /\ now - Length["day"] \in Int
      BY DEF TypeOK
    <3> QED
      BY <3>1, <3>2, ZsetTyped
  <2>3. firstSeen' \in [Messages -> Int]
    BY <1>4, <2>1 DEF CountMessage, TypeOK
  <2>4. next("flood") \in WorkerStates /\ next("text") \in WorkerStates
    BY CountsTyped
  <2>5. counts \in [Windows -> Nat]
    BY RecentIsNat
  <2>6. worker[w].pc = "count"
    BY <1>4 DEF CountMessage
  <2>7. Admit(w) \/ Goto(w, next("flood")) \/ Goto(w, next("text")) \/ Ordinary(w, counts)
    BY <1>4, <2>1 DEF CountMessage
  <2> HIDE DEF kept, added, counts, next
  <2>8. worker' \in [Workers -> WorkerStates] /\ told' \subseteq Copies \cup {"nothing"}
    BY <2>4, <2>5, <2>6, <2>7, <1>a, AdmitTyped, GotoTyped
  <2> QED
    BY <1>4, <2>2, <2>3, <2>8 DEF CountMessage, TypeOK, counters
<1>5. ASSUME NEW w \in Workers, BlockFlood(w) PROVE TypeOK'
  <2>1. worker' \in [Workers -> WorkerStates] /\ told' \subseteq Copies \cup {"nothing"}
    BY <1>5, RefuseTyped DEF BlockFlood
  <2> QED
    BY <1>5, <2>1 DEF BlockFlood, TypeOK, counters
<1>6. ASSUME NEW w \in Workers, CountText(w) PROVE TypeOK'
  <2>1. PICK m \in Messages, now \in Nat : m = worker[w].msg /\ now = worker[w].now
    BY <1>0, <1>6, WorkerFields DEF CountText
  <2>2. repeats' \in [Messages -> Int]
    <3>1. repeats' = Added(Trimmed(repeats, now - DuplicateWindow, SameText(m)), m, now)
      BY <1>6, <2>1 DEF CountText
    <3>2. repeats \in [Messages -> Int] /\ now - DuplicateWindow \in Int
      BY DEF TypeOK
    <3> QED
      BY <3>1, <3>2, ZsetTyped
  <2>3. worker[w].pc = "text" /\ worker[w].counts \in [Windows -> Nat]
    BY <1>0, <1>6, WorkerFields DEF CountText
  <2>4. Refuse(w, "spamming", TRUE) \/ Ordinary(w, worker[w].counts)
    BY <1>6 DEF CountText
  <2>5. worker' \in [Workers -> WorkerStates] /\ told' \subseteq Copies \cup {"nothing"}
    BY <2>3, <2>4, <1>a, RefuseTyped
  <2> QED
    BY <1>6, <2>2, <2>5 DEF CountText, TypeOK, counters
<1>7. ASSUME NEW w \in Workers, FailOpen(w) PROVE TypeOK'
  <2>1. worker' \in [Workers -> WorkerStates] /\ told' \subseteq Copies \cup {"nothing"}
    BY <1>7, AdmitTyped DEF FailOpen, Checking
  <2> QED
    BY <1>7, <2>1 DEF FailOpen, TypeOK, redisKeys
<1>8. Idle \in WorkerStates
  BY DEF Idle, WorkerStates
<1>9. ASSUME NEW w \in Workers, RecordUsage(w) PROVE TypeOK'
  <2>1. worker' \in [Workers -> WorkerStates] /\ told' \subseteq Copies \cup {"nothing"}
    BY <1>9, <1>8, GotoTyped DEF RecordUsage
  <2>2. PICK u \in Usages :
          /\ spend' \in {spend, [spend EXCEPT ![Today] = @ + u.cost]}
          /\ tokens' \in {tokens, [tokens EXCEPT ![Today] = @ + u.tokens]}
    <3>1. worker[w].usage \in Usages
      BY <1>0, <1>9, WorkerFields DEF RecordUsage
    <3> QED
      BY <1>9, <3>1 DEF RecordUsage
  <2>3. u.cost \in Nat /\ u.tokens \in Nat
    BY QuotaAssumption
  <2>4. spend \in [Days -> Nat] /\ tokens \in [Days -> Nat] /\ Today \in Days
    BY TodayIsADay DEF TypeOK
  <2>5. spend' \in [Days -> Nat]
    BY <2>2, <2>3, <2>4
  <2>6. tokens' \in [Days -> Nat]
    BY <2>2, <2>3, <2>4
  <2>7. failures' \in 0 .. MaxFailures
    BY <1>9 DEF RecordUsage, TypeOK
  <2> QED
    BY <1>9, <2>1, <2>5, <2>6, <2>7 DEF RecordUsage, TypeOK
<1>10. ASSUME NEW w \in Workers, GenerationFails(w) \/ LoseWorker(w) PROVE TypeOK'
  <2>1. worker' \in [Workers -> WorkerStates] /\ told' \subseteq Copies \cup {"nothing"}
    BY <1>10, <1>8, GotoTyped DEF GenerationFails, LoseWorker
  <2> QED
    BY <1>10, <2>1 DEF GenerationFails, LoseWorker, TypeOK, redisKeys, counters
<1>b. ASSUME NEW w \in Workers, Complete(w) PROVE TypeOK'
  <2>1. worker[w].msg \in Messages
    BY <1>0, <1>b, WorkerFields DEF Complete
  <2>2. \A u \in Usages :
          [pc |-> "record", msg |-> worker[w].msg, usage |-> u] \in WorkerStates
    BY <2>1 DEF WorkerStates
  <2>3. worker' \in [Workers -> WorkerStates] /\ told' \subseteq Copies \cup {"nothing"}
    BY <1>b, <1>8, <2>2, GotoTyped DEF Complete
  <2> QED
    BY <1>b, <2>3 DEF Complete, TypeOK, redisKeys, counters
<1>11. CASE SetAiDisabled
  BY <1>11 DEF SetAiDisabled, TypeOK
<1>12. CASE Unblock
  BY <1>12 DEF Unblock, TypeOK
<1>13. CASE ClearHistory
  <2>1. Never \in Int
    BY DEF Never
  <2>2. history' \in [Messages -> Int]
    BY <1>13, <2>1 DEF ClearHistory
  <2> QED
    BY <1>13, <2>2 DEF ClearHistory, TypeOK, counters
<1>14. CASE Tick
  BY <1>14 DEF Tick, TypeOK, redisKeys, counters
<1>15. CASE UNCHANGED vars
  BY <1>15 DEF vars, TypeOK
<1> QED
  BY <1>1, <1>2, <1>3, <1>4, <1>5, <1>6, <1>7, <1>9, <1>10, <1>b, <1>11, <1>12,
     <1>13, <1>14, <1>15 DEF Next

\* Every Redis key, counter, account and worker keeps its type, for any windows,
\* limits and numbers of workers and messages (Quota.TypeOK).
THEOREM QuotaTypes == Spec => []TypeOK
BY TypesInit, TypesStep, PTL DEF Spec
-----------------------------------------------------------------------------
(***************************************************************************)
(* What a step does to the workers.                                        *)
(***************************************************************************)

\* A step of a worker changes that worker alone; a step of an operator or of the
\* clock changes none.
LEMMA OneWorker ==
  ASSUME TypeOK, NEW w \in Workers,
         \/ \E m \in Messages : Begin(w, m)
         \/ CheckSpend(w) \/ CheckBlock(w) \/ CountMessage(w) \/ BlockFlood(w)
         \/ CountText(w) \/ FailOpen(w) \/ RecordUsage(w) \/ GenerationFails(w)
         \/ Complete(w) \/ LoseWorker(w)
  PROVE  \A v \in Workers \ {w} : worker'[v] = worker[v]
<1>1. \E s : worker' = [worker EXCEPT ![w] = s]
  BY DEF Begin, CheckSpend, CheckBlock, CountMessage, BlockFlood, CountText, FailOpen,
         RecordUsage, GenerationFails, Complete, LoseWorker, Ordinary, Refuse,
         Admit, Goto
<1> QED
  BY <1>1 DEF TypeOK

\* Where a step leaves the worker that takes it.
LEMMA RefuseEnds ==
  ASSUME TypeOK, NEW w \in Workers, NEW reason, NEW notify, Refuse(w, reason, notify)
  PROVE  worker'[w].pc = "idle"
BY DEF Refuse, TypeOK, Idle
LEMMA AdmitEnds ==
  ASSUME TypeOK, NEW w \in Workers, Admit(w)
  PROVE  worker'[w].pc = "generate"
BY DEF Admit, TypeOK
LEMMA GotoEnds ==
  ASSUME TypeOK, NEW w \in Workers, NEW s, Goto(w, s)
  PROVE  worker'[w] = s
BY DEF Goto, TypeOK
LEMMA OrdinaryEnds ==
  ASSUME TypeOK, NEW w \in Workers, NEW counts, Ordinary(w, counts)
  PROVE  worker'[w].pc \in {"idle", "generate"}
BY AdmitEnds, RefuseEnds DEF Ordinary

\* The count leaves a worker with the message and the clock it had.
LEMMA CountEnds ==
  ASSUME TypeOK, NEW w \in Workers, CountMessage(w)
  PROVE  \/ worker'[w].pc \in {"idle", "generate"}
         \/ worker'[w].pc \in {"flood", "text"} /\ worker'[w].now = worker[w].now
<1> DEFINE m == worker[w].msg
           now == worker[w].now
           added == Added(Trimmed(history, now - Length["day"], Messages), m, now)
           counts == [v \in Windows |-> Recent(added, now, Length[v], Messages)]
           next(pc) == [pc |-> pc, msg |-> m, now |-> now, counts |-> counts]
<1>1. \/ Admit(w) \/ Ordinary(w, counts)
      \/ Goto(w, next("flood")) \/ Goto(w, next("text"))
  BY DEF CountMessage
<1>2. \A pc : next(pc).pc = pc /\ next(pc).now = worker[w].now
  OBVIOUS
<1> HIDE DEF counts, next
<1> QED
  BY <1>1, <1>2, AdmitEnds, OrdinaryEnds, GotoEnds
LEMMA TextEnds ==
  ASSUME TypeOK, NEW w \in Workers, CountText(w)
  PROVE  worker'[w].pc \in {"idle", "generate"}
<1>1. Refuse(w, "spamming", TRUE) \/ Ordinary(w, worker[w].counts)
  BY DEF CountText
<1> QED
  BY <1>1, RefuseEnds, OrdinaryEnds
-----------------------------------------------------------------------------
(***************************************************************************)
(* The parts of the invariant, one by one.                                 *)
(***************************************************************************)

LEMMA HistoryStep ==
  ASSUME TypeOK, HistoryIsFirstSeen, [Next]_vars
  PROVE  HistoryIsFirstSeen'
<1>1. ASSUME NEW w \in Workers, CountMessage(w) PROVE HistoryIsFirstSeen'
  <2>1. PICK m \in Messages, now \in Nat : m = worker[w].msg /\ now = worker[w].now
    <3>1. worker[w] \in WorkerStates
      BY DEF TypeOK
    <3> QED
      BY <1>1, <3>1, WorkerFields DEF CountMessage
  <2>2. PICK kept :
          /\ kept = Trimmed(history, now - Length["day"], Messages)
          /\ history' = Added(kept, m, now)
          /\ firstSeen' = [firstSeen EXCEPT ![m] = IF kept[m] = Never THEN now ELSE @]
    BY <1>1, <2>1 DEF CountMessage
  <2>3. \A n \in Messages : kept[n] \in {Never, history[n]}
    BY <2>2 DEF Trimmed
  <2>4. kept \in [Messages -> Int] /\ firstSeen \in [Messages -> Int]
    <3>1. history \in [Messages -> Int] /\ now - Length["day"] \in Int
      BY Constants DEF TypeOK
    <3> QED
      BY <2>2, <3>1, ZsetTyped DEF TypeOK
  <2>5. ASSUME NEW n \in Messages, history'[n] # Never
        PROVE  firstSeen'[n] = history'[n]
    BY <2>2, <2>3, <2>4, <2>5 DEF Added, HistoryIsFirstSeen
  <2> QED
    BY <2>5 DEF HistoryIsFirstSeen
<1>2. CASE ClearHistory
  BY <1>2 DEF ClearHistory, HistoryIsFirstSeen
<1>3. CASE UNCHANGED <<history, firstSeen>>
  BY <1>3 DEF HistoryIsFirstSeen
<1> QED
  BY <1>1, <1>2, <1>3
  DEF Next, vars, Begin, CheckSpend, CheckBlock, BlockFlood, CountText, FailOpen,
      RecordUsage, GenerationFails, Complete, LoseWorker, SetAiDisabled, Unblock, Tick,
      redisKeys


LEMMA BlockStep ==
  ASSUME TypeOK, CheckedBeforeBlock, [Next]_vars
  PROVE  CheckedBeforeBlock'
<1>0. /\ clock \in Nat /\ blockUntil \in Nat /\ BlockSeconds \in Nat
      /\ clock' \in Nat /\ blockUntil' \in Nat
      /\ \A v \in Workers : worker[v].pc \in {"count", "flood", "text"} =>
                              worker[v].now \in Nat
  <2>1. TypeOK'
    BY TypesStep
  <2>2. \A v \in Workers : worker[v] \in WorkerStates
    BY DEF TypeOK
  <2>3. \A v \in Workers : worker[v].pc \in {"count", "flood", "text"} =>
                              worker[v].now \in Nat
    BY <2>2, WorkerFields
  <2> QED
    BY <2>1, <2>3, Constants DEF TypeOK
<1>1. ASSUME NEW w \in Workers, UNCHANGED <<clock, blockUntil>>,
             \A v \in Workers \ {w} : worker'[v] = worker[v],
             \/ worker'[w].pc \notin {"count", "flood", "text"}
             \/ /\ worker[w].pc \in {"count", "flood", "text"}
                /\ worker'[w].now = worker[w].now
      PROVE  CheckedBeforeBlock'
  BY <1>1 DEF CheckedBeforeBlock, Blocked
<1>2. ASSUME NEW w \in Workers,
             \/ \E m \in Messages : Begin(w, m)
             \/ CheckSpend(w) \/ CountMessage(w) \/ CountText(w)
             \/ FailOpen(w) \/ RecordUsage(w) \/ GenerationFails(w)
             \/ Complete(w) \/ LoseWorker(w)
      PROVE  CheckedBeforeBlock'
  <2>1. UNCHANGED <<clock, blockUntil>>
    BY <1>2 DEF Begin, CheckSpend, CountMessage, CountText, FailOpen, RecordUsage,
                GenerationFails, Complete, LoseWorker, redisKeys
  <2>2. \A v \in Workers \ {w} : worker'[v] = worker[v]
    BY <1>2, OneWorker
  <2>3. \/ worker'[w].pc \notin {"count", "flood", "text"}
        \/ /\ worker[w].pc \in {"count", "flood", "text"}
           /\ worker'[w].now = worker[w].now
    <3>1. ASSUME NEW m \in Messages, Begin(w, m)
          PROVE  worker'[w].pc = "spend"
      BY <3>1, GotoEnds DEF Begin
    <3>2. ASSUME CheckSpend(w)
          PROVE  worker'[w].pc \in {"idle", "block"}
      <4>1. worker[w] \in WorkerStates
        BY DEF TypeOK
      <4>2. worker[w].pc = "spend" => [worker[w] EXCEPT !.pc = "block"].pc = "block"
        BY <4>1 DEF WorkerStates
      <4> QED
        BY <3>2, <4>2, GotoEnds, RefuseEnds DEF CheckSpend
    <3>3. CASE CountMessage(w)
      <4>1. worker[w].pc = "count"
        BY <3>3 DEF CountMessage
      <4> QED
        BY <3>3, <4>1, CountEnds
    <3>4. CASE CountText(w)
      BY <3>4, TextEnds
    <3>5. CASE FailOpen(w)
      BY <3>5, AdmitEnds DEF FailOpen
    <3>6. CASE RecordUsage(w) \/ GenerationFails(w) \/ LoseWorker(w)
      BY <3>6, GotoEnds DEF RecordUsage, GenerationFails, LoseWorker, Idle
    <3>7. CASE Complete(w)
      <4>1. PICK u : \/ Goto(w, [pc |-> "record", msg |-> worker[w].msg, usage |-> u])
                    \/ Goto(w, Idle)
        BY <3>7 DEF Complete
      <4>2. worker'[w].pc \in {"record", "idle"}
        BY <4>1, GotoEnds DEF Idle
      <4> QED
        BY <4>2
    <3> QED
      BY <1>2, <3>1, <3>2, <3>3, <3>4, <3>5, <3>6, <3>7
  <2> QED
    BY <1>1, <2>1, <2>2, <2>3
<1>3. ASSUME NEW w \in Workers, CheckBlock(w) PROVE CheckedBeforeBlock'
  <2>1. UNCHANGED <<clock, blockUntil>>
    BY <1>3 DEF CheckBlock, redisKeys
  <2>2. \A v \in Workers \ {w} : worker'[v] = worker[v]
    BY <1>3, OneWorker
  <2>3. \/ worker'[w].pc = "idle"
        \/ ~Blocked /\ worker'[w].now = clock
    <3>1. CASE Refuse(w, "blocked", FALSE)
      BY <3>1, RefuseEnds
    <3>2. ASSUME ~Blocked,
                 Goto(w, [pc |-> "count", msg |-> worker[w].msg, now |-> clock])
          PROVE  ~Blocked /\ worker'[w].now = clock
      <4>1. worker'[w] = [pc |-> "count", msg |-> worker[w].msg, now |-> clock]
        BY <3>2, GotoEnds
      <4> QED
        BY <3>2, <4>1
    <3> QED
      BY <1>3, <3>1, <3>2 DEF CheckBlock
  <2> QED
    BY <1>0, <2>1, <2>2, <2>3 DEF CheckedBeforeBlock, Blocked
<1>4. ASSUME NEW w \in Workers, BlockFlood(w) PROVE CheckedBeforeBlock'
  <2>1. worker'[w].pc = "idle" /\ clock' = clock /\ blockUntil' = clock + BlockSeconds
    BY <1>4, RefuseEnds DEF BlockFlood
  <2>2. \A v \in Workers \ {w} : worker'[v] = worker[v]
    BY <1>4, OneWorker
  <2> QED
    BY <1>0, <2>1, <2>2 DEF CheckedBeforeBlock, Blocked
<1>5. CASE Unblock
  BY <1>0, <1>5 DEF Unblock, CheckedBeforeBlock, Blocked
<1>6. CASE Tick
  BY <1>0, <1>6 DEF Tick, CheckedBeforeBlock, Blocked, redisKeys
<1>7. CASE UNCHANGED <<clock, blockUntil, worker>>
  BY <1>7 DEF CheckedBeforeBlock, Blocked
<1> QED
  BY <1>2, <1>3, <1>4, <1>5, <1>6, <1>7 DEF Next, vars, SetAiDisabled, ClearHistory

\* The workers a charge may still come from are finitely many.
LEMMA ChargingIsFinite ==
  /\ IsFiniteSet(Charging) /\ Charging \subseteq Workers
  /\ Cardinality(Charging) \in Nat /\ Cardinality(Workers) \in Nat
  /\ Cardinality(Charging) <= Cardinality(Workers)
<1>1. Charging \subseteq Workers
  BY DEF Charging
<1> QED
  BY <1>1, FS_Subset, FS_CardinalityType, QuotaAssumption

\* The bound in numbers: charged so far, what may still be charged, the limit
\* and its allowances.
LEMMA BoundInNumbers ==
  ASSUME TypeOK
  PROVE  /\ spend[Today] \in Nat /\ SpendLimit \in Nat /\ failures \in Nat
         /\ Cardinality(Charging) \in Nat
         /\ MaxCost * Cardinality(Charging) \in Nat
         /\ MaxCost * (Cardinality(Workers) + failures) \in Nat
         /\ MaxCost * Cardinality(Charging) <= MaxCost * (Cardinality(Workers) + failures)
<1>1. Cardinality(Charging) \in Nat /\ Cardinality(Workers) \in Nat /\ failures \in Nat
      /\ Cardinality(Charging) <= Cardinality(Workers)
  BY ChargingIsFinite, Constants DEF TypeOK
<1>2. PICK a \in Nat, b \in Nat :
        /\ a = Cardinality(Charging) /\ b = Cardinality(Workers) + failures /\ a <= b
  BY <1>1
<1>3. MaxCost * a \in Nat /\ MaxCost * b \in Nat /\ MaxCost * a <= MaxCost * b
  BY <1>2, CostGrows
<1>4. spend[Today] \in Nat /\ SpendLimit \in Nat
  BY TodayIsADay, Constants DEF TypeOK
<1> QED
  BY <1>1, <1>2, <1>3, <1>4

\* Nothing is recorded and nobody new may be: the bound is kept.
LEMMA ChargeKept ==
  ASSUME TypeOK, TypeOK', SpendOvershootBounded, failures' = failures,
         spend' = spend, Today' = Today, Charging' \subseteq Charging
  PROVE  SpendOvershootBounded'
<1> DEFINE a == Cardinality(Charging')
           b == Cardinality(Charging)
           n == MaxCost * (Cardinality(Workers) + failures)
<1>1. a \in Nat /\ b \in Nat /\ a <= b
  BY ChargingIsFinite, FS_Subset, FS_CardinalityType
<1>2. spend[Today] \in Nat /\ SpendLimit \in Nat /\ n \in Nat
  BY BoundInNumbers
<1>3. MaxCost * a \in Nat /\ MaxCost * b \in Nat /\ MaxCost * a <= MaxCost * b
  BY <1>1, CostGrows
<1>4. SpendOvershootBounded' <=> spend'[Today'] + MaxCost * a < SpendLimit + n
  BY DEF SpendOvershootBounded
<1>5. spend[Today] + MaxCost * b < SpendLimit + n
  BY DEF SpendOvershootBounded
<1> HIDE DEF a, b, n
<1> QED
  BY <1>2, <1>3, <1>4, <1>5

\* Room for every worker: a day that has recorded less than its limit.
LEMMA ChargeFits ==
  ASSUME TypeOK', spend'[Today'] < SpendLimit
  PROVE  SpendOvershootBounded'
<1> DEFINE a == MaxCost * Cardinality(Charging')
           n == MaxCost * (Cardinality(Workers) + failures')
<1>1. (/\ spend[Today] \in Nat /\ SpendLimit \in Nat
       /\ MaxCost * Cardinality(Charging) \in Nat
       /\ MaxCost * (Cardinality(Workers) + failures) \in Nat
       /\ MaxCost * Cardinality(Charging)
            <= MaxCost * (Cardinality(Workers) + failures))'
  BY BoundInNumbers, PTL
<1>2. spend'[Today'] \in Nat /\ SpendLimit \in Nat /\ a \in Nat /\ n \in Nat /\ a <= n
  BY <1>1
<1>3. SpendOvershootBounded' <=> spend'[Today'] + a < SpendLimit + n
  BY DEF SpendOvershootBounded
<1> HIDE DEF a, n
<1> QED
  BY <1>2, <1>3

\* The account moves only when a usage is recorded.
LEMMA AccountsMove ==
  ASSUME [Next]_vars
  PROVE  (\E w \in Workers : RecordUsage(w)) \/ UNCHANGED spend
BY DEF Next, vars, Begin, CheckSpend, CheckBlock, CountMessage, BlockFlood, CountText,
       FailOpen, GenerationFails, Complete, LoseWorker, SetAiDisabled, Unblock,
       ClearHistory, Tick, redisKeys

\* The clock goes on, and with it, sometimes, the day.
LEMMA TodayMoves ==
  ASSUME TypeOK, [Next]_vars
  PROVE  Tick \/ Today' = Today
BY DEF Next, vars, Begin, CheckSpend, CheckBlock, CountMessage, BlockFlood, CountText,
       FailOpen, RecordUsage, GenerationFails, Complete, LoseWorker, SetAiDisabled,
       Unblock, ClearHistory, Today
LEMMA TickGoesOn ==
  ASSUME TypeOK, Tick
  PROVE  Today' \in Nat /\ Today' >= Today
<1>1. clock \in Nat /\ clock' = clock + 1
  BY TodayIsADay DEF Tick
<1>2. (clock + 1) \div Length["day"] >= clock \div Length["day"]
  BY <1>1, DayBound, Constants
<1>3. (clock + 1) \div Length["day"] \in 0 .. (clock + 1)
  BY <1>1, DayBound, Constants
<1> QED
  BY <1>1, <1>2, <1>3 DEF Today

LEMMA FutureStep ==
  ASSUME TypeOK, FutureIsFree, [Next]_vars
  PROVE  FutureIsFree'
<1>0. Today \in Nat /\ spend \in [Days -> Nat] /\ Days \subseteq Nat
  BY TodayIsADay, Constants DEF TypeOK, Days
<1>1. ASSUME NEW w \in Workers, RecordUsage(w) PROVE FutureIsFree'
  <2>1. PICK c : spend' \in {spend, [spend EXCEPT ![Today] = @ + c]}
    BY <1>1 DEF RecordUsage
  <2>2. Today' = Today
    BY <1>1 DEF RecordUsage, Today
  <2> QED
    BY <1>0, <2>1, <2>2 DEF FutureIsFree
<1>2. CASE UNCHANGED spend /\ Tick
  BY <1>0, <1>2, TickGoesOn DEF FutureIsFree
<1>3. CASE UNCHANGED spend /\ Today' = Today
  BY <1>3 DEF FutureIsFree
<1> QED
  BY <1>1, <1>2, <1>3, AccountsMove, TodayMoves

\* A failure of Redis allows for one completion more.
LEMMA FailureAllows ==
  ASSUME TypeOK, TypeOK', SpendOvershootBounded, failures' = failures + 1,
         spend' = spend, Today' = Today, NEW w \in Workers,
         Charging' \subseteq Charging \cup {w}
  PROVE  SpendOvershootBounded'
<1> DEFINE a == Cardinality(Charging')
           b == Cardinality(Charging)
           k == Cardinality(Workers) + failures
<1>1. a \in Nat /\ b \in Nat /\ k \in Nat /\ a <= b + 1
  <2>1. IsFiniteSet(Charging) /\ b \in Nat /\ Cardinality(Workers) \in Nat
    BY ChargingIsFinite
  <2>2. /\ IsFiniteSet(Charging \cup {w})
        /\ Cardinality(Charging \cup {w}) \in {b, b + 1}
    BY <2>1, FS_AddElement
  <2>3. a \in Nat /\ a <= Cardinality(Charging \cup {w})
    BY <2>2, FS_Subset, FS_CardinalityType
  <2>4. failures \in Nat
    BY BoundInNumbers
  <2> QED
    BY <2>1, <2>2, <2>3, <2>4
<1>2. /\ MaxCost * a \in Nat /\ MaxCost * b \in Nat /\ MaxCost * k \in Nat
      /\ MaxCost * a <= MaxCost * (b + 1)
      /\ MaxCost * (b + 1) = MaxCost * b + MaxCost
      /\ MaxCost * (k + 1) = MaxCost * k + MaxCost
  <2>1. b + 1 \in Nat /\ k + 1 \in Nat
    BY <1>1
  <2> QED
    BY <1>1, <2>1, CostGrows
<1>3. Cardinality(Workers) + failures' = k + 1
  BY <1>1, ChargingIsFinite, BoundInNumbers
<1>4. SpendOvershootBounded' <=> spend'[Today'] + MaxCost * a < SpendLimit + MaxCost * (k + 1)
  BY <1>3 DEF SpendOvershootBounded
<1>5. spend[Today] + MaxCost * b < SpendLimit + MaxCost * k
  BY DEF SpendOvershootBounded
<1>6. spend[Today] \in Nat /\ SpendLimit \in Nat /\ MaxCost \in Nat
  BY BoundInNumbers, Constants
<1> HIDE DEF a, b, k
<1> QED
  BY <1>2, <1>4, <1>5, <1>6

LEMMA OvershootStep ==
  ASSUME TypeOK, FutureIsFree, SpendOvershootBounded, [Next]_vars
  PROVE  SpendOvershootBounded'
<1>0. TypeOK'
  BY TypesStep
<1>a. ASSUME NEW w \in Workers, \A v \in Workers \ {w} : worker'[v] = worker[v],
             worker[w].pc \notin {"idle", "spend"} \/ worker'[w].pc \in {"idle", "spend"}
      PROVE  Charging' \subseteq Charging
  BY <1>a DEF Charging
<1>1. ASSUME NEW w \in Workers,
             \/ \E m \in Messages : Begin(w, m)
             \/ CheckBlock(w) \/ CountMessage(w) \/ BlockFlood(w) \/ CountText(w)
             \/ Complete(w) \/ GenerationFails(w) \/ LoseWorker(w)
      PROVE  SpendOvershootBounded'
  <2>1. \A v \in Workers \ {w} : worker'[v] = worker[v]
    BY <1>1, OneWorker
  <2>2. worker[w].pc \notin {"idle", "spend"} \/ worker'[w].pc \in {"idle", "spend"}
    <3>1. ASSUME NEW m \in Messages, Begin(w, m) PROVE worker'[w].pc = "spend"
      BY <3>1, GotoEnds DEF Begin
    <3>2. ASSUME LoseWorker(w) PROVE worker'[w].pc = "idle"
      BY <3>2, GotoEnds DEF LoseWorker, Idle
    <3> QED
      BY <1>1, <3>1, <3>2 DEF CheckBlock, CountMessage, BlockFlood, CountText, Complete,
                              GenerationFails
  <2>3. spend' = spend /\ Today' = Today /\ failures' = failures
    BY <1>1 DEF Begin, CheckBlock, CountMessage, BlockFlood, CountText, Complete,
                GenerationFails, LoseWorker, redisKeys, counters, Today
  <2> QED
    BY <1>0, <1>a, <2>1, <2>2, <2>3, ChargeKept
<1>2. ASSUME NEW w \in Workers, CheckSpend(w) PROVE SpendOvershootBounded'
  <2>1. spend' = spend /\ Today' = Today /\ failures' = failures
    BY <1>2 DEF CheckSpend, redisKeys, Today, counters
  <2>2. CASE worker'[w].pc = "idle"
    BY <1>0, <1>2, <1>a, <2>1, <2>2, OneWorker, ChargeKept
  <2>3. CASE spend[Today] < SpendLimit
    BY <1>0, <2>1, <2>3, ChargeFits
  <2> QED
    BY <1>2, <2>2, <2>3, RefuseEnds DEF CheckSpend
<1>3. ASSUME NEW w \in Workers, FailOpen(w) PROVE SpendOvershootBounded'
  <2>1. failures' = failures + 1 /\ spend' = spend /\ Today' = Today
    BY <1>3 DEF FailOpen, redisKeys, Today
  <2>2. Charging' \subseteq Charging \cup {w}
    BY <1>3, OneWorker DEF Charging
  <2> QED
    BY <1>0, <2>1, <2>2, FailureAllows
<1>4. ASSUME NEW w \in Workers, RecordUsage(w) PROVE SpendOvershootBounded'
  <2>1. w \in Charging /\ Charging' = Charging \ {w}
    <3>1. worker[w].pc = "record" /\ worker'[w].pc = "idle"
      BY <1>4, GotoEnds DEF RecordUsage, Idle
    <3>2. \A v \in Workers \ {w} : worker'[v] = worker[v]
      BY <1>4, OneWorker
    <3> QED
      BY <3>1, <3>2 DEF Charging
  <2>2. Today' = Today
    BY <1>4 DEF RecordUsage, Today
  <2>3. CASE failures' = failures + 1 /\ spend' = spend
    BY <1>0, <2>1, <2>2, <2>3, FailureAllows
  <2>4. CASE failures' = failures /\ spend' = [spend EXCEPT ![Today] = @ + worker[w].usage.cost]
    <3>1. PICK c : c = worker[w].usage.cost
      OBVIOUS
    <3>2. c \in Nat /\ c <= MaxCost
      <4>1. worker[w] \in WorkerStates
        BY DEF TypeOK
      <4>2. worker[w].usage \in Usages
        BY <1>4, <4>1, WorkerFields DEF RecordUsage
      <4> QED
        BY <3>1, <4>2, QuotaAssumption
    <3>3. spend'[Today'] = spend[Today] + c
      BY <2>2, <2>4, <3>1, TodayIsADay DEF TypeOK
    <3> DEFINE a == Cardinality(Charging')
               b == Cardinality(Charging)
               n == MaxCost * (Cardinality(Workers) + failures)
    <3>4. a \in Nat /\ b \in Nat /\ b = a + 1
      <4>1. IsFiniteSet(Charging) /\ b \in Nat
        BY ChargingIsFinite
      <4>2. a = b - 1 /\ IsFiniteSet(Charging')
        BY <2>1, <4>1, FS_RemoveElement
      <4>3. a \in Nat
        BY <4>2, FS_CardinalityType
      <4> QED
        BY <4>1, <4>2, <4>3
    <3>5. MaxCost * a \in Nat /\ MaxCost * b = MaxCost * a + MaxCost
      BY <3>4, CostGrows
    <3>6. SpendOvershootBounded' <=> spend'[Today'] + MaxCost * a < SpendLimit + n
      BY <2>4 DEF SpendOvershootBounded
    <3>7. spend[Today] + MaxCost * b < SpendLimit + n
      BY DEF SpendOvershootBounded
    <3>8. spend[Today] \in Nat /\ SpendLimit \in Nat /\ MaxCost \in Nat /\ n \in Nat
      BY BoundInNumbers, Constants
    <3> HIDE DEF a, b, n
    <3> QED
      BY <3>2, <3>3, <3>5, <3>6, <3>7, <3>8
  <2> QED
    BY <1>4, <2>3, <2>4 DEF RecordUsage
<1>5. CASE Tick /\ Today' # Today
  <2>1. Today' > Today /\ Today' \in Days
    <3>1. (Today \in Days)'
      BY <1>0, TodayIsADay, PTL
    <3> QED
      BY <1>5, <3>1, TickGoesOn, TodayIsADay
  <2>2. spend'[Today'] = 0
    BY <1>5, <2>1 DEF FutureIsFree, Tick, redisKeys
  <2> QED
    BY <1>0, <2>2, Constants, ChargeFits
<1>6. CASE UNCHANGED <<spend, worker, failures>> /\ Today' = Today
  <2>1. Charging' \subseteq Charging
    BY <1>6 DEF Charging
  <2> QED
    BY <1>0, <1>6, <2>1, ChargeKept
<1>7. SetAiDisabled \/ Unblock \/ ClearHistory \/ Tick \/ UNCHANGED vars =>
        UNCHANGED <<spend, worker, failures>>
  BY DEF SetAiDisabled, Unblock, ClearHistory, Tick, vars, redisKeys, counters
<1>8. SetAiDisabled \/ Unblock \/ ClearHistory \/ UNCHANGED vars => Today' = Today
  BY DEF SetAiDisabled, Unblock, ClearHistory, vars, Today
<1> QED
  BY <1>1, <1>2, <1>3, <1>4, <1>5, <1>6, <1>7, <1>8 DEF Next
-----------------------------------------------------------------------------
(***************************************************************************)
(* The theorems.                                                           *)
(***************************************************************************)

LEMMA QuotaInit == Init => QuotaInvariant
<1> SUFFICES ASSUME Init PROVE QuotaInvariant
  OBVIOUS
<1>1. TypeOK
  BY TypesInit
<1>2. HistoryIsFirstSeen
  BY DEF Init, HistoryIsFirstSeen
<1>3. CheckedBeforeBlock
  BY DEF Init, CheckedBeforeBlock, Idle
<1>4. FutureIsFree /\ spend[Today] = 0
  BY <1>1, TodayIsADay DEF Init, FutureIsFree
<1>5. SpendOvershootBounded
  <2>1. Charging = {} /\ Cardinality(Charging) = 0
    BY FS_EmptySet DEF Init, Charging, Idle
  <2>2. MaxCost * 0 = 0 /\ MaxCost * (Cardinality(Workers) + failures) \in Nat
    BY <1>1, Constants, BoundInNumbers
  <2> QED
    BY <1>4, <2>1, <2>2, Constants DEF SpendOvershootBounded
<1> QED
  BY <1>2, <1>3, <1>4, <1>5 DEF QuotaInvariant

LEMMA QuotaStep == TypeOK /\ QuotaInvariant /\ [Next]_vars => QuotaInvariant'
BY HistoryStep, BlockStep, FutureStep, OvershootStep DEF QuotaInvariant

\* The inductive invariant, of every reachable state of the quota.
THEOREM QuotaConsistent == Spec => [](TypeOK /\ QuotaInvariant)
BY TypesInit, TypesStep, QuotaInit, QuotaStep, PTL DEF Spec

\* What a day has recorded exceeds the ceiling by less than one completion per
\* worker and one per failure of Redis, however checks, completions, records and
\* lost workers interleave (SpendOvershootBounded: the guard before, record_usage
\* after the model).
THEOREM OvershootBounded == Spec => []SpendOvershootBounded
<1>1. QuotaInvariant => SpendOvershootBounded
  BY DEF QuotaInvariant
<1> QED
  BY <1>1, QuotaConsistent, PTL

\* A step that finds a flood counted more first-seen messages than the limit.
LEMMA FloodStep ==
  ASSUME TypeOK, HistoryIsFirstSeen, [Next]_vars, NEW w \in Workers,
         worker[w].pc = "count", worker'[w].pc = "flood"
  PROVE  Cardinality({m \in Messages :
           /\ firstSeen'[m] # Never
           /\ firstSeen'[m] \in (worker[w].now - FloodWindow) .. worker[w].now})
             > FloodLimit
<1>1. CountMessage(w)
  <2>1. ASSUME NEW v \in Workers,
               \/ \E m \in Messages : Begin(v, m)
               \/ CheckSpend(v) \/ CheckBlock(v) \/ CountMessage(v) \/ BlockFlood(v)
               \/ CountText(v) \/ FailOpen(v) \/ RecordUsage(v) \/ GenerationFails(v)
               \/ Complete(v) \/ LoseWorker(v)
        PROVE  v = w
    BY <2>1, OneWorker
  <2>2. ~ FailOpen(w) /\ ~ LoseWorker(w)
    BY AdmitEnds, GotoEnds DEF FailOpen, LoseWorker, Idle
  <2>a. worker[w] # Idle
    BY DEF Idle
  <2>3. /\ ~ \E m \in Messages : Begin(w, m)
        /\ ~ (CheckSpend(w) \/ CheckBlock(w) \/ BlockFlood(w) \/ CountText(w)
                \/ RecordUsage(w) \/ GenerationFails(w) \/ Complete(w))
    BY <2>a
    DEF Begin, CheckSpend, CheckBlock, BlockFlood, CountText, RecordUsage, GenerationFails,
        Complete
  <2>4. ~ (SetAiDisabled \/ Unblock \/ ClearHistory \/ Tick \/ UNCHANGED vars)
    BY DEF SetAiDisabled, Unblock, ClearHistory, Tick, vars
  <2> QED
    BY <2>1, <2>2, <2>3, <2>4 DEF Next
<1>2. PICK now : now = worker[w].now
  OBVIOUS
<1> DEFINE counted == {m \in Messages : history'[m] # Never
                                         /\ history'[m] \in (now - FloodWindow) .. now}
           seen == {m \in Messages : firstSeen'[m] # Never
                                      /\ firstSeen'[m] \in (now - FloodWindow) .. now}
<1>3. Recent(history', now, FloodWindow, Messages) > FloodLimit
  <2> DEFINE m == worker[w].msg
             kept == Trimmed(history, now - Length["day"], Messages)
             added == Added(kept, m, now)
             burst == Recent(added, now, FloodWindow, Messages)
             counts == [v \in Windows |-> Recent(added, now, Length[v], Messages)]
             next == [pc |-> IF burst > FloodLimit THEN "flood" ELSE "text",
                      msg |-> m, now |-> now, counts |-> counts]
  <2>1. /\ history' = added
        /\ burst > FloodLimit \/ Admit(w) \/ Ordinary(w, counts) \/ Goto(w, next)
    BY <1>1, <1>2 DEF CountMessage
  <2>2. next.pc = "flood" => burst > FloodLimit
    OBVIOUS
  <2>3. ~ Admit(w) /\ ~ Ordinary(w, counts)
    BY AdmitEnds, OrdinaryEnds
  <2>4. Goto(w, next) => worker'[w] = next
    BY GotoEnds
  <2> HIDE DEF next, burst, counts
  <2>5. burst > FloodLimit
    BY <2>1, <2>2, <2>3, <2>4
  <2> QED
    BY <2>1, <2>5 DEF burst
<1>4. Recent(history', now, FloodWindow, Messages) = Cardinality(counted)
  BY DEF Recent
<1>5. counted \subseteq seen
  BY HistoryStep DEF HistoryIsFirstSeen
<1>6. Cardinality(counted) <= Cardinality(seen)
      /\ Cardinality(counted) \in Nat /\ Cardinality(seen) \in Nat
  <2>1. IsFiniteSet(seen)
    <3>1. seen \subseteq Messages
      OBVIOUS
    <3> QED
      BY <3>1, FS_Subset, QuotaAssumption
  <2> HIDE DEF counted, seen
  <2> QED
    BY <1>5, <2>1, FS_Subset, FS_CardinalityType
<1>7. Cardinality(seen) > FloodLimit
  <2> HIDE DEF counted, seen
  <2> QED
    BY <1>3, <1>4, <1>6, Constants
<1> QED
  BY <1>2, <1>7

\* A customer is taken for flooding only for messages first seen within the
\* window, never for redeliveries of them or for checks that come late
\* (FloodIsReal: ZADD NX and the count in check_sender).
THEOREM FloodsAreReal == Spec => FloodIsReal
<1>1. TypeOK /\ QuotaInvariant /\ [Next]_vars =>
        [\A w \in Workers :
           worker[w].pc = "count" /\ worker'[w].pc = "flood" =>
             Cardinality({m \in Messages :
               /\ firstSeen'[m] # Never
               /\ firstSeen'[m] \in (worker[w].now - FloodWindow) .. worker[w].now})
                 > FloodLimit]_vars
  BY FloodStep DEF QuotaInvariant
<1> QED
  BY <1>1, QuotaConsistent, PTL DEF Spec, FloodIsReal

\* A block in force is renewed only by a check that read its absence before it was
\* set: the messages a block refuses do not prolong it (BlockIsNotRenewed).
THEOREM BlocksEnd == Spec => BlockIsNotRenewed
<1>1. TypeOK /\ QuotaInvariant /\ [Next]_vars =>
        [Blocked /\ blockUntil' > blockUntil =>
           \E w \in Workers : /\ worker[w].pc = "flood"
                              /\ worker[w].now <= blockUntil - BlockSeconds]_vars
  <2> SUFFICES ASSUME TypeOK, CheckedBeforeBlock, [Next]_vars, Blocked,
                      blockUntil' > blockUntil
               PROVE  \E w \in Workers : /\ worker[w].pc = "flood"
                                         /\ worker[w].now <= blockUntil - BlockSeconds
    BY DEF QuotaInvariant
  <2>1. clock \in Nat /\ blockUntil \in Nat
    BY Constants DEF TypeOK
  <2>2. blockUntil' # blockUntil /\ ~ Unblock
    BY <2>1 DEF Unblock, Blocked
  <2>3. PICK w \in Workers : BlockFlood(w)
    BY <2>2
    DEF Next, vars, Begin, CheckSpend, CheckBlock, CountMessage, CountText, FailOpen,
        RecordUsage, GenerationFails, Complete, LoseWorker, SetAiDisabled, ClearHistory,
        Tick, redisKeys
  <2> QED
    BY <2>3 DEF BlockFlood, CheckedBeforeBlock
<1> QED
  BY <1>1, QuotaConsistent, PTL DEF Spec, BlockIsNotRenewed
=============================================================================
