----------------------- MODULE SessionLifecycleProofs -----------------------
(***************************************************************************)
(* The sessions of a customer, for any number of messages, sweeps,         *)
(* operators, conversations, ticks and crashes.  SessionInvariant is       *)
(* inductive; the exclusive claim of the sweeper, the welcome that stays   *)
(* owed, the rule that only a resume gives a conversation back to the bot  *)
(* and the refinement of SessionContract follow from it.                   *)
(***************************************************************************)
EXTENDS SessionLifecycle, TLAPS

-----------------------------------------------------------------------------
(***************************************************************************)
(* The inductive invariant.                                                *)
(***************************************************************************)

\* The partial unique index: the customer has at most one active session.
OneLive == \A c, d \in Convs : Active(c) /\ Active(d) => c = d

\* An id that has not been inserted carries no goodbye into its session ...
AbsentIsUnthanked ==
  \A c \in Convs : db[c].status = "absent" => goodbyes[c] = 0

\* ... and nobody has written a mode under it.
AbsentIsBot == \A c \in Convs : db[c].status = "absent" => db[c].mode = "bot"

\* A session that is open and not claimed has not been thanked.
OpenIsUnthanked ==
  \A c \in Convs : Active(c) /\ ~ db[c].closing => goodbyes[c] = 0

\* A sweep at work holds an active session it has marked, which it has not
\* thanked before it has sent the goodbye.
SweepHoldsClaim ==
  \A s \in Sweepers : sweep[s].at # "idle" =>
    /\ Active(sweep[s].conv) /\ db[sweep[s].conv].closing
    /\ sweep[s].at = "claimed" => goodbyes[sweep[s].conv] = 0

\* No two sweeps hold one session.
SweepsDisjoint ==
  \A r, s \in Sweepers :
    sweep[r].at # "idle" /\ sweep[s].at # "idle" /\ sweep[r].conv = sweep[s].conv
      => r = s

\* The session a handler or a request writes to is a row that exists.
HeldRowsExist ==
  /\ \A m \in Messages : msg[m].at \notin {"new", "done"} =>
       db[msg[m].conv].status # "absent"
  /\ \A o \in Operators : op[o].at # "idle" =>
       db[op[o].conv].status # "absent"

\* A handler records a welcome only in a session in which it delivered one.
GreetingIsDelivered ==
  \A m \in Messages :
    /\ msg[m].at = "greeted" => msg[m].greet
    /\ msg[m].at \in {"sent", "greeted"} /\ msg[m].greet =>
         greeted[msg[m].conv] > 0

\* The rows that are live and the sweeps that end them.
LiveInvariant ==
  /\ OneLive
  /\ AbsentIsUnthanked
  /\ OpenIsUnthanked
  /\ SweepHoldsClaim
  /\ SweepsDisjoint

SessionInvariant ==
  /\ LiveInvariant
  /\ AbsentIsBot
  /\ HeldRowsExist
  /\ GreetingIsDelivered
  /\ WelcomeStaysOwed

-----------------------------------------------------------------------------
(***************************************************************************)
(* Types.                                                                  *)
(***************************************************************************)

\* Where the bounds and the windows of the settings lie.
LEMMA Constants ==
  /\ MaxConvs \in Nat /\ MaxConvs > 0 /\ MaxTime \in Nat
  /\ MaxOps \in Nat /\ MaxCrashes \in Nat
  /\ IdleTimeout \in Nat /\ ReopenWindow \in Nat /\ ServiceWindow \in Nat
  /\ 1 \in Convs
BY SessionAssumption DEF Convs

\* The rows that _REVIVE, touch and an insert write are rows.
LEMMA RowsTyped ==
  ASSUME TypeOK, NEW c \in Convs
  PROVE  /\ Revived(c) \in Rows
         /\ [Revived(c) EXCEPT !.inbound = now] \in Rows
         /\ [NewRow EXCEPT !.status = "active", !.activity = now,
                           !.inbound = now] \in Rows
         /\ Touched(c) \in [Convs -> Rows]
<1>1. db[c] \in Rows /\ now \in 0..MaxTime /\ 0 \in 0..MaxTime
  BY Constants DEF TypeOK
<1>2. Revived(c) \in Rows /\ [Revived(c) EXCEPT !.inbound = now] \in Rows
  BY <1>1 DEF Revived, Rows
<1>3. [NewRow EXCEPT !.status = "active", !.activity = now,
                     !.inbound = now] \in Rows
  BY <1>1 DEF NewRow, Rows, Modes
<1>4. Touched(c) \in [Convs -> Rows]
  BY <1>1 DEF Touched, Rows, TypeOK
<1> QED
  BY <1>2, <1>3, <1>4

\* What a handler loads of a row (active_for_user, reopen_recent) has the
\* types of its locals.
LEMMA LoadTyped ==
  ASSUME TypeOK, NEW m \in Messages, NEW c \in Convs,
         NEW at \in {"found", "claimed", "done"}, Load(m, c, at)
  PROVE  msg' \in [Messages -> Handlers]
<1>1. db[c].mode \in Modes /\ db[c].welcome \in BOOLEAN
  BY DEF TypeOK, Rows
<1>2. msg[m] \in Handlers
  BY DEF TypeOK
<1>3. [msg[m] EXCEPT !.at = at, !.conv = c, !.mode = db[c].mode,
                     !.welcome = db[c].welcome] \in Handlers
  BY <1>1, <1>2 DEF Handlers
<1> QED
  BY <1>3 DEF Load, TypeOK

\* A handler that only moves on stays a handler.
LEMMA MoveTyped ==
  ASSUME TypeOK, NEW m \in Messages,
         NEW at \in {"new", "found", "claimed", "ack", "send", "sent",
                     "greeted", "done"},
         NEW g \in BOOLEAN
  PROVE  /\ [msg EXCEPT ![m].at = at] \in [Messages -> Handlers]
         /\ [msg EXCEPT ![m] = [@ EXCEPT !.at = at, !.greet = g]]
              \in [Messages -> Handlers]
         /\ [msg EXCEPT ![m] = [NewHandler EXCEPT !.at = at]]
              \in [Messages -> Handlers]
<1>1. [NewHandler EXCEPT !.at = at] \in Handlers
  BY Constants DEF NewHandler, Handlers, Modes
<1> QED
  BY <1>1 DEF TypeOK, Handlers

\* One row rewritten, the table stays a table.
LEMMA WriteTyped ==
  ASSUME TypeOK, NEW c \in Convs, NEW r \in Rows
  PROVE  [db EXCEPT ![c] = r] \in [Convs -> Rows]
BY DEF TypeOK

\* A handler's steps keep the types.
LEMMA HandlerTypes ==
  ASSUME TypeOK, NEW m \in Messages, HandlerStep(m) \/ CrashHandler(m)
  PROVE  TypeOK'
<1>0. /\ msg[m] \in Handlers /\ msg[m].conv \in Convs /\ msg[m].greet \in BOOLEAN
      /\ db[msg[m].conv] \in Rows /\ now \in 0..MaxTime
  BY DEF TypeOK, Handlers
<1>1. CASE FindActive(m)
  <2>1. msg' \in [Messages -> Handlers]
    BY <1>1, LoadTyped DEF FindActive
  <2> QED
    BY <1>1, <2>1 DEF FindActive, TypeOK
<1>2. CASE ClaimInFound(m)
  <2> DEFINE row(fresh) == [db[msg[m].conv] EXCEPT
               !.inbound = now,
               !.activity = IF fresh THEN now ELSE db[msg[m].conv].activity]
  <2>1. PICK fresh \in BOOLEAN :
          /\ db' = [db EXCEPT ![msg[m].conv] = row(fresh)]
          /\ msg' = [msg EXCEPT ![m].at = AfterClaim(fresh)]
    BY <1>2 DEF ClaimInFound
  <2>2. row(fresh) \in Rows
    BY <1>0 DEF Rows
  <2>3. db' \in [Convs -> Rows]
    BY <1>0, <2>1, <2>2, WriteTyped
  <2>4. msg' \in [Messages -> Handlers]
    BY <2>1, MoveTyped DEF AfterClaim
  <2> QED
    BY <1>2, <2>3, <2>4 DEF ClaimInFound, TypeOK
<1>3. CASE ClaimRevived(m)
  <2>1. PICK c \in Convs, fresh \in BOOLEAN :
          /\ db' = [db EXCEPT ![c] = [Revived(c) EXCEPT !.inbound = now]]
          /\ goodbyes' = [goodbyes EXCEPT ![c] = 0]
          /\ Load(m, c, AfterClaim(fresh))
    BY <1>3 DEF ClaimRevived
  <2>2. msg' \in [Messages -> Handlers]
    BY <2>1, LoadTyped DEF AfterClaim
  <2>3. db' \in [Convs -> Rows]
    BY <2>1, RowsTyped, WriteTyped
  <2> QED
    BY <1>3, <2>1, <2>2, <2>3 DEF ClaimRevived, TypeOK
<1>4. CASE ClaimCreated(m)
  <2>1. PICK c \in Convs, fresh \in BOOLEAN :
          /\ db' = [db EXCEPT ![c] = [NewRow EXCEPT !.status = "active",
                                        !.activity = now, !.inbound = now]]
          /\ Load(m, c, AfterClaim(fresh))
    BY <1>4 DEF ClaimCreated
  <2>2. msg' \in [Messages -> Handlers]
    BY <2>1, LoadTyped DEF AfterClaim
  <2>3. db' \in [Convs -> Rows]
    BY <2>1, RowsTyped, WriteTyped
  <2> QED
    BY <1>4, <2>2, <2>3 DEF ClaimCreated, TypeOK
<1>5. CASE StaySilent(m)
  <2>1. msg' \in [Messages -> Handlers]
    BY <1>5, MoveTyped DEF StaySilent
  <2> QED
    BY <1>5, <2>1 DEF StaySilent, TypeOK
<1>6. CASE BeginHandoff(m)
  <2>1. msg' \in [Messages -> Handlers]
    BY <1>6, MoveTyped DEF BeginHandoff
  <2>2. [db[msg[m].conv] EXCEPT !.mode = "human", !.activity = now] \in Rows
    BY <1>0 DEF Rows, Modes
  <2>3. db' \in [Convs -> Rows]
    BY <1>0, <1>6, <2>2, WriteTyped DEF BeginHandoff
  <2> QED
    BY <1>6, <2>1, <2>3 DEF BeginHandoff, TypeOK
<1>7. CASE Reserve(m)
  <2>1. PICK g \in BOOLEAN :
          msg' = [msg EXCEPT ![m] = [@ EXCEPT !.at = "send", !.greet = g]]
    BY <1>7 DEF Reserve
  <2>2. msg' \in [Messages -> Handlers]
    BY <2>1, MoveTyped
  <2>3. db' \in [Convs -> Rows]
    BY <1>0, <1>7, RowsTyped DEF Reserve
  <2> QED
    BY <1>7, <2>2, <2>3 DEF Reserve, TypeOK
<1>8. CASE Send(m) \/ SendFails(m)
  <2>1. PICK at \in {"sent", "done"} : msg' = [msg EXCEPT ![m].at = at]
    BY <1>8 DEF Send, SendFails
  <2>2. msg' \in [Messages -> Handlers]
    BY <2>1, MoveTyped
  <2>3. greeted' \in [Convs -> Nat]
    BY <1>0, <1>8 DEF Send, SendFails, Greeted, TypeOK
  <2> QED
    BY <1>8, <2>2, <2>3 DEF Send, SendFails, TypeOK
<1>9. CASE Confirm(m)
  <2>1. PICK at \in {"greeted", "done"} : msg' = [msg EXCEPT ![m].at = at]
    BY <1>9 DEF Confirm
  <2>2. msg' \in [Messages -> Handlers]
    BY <2>1, MoveTyped
  <2>3. db' \in [Convs -> Rows]
    BY <1>0, <1>9, RowsTyped DEF Confirm
  <2> QED
    BY <1>9, <2>2, <2>3 DEF Confirm, TypeOK
<1>10. CASE RecordWelcome(m)
  <2>1. msg' \in [Messages -> Handlers]
    BY <1>10, MoveTyped DEF RecordWelcome
  <2>2. [db[msg[m].conv] EXCEPT !.welcome = TRUE] \in Rows
    BY <1>0 DEF Rows
  <2>3. db' \in [Convs -> Rows]
    BY <1>0, <1>10, <2>2, WriteTyped DEF RecordWelcome
  <2> QED
    BY <1>10, <2>1, <2>3 DEF RecordWelcome, TypeOK
<1>11. CASE CrashHandler(m)
  <2>1. msg' \in [Messages -> Handlers]
    BY <1>11, MoveTyped DEF CrashHandler
  <2> QED
    BY <1>11, <2>1, Constants DEF CrashHandler, TypeOK
<1> QED
  BY <1>1, <1>2, <1>3, <1>4, <1>5, <1>6, <1>7, <1>8, <1>9, <1>10, <1>11
     DEF HandlerStep

\* So do a sweep's.
LEMMA SweepTypes ==
  ASSUME TypeOK, NEW s \in Sweepers, SweepStep(s) \/ CrashSweep(s)
  PROVE  TypeOK'
<1>0. sweep[s].conv \in Convs /\ db[sweep[s].conv] \in Rows /\ now \in 0..MaxTime
  BY DEF TypeOK
<1>1. CASE SweepClaim(s)
  <2>1. PICK c \in Convs :
          /\ db' = [db EXCEPT ![c].closing = TRUE]
          /\ sweep' = [sweep EXCEPT ![s] = [at |-> "claimed", conv |-> c]]
    BY <1>1 DEF SweepClaim
  <2>2. db[c] \in Rows
    BY DEF TypeOK
  <2>3. [db[c] EXCEPT !.closing = TRUE] \in Rows
    BY <2>2 DEF Rows
  <2>4. db' \in [Convs -> Rows]
    BY <2>1, <2>3, WriteTyped
  <2> QED
    BY <1>1, <2>1, <2>4 DEF SweepClaim, TypeOK
<1>2. CASE SweepGoodbye(s)
  <2>1. goodbyes' \in [Convs -> Nat]
    BY <1>0, <1>2 DEF SweepGoodbye, TypeOK
  <2>2. sweep' \in [Sweepers -> [at : {"idle", "claimed", "thanked"}, conv : Convs]]
    BY <1>0, <1>2 DEF SweepGoodbye, TypeOK
  <2> QED
    BY <1>2, <2>1, <2>2 DEF SweepGoodbye, TypeOK
<1>3. CASE SweepClose(s)
  <2>1. [db[sweep[s].conv] EXCEPT !.status = "closed", !.closedAt = now] \in Rows
    BY <1>0 DEF Rows
  <2>2. db' \in [Convs -> Rows]
    BY <1>0, <1>3, <2>1, WriteTyped DEF SweepClose
  <2> QED
    BY <1>3, <2>2, Constants DEF SweepClose, NewSweep, TypeOK
<1>4. CASE CrashSweep(s)
  BY <1>4, Constants DEF CrashSweep, NewSweep, TypeOK
<1> QED
  BY <1>1, <1>2, <1>3, <1>4 DEF SweepStep

\* And an operator's request.
LEMMA OperatorTypes ==
  ASSUME TypeOK, NEW o \in Operators, OpRead(o) \/ OperatorStep(o)
  PROVE  TypeOK'
<1>0. /\ op[o].conv \in Convs /\ db[op[o].conv] \in Rows
      /\ db[op[o].conv].mode \in Modes /\ now \in 0..MaxTime
  BY DEF TypeOK, Rows
<1>1. CASE OpRead(o)
  <2>1. PICK c \in Convs, a \in Acts :
          /\ db[c].status # "absent"
          /\ op' = [op EXCEPT ![o] = [at |-> "read", conv |-> c,
                      status |-> db[c].status, mode |-> db[c].mode, act |-> a]]
    BY <1>1 DEF OpRead
  <2>2. db[c].status \in {"active", "closed"} /\ db[c].mode \in Modes
    BY <2>1 DEF TypeOK, Rows
  <2> QED
    BY <1>1, <2>1, <2>2, Constants DEF OpRead, TypeOK
<1>2. CASE OpRevive(o)
  <2>1. db' \in [Convs -> Rows]
    BY <1>0, <1>2, RowsTyped, WriteTyped DEF OpRevive
  <2> QED
    BY <1>0, <1>2, <2>1 DEF OpRevive, TypeOK
<1>3. CASE OpSuperseded(o)
  BY <1>3, Constants DEF OpSuperseded, NewRequest, Modes, Acts, TypeOK
<1>4. CASE OpSwitch(o)
  <2>1. PICK mode \in Modes :
          db' = [db EXCEPT ![op[o].conv] =
                   [@ EXCEPT !.mode = mode, !.activity = now]]
    BY <1>0, <1>4 DEF OpSwitch, Modes
  <2>2. [db[op[o].conv] EXCEPT !.mode = mode, !.activity = now] \in Rows
    BY <1>0 DEF Rows
  <2>3. db' \in [Convs -> Rows]
    BY <1>0, <2>1, <2>2, WriteTyped
  <2> QED
    BY <1>4, <2>3, Constants DEF OpSwitch, NewRequest, Modes, Acts, TypeOK
<1>5. CASE OpReply(o)
  <2>1. db' \in [Convs -> Rows]
    BY <1>0, <1>5, RowsTyped DEF OpReply, TypeOK
  <2> QED
    BY <1>5, <2>1, Constants DEF OpReply, NewRequest, Modes, Acts, TypeOK
<1> QED
  BY <1>1, <1>2, <1>3, <1>4, <1>5 DEF OperatorStep

\* Every step keeps the types.
LEMMA TypeStep == TypeOK /\ [Next]_vars => TypeOK'
<1> SUFFICES ASSUME TypeOK, [Next]_vars PROVE TypeOK'
  OBVIOUS
<1>1. CASE Tick
  BY <1>1, Constants DEF Tick, TypeOK
<1>2. CASE UNCHANGED vars
  BY <1>2 DEF vars, TypeOK
<1> QED
  BY <1>1, <1>2, HandlerTypes, SweepTypes, OperatorTypes DEF Next, Rest

\* The rows, the handlers and the requests have their types, and no handler,
\* sweep or request ever holds a conversation outside the table.
THEOREM SessionTypes == Spec => []TypeOK
<1>1. Init => TypeOK
  BY Constants DEF Init, TypeOK, NewRow, NewHandler, NewSweep, NewRequest,
     Rows, Handlers, Modes, Acts
<1> QED
  BY <1>1, TypeStep, PTL DEF Spec

-----------------------------------------------------------------------------
(***************************************************************************)
(* What the steps do to a row.                                             *)
(***************************************************************************)

\* A handler's step inside a session that is there.
InSession(m) ==
  \/ FindActive(m) \/ ClaimInFound(m) \/ StaySilent(m) \/ BeginHandoff(m)
  \/ Reserve(m) \/ Send(m) \/ SendFails(m) \/ Confirm(m)
  \/ RecordWelcome(m) \/ CrashHandler(m)

\* A request's step inside a session that is there.
OnScreen(o) == OpRead(o) \/ OpSuperseded(o) \/ OpSwitch(o) \/ OpReply(o)

\* Inside a session, a handler opens and closes nothing, takes no claim away,
\* moves the mode towards the human only, and records the welcome last.
LEMMA HandlerRow ==
  ASSUME TypeOK, NEW m \in Messages, InSession(m), NEW c \in Convs
  PROVE  /\ db'[c].status = db[c].status
         /\ db'[c].closing = db[c].closing
         /\ db'[c].mode \in {db[c].mode, "human"}
         /\ \/ db'[c].welcome = db[c].welcome
            \/ msg[m].at = "greeted" /\ c = msg[m].conv
         /\ \/ db'[c] = db[c]
            \/ msg[m].at \notin {"new", "done"} /\ c = msg[m].conv
<1>0. msg[m].conv \in Convs /\ db[c] \in Rows /\ db \in [Convs -> Rows]
  BY DEF TypeOK, Handlers
<1>1. CASE UNCHANGED db
  BY <1>1
<1>2. CASE ClaimInFound(m)
  BY <1>0, <1>2 DEF ClaimInFound, Rows
<1>3. CASE BeginHandoff(m)
  BY <1>0, <1>3 DEF BeginHandoff, Rows
<1>4. CASE Reserve(m)
  BY <1>0, <1>4 DEF Reserve, Touched, Rows
<1>5. CASE Confirm(m)
  BY <1>0, <1>5 DEF Confirm, Touched, Rows
<1>6. CASE RecordWelcome(m)
  BY <1>0, <1>6 DEF RecordWelcome, Rows
<1> QED
  BY <1>1, <1>2, <1>3, <1>4, <1>5, <1>6
     DEF InSession, FindActive, StaySilent, Send, SendFails, CrashHandler

\* An operator's request changes the mode and the idle timer of the session it
\* loaded; the mode becomes bot only by a resume.
LEMMA RequestRow ==
  ASSUME TypeOK, NEW o \in Operators, OnScreen(o), NEW c \in Convs
  PROVE  /\ db'[c].status = db[c].status
         /\ db'[c].closing = db[c].closing
         /\ \/ db'[c].mode \in {db[c].mode, "human"}
            \/ c = op[o].conv /\ op[o].act = "resume"
         /\ db'[c].welcome = db[c].welcome
         /\ \/ db'[c] = db[c]
            \/ op[o].at # "idle" /\ c = op[o].conv
<1>0. op[o].conv \in Convs /\ op[o].act \in Acts /\ db[c] \in Rows
      /\ db \in [Convs -> Rows]
  BY DEF TypeOK
<1>1. CASE UNCHANGED db
  BY <1>1
<1>2. CASE OpSwitch(o)
  BY <1>0, <1>2 DEF OpSwitch, Cleared, Rows, Acts
<1>3. CASE OpReply(o)
  BY <1>0, <1>3 DEF OpReply, Touched, Cleared, Rows
<1> QED
  BY <1>1, <1>2, <1>3 DEF OnScreen, OpRead, OpSuperseded

\* What it is to open a session: none is live, c becomes active, unclaimed and
\* unthanked, its mode is kept, and nothing else is written.
Opens(c) ==
  /\ NoneActive
  /\ db'[c].status = "active"
  /\ db'[c].closing = FALSE
  /\ db'[c].mode = db[c].mode
  /\ db'[c].welcome => db[c].welcome
  /\ \A d \in Convs : d # c => db'[d] = db[d]
  /\ goodbyes' = [goodbyes EXCEPT ![c] = 0]
  /\ UNCHANGED sweep

\* Reviving a session, for the customer or for an operator, and creating one
\* open it.
LEMMA Opening ==
  ASSUME TypeOK, AbsentIsUnthanked, AbsentIsBot,
         \/ \E m \in Messages : ClaimRevived(m) \/ ClaimCreated(m)
         \/ \E o \in Operators : OpRevive(o)
  PROVE  \E c \in Convs : Opens(c)
<1>0. db \in [Convs -> Rows] /\ goodbyes \in [Convs -> Nat]
  BY DEF TypeOK
<1>1. ASSUME NEW m \in Messages, ClaimRevived(m) PROVE \E c \in Convs : Opens(c)
  <2>1. PICK c \in Convs :
          /\ db' = [db EXCEPT ![c] = [Revived(c) EXCEPT !.inbound = now]]
          /\ goodbyes' = [goodbyes EXCEPT ![c] = 0]
    BY <1>1 DEF ClaimRevived
  <2>2. db[c] \in Rows
    BY <1>0
  <2>3. db'[c] = [Revived(c) EXCEPT !.inbound = now]
    BY <1>0, <2>1
  <2>4. /\ db'[c].status = "active" /\ db'[c].closing = FALSE
        /\ db'[c].mode = db[c].mode /\ db'[c].welcome = db[c].welcome
    BY <2>2, <2>3 DEF Revived, Rows
  <2>5. \A d \in Convs : d # c => db'[d] = db[d]
    BY <1>0, <2>1
  <2>6. NoneActive /\ UNCHANGED sweep
    BY <1>1 DEF ClaimRevived
  <2>7. Opens(c)
    BY <2>1, <2>4, <2>5, <2>6 DEF Opens
  <2> QED
    BY <2>7
<1>2. ASSUME NEW m \in Messages, ClaimCreated(m) PROVE \E c \in Convs : Opens(c)
  <2>1. PICK c \in Convs :
          /\ db[c].status = "absent"
          /\ db' = [db EXCEPT ![c] = [NewRow EXCEPT !.status = "active",
                                       !.activity = now, !.inbound = now]]
    BY <1>2 DEF ClaimCreated
  <2>2. /\ db'[c].status = "active" /\ db'[c].closing = FALSE
        /\ db'[c].mode = "bot" /\ db'[c].welcome = FALSE
    BY <1>0, <2>1 DEF NewRow
  <2>3. db[c].mode = "bot" /\ goodbyes[c] = 0
    BY <2>1 DEF AbsentIsUnthanked, AbsentIsBot
  <2>4. goodbyes' = [goodbyes EXCEPT ![c] = 0]
    BY <1>0, <1>2, <2>3 DEF ClaimCreated
  <2>5. \A d \in Convs : d # c => db'[d] = db[d]
    BY <1>0, <2>1
  <2>6. NoneActive /\ UNCHANGED sweep
    BY <1>2 DEF ClaimCreated
  <2>7. Opens(c)
    BY <2>2, <2>3, <2>4, <2>5, <2>6 DEF Opens
  <2> QED
    BY <2>7
<1>3. ASSUME NEW o \in Operators, OpRevive(o) PROVE \E c \in Convs : Opens(c)
  <2>1. PICK c \in Convs : c = op[o].conv
    BY DEF TypeOK
  <2>2. db' = [db EXCEPT ![c] = Revived(c)] /\ goodbyes' = [goodbyes EXCEPT ![c] = 0]
    BY <1>3, <2>1 DEF OpRevive
  <2>3. db[c] \in Rows /\ db'[c] = Revived(c)
    BY <1>0, <2>2
  <2>4. /\ db'[c].status = "active" /\ db'[c].closing = FALSE
        /\ db'[c].mode = db[c].mode /\ db'[c].welcome = db[c].welcome
    BY <2>3 DEF Revived, Rows
  <2>5. \A d \in Convs : d # c => db'[d] = db[d]
    BY <1>0, <2>2
  <2>6. NoneActive /\ UNCHANGED sweep
    BY <1>3 DEF OpRevive
  <2>7. Opens(c)
    BY <2>2, <2>4, <2>5, <2>6 DEF Opens
  <2> QED
    BY <2>7
<1> QED
  BY <1>1, <1>2, <1>3

\* A sweep's claim marks one open session and takes nothing else.
LEMMA Claiming ==
  ASSUME TypeOK, NEW s \in Sweepers, SweepClaim(s)
  PROVE  \E c \in Convs :
           /\ Active(c) /\ ~ db[c].closing
           /\ db'[c] = [db[c] EXCEPT !.closing = TRUE]
           /\ \A d \in Convs : d # c => db'[d] = db[d]
           /\ sweep' = [sweep EXCEPT ![s] = [at |-> "claimed", conv |-> c]]
           /\ UNCHANGED goodbyes
BY DEF SweepClaim, Sweepable, TypeOK

\* A sweep's close ends the session it holds and lets go of it.
LEMMA Closing ==
  ASSUME TypeOK, NEW s \in Sweepers, SweepClose(s)
  PROVE  LET c == sweep[s].conv
         IN  /\ c \in Convs /\ sweep[s].at = "thanked"
             /\ db'[c] = [db[c] EXCEPT !.status = "closed", !.closedAt = now]
             /\ \A d \in Convs : d # c => db'[d] = db[d]
             /\ sweep' = [sweep EXCEPT ![s] = NewSweep]
             /\ UNCHANGED goodbyes
BY DEF SweepClose, TypeOK
-----------------------------------------------------------------------------
(***************************************************************************)
(* The steps keep the invariant.                                           *)
(***************************************************************************)

\* Nothing is opened, claimed, thanked or closed.
Quiet ==
  /\ \A c \in Convs : db'[c].status = db[c].status /\ db'[c].closing = db[c].closing
  /\ UNCHANGED <<sweep, goodbyes>>

\* The kinds of step there are for the state model of a session.
LEMMA StepKinds ==
  ASSUME TypeOK, AbsentIsUnthanked, AbsentIsBot, [Next]_vars
  PROVE  \/ Quiet
         \/ \E c \in Convs : Opens(c)
         \/ \E s \in Sweepers : SweepStep(s) \/ CrashSweep(s)
<1>1. CASE Tick \/ UNCHANGED vars
  BY <1>1 DEF Tick, vars, Quiet
<1>2. ASSUME NEW m \in Messages, InSession(m) PROVE Quiet
  BY <1>2, HandlerRow
     DEF Quiet, InSession, FindActive, ClaimInFound, StaySilent, BeginHandoff,
         Reserve, Send, SendFails, Confirm, RecordWelcome, CrashHandler
<1>3. ASSUME NEW o \in Operators, OnScreen(o) PROVE Quiet
  BY <1>3, RequestRow DEF Quiet, OnScreen, OpRead, OpSuperseded, OpSwitch, OpReply
<1> QED
  BY <1>1, <1>2, <1>3, Opening
     DEF Next, Rest, HandlerStep, OperatorStep, InSession, OnScreen

\* The unique index, the mark of the claim and the count of goodbyes stay
\* consistent whatever handlers, sweeps and operators do.
LEMMA LiveStep ==
  ASSUME TypeOK, TypeOK', AbsentIsBot, LiveInvariant, [Next]_vars
  PROVE  LiveInvariant'
<1> USE DEF LiveInvariant
<1>0. /\ db \in [Convs -> Rows] /\ goodbyes \in [Convs -> Nat]
      /\ \A s \in Sweepers : sweep[s].conv \in Convs
      /\ \A s \in Sweepers : sweep[s].at \in {"idle", "claimed", "thanked"}
  BY DEF TypeOK
<1>1. CASE Quiet
  BY <1>0, <1>1 DEF Quiet, OneLive, AbsentIsUnthanked, OpenIsUnthanked,
     SweepHoldsClaim, SweepsDisjoint, Active
<1>2. ASSUME NEW c \in Convs, Opens(c) PROVE LiveInvariant'
  <2>1. \A s \in Sweepers : sweep[s].at = "idle"
    BY <1>0, <1>2 DEF Opens, NoneActive, SweepHoldsClaim
  <2>2. /\ \A d \in Convs : d # c => db'[d] = db[d] /\ goodbyes'[d] = goodbyes[d]
        /\ goodbyes'[c] = 0 /\ db'[c].status = "active"
    BY <1>0, <1>2 DEF Opens
  <2>3. OneLive' /\ AbsentIsUnthanked' /\ OpenIsUnthanked'
    BY <1>2, <2>2 DEF Opens, NoneActive, OneLive, AbsentIsUnthanked,
       OpenIsUnthanked, Active
  <2>4. SweepHoldsClaim' /\ SweepsDisjoint'
    BY <1>2, <2>1 DEF Opens, SweepHoldsClaim, SweepsDisjoint
  <2> QED
    BY <2>3, <2>4
<1>3. ASSUME NEW s \in Sweepers, SweepClaim(s) PROVE LiveInvariant'
  <2>1. PICK c \in Convs :
          /\ Active(c) /\ ~ db[c].closing
          /\ db'[c] = [db[c] EXCEPT !.closing = TRUE]
          /\ \A d \in Convs : d # c => db'[d] = db[d]
          /\ sweep' = [sweep EXCEPT ![s] = [at |-> "claimed", conv |-> c]]
          /\ UNCHANGED goodbyes
    BY <1>3, Claiming
  <2>2. db'[c].status = db[c].status /\ db'[c].closing = TRUE
    BY <1>0, <2>1 DEF Rows
  <2>3. OneLive' /\ AbsentIsUnthanked' /\ OpenIsUnthanked'
    BY <2>1, <2>2 DEF OneLive, AbsentIsUnthanked, OpenIsUnthanked, Active
  <2>4. goodbyes[c] = 0
    BY <2>1 DEF OpenIsUnthanked
  <2>5. \A r \in Sweepers : r # s => sweep'[r] = sweep[r]
    BY <2>1 DEF TypeOK
  <2>6. sweep'[s] = [at |-> "claimed", conv |-> c]
    BY <2>1 DEF TypeOK
  <2>7. \A r \in Sweepers : sweep[r].at # "idle" => sweep[r].conv # c
    BY <2>1 DEF SweepHoldsClaim
  <2>a. Active(c)' /\ db'[c].closing /\ goodbyes'[c] = 0
    BY <2>1, <2>2, <2>4 DEF Active
  <2>8. SweepHoldsClaim'
    <3> SUFFICES ASSUME NEW r \in Sweepers, sweep'[r].at # "idle"
                 PROVE  /\ Active(sweep[r].conv)' /\ db'[sweep'[r].conv].closing
                        /\ sweep'[r].at = "claimed" => goodbyes'[sweep'[r].conv] = 0
      BY DEF SweepHoldsClaim
    <3>1. CASE r = s
      BY <2>6, <2>a, <3>1 DEF Active
    <3>2. CASE r # s
      BY <1>0, <2>1, <2>5, <2>7, <3>2 DEF SweepHoldsClaim, Active
    <3> QED
      BY <3>1, <3>2
  <2>9. SweepsDisjoint'
    BY <2>5, <2>6, <2>7 DEF SweepsDisjoint
  <2> QED
    BY <2>3, <2>8, <2>9
<1>4. ASSUME NEW s \in Sweepers, SweepGoodbye(s) PROVE LiveInvariant'
  <2>1. /\ UNCHANGED db
        /\ sweep[s].at = "claimed" /\ sweep'[s].at = "thanked"
        /\ sweep'[s].conv = sweep[s].conv
        /\ \A r \in Sweepers : r # s => sweep'[r] = sweep[r]
    BY <1>4 DEF SweepGoodbye, TypeOK
  <2>2. \A d \in Convs : d # sweep[s].conv => goodbyes'[d] = goodbyes[d]
    BY <1>0, <1>4 DEF SweepGoodbye
  <2>3. Active(sweep[s].conv) /\ db[sweep[s].conv].closing
    BY <2>1 DEF SweepHoldsClaim
  <2>4. OneLive' /\ AbsentIsUnthanked' /\ OpenIsUnthanked'
    BY <2>1, <2>2, <2>3 DEF OneLive, AbsentIsUnthanked, OpenIsUnthanked, Active
  <2>5. \A r \in Sweepers : r # s /\ sweep[r].at # "idle" =>
          sweep[r].conv # sweep[s].conv
    BY <2>1 DEF SweepsDisjoint
  <2>6. SweepHoldsClaim'
    BY <1>0, <2>1, <2>2, <2>5 DEF SweepHoldsClaim, Active
  <2>7. SweepsDisjoint'
    BY <2>1 DEF SweepsDisjoint
  <2> QED
    BY <2>4, <2>6, <2>7
<1>5. ASSUME NEW s \in Sweepers, SweepClose(s) PROVE LiveInvariant'
  <2> DEFINE c == sweep[s].conv
  <2>1. /\ c \in Convs /\ sweep[s].at = "thanked"
        /\ db'[c] = [db[c] EXCEPT !.status = "closed", !.closedAt = now]
        /\ \A d \in Convs : d # c => db'[d] = db[d]
        /\ sweep' = [sweep EXCEPT ![s] = NewSweep]
        /\ UNCHANGED goodbyes
    BY <1>5, Closing
  <2>2. db'[c].status = "closed"
    BY <1>0, <2>1 DEF Rows
  <2>a. \A d \in Convs : Active(d)' => d # c /\ Active(d) /\ db'[d] = db[d]
    BY <2>1, <2>2 DEF Active
  <2>b. \A d \in Convs : db'[d].status = "absent" => db[d].status = "absent"
    BY <2>1, <2>2
  <2>3. OneLive' /\ AbsentIsUnthanked' /\ OpenIsUnthanked'
    BY <2>1, <2>a, <2>b DEF OneLive, AbsentIsUnthanked, OpenIsUnthanked
  <2>4. /\ \A r \in Sweepers : r # s => sweep'[r] = sweep[r]
        /\ sweep'[s].at = "idle"
    BY <2>1 DEF NewSweep, TypeOK
  <2>5. \A r \in Sweepers : r # s /\ sweep[r].at # "idle" => sweep[r].conv # c
    BY <2>1 DEF SweepsDisjoint
  <2>6. SweepHoldsClaim'
    BY <1>0, <2>1, <2>4, <2>5 DEF SweepHoldsClaim, Active
  <2>7. SweepsDisjoint'
    BY <2>4 DEF SweepsDisjoint
  <2> QED
    BY <2>3, <2>6, <2>7
<1>6. ASSUME NEW s \in Sweepers, CrashSweep(s) PROVE LiveInvariant'
  <2>1. /\ UNCHANGED <<db, goodbyes>> /\ sweep'[s].at = "idle"
        /\ \A r \in Sweepers : r # s => sweep'[r] = sweep[r]
    BY <1>6 DEF CrashSweep, NewSweep, TypeOK
  <2> QED
    BY <1>0, <2>1 DEF OneLive, AbsentIsUnthanked, OpenIsUnthanked,
       SweepHoldsClaim, SweepsDisjoint, Active
<1> QED
  BY <1>1, <1>2, <1>3, <1>4, <1>5, <1>6, StepKinds DEF SweepStep

\* A row, once inserted, stays; a row that has not been is not written to.
LEMMA RowsStay ==
  ASSUME TypeOK, LiveInvariant, AbsentIsBot, HeldRowsExist, [Next]_vars,
         NEW c \in Convs, db'[c].status = "absent"
  PROVE  db'[c] = db[c]
<1>0. db \in [Convs -> Rows]
  BY DEF TypeOK
<1>1. CASE Tick \/ UNCHANGED vars
  BY <1>1 DEF Tick, vars
<1>2. ASSUME NEW m \in Messages, InSession(m) PROVE db'[c] = db[c]
  BY <1>2, HandlerRow DEF HeldRowsExist
<1>3. ASSUME NEW o \in Operators, OnScreen(o) PROVE db'[c] = db[c]
  BY <1>3, RequestRow DEF HeldRowsExist
<1>4. ASSUME NEW d \in Convs, Opens(d) PROVE db'[c] = db[c]
  BY <1>4 DEF Opens
<1>5. ASSUME NEW s \in Sweepers, SweepClaim(s) PROVE db'[c] = db[c]
  <2>1. PICK d \in Convs : /\ Active(d) /\ db'[d] = [db[d] EXCEPT !.closing = TRUE]
                           /\ \A e \in Convs : e # d => db'[e] = db[e]
    BY <1>5, Claiming
  <2>2. db'[d].status = "active"
    BY <1>0, <2>1 DEF Active, Rows
  <2> QED
    BY <2>1, <2>2
<1>6. ASSUME NEW s \in Sweepers, SweepClose(s) PROVE db'[c] = db[c]
  BY <1>0, <1>6, Closing DEF Rows
<1>7. ASSUME NEW s \in Sweepers, SweepGoodbye(s) \/ CrashSweep(s)
      PROVE  db'[c] = db[c]
  BY <1>7 DEF SweepGoodbye, CrashSweep
<1> QED
  BY <1>1, <1>2, <1>3, <1>4, <1>5, <1>6, <1>7, Opening
     DEF LiveInvariant, Next, Rest, HandlerStep, OperatorStep, InSession,
         OnScreen, SweepStep

\* Whoever works on a session works on a row that exists.
LEMMA HeldStep ==
  ASSUME TypeOK, TypeOK', LiveInvariant, AbsentIsBot, HeldRowsExist, [Next]_vars
  PROVE  HeldRowsExist' /\ AbsentIsBot'
<1>0. /\ \A c \in Convs : db'[c].status = "absent" => db[c].status = "absent"
      /\ AbsentIsBot'
  BY RowsStay DEF AbsentIsBot
<1>a. /\ \A m \in Messages : msg[m].conv \in Convs /\ msg'[m].conv \in Convs
      /\ \A o \in Operators : op[o].conv \in Convs /\ op'[o].conv \in Convs
  BY DEF TypeOK, Handlers
<1>1. ASSUME UNCHANGED <<msg, op>> PROVE HeldRowsExist'
  BY <1>0, <1>1, <1>a DEF HeldRowsExist
<1>2. ASSUME NEW m \in Messages, UNCHANGED op,
             \A n \in Messages : n # m => msg'[n] = msg[n],
             \/ msg'[m].at \in {"new", "done"}
             \/ msg[m].at \notin {"new", "done"} /\ msg'[m].conv = msg[m].conv
             \/ db'[msg'[m].conv].status # "absent"
      PROVE  HeldRowsExist'
  <2>1. \A n \in Messages : msg'[n].at \notin {"new", "done"} =>
          db'[msg'[n].conv].status # "absent"
    <3> SUFFICES ASSUME NEW n \in Messages, msg'[n].at \notin {"new", "done"}
                 PROVE  db'[msg'[n].conv].status # "absent"
      OBVIOUS
    <3>1. CASE n = m
      BY <1>0, <1>2, <1>a, <3>1 DEF HeldRowsExist
    <3>2. CASE n # m
      BY <1>0, <1>2, <1>a, <3>2 DEF HeldRowsExist
    <3> QED
      BY <3>1, <3>2
  <2>2. \A o \in Operators : op'[o].at # "idle" => db'[op'[o].conv].status # "absent"
    BY <1>0, <1>2, <1>a DEF HeldRowsExist
  <2> QED
    BY <2>1, <2>2 DEF HeldRowsExist
<1>3. ASSUME NEW m \in Messages, NEW c \in Convs, NEW at, Load(m, c, at)
      PROVE  /\ \A n \in Messages : n # m => msg'[n] = msg[n]
             /\ msg'[m].conv = c
  BY <1>3 DEF Load, TypeOK, Handlers
<1>4. ASSUME NEW m \in Messages, FindActive(m) PROVE HeldRowsExist'
  <2>1. PICK c \in Convs : Active(c) /\ Load(m, c, "found")
    BY <1>4 DEF FindActive
  <2> QED
    BY <1>2, <1>3, <1>4, <2>1 DEF FindActive, Active
<1>5. ASSUME NEW m \in Messages, ClaimRevived(m) PROVE HeldRowsExist'
  <2>1. PICK c \in Convs, fresh \in BOOLEAN :
          /\ db' = [db EXCEPT ![c] = [Revived(c) EXCEPT !.inbound = now]]
          /\ Load(m, c, AfterClaim(fresh))
    BY <1>5 DEF ClaimRevived
  <2>2. db'[c].status = "active"
    BY <2>1 DEF Revived, TypeOK, Rows
  <2> QED
    BY <1>2, <1>3, <1>5, <2>1, <2>2 DEF ClaimRevived
<1>6. ASSUME NEW m \in Messages, ClaimCreated(m) PROVE HeldRowsExist'
  <2>1. PICK c \in Convs, fresh \in BOOLEAN :
          /\ db' = [db EXCEPT ![c] = [NewRow EXCEPT !.status = "active",
                                       !.activity = now, !.inbound = now]]
          /\ Load(m, c, AfterClaim(fresh))
    BY <1>6 DEF ClaimCreated
  <2>2. db'[c].status = "active"
    BY <2>1 DEF NewRow, TypeOK
  <2> QED
    BY <1>2, <1>3, <1>6, <2>1, <2>2 DEF ClaimCreated
<1>7. ASSUME NEW m \in Messages,
             \/ ClaimInFound(m) \/ StaySilent(m) \/ BeginHandoff(m) \/ Send(m)
             \/ SendFails(m) \/ Confirm(m) \/ RecordWelcome(m)
      PROVE  HeldRowsExist'
  <2>1. /\ \E at : msg' = [msg EXCEPT ![m].at = at]
        /\ msg[m].at \notin {"new", "done"} /\ UNCHANGED op
    BY <1>7 DEF ClaimInFound, StaySilent, BeginHandoff, Send, SendFails,
       Confirm, RecordWelcome
  <2>2. /\ \A n \in Messages : n # m => msg'[n] = msg[n]
        /\ msg'[m].conv = msg[m].conv
    BY <2>1 DEF TypeOK, Handlers
  <2> QED
    BY <1>2, <2>1, <2>2
<1>8. ASSUME NEW m \in Messages, Reserve(m) PROVE HeldRowsExist'
  <2>1. PICK g \in BOOLEAN :
          msg' = [msg EXCEPT ![m] = [@ EXCEPT !.at = "send", !.greet = g]]
    BY <1>8 DEF Reserve
  <2>2. /\ \A n \in Messages : n # m => msg'[n] = msg[n]
        /\ msg'[m].conv = msg[m].conv /\ msg[m].at \notin {"new", "done"}
    BY <1>8, <2>1 DEF Reserve, TypeOK, Handlers
  <2> QED
    BY <1>2, <1>8, <2>2 DEF Reserve
<1>9. ASSUME NEW m \in Messages, CrashHandler(m) PROVE HeldRowsExist'
  <2>1. /\ \A n \in Messages : n # m => msg'[n] = msg[n]
        /\ msg'[m].at \in {"new", "done"}
    BY <1>9 DEF CrashHandler, NewHandler, TypeOK
  <2> QED
    BY <1>2, <1>9, <2>1 DEF CrashHandler
<1>10. ASSUME NEW o \in Operators, OpRead(o) PROVE HeldRowsExist'
  <2>1. PICK c \in Convs : /\ db[c].status # "absent" /\ op'[o].conv = c
                           /\ \A p \in Operators : p # o => op'[p] = op[p]
    BY <1>10 DEF OpRead, TypeOK
  <2> QED
    BY <1>0, <1>10, <2>1 DEF OpRead, HeldRowsExist, TypeOK, Handlers
<1>11. ASSUME NEW o \in Operators, OperatorStep(o) PROVE HeldRowsExist'
  <2>1. UNCHANGED msg /\ op[o].at # "idle"
    BY <1>11 DEF OperatorStep, OpRevive, OpSuperseded, OpSwitch, OpReply, Cleared
  <2>2. \A p \in Operators : p # o => op'[p] = op[p]
    BY <1>11 DEF OperatorStep, OpRevive, OpSuperseded, OpSwitch, OpReply, TypeOK
  <2>3. CASE OpRevive(o)
    <3>1. op'[o].conv = op[o].conv
      BY <2>3 DEF OpRevive, TypeOK
    <3> QED
      BY <1>0, <1>a, <2>1, <2>2, <3>1 DEF HeldRowsExist
  <2>4. CASE OpSuperseded(o) \/ OpSwitch(o) \/ OpReply(o)
    <3>1. op'[o].at = "idle"
      BY <2>4 DEF OpSuperseded, OpSwitch, OpReply, NewRequest, TypeOK
    <3> QED
      BY <1>0, <1>a, <2>1, <2>2, <3>1 DEF HeldRowsExist
  <2> QED
    BY <1>11, <2>3, <2>4 DEF OperatorStep
<1>12. ASSUME Tick \/ UNCHANGED vars PROVE HeldRowsExist'
  BY <1>1, <1>12 DEF Tick, vars
<1>13. ASSUME NEW s \in Sweepers, SweepStep(s) \/ CrashSweep(s) PROVE HeldRowsExist'
  BY <1>1, <1>13 DEF SweepStep, SweepClaim, SweepGoodbye, SweepClose, CrashSweep
<1> QED
  BY <1>0, <1>4, <1>5, <1>6, <1>7, <1>8, <1>9, <1>10, <1>11, <1>12, <1>13
     DEF Next, Rest, HandlerStep
\* What a handler knows of the greeting it sent.
KnowsGreeting(m) ==
  /\ msg[m].at = "greeted" => msg[m].greet
  /\ msg[m].at \in {"sent", "greeted"} /\ msg[m].greet =>
       greeted[msg[m].conv] > 0

\* A welcome received stays received; only Send and SendFails deliver one.
LEMMA GreetedGrows ==
  ASSUME TypeOK, [Next]_vars, NEW c \in Convs, greeted[c] > 0
  PROVE  greeted'[c] > 0
<1>1. ASSUME NEW m \in Messages, Send(m) \/ SendFails(m) PROVE greeted'[c] > 0
  <2>1. msg[m].conv \in Convs /\ greeted \in [Convs -> Nat]
    BY DEF TypeOK, Handlers
  <2> QED
    BY <1>1, <2>1 DEF Send, SendFails, Greeted
<1>2. CASE UNCHANGED greeted
  BY <1>2
<1> QED
  BY <1>1, <1>2 DEF Next, Tick, Rest, vars, HandlerStep, FindActive, ClaimInFound,
     ClaimRevived, ClaimCreated, StaySilent, BeginHandoff, Reserve, Confirm,
     RecordWelcome, CrashHandler, SweepStep, SweepClaim, SweepGoodbye,
     SweepClose, CrashSweep, OpRead, OperatorStep, OpRevive, OpSuperseded,
     OpSwitch, OpReply

\* A handler reaches _record_welcome only after its welcome was delivered.
LEMMA GreetingStep ==
  ASSUME TypeOK, GreetingIsDelivered, [Next]_vars
  PROVE  GreetingIsDelivered'
<1>0. \A m \in Messages : msg[m] \in Handlers /\ msg[m].conv \in Convs
  BY DEF TypeOK, Handlers
<1>a. \A m \in Messages : msg'[m] = msg[m] => KnowsGreeting(m)'
  BY <1>0, GreetedGrows DEF GreetingIsDelivered, KnowsGreeting
<1>b. \A m \in Messages : msg'[m].at \notin {"sent", "greeted"} => KnowsGreeting(m)'
  BY DEF KnowsGreeting
<1>1. ASSUME NEW m \in Messages, HandlerStep(m) \/ CrashHandler(m)
      PROVE  \A n \in Messages : KnowsGreeting(n)'
  <2>1. CASE Send(m)
    <3>1. /\ \A n \in Messages : n # m => msg'[n] = msg[n]
          /\ msg'[m].at = "sent" /\ msg'[m].conv = msg[m].conv
          /\ msg'[m].greet = msg[m].greet
      BY <1>0, <2>1 DEF Send, TypeOK, Handlers
    <3>2. msg[m].greet => greeted'[msg[m].conv] > 0
      BY <1>0, <2>1 DEF Send, Greeted, TypeOK
    <3>3. KnowsGreeting(m)'
      BY <3>1, <3>2 DEF KnowsGreeting
    <3> QED
      BY <1>a, <3>1, <3>3
  <2>2. CASE Confirm(m)
    <3>1. /\ \A n \in Messages : n # m => msg'[n] = msg[n]
          /\ msg[m].at = "sent" /\ msg'[m].conv = msg[m].conv
          /\ msg'[m].greet = msg[m].greet
          /\ msg'[m].at = IF msg[m].greet THEN "greeted" ELSE "done"
      BY <1>0, <2>2 DEF Confirm, TypeOK, Handlers
    <3>2. msg[m].greet => greeted'[msg[m].conv] > 0
      BY <1>0, <3>1, GreetedGrows DEF GreetingIsDelivered
    <3>3. KnowsGreeting(m)'
      BY <3>1, <3>2 DEF KnowsGreeting
    <3> QED
      BY <1>a, <3>1, <3>3
  <2>3. CASE Reserve(m)
    <3>1. \A n \in Messages : n # m => msg'[n] = msg[n]
      BY <2>3 DEF Reserve, TypeOK
    <3>2. msg'[m].at = "send"
      BY <1>0, <2>3 DEF Reserve, TypeOK, Handlers
    <3> QED
      BY <1>a, <1>b, <3>1, <3>2
  <2>4. CASE FindActive(m) \/ ClaimRevived(m) \/ ClaimCreated(m)
    <3>1. PICK c \in Convs, at \in {"found", "claimed", "done"} : Load(m, c, at)
      BY <2>4 DEF FindActive, ClaimRevived, ClaimCreated, AfterClaim
    <3>2. /\ \A n \in Messages : n # m => msg'[n] = msg[n]
          /\ msg'[m].at = at
      BY <1>0, <3>1 DEF Load, TypeOK, Handlers
    <3> QED
      BY <1>a, <1>b, <3>2
  <2>5. CASE CrashHandler(m)
    <3>1. /\ \A n \in Messages : n # m => msg'[n] = msg[n]
          /\ msg'[m].at \in {"new", "done"}
      BY <2>5 DEF CrashHandler, NewHandler, TypeOK
    <3> QED
      BY <1>a, <1>b, <3>1
  <2>6. CASE \/ ClaimInFound(m) \/ StaySilent(m) \/ BeginHandoff(m)
             \/ SendFails(m) \/ RecordWelcome(m)
    <3>1. PICK at \in {"claimed", "ack", "done"} : msg' = [msg EXCEPT ![m].at = at]
      BY <2>6 DEF ClaimInFound, AfterClaim, StaySilent, BeginHandoff, SendFails,
         RecordWelcome
    <3>2. /\ \A n \in Messages : n # m => msg'[n] = msg[n]
          /\ msg'[m].at = at
      BY <1>0, <3>1 DEF TypeOK, Handlers
    <3> QED
      BY <1>a, <1>b, <3>2
  <2> QED
    BY <1>1, <2>1, <2>2, <2>3, <2>4, <2>5, <2>6 DEF HandlerStep
<1>2. CASE UNCHANGED msg
  BY <1>2, <1>a DEF GreetingIsDelivered, KnowsGreeting
<1>3. \A m \in Messages : KnowsGreeting(m)'
  BY <1>1, <1>2, <1>a DEF Next, Tick, Rest, vars, SweepStep, SweepClaim, SweepGoodbye,
     SweepClose, CrashSweep, OpRead, OperatorStep, OpRevive, OpSuperseded,
     OpSwitch, OpReply
<1> QED
  BY <1>3 DEF GreetingIsDelivered, KnowsGreeting

\* The columns of a row that outlive the claim: a welcome is recorded by the
\* handler that sent it, and the mode goes back to bot by a resume only.
LEMMA RowStep ==
  ASSUME TypeOK, LiveInvariant, AbsentIsBot, [Next]_vars, NEW c \in Convs
  PROVE  /\ db'[c].welcome =>
              \/ db[c].welcome
              \/ \E m \in Messages : msg[m].at = "greeted" /\ c = msg[m].conv
         /\ \/ db'[c].mode \in {db[c].mode, "human"}
            \/ \E o \in Operators : op[o].conv = c /\ op[o].act = "resume"
<1>0. db[c] \in Rows /\ db \in [Convs -> Rows]
  BY DEF TypeOK
<1>1. CASE UNCHANGED db
  BY <1>1
<1>2. ASSUME NEW m \in Messages, InSession(m)
      PROVE  /\ db'[c].welcome =>
                  \/ db[c].welcome
                  \/ msg[m].at = "greeted" /\ c = msg[m].conv
             /\ db'[c].mode \in {db[c].mode, "human"}
  BY <1>2, HandlerRow
<1>3. ASSUME NEW o \in Operators, OnScreen(o)
      PROVE  /\ db'[c].welcome = db[c].welcome
             /\ \/ db'[c].mode \in {db[c].mode, "human"}
                \/ c = op[o].conv /\ op[o].act = "resume"
  BY <1>3, RequestRow
<1>4. ASSUME NEW d \in Convs, Opens(d)
      PROVE  (db'[c].welcome => db[c].welcome) /\ db'[c].mode = db[c].mode
  BY <1>4 DEF Opens
<1>5. ASSUME NEW s \in Sweepers, SweepClaim(s)
      PROVE  db'[c].welcome = db[c].welcome /\ db'[c].mode = db[c].mode
  <2>1. PICK d \in Convs : /\ db'[d] = [db[d] EXCEPT !.closing = TRUE]
                           /\ \A e \in Convs : e # d => db'[e] = db[e]
    BY <1>5, Claiming
  <2> QED
    BY <1>0, <2>1 DEF Rows
<1>6. ASSUME NEW s \in Sweepers, SweepClose(s)
      PROVE  db'[c].welcome = db[c].welcome /\ db'[c].mode = db[c].mode
  <2>1. PICK d \in Convs :
          /\ db'[d] = [db[d] EXCEPT !.status = "closed", !.closedAt = now]
          /\ \A e \in Convs : e # d => db'[e] = db[e]
    BY <1>6, Closing
  <2> QED
    BY <1>0, <2>1 DEF Rows
<1>7. CASE \E m \in Messages : ClaimRevived(m) \/ ClaimCreated(m)
  BY <1>4, <1>7, Opening DEF LiveInvariant
<1>8. CASE \E o \in Operators : OpRevive(o)
  BY <1>4, <1>8, Opening DEF LiveInvariant
<1>9. CASE \E m \in Messages : InSession(m)
  BY <1>2, <1>9
<1>10. CASE \E o \in Operators : OnScreen(o)
  BY <1>3, <1>10
<1>11. CASE \E s \in Sweepers : SweepClaim(s) \/ SweepClose(s)
  BY <1>5, <1>6, <1>11
<1> QED
  BY <1>1, <1>7, <1>8, <1>9, <1>10, <1>11
     DEF Next, Tick, Rest, vars, HandlerStep, InSession, OperatorStep, OnScreen,
         SweepStep, SweepGoodbye, CrashSweep

\* Every step keeps the inductive invariant.
LEMMA SessionStep ==
  TypeOK /\ SessionInvariant /\ [Next]_vars => SessionInvariant'
<1> SUFFICES ASSUME TypeOK, SessionInvariant, [Next]_vars PROVE SessionInvariant'
  OBVIOUS
<1>1. TypeOK'
  BY TypeStep
<1>2. LiveInvariant' /\ HeldRowsExist' /\ AbsentIsBot' /\ GreetingIsDelivered'
  BY <1>1, LiveStep, HeldStep, GreetingStep DEF SessionInvariant
<1>3. WelcomeStaysOwed'
  <2> SUFFICES ASSUME NEW c \in Convs, db'[c].welcome PROVE greeted'[c] > 0
    BY DEF WelcomeStaysOwed
  <2>1. db[c].welcome \/ \E m \in Messages : msg[m].at = "greeted" /\ c = msg[m].conv
    BY RowStep DEF SessionInvariant
  <2>2. greeted[c] > 0
    BY <2>1 DEF SessionInvariant, WelcomeStaysOwed, GreetingIsDelivered
  <2> QED
    BY <2>2, GreetedGrows
<1> QED
  BY <1>2, <1>3 DEF SessionInvariant

\* The initial table is empty and nobody works on it.
LEMMA SessionInit == Init => SessionInvariant
BY DEF Init, SessionInvariant, LiveInvariant, OneLive, AbsentIsUnthanked,
   OpenIsUnthanked, SweepHoldsClaim, SweepsDisjoint, AbsentIsBot, HeldRowsExist,
   GreetingIsDelivered, WelcomeStaysOwed, Active, NewRow, NewHandler, NewSweep,
   NewRequest

-----------------------------------------------------------------------------
(***************************************************************************)
(* Theorems.                                                               *)
(***************************************************************************)

\* One live session, claims that are marked in the row and held by one sweep,
\* goodbyes counted from the claim, welcomes recorded after delivery.
THEOREM SessionsConsistent == Spec => []SessionInvariant
BY SessionInit, SessionStep, SessionTypes, PTL DEF Spec

\* claim_idle_sessions: a session is in the hands of one sweep at most, and
\* while it is, it is open, marked and, before its goodbye, unthanked.
THEOREM ExclusiveClaim == Spec => []ClaimIsExclusive
<1>1. TypeOK /\ SessionInvariant => ClaimIsExclusive
  BY DEF SessionInvariant, LiveInvariant, SweepHoldsClaim, SweepsDisjoint,
     ClaimIsExclusive, DerivedState, Active, TypeOK
<1> QED
  BY <1>1, SessionTypes, SessionsConsistent, PTL

\* _record_welcome: welcome_sent_at is never set in a session in which the
\* customer has not been greeted.
THEOREM WelcomeOwed == Spec => []WelcomeStaysOwed
<1>1. SessionInvariant => WelcomeStaysOwed
  BY DEF SessionInvariant
<1> QED
  BY <1>1, SessionsConsistent, PTL

\* set_mode: only an operator's resume gives a conversation back to the bot.
THEOREM HumanKept == Spec => HumanUntilResumed
<1>1. TypeOK /\ SessionInvariant /\ [Next]_vars =>
        [\A c \in Convs : db[c].mode = "human" /\ db'[c].mode = "bot" =>
           \E o \in Operators : op[o].conv = c /\ op[o].act = "resume"]_vars
  BY RowStep DEF SessionInvariant
<1> QED
  BY <1>1, SessionTypes, SessionsConsistent, PTL DEF Spec, HumanUntilResumed
-----------------------------------------------------------------------------
(***************************************************************************)
(* Refinement of SessionContract.                                          *)
(***************************************************************************)

\* The refinement mapping, row by row.
StateOf(c) ==
  IF db[c].status = "active"
  THEN IF db[c].closing THEN "closing" ELSE "open"
  ELSE IF db[c].status = "closed" THEN "closed" ELSE "none"

States == [c \in Convs |-> StateOf(c)]

\* A step of the rows is a step of the state model when it writes one state.
LEMMA StateWritten ==
  ASSUME NEW c \in Convs, NEW x, StateOf(c)' = x,
         \A d \in Convs : d # c => StateOf(d)' = StateOf(d)
  PROVE  States' = [States EXCEPT ![c] = x]
BY DEF States

\* Opening a session, revived or new, is the contract's Open.
LEMMA OpenIsOpen ==
  ASSUME TypeOK, NEW c \in Convs, Opens(c)
  PROVE  Sessions!Next
<1>1. StateOf(c)' = "open" /\ \A d \in Convs : d # c => StateOf(d)' = StateOf(d)
  BY DEF Opens, StateOf
<1>2. States' = [States EXCEPT ![c] = "open"]
  BY <1>1, StateWritten
<1>3. \A d \in Convs : States[d] \in {"none", "closed"}
  BY DEF States, StateOf, Opens, NoneActive, Active
<1>4. Sessions!Open(c)
  BY <1>2, <1>3 DEF Sessions!Open, Sessions!Live, States, StateOf, Opens
<1> QED
  BY <1>4 DEF Sessions!Next

\* Every step of the code is a step of the state model or leaves it alone.
LEMMA ContractStep ==
  ASSUME TypeOK, SessionInvariant, [Next]_vars
  PROVE  [Sessions!Next]_(Sessions!vars)
<1>0. /\ db \in [Convs -> Rows] /\ goodbyes \in [Convs -> Nat]
      /\ \A s \in Sweepers : sweep[s].conv \in Convs
  BY DEF TypeOK
<1>a. ASSUME \A c \in Convs : StateOf(c)' = StateOf(c), UNCHANGED goodbyes
      PROVE  UNCHANGED Sessions!vars
  <2>1. States' = States
    BY <1>a DEF States
  <2> QED
    BY <1>a, <2>1 DEF Sessions!vars, States, StateOf
<1>1. ASSUME Quiet PROVE UNCHANGED Sessions!vars
  BY <1>1, <1>a DEF Quiet, StateOf
<1>2. ASSUME NEW s \in Sweepers, SweepClaim(s) PROVE Sessions!Next
  <2>1. PICK c \in Convs :
          /\ Active(c) /\ ~ db[c].closing
          /\ db'[c] = [db[c] EXCEPT !.closing = TRUE]
          /\ \A d \in Convs : d # c => db'[d] = db[d]
          /\ UNCHANGED goodbyes
    BY <1>2, Claiming
  <2>2. db'[c].status = "active" /\ db'[c].closing
    BY <1>0, <2>1 DEF Rows, Active
  <2>3. StateOf(c)' = "closing" /\ \A d \in Convs : d # c => StateOf(d)' = StateOf(d)
    BY <2>1, <2>2 DEF StateOf
  <2>4. States' = [States EXCEPT ![c] = "closing"] /\ States[c] = "open"
    BY <2>1, <2>3, StateWritten DEF States, StateOf, Active
  <2>5. Sessions!Claim(c)
    BY <2>1, <2>4 DEF Sessions!Claim, States, StateOf
  <2> QED
    BY <2>5 DEF Sessions!Next
<1>3. ASSUME NEW s \in Sweepers, SweepGoodbye(s)
      PROVE  Sessions!Next \/ UNCHANGED Sessions!vars
  <2>1. sweep[s].at = "claimed" /\ UNCHANGED db
    BY <1>3 DEF SweepGoodbye
  <2>2. /\ Active(sweep[s].conv) /\ db[sweep[s].conv].closing
        /\ goodbyes[sweep[s].conv] = 0
    BY <2>1 DEF SessionInvariant, LiveInvariant, SweepHoldsClaim
  <2>3. CASE UNCHANGED goodbyes
    BY <1>a, <2>1, <2>3 DEF StateOf
  <2>4. CASE goodbyes' = [goodbyes EXCEPT ![sweep[s].conv] = @ + 1]
    <3>1. States[sweep[s].conv] = "closing" /\ States' = States
      BY <1>0, <2>1, <2>2 DEF States, StateOf, Active
    <3>2. goodbyes' = [goodbyes EXCEPT ![sweep[s].conv] = 1]
      BY <1>0, <2>2, <2>4
    <3>3. Sessions!Goodbye(sweep[s].conv)
      BY <2>2, <3>1, <3>2 DEF Sessions!Goodbye, States, StateOf
    <3> QED
      BY <1>0, <3>3 DEF Sessions!Next
  <2> QED
    BY <1>3, <2>3, <2>4 DEF SweepGoodbye
<1>4. ASSUME NEW s \in Sweepers, SweepClose(s) PROVE Sessions!Next
  <2>1. PICK c \in Convs :
          /\ c = sweep[s].conv /\ sweep[s].at = "thanked"
          /\ db'[c] = [db[c] EXCEPT !.status = "closed", !.closedAt = now]
          /\ \A d \in Convs : d # c => db'[d] = db[d]
          /\ UNCHANGED goodbyes
    BY <1>4, Closing
  <2>2. db'[c].status = "closed" /\ Active(c) /\ db[c].closing
    BY <1>0, <2>1 DEF Rows, SessionInvariant, LiveInvariant, SweepHoldsClaim
  <2>3. StateOf(c)' = "closed" /\ \A d \in Convs : d # c => StateOf(d)' = StateOf(d)
    BY <2>1, <2>2 DEF StateOf
  <2>4. States' = [States EXCEPT ![c] = "closed"] /\ States[c] = "closing"
    BY <2>1, <2>2, <2>3, StateWritten DEF States, StateOf, Active
  <2>5. Sessions!Close(c)
    BY <2>1, <2>4 DEF Sessions!Close, States, StateOf
  <2> QED
    BY <2>1, <2>5 DEF Sessions!Next
<1>5. ASSUME NEW s \in Sweepers, CrashSweep(s) PROVE UNCHANGED Sessions!vars
  BY <1>5, <1>a DEF CrashSweep, StateOf
<1>6. ASSUME NEW c \in Convs, Opens(c) PROVE Sessions!Next
  BY <1>6, OpenIsOpen
<1> QED
  BY <1>1, <1>2, <1>3, <1>4, <1>5, <1>6, StepKinds
     DEF SessionInvariant, LiveInvariant, SweepStep

\* The conversations table, as handlers, sweeps and operators write it, follows
\* the state model of docs/SESSION_LIFECYCLE.md.
THEOREM SessionRefinement == Spec => ImplementsSessions
<1>1. Init => Sessions!Init
  BY DEF Init, NewRow, Sessions!Init
<1>2. TypeOK /\ SessionInvariant /\ [Next]_vars => [Sessions!Next]_(Sessions!vars)
  BY ContractStep
<1> QED
  BY <1>1, <1>2, SessionTypes, SessionsConsistent, PTL
     DEF Spec, ImplementsSessions, Sessions!Spec
=============================================================================
