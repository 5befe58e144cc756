-------------------------- MODULE SessionLifecycle --------------------------
(***************************************************************************)
(* The sessions of one customer: the rows of the conversations table, and  *)
(* everything that writes to them.  Inbound handlers find, revive or open  *)
(* a session and answer in it (chat_service.py, conversation_service.py);  *)
(* the sweeper says goodbye to idle ones and closes them                   *)
(* (session_service.py); operators take over, hand back and reply          *)
(* (admin_service.py, reply_service.py).                                   *)
(*                                                                         *)
(* One step is one transaction, one call of the provider, or one read      *)
(* whose result is used later.  The switches of the settings have their    *)
(* default values: sessions, welcomes and closing messages are on.         *)
(***************************************************************************)
EXTENDS Naturals

CONSTANTS
  Messages,       \* inbound messages; ReplyPipeline deals with duplicates
  Sweepers,       \* runs of the close_idle_sessions task
  Operators,
  Channel,        \* where the customer writes: Conversation.channel of every row
  MaxConvs,       \* bound: sessions of the customer
  MaxTime,        \* bound: ticks of the clock
  MaxOps,         \* bound: operator requests
  MaxCrashes,     \* bound: handlers and sweeps cut short
  IdleTimeout,    \* conversation_idle_timeout
  ReopenWindow,   \* conversation_reopen_window
  ServiceWindow   \* CUSTOMER_SERVICE_WINDOW

ASSUME SessionAssumption ==
  /\ {MaxConvs, MaxTime, MaxOps, MaxCrashes} \subseteq Nat
  /\ {IdleTimeout, ReopenWindow, ServiceWindow} \subseteq Nat
  /\ MaxConvs > 0

VARIABLES
  now,        \* the clock
  db,         \* the conversations table
  msg,        \* per inbound message: its handler
  sweep,      \* per sweep: its handler
  op,         \* per operator: the request being served
  ops, crashes,
  (* history *)
  greeted,    \* greeted[c]: welcomes the customer received in c
  goodbyes    \* goodbyes[c]: goodbyes received since c was (re)opened

vars == <<now, db, msg, sweep, op, ops, crashes, greeted, goodbyes>>

Convs == 1..MaxConvs
Modes == {"bot", "human"}
Acts == {"takeover", "resume", "reply"}

NewRow == [status |-> "absent", mode |-> "bot", welcome |-> FALSE,
           closing |-> FALSE, activity |-> 0, closedAt |-> 0, inbound |-> 0]
NewHandler == [at |-> "new", conv |-> 1, mode |-> "bot", welcome |-> FALSE,
               greet |-> FALSE]
NewSweep == [at |-> "idle", conv |-> 1]
NewRequest == [at |-> "idle", conv |-> 1, status |-> "active", mode |-> "bot",
               act |-> "reply"]

Active(c) == db[c].status = "active"
NoneActive == \A c \in Convs : ~ Active(c)
Idle(c) == db[c].activity + IdleTimeout < now
WithinServiceWindow(c) == now <= db[c].inbound + ServiceWindow

\* derive_session_state: closed, then closing, then who answers, then idle.
DerivedState(c) ==
  CASE db[c].status # "active" -> "CLOSED"
    [] Active(c) /\ db[c].closing -> "CLOSING"
    [] Active(c) /\ ~db[c].closing /\ db[c].mode = "human" -> "ACTIVE_HUMAN"
    [] Active(c) /\ ~db[c].closing /\ db[c].mode = "bot" ->
         IF now >= db[c].activity + IdleTimeout THEN "WAITING_IDLE"
                                                ELSE "ACTIVE_BOT"

Init ==
  /\ now = 0
  /\ db = [c \in Convs |-> NewRow]
  /\ msg = [m \in Messages |-> NewHandler]
  /\ sweep = [s \in Sweepers |-> NewSweep]
  /\ op = [o \in Operators |-> NewRequest]
  /\ ops = 0
  /\ crashes = 0
  /\ greeted = [c \in Convs |-> 0]
  /\ goodbyes = [c \in Convs |-> 0]

Tick ==
  /\ now < MaxTime
  /\ now' = now + 1
  /\ UNCHANGED <<db, msg, sweep, op, ops, crashes, greeted, goodbyes>>

-----------------------------------------------------------------------------
(***************************************************************************)
(* Inbound messages.                                                       *)
(***************************************************************************)

\* Mutant of Revived: the session comes back as a new one would.
RevivedAsNew(c) == [NewRow EXCEPT !.status = "active", !.activity = now,
                                  !.inbound = db[c].inbound]

\* _REVIVE: back to active, the goodbye re-armed, the welcome kept.
Revived(c) == [db[c] EXCEPT !.status = "active", !.closing = FALSE,
                            !.closedAt = 0, !.activity = now]

\* touch: the idle timer starts over.
Touched(c) == [db EXCEPT ![c].activity = now]

\* should_welcome, on the row the handler loaded.
OwesWelcome(m) == ~ msg[m].welcome

\* What the handler keeps of the row it loaded.
Load(m, c, at) ==
  msg' = [msg EXCEPT ![m] = [@ EXCEPT !.at = at, !.conv = c,
                             !.mode = db[c].mode, !.welcome = db[c].welcome]]

\* A delivery past inbound_max_age is recorded and not answered.
AfterClaim(fresh) == IF fresh THEN "claimed" ELSE "done"

\* active_for_user: a plain SELECT; nothing keeps the row from changing.
FindActive(m) ==
  /\ msg[m].at = "new"
  /\ \E c \in Convs : Active(c) /\ Load(m, c, "found")
  /\ UNCHANGED <<now, db, sweep, op, ops, crashes, greeted, goodbyes>>

\* Insert the message, touch the session found, commit.
ClaimInFound(m) ==
  /\ msg[m].at = "found"
  /\ \E fresh \in BOOLEAN :
       /\ db' = [db EXCEPT ![msg[m].conv] =
                   [@ EXCEPT !.inbound = now,
                             !.activity = IF fresh THEN now
                                          ELSE db[msg[m].conv].activity]]
       /\ msg' = [msg EXCEPT ![m].at = AfterClaim(fresh)]
  /\ UNCHANGED <<now, sweep, op, ops, crashes, greeted, goodbyes>>

\* reopen_recent's candidate: closed within the window, the latest such.
Reopenable(c) ==
  /\ ReopenWindow > 0
  /\ db[c].status = "closed"
  /\ now <= db[c].closedAt + ReopenWindow
  /\ \A d \in Convs : db[d].status = "closed" => db[d].closedAt <= db[c].closedAt

\* Mutant of ClaimRevived: the goodbye is not re-armed.
ClaimRevivedStillClosing(m) ==
  /\ msg[m].at = "new"
  /\ NoneActive
  /\ \E c \in Convs, fresh \in BOOLEAN :
       /\ Reopenable(c)
       /\ db' = [db EXCEPT ![c] = [Revived(c) EXCEPT !.inbound = now,
                                                     !.closing = TRUE]]
       /\ goodbyes' = [goodbyes EXCEPT ![c] = 0]
       /\ Load(m, c, AfterClaim(fresh))
  /\ UNCHANGED <<now, sweep, op, ops, crashes, greeted>>

\* The customer is straight back: the same session is revived and the message
\* claimed in it, in one transaction.
ClaimRevived(m) ==
  /\ msg[m].at = "new"
  /\ NoneActive
  /\ \E c \in Convs, fresh \in BOOLEAN :
       /\ Reopenable(c)
       /\ db' = [db EXCEPT ![c] = [Revived(c) EXCEPT !.inbound = now]]
       /\ goodbyes' = [goodbyes EXCEPT ![c] = 0]
       /\ Load(m, c, AfterClaim(fresh))
  /\ UNCHANGED <<now, sweep, op, ops, crashes, greeted>>

\* A new session; the partial unique index refuses it while one is active.
ClaimCreated(m) ==
  /\ msg[m].at = "new"
  /\ NoneActive
  /\ ~ \E c \in Convs : Reopenable(c)
  /\ \E c \in Convs, fresh \in BOOLEAN :
       /\ db[c].status = "absent"
       /\ \A d \in Convs : d < c => db[d].status # "absent"
       /\ db' = [db EXCEPT ![c] = [NewRow EXCEPT !.status = "active",
                                     !.activity = now, !.inbound = now]]
       /\ Load(m, c, AfterClaim(fresh))
  /\ UNCHANGED <<now, sweep, op, ops, crashes, greeted, goodbyes>>

\* An operator has the conversation, or the quota declines without a word.
StaySilent(m) ==
  /\ msg[m].at = "claimed"
  /\ msg' = [msg EXCEPT ![m].at = "done"]
  /\ UNCHANGED <<now, db, sweep, op, ops, crashes, greeted, goodbyes>>

\* The customer asks for a person: set_mode(human), committed.
BeginHandoff(m) ==
  /\ msg[m].at = "claimed"
  /\ msg[m].mode = "bot"
  /\ db' = [db EXCEPT ![msg[m].conv] = [@ EXCEPT !.mode = "human",
                                                 !.activity = now]]
  /\ msg' = [msg EXCEPT ![m].at = "ack"]
  /\ UNCHANGED <<now, sweep, op, ops, crashes, greeted, goodbyes>>

\* Reserve the reply and touch.  The welcome goes with it when the loaded row
\* had none, unless the text is mere courtesy.
Reserve(m) ==
  /\ \/ msg[m].at = "claimed" /\ msg[m].mode = "bot"
     \/ msg[m].at = "ack"
  /\ \E g \in BOOLEAN :
       /\ g => msg[m].at = "claimed" /\ OwesWelcome(m)
       /\ msg' = [msg EXCEPT ![m] = [@ EXCEPT !.at = "send", !.greet = g]]
  /\ db' = Touched(msg[m].conv)
  /\ UNCHANGED <<now, sweep, op, ops, crashes, greeted, goodbyes>>

Greeted(m) == IF msg[m].greet THEN [greeted EXCEPT ![msg[m].conv] = @ + 1]
                              ELSE greeted

Send(m) ==
  /\ msg[m].at = "send"
  /\ msg' = [msg EXCEPT ![m].at = "sent"]
  /\ greeted' = Greeted(m)
  /\ UNCHANGED <<now, db, sweep, op, ops, crashes, goodbyes>>

\* Mutant of SendFails: the welcome is recorded all the same.
SendFailsGreeted(m) ==
  /\ msg[m].at = "send"
  /\ msg' = [msg EXCEPT ![m].at = IF msg[m].greet THEN "greeted" ELSE "done"]
  /\ \/ UNCHANGED greeted
     \/ greeted' = Greeted(m)
  /\ UNCHANGED <<now, db, sweep, op, ops, crashes, goodbyes>>

\* The reply becomes unconfirmed; it may have arrived all the same.
SendFails(m) ==
  /\ msg[m].at = "send"
  /\ msg' = [msg EXCEPT ![m].at = "done"]
  /\ \/ UNCHANGED greeted
     \/ greeted' = Greeted(m)
  /\ UNCHANGED <<now, db, sweep, op, ops, crashes, goodbyes>>

Confirm(m) ==
  /\ msg[m].at = "sent"
  /\ msg' = [msg EXCEPT ![m].at = IF msg[m].greet THEN "greeted" ELSE "done"]
  /\ db' = Touched(msg[m].conv)
  /\ UNCHANGED <<now, sweep, op, ops, crashes, greeted, goodbyes>>

\* _record_welcome, in a transaction of its own.
RecordWelcome(m) ==
  /\ msg[m].at = "greeted"
  /\ msg' = [msg EXCEPT ![m].at = "done"]
  /\ db' = [db EXCEPT ![msg[m].conv].welcome = TRUE]
  /\ UNCHANGED <<now, sweep, op, ops, crashes, greeted, goodbyes>>

\* A worker dies or the handler raises.  Before the claim the redelivery
\* starts afresh; after it, it finds the claim and returns.
CrashHandler(m) ==
  /\ msg[m].at \notin {"new", "done"}
  /\ crashes < MaxCrashes
  /\ crashes' = crashes + 1
  /\ msg' = [msg EXCEPT ![m] = [NewHandler EXCEPT !.at =
                                  IF msg[m].at = "found" THEN "new" ELSE "done"]]
  /\ UNCHANGED <<now, db, sweep, op, ops, greeted, goodbyes>>

-----------------------------------------------------------------------------
(***************************************************************************)
(* The sweeper.                                                            *)
(***************************************************************************)

\* SWEEPABLE_CHANNELS: not Instagram, and not the comments.
SweepableChannels == {"whatsapp", "messenger"}

\* What claim_idle_sessions selects.
Sweepable(c) ==
  /\ Channel \in SweepableChannels
  /\ Active(c) /\ db[c].mode = "bot" /\ ~ db[c].closing /\ Idle(c)

\* Mutant of SweepClaim: the claim is not recorded in the row.
SweepClaimUnmarked(s) ==
  /\ sweep[s].at = "idle"
  /\ \E c \in Convs :
       /\ Sweepable(c)
       /\ sweep' = [sweep EXCEPT ![s] = [at |-> "claimed", conv |-> c]]
  /\ UNCHANGED <<now, db, msg, op, ops, crashes, greeted, goodbyes>>

\* One conditional UPDATE stamps closing_sent_at; committed before any send.
SweepClaim(s) ==
  /\ sweep[s].at = "idle"
  /\ \E c \in Convs :
       /\ Sweepable(c)
       /\ db' = [db EXCEPT ![c].closing = TRUE]
       /\ sweep' = [sweep EXCEPT ![s] = [at |-> "claimed", conv |-> c]]
  /\ UNCHANGED <<now, msg, op, ops, crashes, greeted, goodbyes>>

\* The goodbye, if Meta's window allows it.  A failed send is not repeated.
SweepGoodbye(s) ==
  /\ sweep[s].at = "claimed"
  /\ sweep' = [sweep EXCEPT ![s].at = "thanked"]
  /\ \/ UNCHANGED goodbyes
     \/ /\ WithinServiceWindow(sweep[s].conv)
        /\ goodbyes' = [goodbyes EXCEPT ![sweep[s].conv] = @ + 1]
  /\ UNCHANGED <<now, db, msg, op, ops, crashes, greeted>>

\* Mutant of SweepClose: the claim is released.
SweepCloseReleased(s) ==
  /\ sweep[s].at = "thanked"
  /\ db' = [db EXCEPT ![sweep[s].conv] = [@ EXCEPT !.closing = FALSE]]
  /\ sweep' = [sweep EXCEPT ![s] = NewSweep]
  /\ UNCHANGED <<now, msg, op, ops, crashes, greeted, goodbyes>>

\* close: an UPDATE by id, whatever has happened to the row since the claim.
SweepClose(s) ==
  /\ sweep[s].at = "thanked"
  /\ db' = [db EXCEPT ![sweep[s].conv] = [@ EXCEPT !.status = "closed",
                                                   !.closedAt = now]]
  /\ sweep' = [sweep EXCEPT ![s] = NewSweep]
  /\ UNCHANGED <<now, msg, op, ops, crashes, greeted, goodbyes>>

\* The worker dies, or another session of the batch makes the sweep raise.
CrashSweep(s) ==
  /\ sweep[s].at # "idle"
  /\ crashes < MaxCrashes
  /\ crashes' = crashes + 1
  /\ sweep' = [sweep EXCEPT ![s] = NewSweep]
  /\ UNCHANGED <<now, db, msg, op, ops, greeted, goodbyes>>

-----------------------------------------------------------------------------
(***************************************************************************)
(* Operators.                                                              *)
(***************************************************************************)

\* The request loads the conversation the operator has on the screen.
OpRead(o) ==
  /\ op[o].at = "idle"
  /\ ops < MaxOps
  /\ ops' = ops + 1
  /\ \E c \in Convs, a \in Acts :
       /\ db[c].status # "absent"
       /\ op' = [op EXCEPT ![o] = [at |-> "read", conv |-> c,
                   status |-> db[c].status, mode |-> db[c].mode, act |-> a]]
  /\ UNCHANGED <<now, db, msg, sweep, crashes, greeted, goodbyes>>

\* revive_for_operator on a session loaded as closed: WHERE status = closed,
\* under the unique index; committed and refreshed.
OpRevive(o) ==
  LET c == op[o].conv
  IN  /\ op[o].at = "read"
      /\ op[o].status = "closed"
      /\ db[c].status = "closed"
      /\ NoneActive
      /\ db' = [db EXCEPT ![c] = Revived(c)]
      /\ goodbyes' = [goodbyes EXCEPT ![c] = 0]
      /\ op' = [op EXCEPT ![o] = [@ EXCEPT !.at = "ready", !.mode = db[c].mode]]
      /\ UNCHANGED <<now, msg, sweep, ops, crashes, greeted>>

\* The UPDATE matched no row: 409 conversation_superseded.
OpSuperseded(o) ==
  /\ op[o].at = "read"
  /\ op[o].status = "closed"
  /\ db[op[o].conv].status # "closed" \/ ~ NoneActive
  /\ op' = [op EXCEPT ![o] = NewRequest]
  /\ UNCHANGED <<now, db, msg, sweep, ops, crashes, greeted, goodbyes>>

Cleared(o) == op[o].at = "ready" \/ (op[o].at = "read" /\ op[o].status = "active")

\* take_over, resume_ai: set_mode.  The ORM writes the mode only when it
\* differs from the one loaded.
OpSwitch(o) ==
  LET c == op[o].conv
      to == IF op[o].act = "takeover" THEN "human" ELSE "bot"
  IN  /\ Cleared(o)
      /\ op[o].act # "reply"
      /\ db' = [db EXCEPT ![c] =
                  [@ EXCEPT !.mode = IF op[o].mode = to THEN db[c].mode ELSE to,
                            !.activity = now]]
      /\ op' = [op EXCEPT ![o] = NewRequest]
      /\ UNCHANGED <<now, msg, sweep, ops, crashes, greeted, goodbyes>>

\* send_manual_reply: sent, recorded and touched, or refused by Meta's window
\* or by the provider.
OpReply(o) ==
  /\ Cleared(o)
  /\ op[o].act = "reply"
  /\ \/ UNCHANGED db
     \/ /\ WithinServiceWindow(op[o].conv)
        /\ db' = Touched(op[o].conv)
  /\ op' = [op EXCEPT ![o] = NewRequest]
  /\ UNCHANGED <<now, msg, sweep, ops, crashes, greeted, goodbyes>>

-----------------------------------------------------------------------------
HandlerStep(m) ==
  \/ FindActive(m) \/ ClaimInFound(m) \/ ClaimRevived(m) \/ ClaimCreated(m)
  \/ StaySilent(m) \/ BeginHandoff(m) \/ Reserve(m)
  \/ Send(m) \/ SendFails(m) \/ Confirm(m) \/ RecordWelcome(m)

SweepStep(s) == SweepClaim(s) \/ SweepGoodbye(s) \/ SweepClose(s)

OperatorStep(o) ==
  \/ OpRevive(o) \/ OpSuperseded(o) \/ OpSwitch(o) \/ OpReply(o)

\* The clock has stopped at its bound and every request has been served.
Rest ==
  /\ now = MaxTime
  /\ \A m \in Messages : msg[m].at = "done"
  /\ \A s \in Sweepers : sweep[s].at = "idle"
  /\ \A o \in Operators : op[o].at = "idle"
  /\ UNCHANGED vars

Next ==
  \/ Tick
  \/ Rest
  \/ \E m \in Messages : HandlerStep(m) \/ CrashHandler(m)
  \/ \E s \in Sweepers : SweepStep(s) \/ CrashSweep(s)
  \/ \E o \in Operators : OpRead(o) \/ OperatorStep(o)

Spec == Init /\ [][Next]_vars

\* beat emits a sweep every minute, and a sweep that runs goes on.
FairSpec ==
  /\ Spec
  /\ \A s \in Sweepers : WF_vars(SweepStep(s))

-----------------------------------------------------------------------------
(***************************************************************************)
(* Properties.                                                             *)
(***************************************************************************)

Rows == [status : {"absent", "active", "closed"}, mode : Modes,
         welcome : BOOLEAN, closing : BOOLEAN, activity : 0..MaxTime,
         closedAt : 0..MaxTime, inbound : 0..MaxTime]
Handlers == [at : {"new", "found", "claimed", "ack", "send", "sent",
                   "greeted", "done"},
             conv : Convs, mode : Modes, welcome : BOOLEAN,
             greet : BOOLEAN]

\* Types; no handler holds a conversation that does not exist.
TypeOK ==
  /\ now \in 0..MaxTime
  /\ db \in [Convs -> Rows]
  /\ msg \in [Messages -> Handlers]
  /\ sweep \in [Sweepers -> [at : {"idle", "claimed", "thanked"}, conv : Convs]]
  /\ op \in [Operators -> [at : {"idle", "read", "ready"}, conv : Convs,
                           status : {"active", "closed"}, mode : Modes,
                           act : Acts]]
  /\ ops \in 0..MaxOps
  /\ crashes \in 0..MaxCrashes
  /\ greeted \in [Convs -> Nat]
  /\ goodbyes \in [Convs -> Nat]

\* claim_idle_sessions hands no session to two sweeps, and nothing that
\* happens between claim and close (messages, takeovers, other sweeps) takes
\* the claim away: the session is still open and marked, and not yet thanked.
ClaimIsExclusive ==
  \A s \in Sweepers : sweep[s].at # "idle" =>
    /\ DerivedState(sweep[s].conv) = "CLOSING"
    /\ sweep[s].at = "claimed" => goodbyes[sweep[s].conv] = 0
    /\ \A r \in Sweepers :
         sweep[r].at # "idle" /\ sweep[r].conv = sweep[s].conv => r = s

\* welcome_sent_at is set only when the customer has been greeted in this
\* session, so a welcome lost with its reply or a crash is still owed.
WelcomeStaysOwed == \A c \in Convs : db[c].welcome => greeted[c] > 0

\* A conversation handed to a person goes back to the bot only through an
\* operator's resume, whatever closes and revives it in between.
HumanUntilResumed ==
  [][\A c \in Convs : db[c].mode = "human" /\ db'[c].mode = "bot" =>
       \E o \in Operators : op[o].conv = c /\ op[o].act = "resume"]_vars

\* The rows follow the state model of SESSION_LIFECYCLE.md: one live session,
\* one goodbye per closing, nothing closes that was not claimed.
Sessions == INSTANCE SessionContract WITH
  state <- [c \in Convs |-> IF db[c].status = "active"
                            THEN IF db[c].closing THEN "closing" ELSE "open"
                            ELSE IF db[c].status = "closed" THEN "closed"
                                                            ELSE "none"],
  said <- goodbyes
ImplementsSessions == Sessions!Spec

\* A session left idle on a channel that is swept is ended: sweeps pass over
\* none for ever, unless it wakes up, goes to a person, or the sweep that
\* claimed it is cut short.  (Nothing ends a session on any other channel.)
CutShort(c) == db[c].closing /\ \A s \in Sweepers : sweep[s].at = "idle" \/ sweep[s].conv # c
IdleIsClosed ==
  \A c \in Convs :
    Sweepable(c) ~> \/ db[c].status = "closed"
                    \/ db[c].mode = "human"
                    \/ ~ Idle(c)
                    \/ CutShort(c)

=============================================================================
