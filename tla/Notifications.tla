---------------------------- MODULE Notifications ----------------------------
(***************************************************************************)
(* What the dashboard and the operators' phones are told: core/events.py   *)
(* publishes an event to Redis and then fans it out to the registered      *)
(* devices; routers/events.py relays the Redis channel to a websocket.     *)
(* Several events are handled at the same time, each in a transaction of   *)
(* its own.  A token that Firebase has rejected is retired by an UPDATE    *)
(* whose row lock is held until the fan-out commits, and by the flush of   *)
(* the ORM object behind it, so rows, locks and unflushed objects are all  *)
(* state here.  A websocket's SUBSCRIBE is written to Redis and not waited *)
(* for, so what Redis has taken and what was asked of it are two things.   *)
(***************************************************************************)
EXTENDS Integers, Sequences, FiniteSets, SequencesExt

CONSTANTS
  Devices,         \* 1 .. n: the ids of the device rows
  Events, Kind,    \* Kind[e]: which of the builders of core/events.py made e
  Streams,
  PushConfigured,
  UpgradeLimit,    \* websocket upgrades a client may make in the window
  MaxFailures, MaxAppActions

Kinds == {"lead", "assigned", "handoff", "resumed", "inbound", "outbound",
          "closed", "reopened"}
ASSUME NotificationsAssumption ==
  /\ IsFiniteSet(Devices) /\ Devices = 1 .. Cardinality(Devices)
  /\ Kind \in [Events -> Kinds]
  /\ "free" \notin Events       \* a lock is somebody's or nobody's
  /\ PushConfigured \in BOOLEAN
  /\ {UpgradeLimit, MaxFailures, MaxAppActions} \subseteq Nat

VARIABLES
  mode,        \* the conversation's mode, as the dispatcher will read it
  device,      \* device_tokens: enabled and disabled_reason
  alive,       \* tokens Firebase still accepts
  holder,      \* the fan-out holding the lock of a row
  fan,         \* the handling of each event
  stream, upgrades,
  accepted,    \* the events Redis has taken, in the order of the channel
  failures, appActions,
  rejected, signedOut   \* devices Firebase has rejected, devices that asked us to stop

vars == <<mode, device, alive, holder, fan, stream, upgrades, accepted, failures,
          appActions, rejected, signedOut>>

Free == "free"
Row(enabled, reason) == [enabled |-> enabled, reason |-> reason]
On == Row(TRUE, "none")
\* subscribed: Redis has processed the SUBSCRIBE, after the events in before.
NoStream == [pc |-> "new", subscribed |-> FALSE, before |-> <<>>, seen |-> <<>>,
             inbox |-> <<>>]

Init ==
  /\ mode = "human" /\ failures = 0 /\ appActions = 0 /\ upgrades = 0
  /\ device = [d \in Devices |-> On]
  /\ alive \in SUBSET Devices        \* the others have lost the application
  /\ holder = [d \in Devices |-> Free]
  /\ fan = [e \in Events |-> [pc |-> "publish"]]
  /\ stream = [s \in Streams |-> NoStream] /\ accepted = <<>>
  /\ rejected = {} /\ signedOut = {}

app == <<mode, alive, appActions>>
ghosts == <<rejected, signedOut>>
streams == <<stream, upgrades, accepted>>

Goto(e, state) == fan' = [fan EXCEPT ![e] = state]
Done(e) == Goto(e, [pc |-> "done"])

\* publish: Redis takes the event for every subscriber, or is down; either way
\* the devices come next.
Publish(e) ==
  /\ fan[e].pc = "publish"
  /\ \/ /\ stream' = [s \in Streams |-> [stream[s] EXCEPT
             !.inbox = IF stream[s].subscribed THEN Append(@, e) ELSE @]]
        /\ accepted' = Append(accepted, e)
        /\ UNCHANGED failures
     \/ /\ failures < MaxFailures /\ failures' = failures + 1
        /\ UNCHANGED <<stream, accepted>>
  /\ Goto(e, [pc |-> "classify"])
  /\ UNCHANGED <<device, holder, upgrades, app, ghosts>>

\* _classify: a handover to a person always, a message only while the
\* conversation is with a person when it is read.
Notifies(e) ==
  \/ Kind[e] \in {"lead", "assigned", "handoff"}
  \/ Kind[e] = "inbound" /\ mode = "human"

\* enabled_devices, in the order of their ids.
EnabledInAnyOrder == SetToSeqs({d \in Devices : device[d].enabled})
EnabledDevices ==
  {list \in SetToSeqs({d \in Devices : device[d].enabled}) :
     \A i, j \in DOMAIN list : i < j => list[i] < list[j]}

\* dispatch, and the part of notify before the first send.
Dispatch(e) ==
  /\ fan[e].pc = "classify"
  /\ \/ ~(PushConfigured /\ Notifies(e)) /\ Done(e)
     \/ /\ PushConfigured /\ Notifies(e)
        /\ \E list \in EnabledDevices :
             IF list = <<>> THEN Done(e)
             ELSE Goto(e, [pc |-> "send", todo |-> list, dirty |-> {},
                           retired |-> {}, cleared |-> {}])
  /\ UNCHANGED <<device, holder, streams, failures, app, ghosts>>

Current(e) == Head(fan[e].todo)
AfterDevice(e, state) ==
  LET rest == Tail(state.todo)
  IN [state EXCEPT !.todo = rest, !.pc = IF rest = <<>> THEN "commit" ELSE "send"]

\* A send that failed for a passing reason retires the token as well.
SendFailsRetiring(e) ==
  /\ fan[e].pc = "send" /\ failures < MaxFailures
  /\ failures' = failures + 1
  /\ Goto(e, [fan[e] EXCEPT !.pc = "retire"])
  /\ UNCHANGED <<device, holder, streams, app, ghosts>>

\* The three outcomes of _send_one.  Firebase also answers INVALID_ARGUMENT to a
\* malformed message, and then a live token is taken for a dead one.
SendAccepted(e) ==
  /\ fan[e].pc = "send" /\ Current(e) \in alive
  /\ Goto(e, AfterDevice(e, fan[e]))
  /\ UNCHANGED <<device, holder, streams, failures, app, ghosts>>
SendRejected(e) ==
  /\ fan[e].pc = "send"
  /\ \/ Current(e) \notin alive /\ UNCHANGED failures
     \/ Current(e) \in alive /\ failures < MaxFailures /\ failures' = failures + 1
  /\ Goto(e, [fan[e] EXCEPT !.pc = "retire"])
  /\ rejected' = rejected \cup {Current(e)}
  /\ UNCHANGED <<device, holder, streams, app, signedOut>>
SendFails(e) ==
  /\ fan[e].pc = "send" /\ failures < MaxFailures
  /\ failures' = failures + 1
  /\ Goto(e, AfterDevice(e, fan[e]))
  /\ UNCHANGED <<device, holder, streams, app, ghosts>>

\* The rows a fan-out's next statement must lock: those of the objects it has
\* changed and not flushed, or the row it retires, if that is still enabled.
Wants(e) ==
  CASE fan[e].pc \in {"retire", "commit"} /\ fan[e].dirty # {} -> fan[e].dirty
    [] fan[e].pc = "retire" /\ fan[e].dirty = {} ->
         {d \in {Current(e)} : device[d].enabled}
    [] OTHER -> {}
CanLock(e, rows) == \A d \in rows : holder[d] \in {Free, e}
Locked(e, rows) == [d \in Devices |-> IF d \in rows THEN e ELSE holder[d]]

\* The session flushes a changed object before the next statement or the commit:
\* UPDATE ... WHERE id, whatever the row has become.
Flush(e) ==
  LET f == fan[e]
  IN /\ f.pc \in {"retire", "commit"} /\ f.dirty # {} /\ CanLock(e, f.dirty)
     /\ holder' = Locked(e, f.dirty)
     /\ Goto(e, [f EXCEPT !.cleared = @ \cup f.dirty, !.dirty = {}])
     /\ UNCHANGED <<device, streams, failures, app, ghosts>>

\* The UPDATE without its `enabled` predicate.
RetireAnyway(e) ==
  LET d == Current(e)
      f == fan[e]
  IN /\ f.pc = "retire" /\ f.dirty = {} /\ CanLock(e, {d})
     /\ holder' = Locked(e, {d})
     /\ Goto(e, AfterDevice(e, [f EXCEPT !.retired = @ \cup {d}, !.dirty = {d}]))
     /\ UNCHANGED <<device, streams, failures, app, ghosts>>

\* Disabling a rejected token: UPDATE ... WHERE enabled, which waits for the row
\* and locks it if it matches; then the object is changed too.
Retire(e) ==
  LET d == Current(e)
      f == fan[e]
  IN /\ f.pc = "retire" /\ f.dirty = {} /\ CanLock(e, Wants(e))
     /\ holder' = Locked(e, Wants(e))
     /\ Goto(e, AfterDevice(e, [f EXCEPT !.retired = @ \cup Wants(e), !.dirty = {d}]))
     /\ UNCHANGED <<device, streams, failures, app, ghosts>>

\* The commit at the end of the fan-out: the rows change for everybody and the
\* locks are released.
Commit(e) ==
  LET f == fan[e]
  IN /\ f.pc = "commit" /\ f.dirty = {}
     /\ device' = [d \in Devices |->
          IF d \in f.retired THEN Row(FALSE, "unregistered")
          ELSE IF d \in f.cleared THEN [device[d] EXCEPT !.enabled = FALSE]
          ELSE device[d]]
     /\ holder' = [d \in Devices |-> IF holder[d] = e THEN Free ELSE holder[d]]
     /\ Done(e)
     /\ UNCHANGED <<streams, failures, app, ghosts>>

\* The process dies, or the database refuses a statement: all is rolled back.
Abort(e) ==
  /\ fan[e].pc \in {"classify", "send", "retire", "commit"} /\ failures < MaxFailures
  /\ failures' = failures + 1
  /\ holder' = [d \in Devices |-> IF holder[d] = e THEN Free ELSE holder[d]]
  /\ Done(e)
  /\ UNCHANGED <<device, streams, app, ghosts>>

\* The devices whose rejection a fan-out has yet to write down.
Condemned(e) ==
  LET f == fan[e]
  IN CASE f.pc \in {"send", "commit"} -> f.dirty \cup f.retired \cup f.cleared
       [] f.pc = "retire" -> f.dirty \cup f.retired \cup f.cleared \cup {Current(e)}
       [] OTHER -> {}

\* POST /admin/device-token: an upsert that enables the row.  The application runs,
\* so the token is alive, and earlier rejections are void, except those that a
\* fan-out is about to write.
Register(d) ==
  /\ appActions < MaxAppActions /\ appActions' = appActions + 1
  /\ holder[d] = Free
  /\ device' = [device EXCEPT ![d] = On] /\ alive' = alive \cup {d}
  /\ signedOut' = signedOut \ {d}
  /\ rejected' = IF \E e \in Events : d \in Condemned(e) THEN rejected ELSE rejected \ {d}
  /\ UNCHANGED <<mode, holder, fan, streams, failures>>

\* DELETE /admin/device-token: UPDATE ... WHERE enabled.
SignOut(d) ==
  /\ appActions < MaxAppActions /\ appActions' = appActions + 1
  /\ holder[d] = Free
  /\ device' = IF device[d].enabled
               THEN [device EXCEPT ![d] = Row(FALSE, "by_device")] ELSE device
  /\ signedOut' = signedOut \cup {d}
  /\ UNCHANGED <<mode, alive, holder, fan, streams, failures, rejected>>

\* An operator hands the conversation back.
ResumeAi ==
  /\ mode = "human" /\ mode' = "bot"
  /\ UNCHANGED <<device, alive, appActions, holder, fan, streams, failures, ghosts>>

\* /ws/events: the limiter, the handshake and the key, which must come in time.
\* A limiter that cannot count lets the client in.
Upgrade(s) ==
  /\ stream[s].pc = "new"
  /\ \/ /\ upgrades < UpgradeLimit /\ upgrades' = upgrades + 1
        /\ stream' = [stream EXCEPT ![s].pc = "authenticate"] /\ UNCHANGED failures
     \/ /\ upgrades >= UpgradeLimit
        /\ stream' = [stream EXCEPT ![s].pc = "refused"] /\ UNCHANGED <<upgrades, failures>>
     \/ /\ failures < MaxFailures /\ failures' = failures + 1
        /\ stream' = [stream EXCEPT ![s].pc = "authenticate"] /\ UNCHANGED upgrades
  /\ UNCHANGED <<device, holder, fan, accepted, app, ghosts>>
Authenticate(s) ==
  /\ stream[s].pc = "authenticate"
  /\ \E keyOk \in BOOLEAN :
       stream' = [stream EXCEPT ![s].pc = IF keyOk THEN "subscribe" ELSE "new"]
  /\ UNCHANGED <<device, holder, fan, upgrades, accepted, failures, app, ghosts>>

\* pubsub.subscribe returns once SUBSCRIBE is written to the socket ...
Subscribe(s) ==
  /\ stream[s].pc = "subscribe"
  /\ stream' = [stream EXCEPT ![s].pc = "greet"]
  /\ UNCHANGED <<device, holder, fan, upgrades, accepted, failures, app, ghosts>>

\* ... "ready" is sent without waiting for its confirmation ...
Ready(s) ==
  /\ stream[s].pc = "greet"
  /\ stream' = [stream EXCEPT ![s].pc = "ready"]
  /\ UNCHANGED <<device, holder, fan, upgrades, accepted, failures, app, ghosts>>

\* ... and Redis processes it when it gets to it.
Subscribed(s) ==
  /\ stream[s].pc \in {"greet", "ready"} /\ ~stream[s].subscribed
  /\ stream' = [stream EXCEPT ![s].subscribed = TRUE, ![s].before = accepted]
  /\ UNCHANGED <<device, holder, fan, upgrades, accepted, failures, app, ghosts>>

\* After a pause only the newest message is relayed.
RelayNewest(s) ==
  /\ stream[s].pc = "ready" /\ stream[s].inbox # <<>>
  /\ stream' = [stream EXCEPT ![s].inbox = <<>>,
                              ![s].seen = Append(@, Last(stream[s].inbox))]
  /\ UNCHANGED <<device, holder, fan, upgrades, accepted, failures, app, ghosts>>

\* One message of the channel is relayed.
Relay(s) ==
  /\ stream[s].pc = "ready" /\ stream[s].inbox # <<>>
  /\ stream' = [stream EXCEPT ![s].inbox = Tail(@),
                              ![s].seen = Append(@, Head(stream[s].inbox))]
  /\ UNCHANGED <<device, holder, fan, upgrades, accepted, failures, app, ghosts>>

\* The client leaves, or the socket or Redis fails: the subscription ends, and
\* the dashboard may connect again.
Close(s) ==
  /\ stream[s].pc \in {"authenticate", "subscribe", "greet", "ready"}
  /\ stream' = [stream EXCEPT ![s] = NoStream]
  /\ UNCHANGED <<device, holder, fan, upgrades, accepted, failures, app, ghosts>>

Next ==
  \/ \E e \in Events :
       \/ Publish(e) \/ Dispatch(e) \/ SendAccepted(e) \/ SendRejected(e) \/ SendFails(e)
       \/ Flush(e) \/ Retire(e) \/ Commit(e) \/ Abort(e)
  \/ \E d \in Devices : Register(d) \/ SignOut(d)
  \/ ResumeAi
  \/ \E s \in Streams :
       \/ Upgrade(s) \/ Authenticate(s) \/ Subscribe(s) \/ Ready(s) \/ Subscribed(s)
       \/ Relay(s) \/ Close(s)

\* A dispatcher that has begun goes on: its steps are plain awaits of one task.
EventStep(e) ==
  \/ Publish(e) \/ Dispatch(e) \/ SendAccepted(e) \/ SendRejected(e)
  \/ Flush(e) \/ Retire(e) \/ Commit(e)
Spec == Init /\ [][Next]_vars
FairSpec == Spec /\ \A e \in Events : WF_vars(EventStep(e))
-----------------------------------------------------------------------------
(* Properties *)

\* Every row, lock, dispatcher and stream keeps its type.
TypeOK ==
  /\ mode \in {"human", "bot"} /\ alive \cup rejected \cup signedOut \subseteq Devices
  /\ device \in [Devices -> [enabled : BOOLEAN,
                             reason : {"none", "unregistered", "by_device"}]]
  /\ holder \in [Devices -> Events \cup {Free}]
  /\ \A e \in Events : fan[e].pc \in {"publish", "classify", "send", "retire",
                                      "commit", "done"}
  /\ \A s \in Streams : stream[s].pc \in {"new", "authenticate", "subscribe",
                                          "greet", "ready", "refused"}
  /\ upgrades \in 0 .. UpgradeLimit
  /\ failures \in 0 .. MaxFailures /\ appActions \in 0 .. MaxAppActions

\* A device stops being notified only for cause: the application asked, or Firebase
\* rejected its token since it last registered, or had done so in a fan-out that was
\* still under way when it registered.  A passing failure retires nothing.
DisabledForCause ==
  \A d \in Devices : ~device[d].enabled => d \in rejected \cup signedOut

\* That somebody signed out is never forgotten behind a late rejection of the
\* token: only a registration ends it.
SignOutIsKept ==
  [][\A d \in Devices :
       device[d].reason = "by_device" /\ device'[d].reason # "by_device" =>
         device'[d].enabled]_vars

\* Fan-outs that wait for each other's locks do not wait in a circle: while one
\* waits, one that holds a lock can go on (enabled_devices, ORDER BY id).
NoCircularWait ==
  (\E e \in Events : ~ CanLock(e, Wants(e))) =>
    \E e \in Events : CanLock(e, Wants(e)) /\ \E d \in Devices : holder[d] = e

\* Fan-outs that retire the same devices wait for each other's locks, but every
\* dispatcher ends.
FanoutsEnd == <>(\A e \in Events : fan[e].pc = "done")

\* From the moment Redis processes a dashboard's SUBSCRIBE, which may be after its
\* "ready", the dashboard is shown every event Redis accepts, in the order of the
\* channel and without a gap, or still has it before it, for as long as it stays
\* connected.
StreamHasNoGap ==
  \A s \in Streams :
    stream[s].subscribed =>
      accepted = stream[s].before \o stream[s].seen \o stream[s].inbox
=============================================================================
