------------------------- MODULE NotificationsProofs -------------------------
(***************************************************************************)
(* Push notifications and the event stream, for any number of events,      *)
(* devices, dashboards and failures: a device is disabled for cause, a     *)
(* sign-out is kept, a dashboard Redis has subscribed is shown the channel *)
(* without a gap, and fan-outs never wait for each other's row locks in a  *)
(* circle.                                                                 *)
(***************************************************************************)
EXTENDS Notifications, FiniteSetTheorems, SequenceTheorems, WellFoundedInduction, TLAPS

-----------------------------------------------------------------------------
(***************************************************************************)
(* The inductive invariant.                                                *)
(***************************************************************************)

\* The record of a fan-out that is under way, field by field.
Working == {"send", "retire", "commit"}
Fields == {"pc", "todo", "dirty", "retired", "cleared"}
IsFanout(f) == f = [k \in Fields |-> f[k]]
StreamStates ==
  [pc : {"new", "authenticate", "subscribe", "greet", "ready", "refused"},
   subscribed : BOOLEAN, before : Seq(Events), seen : Seq(Events),
   inbox : Seq(Events)]
Rows == [enabled : BOOLEAN, reason : {"none", "unregistered", "by_device"}]

StateIsTyped ==
  /\ DOMAIN fan = Events
  /\ \A e \in Events : fan[e].pc \in Working => IsFanout(fan[e])
  /\ device \in [Devices -> Rows]
  /\ DOMAIN holder = Devices
  /\ stream \in [Streams -> StreamStates]
  /\ accepted \in Seq(Events)

\* A fan-out retires and marks only tokens that Firebase has rejected.
RetiredForCause ==
  \A e \in Events : fan[e].pc \in Working =>
    /\ fan[e].retired \cup fan[e].cleared \cup fan[e].dirty \subseteq rejected
    /\ fan[e].pc = "retire" => Current(e) \in rejected

\* Until it commits, the rows a fan-out has written are locked, so a row it has
\* retired is still enabled.
WrittenIsLocked ==
  \A e \in Events : fan[e].pc \in Working =>
    \A d \in Devices :
      /\ d \in fan[e].retired \cup fan[e].cleared => holder[d] = e
      /\ d \in fan[e].retired => device[d].enabled

\* A row that says the device asked is a row that is off.
SignedOutIsOff ==
  \A d \in Devices : device[d].enabled => device[d].reason # "by_device"

\* Redis answers a SUBSCRIBE that was sent, and sends nothing before it.
SubscribedIsAsked ==
  \A s \in Streams :
    /\ stream[s].subscribed => stream[s].pc \in {"greet", "ready"}
    /\ ~ stream[s].subscribed => stream[s].seen = <<>> /\ stream[s].inbox = <<>>

NotificationInvariant ==
  /\ StateIsTyped
  /\ RetiredForCause
  /\ WrittenIsLocked
  /\ SignedOutIsOff
  /\ SubscribedIsAsked
  /\ DisabledForCause
  /\ StreamHasNoGap
-----------------------------------------------------------------------------
(***************************************************************************)
(* Fan-outs and inboxes.                                                   *)
(***************************************************************************)

\* What follows a device in a fan-out: its next device or the commit, with what
\* was marked so far.
LEMMA AfterDeviceIs ==
  ASSUME NEW e, NEW f, IsFanout(f)
  PROVE  /\ AfterDevice(e, f).pc \in {"send", "commit"} /\ IsFanout(AfterDevice(e, f))
         /\ AfterDevice(e, f).dirty = f.dirty /\ AfterDevice(e, f).retired = f.retired
         /\ AfterDevice(e, f).cleared = f.cleared
BY DEF AfterDevice, IsFanout, Fields

\* What Redis appends to the channel reaches an inbox, and what leaves the inbox has
\* been seen: the channel stays what was before, was seen and is in the inbox.
LEMMA ChannelParts ==
  ASSUME NEW b \in Seq(Events), NEW s \in Seq(Events), NEW q \in Seq(Events)
  PROVE  b \o (s \o q) = (b \o s) \o q
BY ConcatAssociative
LEMMA ChannelGrows ==
  ASSUME NEW b \in Seq(Events), NEW s \in Seq(Events), NEW q \in Seq(Events),
         NEW e \in Events
  PROVE  Append(b \o s \o q, e) = b \o s \o Append(q, e)
<1>1. b \o s \in Seq(Events) /\ <<e>> \in Seq(Events)
  BY ConcatProperties
<1>2. b \o s \o q \in Seq(Events)
  BY <1>1, ConcatProperties
<1>3. Append(b \o s \o q, e) = (b \o s \o q) \o <<e>> /\ Append(q, e) = q \o <<e>>
  BY <1>2, AppendIsConcat
<1>4. ((b \o s) \o q) \o <<e>> = (b \o s) \o (q \o <<e>>)
  BY <1>1, ConcatAssociative
<1> QED
  BY <1>3, <1>4
LEMMA ChannelIsSeen ==
  ASSUME NEW b \in Seq(Events), NEW s \in Seq(Events), NEW q \in Seq(Events), q # <<>>
  PROVE  b \o s \o q = b \o Append(s, Head(q)) \o Tail(q)
<1>1. Head(q) \in Events /\ Tail(q) \in Seq(Events) /\ <<Head(q)>> \in Seq(Events)
  BY HeadTailProperties
<1>2. Append(s, Head(q)) \in Seq(Events) /\ Append(s, Head(q)) = s \o <<Head(q)>>
  BY <1>1, AppendIsConcat
<1>3. q = <<Head(q)>> \o Tail(q)
  <2> DEFINE r == <<Head(q)>> \o Tail(q)
  <2>1. r \in Seq(Events) /\ Len(r) = Len(q)
        /\ \A i \in 1 .. Len(q) : r[i] = IF i <= 1 THEN Head(q) ELSE Tail(q)[i - 1]
    <3>1. /\ r \in Seq(Events) /\ Len(r) = 1 + Len(Tail(q))
          /\ \A i \in 1 .. 1 + Len(Tail(q)) :
               r[i] = IF i <= 1 THEN <<Head(q)>>[i] ELSE Tail(q)[i - 1]
      BY <1>1, ConcatProperties
    <3>2. Len(q) \in Nat /\ Len(Tail(q)) = Len(q) - 1
      BY HeadTailProperties
    <3>3. 1 + Len(Tail(q)) = Len(q)
      BY <3>2
    <3>4. ASSUME NEW i \in 1 .. Len(q)
          PROVE  r[i] = IF i <= 1 THEN Head(q) ELSE Tail(q)[i - 1]
      <4>1. CASE i <= 1
        <5>1. i = 1 /\ <<Head(q)>>[1] = Head(q)
          BY <4>1, <3>4
        <5> QED
          BY <3>1, <3>3, <3>4, <4>1, <5>1
      <4>2. CASE ~ i <= 1
        BY <3>1, <3>3, <3>4, <4>2
      <4> QED
        BY <4>1, <4>2
    <3> QED
      BY <3>1, <3>3, <3>4
  <2>2. ASSUME NEW i \in 1 .. Len(q) PROVE q[i] = r[i]
    <3>1. CASE i = 1
      <4>1. r[i] = Head(q)
        BY <2>1, <2>2, <3>1
      <4> QED
        BY <3>1, <4>1
    <3>2. CASE i # 1
      <4>1. r[i] = Tail(q)[i - 1]
        BY <2>1, <2>2, <3>2
      <4>2. i - 1 \in 1 .. Len(Tail(q)) /\ Tail(q)[i - 1] = q[i]
        BY <2>2, <3>2, HeadTailProperties
      <4> QED
        BY <4>1, <4>2
    <3> QED
      BY <3>1, <3>2
  <2> HIDE DEF r
  <2>3. q = r
    BY <2>1, <2>2, SeqEqual
  <2> QED
    BY <2>3 DEF r
<1>4. b \o s \in Seq(Events)
  BY ConcatProperties
<1>5. (b \o s) \o (<<Head(q)>> \o Tail(q)) = ((b \o s) \o <<Head(q)>>) \o Tail(q)
  BY <1>1, <1>4, ChannelParts
<1>6. (b \o s) \o <<Head(q)>> = b \o (s \o <<Head(q)>>)
  BY <1>1, ConcatAssociative
<1> QED
  BY <1>1, <1>2, <1>3, <1>5, <1>6
-----------------------------------------------------------------------------
(***************************************************************************)
(* What a step does to the fan-outs.                                       *)
(***************************************************************************)

\* The steps of one fan-out, and those of the devices and dashboards.
FanoutStep(e) ==
  \/ Publish(e) \/ Dispatch(e) \/ SendAccepted(e) \/ SendRejected(e) \/ SendFails(e)
  \/ Flush(e) \/ Retire(e) \/ Commit(e) \/ Abort(e)
StreamStep(s) ==
  \/ Upgrade(s) \/ Authenticate(s) \/ Subscribe(s) \/ Ready(s) \/ Subscribed(s)
  \/ Relay(s) \/ Close(s)

\* The marks of a fan-out are what they were.
SameMarks(e) ==
  /\ IsFanout(fan'[e]) /\ fan'[e].retired = fan[e].retired
  /\ fan'[e].cleared = fan[e].cleared /\ fan'[e].dirty = fan[e].dirty

\* What Retire marks: the row its UPDATE matched, and its object.  What Flush marks:
\* the rows of the objects.
Hit(e) == IF device[Current(e)].enabled THEN {Current(e)} ELSE {}
Retired(e) ==
  /\ fan[e].pc = "retire" /\ fan[e].dirty = {} /\ CanLock(e, Hit(e))
  /\ holder' = Locked(e, Hit(e))
  /\ IsFanout(fan'[e]) /\ fan'[e].pc \in {"send", "commit"}
  /\ fan'[e].retired = fan[e].retired \cup Hit(e)
  /\ fan'[e].cleared = fan[e].cleared /\ fan'[e].dirty = {Current(e)}
  /\ UNCHANGED <<device, rejected, signedOut>>
Flushed(e) ==
  /\ fan[e].pc \in {"retire", "commit"} /\ CanLock(e, fan[e].dirty)
  /\ holder' = Locked(e, fan[e].dirty)
  /\ IsFanout(fan'[e]) /\ fan'[e].pc = fan[e].pc /\ fan'[e].todo = fan[e].todo
  /\ Current(e)' = Current(e)
  /\ fan'[e].retired = fan[e].retired
  /\ fan'[e].cleared = fan[e].cleared \cup fan[e].dirty /\ fan'[e].dirty = {}
  /\ UNCHANGED <<device, rejected, signedOut>>

LEMMA FanoutMoves ==
  ASSUME StateIsTyped, NEW e \in Events, FanoutStep(e)
  PROVE  /\ DOMAIN fan' = Events
         /\ \A x \in Events \ {e} : fan'[x] = fan[x]
         /\ \/ fan'[e].pc \notin Working /\ rejected' = rejected
            \/ /\ IsFanout(fan'[e]) /\ fan'[e].pc = "send"
               /\ fan'[e].retired \cup fan'[e].cleared \cup fan'[e].dirty = {}
               /\ UNCHANGED <<device, holder, rejected, signedOut>>
            \/ /\ fan[e].pc = "send" /\ SameMarks(e)
               /\ fan'[e].pc \in {"send", "commit"}
               /\ UNCHANGED <<device, holder, rejected, signedOut>>
            \/ /\ fan[e].pc = "send" /\ SameMarks(e)
               /\ fan'[e].pc = "retire" /\ Current(e)' = Current(e)
               /\ rejected' = rejected \cup {Current(e)}
               /\ UNCHANGED <<device, holder, signedOut>>
            \/ Retired(e) \/ Flushed(e)
<1>0. /\ DOMAIN fan = Events
      /\ fan[e].pc \in Working => IsFanout(fan[e])
  BY DEF StateIsTyped
<1>1. \E g : fan' = [fan EXCEPT ![e] = g]
  BY DEF FanoutStep, Publish, Dispatch, SendAccepted, SendRejected, SendFails, Flush,
         Retire, Commit, Abort, Goto, Done
<1>2. DOMAIN fan' = Events /\ \A x \in Events \ {e} : fan'[x] = fan[x]
  BY <1>0, <1>1
<1>3. CASE Publish(e)
  BY <1>0, <1>2, <1>3 DEF Publish, Goto, Working, ghosts
<1>4. CASE Dispatch(e)
  <2>1. CASE Done(e)
    BY <1>0, <1>2, <1>4, <2>1 DEF Dispatch, Done, Goto, Working, ghosts
  <2>2. CASE ~ Done(e)
    <3>1. PICK list : fan'[e] = [pc |-> "send", todo |-> list, dirty |-> {},
                                 retired |-> {}, cleared |-> {}]
      BY <1>0, <1>4, <2>2 DEF Dispatch, Goto
    <3>2. IsFanout(fan'[e])
      BY <3>1 DEF IsFanout, Fields
    <3>3. /\ fan'[e].pc = "send"
          /\ fan'[e].retired \cup fan'[e].cleared \cup fan'[e].dirty = {}
      BY <3>1
    <3> QED
      BY <1>2, <1>4, <3>2, <3>3 DEF Dispatch, ghosts
  <2> QED
    BY <2>1, <2>2
<1>5. CASE SendAccepted(e) \/ SendFails(e)
  <2>1. fan[e].pc = "send" /\ fan'[e] = AfterDevice(e, fan[e]) /\ IsFanout(fan[e])
    BY <1>0, <1>5 DEF SendAccepted, SendFails, Goto, Working
  <2>2. SameMarks(e) /\ fan'[e].pc \in {"send", "commit"}
    BY <2>1, AfterDeviceIs DEF SameMarks
  <2>3. UNCHANGED <<device, holder, rejected, signedOut>>
    BY <1>5 DEF SendAccepted, SendFails, ghosts
  <2> QED
    BY <1>2, <2>1, <2>2, <2>3
<1>6. CASE SendRejected(e)
  <2>1. /\ fan[e].pc = "send" /\ fan'[e] = [fan[e] EXCEPT !.pc = "retire"]
        /\ IsFanout(fan[e])
    BY <1>0, <1>6 DEF SendRejected, Goto, Working
  <2>2. SameMarks(e) /\ fan'[e].pc = "retire" /\ fan'[e].todo = fan[e].todo
    BY <2>1 DEF SameMarks, IsFanout, Fields
  <2>3. Current(e)' = Current(e)
    BY <2>2 DEF Current
  <2> QED
    BY <1>2, <1>6, <2>1, <2>2, <2>3 DEF SendRejected
<1>7. CASE Retire(e)
  <2> DEFINE f == fan[e]
             g == [f EXCEPT !.retired = @ \cup Hit(e), !.dirty = {Current(e)}]
  <2>1. fan[e].pc = "retire" /\ fan[e].dirty = {} /\ IsFanout(f)
    BY <1>0, <1>7 DEF Retire, Working
  <2>2. Wants(e) = Hit(e)
    BY <2>1 DEF Wants, Hit
  <2>3. fan'[e] = AfterDevice(e, g)
    BY <1>0, <1>7, <2>2 DEF Retire, Goto
  <2>4. /\ IsFanout(g) /\ g.retired = f.retired \cup Hit(e)
        /\ g.cleared = f.cleared /\ g.dirty = {Current(e)}
    <3>1. g = [f EXCEPT !.retired = f.retired \cup Hit(e), !.dirty = {Current(e)}]
      BY <2>1 DEF IsFanout, Fields
    <3> HIDE DEF f, g
    <3> QED
      BY <2>1, <3>1 DEF IsFanout, Fields
  <2> HIDE DEF g
  <2>5. /\ IsFanout(fan'[e]) /\ fan'[e].pc \in {"send", "commit"}
        /\ fan'[e].retired = fan[e].retired \cup Hit(e)
        /\ fan'[e].cleared = fan[e].cleared /\ fan'[e].dirty = {Current(e)}
    BY <2>3, <2>4, AfterDeviceIs
  <2>6. /\ CanLock(e, Hit(e)) /\ holder' = Locked(e, Hit(e))
        /\ UNCHANGED <<device, rejected, signedOut>>
    BY <1>7, <2>2 DEF Retire, ghosts
  <2> QED
    BY <1>2, <2>1, <2>5, <2>6 DEF Retired
<1>9. CASE Flush(e)
  <2>1. /\ fan[e].pc \in {"retire", "commit"} /\ CanLock(e, fan[e].dirty)
        /\ holder' = Locked(e, fan[e].dirty) /\ IsFanout(fan[e])
        /\ UNCHANGED <<device, rejected, signedOut>>
    BY <1>0, <1>9 DEF Flush, Working, ghosts
  <2>2. fan'[e] = [fan[e] EXCEPT !.cleared = fan[e].cleared \cup fan[e].dirty, !.dirty = {}]
    BY <1>0, <1>9, <2>1 DEF Flush, Goto, IsFanout, Fields
  <2>3. /\ IsFanout(fan'[e]) /\ fan'[e].pc = fan[e].pc /\ fan'[e].todo = fan[e].todo
        /\ fan'[e].retired = fan[e].retired
        /\ fan'[e].cleared = fan[e].cleared \cup fan[e].dirty /\ fan'[e].dirty = {}
    BY <2>1, <2>2 DEF IsFanout, Fields
  <2>4. Current(e)' = Current(e)
    BY <2>3 DEF Current
  <2> QED
    BY <1>2, <2>1, <2>3, <2>4 DEF Flushed
<1>8. CASE Commit(e) \/ Abort(e)
  <2>1. Done(e) /\ rejected' = rejected
    BY <1>8 DEF Commit, Abort, ghosts
  <2>2. fan'[e].pc = "done"
    BY <1>0, <2>1 DEF Done, Goto
  <2> QED
    BY <1>2, <2>1, <2>2 DEF Working
<1> QED
  BY <1>3, <1>4, <1>5, <1>6, <1>7, <1>8, <1>9 DEF FanoutStep

\* A fan-out that was not moved is at the device where it was.
LEMMA SameDevice ==
  ASSUME NEW x, fan'[x] = fan[x]
  PROVE  Current(x)' = Current(x)
BY DEF Current

\* The steps, as these lemmas group them.
LEMMA NotificationSteps ==
  ASSUME [Next]_vars
  PROVE  \/ \E e \in Events : FanoutStep(e)
         \/ \E d \in Devices : Register(d) \/ SignOut(d)
         \/ ResumeAi \/ UNCHANGED vars
         \/ \E s \in Streams : StreamStep(s)
BY DEF Next, FanoutStep, StreamStep

\* Devices, dashboards and operators leave the fan-outs alone, and the rejections
\* that a fan-out is about to write.
LEMMA OthersLeaveFanouts ==
  ASSUME \/ \E d \in Devices : Register(d) \/ SignOut(d)
         \/ ResumeAi \/ UNCHANGED vars
         \/ \E s \in Streams : StreamStep(s)
  PROVE  /\ UNCHANGED <<fan, holder>>
         /\ \A e \in Events : \A d \in Condemned(e) : d \in rejected => d \in rejected'
         /\ (\A d \in Devices : ~ Register(d)) => UNCHANGED rejected
         /\ (\A d \in Devices : ~ Register(d) /\ ~ SignOut(d)) =>
              UNCHANGED <<device, signedOut>>
<1>1. ASSUME NEW s \in Streams, StreamStep(s)
      PROVE  UNCHANGED <<fan, holder, rejected, device, signedOut>>
  BY <1>1 DEF StreamStep, Upgrade, Authenticate, Subscribe, Ready, Subscribed, Relay, Close,
              ghosts
<1>2. ASSUME NEW d \in Devices, Register(d)
      PROVE  /\ UNCHANGED <<fan, holder>>
             /\ \A e \in Events : \A x \in Condemned(e) : x \in rejected => x \in rejected'
  BY <1>2 DEF Register
<1>3. ASSUME NEW d \in Devices, SignOut(d)
      PROVE  UNCHANGED <<fan, holder, rejected>>
  BY <1>3 DEF SignOut
<1>4. CASE ResumeAi \/ UNCHANGED vars
  BY <1>4 DEF ResumeAi, vars, ghosts
<1> QED
  BY <1>1, <1>2, <1>3, <1>4
-----------------------------------------------------------------------------
(***************************************************************************)
(* The devices.                                                            *)
(***************************************************************************)

\* What a step does to the rows: a fan-out writes them when it commits.
LEMMA RowsMove ==
  ASSUME StateIsTyped, [Next]_vars
  PROVE  \/ UNCHANGED <<device, signedOut>>
         \/ \E e \in Events : Commit(e)
         \/ \E d \in Devices : Register(d) \/ SignOut(d)
<1>1. ASSUME NEW e \in Events, FanoutStep(e)
      PROVE  Commit(e) \/ UNCHANGED <<device, signedOut>>
  BY <1>1 DEF FanoutStep, Publish, Dispatch, SendAccepted, SendRejected, SendFails,
              Flush, Retire, Abort, ghosts
<1> QED
  BY <1>1, NotificationSteps, OthersLeaveFanouts

LEMMA RowsTyped ==
  ASSUME StateIsTyped, [Next]_vars
  PROVE  device' \in [Devices -> Rows]
<1>0. device \in [Devices -> Rows]
  BY DEF StateIsTyped
<1>1. /\ On \in Rows /\ Row(FALSE, "unregistered") \in Rows
      /\ Row(FALSE, "by_device") \in Rows
      /\ \A r \in Rows : [r EXCEPT !.enabled = FALSE] \in Rows
  BY DEF On, Row, Rows
<1>2. ASSUME NEW e \in Events, Commit(e) PROVE device' \in [Devices -> Rows]
  BY <1>0, <1>1, <1>2 DEF Commit
<1>3. ASSUME NEW d \in Devices, Register(d) \/ SignOut(d)
      PROVE  device' \in [Devices -> Rows]
  BY <1>0, <1>1, <1>3 DEF Register, SignOut
<1> QED
  BY <1>0, <1>2, <1>3, RowsMove

\* The locks of a step: a fan-out takes rows that are free, or lets its own go.
LEMMA LocksMove ==
  ASSUME StateIsTyped, NEW e \in Events, FanoutStep(e)
  PROVE  /\ DOMAIN holder' = Devices
         /\ \A x \in Events \ {e} : \A d \in Devices : holder[d] = x => holder'[d] = x
<1>0. DOMAIN holder = Devices /\ Free \notin Events
  BY NotificationsAssumption DEF StateIsTyped, Free
<1>1. CASE Flush(e) \/ Retire(e)
  <2>1. PICK rows : CanLock(e, rows) /\ holder' = Locked(e, rows)
    BY <1>1 DEF Flush, Retire
  <2> QED
    BY <1>0, <2>1 DEF CanLock, Locked
<1>2. CASE Commit(e) \/ Abort(e)
  BY <1>0, <1>2 DEF Commit, Abort
<1>3. CASE holder' = holder
  BY <1>0, <1>3
<1> QED
  BY <1>1, <1>2, <1>3
  DEF FanoutStep, Publish, Dispatch, SendAccepted, SendRejected, SendFails

LEMMA CauseStep ==
  ASSUME StateIsTyped, RetiredForCause, DisabledForCause, [Next]_vars
  PROVE  RetiredForCause' /\ DisabledForCause'
<1>1. ASSUME NEW e \in Events, FanoutStep(e) PROVE RetiredForCause'
  <2>1. rejected \subseteq rejected'
    BY <1>1, FanoutMoves DEF Retired, Flushed
  <2>2. ASSUME NEW x \in Events \ {e}, fan'[x].pc \in Working
        PROVE  /\ fan'[x].retired \cup fan'[x].cleared \cup fan'[x].dirty \subseteq rejected'
               /\ fan'[x].pc = "retire" => Current(x)' \in rejected'
    <3>1. fan'[x] = fan[x] /\ Current(x)' = Current(x)
      BY <1>1, FanoutMoves, SameDevice
    <3> QED
      BY <2>1, <2>2, <3>1 DEF RetiredForCause
  <2>3. ASSUME fan'[e].pc \in Working
        PROVE  /\ fan'[e].retired \cup fan'[e].cleared \cup fan'[e].dirty \subseteq rejected'
               /\ fan'[e].pc = "retire" => Current(e)' \in rejected'
    <3>1. CASE fan'[e].retired \cup fan'[e].cleared \cup fan'[e].dirty = {}
               /\ fan'[e].pc = "send"
      BY <3>1
    <3>2. CASE fan[e].pc = "send" /\ SameMarks(e)
      <4>1. fan[e].retired \cup fan[e].cleared \cup fan[e].dirty \subseteq rejected
        BY <3>2 DEF RetiredForCause, Working
      <4>2. fan'[e].pc = "retire" =>
              Current(e)' = Current(e) /\ rejected' = rejected \cup {Current(e)}
        BY <1>1, <2>3, <3>2, FanoutMoves DEF Retired, Flushed
      <4> QED
        BY <2>1, <3>2, <4>1, <4>2 DEF SameMarks
    <3>3. CASE Retired(e)
      BY <2>1, <3>3 DEF RetiredForCause, Retired, Hit, Working
    <3>4. CASE Flushed(e)
      BY <2>1, <3>4 DEF RetiredForCause, Flushed, Working
    <3> QED
      BY <1>1, <2>3, <3>1, <3>2, <3>3, <3>4, FanoutMoves
  <2> QED
    BY <2>2, <2>3 DEF RetiredForCause
<1>2. RetiredForCause'
  <2>1. ASSUME fan' = fan,
               \A e \in Events : \A d \in Condemned(e) : d \in rejected => d \in rejected'
        PROVE  RetiredForCause'
    <3> SUFFICES ASSUME NEW e \in Events, fan[e].pc \in Working
                 PROVE  /\ fan[e].retired \cup fan[e].cleared \cup fan[e].dirty \subseteq rejected'
                        /\ fan[e].pc = "retire" => Current(e) \in rejected'
      BY <2>1, SameDevice DEF RetiredForCause
    <3>1. /\ fan[e].retired \cup fan[e].cleared \cup fan[e].dirty \subseteq Condemned(e)
          /\ fan[e].pc = "retire" => Current(e) \in Condemned(e)
      BY DEF Condemned, Working
    <3> QED
      BY <2>1, <3>1 DEF RetiredForCause
  <2> QED
    BY <1>1, <2>1, NotificationSteps, OthersLeaveFanouts
<1>3. rejected \subseteq rejected' \/ \E d \in Devices : Register(d)
  <2>1. ASSUME NEW e \in Events, FanoutStep(e) PROVE rejected \subseteq rejected'
    BY <2>1, FanoutMoves DEF Retired, Flushed
  <2> QED
    BY <2>1, NotificationSteps, OthersLeaveFanouts
<1>0. device \in [Devices -> Rows]
  BY DEF StateIsTyped
<1>4. ASSUME NEW e \in Events, Commit(e) PROVE DisabledForCause'
  <2>1. fan[e].retired \cup fan[e].cleared \cup fan[e].dirty \subseteq rejected
    BY <1>4 DEF Commit, RetiredForCause, Working
  <2>2. signedOut' = signedOut /\ rejected' = rejected
    BY <1>4 DEF Commit, ghosts
  <2>3. \A d \in Devices :
          d \in fan[e].retired \cup fan[e].cleared \cup fan[e].dirty
          \/ device'[d] = device[d]
    BY <1>4 DEF Commit
  <2> QED
    BY <2>1, <2>2, <2>3 DEF DisabledForCause
<1>5. ASSUME NEW d \in Devices, Register(d) PROVE DisabledForCause'
  <2>1. device'[d].enabled /\ \A x \in Devices \ {d} : device'[x] = device[x]
    BY <1>0, <1>5 DEF Register, On, Row
  <2>2. signedOut' = signedOut \ {d} /\ rejected \ {d} \subseteq rejected'
    BY <1>5 DEF Register
  <2> QED
    BY <2>1, <2>2 DEF DisabledForCause
<1>6. ASSUME NEW d \in Devices, SignOut(d) PROVE DisabledForCause'
  <2>1. \A x \in Devices \ {d} : device'[x] = device[x]
    BY <1>0, <1>6 DEF SignOut
  <2>2. signedOut' = signedOut \cup {d} /\ rejected' = rejected
    BY <1>6 DEF SignOut
  <2> QED
    BY <2>1, <2>2 DEF DisabledForCause
<1>7. CASE UNCHANGED <<device, signedOut>>
  <2>1. CASE \E d \in Devices : Register(d)
    BY <1>2, <1>5, <2>1
  <2>2. CASE rejected \subseteq rejected'
    BY <1>2, <1>7, <2>2 DEF DisabledForCause
  <2> QED
    BY <1>3, <2>1, <2>2
<1> QED
  BY <1>2, <1>4, <1>5, <1>6, <1>7, RowsMove

LEMMA LockStep ==
  ASSUME StateIsTyped, WrittenIsLocked, [Next]_vars
  PROVE  WrittenIsLocked'
<1>0. /\ device \in [Devices -> Rows] /\ DOMAIN holder = Devices /\ Free \notin Events
  BY NotificationsAssumption DEF StateIsTyped, Free
<1>1. ASSUME NEW e \in Events, FanoutStep(e) PROVE WrittenIsLocked'
  <2>1. ASSUME NEW x \in Events \ {e}, fan'[x].pc \in Working, NEW d \in Devices
        PROVE  /\ d \in fan'[x].retired \cup fan'[x].cleared => holder'[d] = x
               /\ d \in fan'[x].retired => device'[d].enabled
    <3>1. fan'[x] = fan[x]
      BY <1>1, FanoutMoves
    <3>2. d \in fan[x].retired \cup fan[x].cleared => holder[d] = x /\ holder'[d] = x
      BY <1>1, <2>1, <3>1, LocksMove DEF WrittenIsLocked
    <3>3. ASSUME Commit(e), holder[d] = x PROVE device'[d] = device[d]
      <4>1. fan[e].pc = "commit"
        BY <3>3 DEF Commit
      <4>2. d \notin fan[e].retired \cup fan[e].cleared
        BY <3>3, <4>1 DEF WrittenIsLocked, Working
      <4> QED
        BY <3>3, <4>2 DEF Commit
    <3>4. Commit(e) \/ device' = device
      BY <1>1 DEF FanoutStep, Publish, Dispatch, SendAccepted, SendRejected, SendFails,
                  Flush, Retire, Abort
    <3>5. d \in fan[x].retired => device[d].enabled
      BY <2>1, <3>1 DEF WrittenIsLocked
    <3> QED
      BY <3>1, <3>2, <3>3, <3>4, <3>5
  <2>2. ASSUME fan'[e].pc \in Working, NEW d \in Devices
        PROVE  /\ d \in fan'[e].retired \cup fan'[e].cleared => holder'[d] = e
               /\ d \in fan'[e].retired => device'[d].enabled
    <3>1. CASE fan'[e].retired \cup fan'[e].cleared \cup fan'[e].dirty = {}
      BY <3>1
    <3>2. CASE fan[e].pc = "send" /\ SameMarks(e) /\ UNCHANGED <<device, holder>>
      BY <3>2 DEF SameMarks, WrittenIsLocked, Working
    <3>3. CASE Retired(e)
      <4>1. /\ d \in fan[e].retired \cup fan[e].cleared => holder[d] = e
            /\ d \in fan[e].retired => device[d].enabled
        BY <3>3 DEF Retired, WrittenIsLocked, Working
      <4>2. d \in Hit(e) => device[d].enabled
        BY DEF Hit
      <4>3. holder'[d] = IF d \in Hit(e) THEN e ELSE holder[d]
        BY <3>3 DEF Retired, Locked
      <4> QED
        BY <3>3, <4>1, <4>2, <4>3 DEF Retired
    <3>4. CASE Flushed(e)
      <4>1. /\ d \in fan[e].retired \cup fan[e].cleared => holder[d] = e
            /\ d \in fan[e].retired => device[d].enabled
        BY <3>4 DEF Flushed, WrittenIsLocked, Working
      <4>2. holder'[d] = IF d \in fan[e].dirty THEN e ELSE holder[d]
        BY <3>4 DEF Flushed, Locked
      <4> QED
        BY <3>4, <4>1, <4>2 DEF Flushed
    <3> QED
      BY <1>1, <2>2, <3>1, <3>2, <3>3, <3>4, FanoutMoves
  <2> QED
    BY <2>1, <2>2 DEF WrittenIsLocked
<1>2. ASSUME NEW d \in Devices, Register(d) \/ SignOut(d) PROVE WrittenIsLocked'
  <2>1. holder[d] = Free /\ UNCHANGED <<holder, fan>>
    BY <1>2 DEF Register, SignOut
  <2>2. \A x \in Devices \ {d} : device'[x] = device[x]
    BY <1>0, <1>2 DEF Register, SignOut
  <2> QED
    BY <1>0, <2>1, <2>2 DEF WrittenIsLocked
<1>3. CASE UNCHANGED <<fan, holder, device>>
  BY <1>3 DEF WrittenIsLocked
<1> QED
  BY <1>1, <1>2, <1>3, NotificationSteps, OthersLeaveFanouts

\* A row that a step changes is off, or is enabled anew.
LEMMA SignOutStep ==
  ASSUME StateIsTyped, SignedOutIsOff, WrittenIsLocked, [Next]_vars
  PROVE  /\ SignedOutIsOff'
         /\ \A d \in Devices :
              device[d].reason = "by_device" /\ device'[d].reason # "by_device" =>
                device'[d].enabled
<1>0. device \in [Devices -> Rows]
  BY DEF StateIsTyped
<1>1. ASSUME NEW e \in Events, Commit(e), NEW d \in Devices
      PROVE  /\ device'[d].enabled => device'[d].reason # "by_device"
             /\ device[d].reason = "by_device" => device'[d].reason = "by_device"
  <2>1. d \in fan[e].retired => device[d].enabled
    BY <1>1 DEF Commit, WrittenIsLocked, Working
  <2>2. CASE d \in fan[e].retired
    <3>1. device'[d] = Row(FALSE, "unregistered") /\ device[d].reason # "by_device"
      BY <1>1, <2>1, <2>2 DEF Commit, SignedOutIsOff
    <3> QED
      BY <3>1 DEF Row
  <2>3. CASE d \notin fan[e].retired
    <3>1. device'[d] = device[d] \/ device'[d] = [device[d] EXCEPT !.enabled = FALSE]
      BY <1>1, <2>3 DEF Commit
    <3>2. device[d] \in Rows
      BY <1>0
    <3>3. /\ [device[d] EXCEPT !.enabled = FALSE].enabled = FALSE
          /\ [device[d] EXCEPT !.enabled = FALSE].reason = device[d].reason
      BY <3>2 DEF Rows
    <3> QED
      BY <3>1, <3>3 DEF SignedOutIsOff
  <2> QED
    BY <2>2, <2>3
<1>2. ASSUME NEW d \in Devices, Register(d), NEW x \in Devices
      PROVE  \/ device'[x] = device[x]
             \/ device'[x].enabled /\ device'[x].reason # "by_device"
  BY <1>0, <1>2 DEF Register, On, Row
<1>3. ASSUME NEW d \in Devices, SignOut(d), NEW x \in Devices
      PROVE  \/ device'[x] = device[x]
             \/ device'[x].reason = "by_device" /\ ~ device'[x].enabled
  BY <1>0, <1>3 DEF SignOut, Row
<1>4. CASE UNCHANGED device
  BY <1>4 DEF SignedOutIsOff
<1> QED
  BY <1>1, <1>2, <1>3, <1>4, RowsMove DEF SignedOutIsOff
-----------------------------------------------------------------------------
(***************************************************************************)
(* The dashboards.                                                         *)
(***************************************************************************)


\* What makes one dashboard right while Redis has taken the events acc: its type,
\* the subscription before the first message, and no gap.
StreamIsRight(t, acc) ==
  /\ t \in StreamStates
  /\ t.subscribed => t.pc \in {"greet", "ready"}
  /\ ~ t.subscribed => t.seen = <<>> /\ t.inbox = <<>>
  /\ t.subscribed => acc = t.before \o t.seen \o t.inbox

\* A dashboard's own step to another stage.
LEMMA StageIsRight ==
  ASSUME NEW acc, NEW t, StreamIsRight(t, acc),
         NEW stage \in {"new", "authenticate", "subscribe", "greet", "ready", "refused"},
         ~ t.subscribed \/ stage \in {"greet", "ready"}
  PROVE  StreamIsRight([t EXCEPT !.pc = stage], acc)
<1> DEFINE u == [t EXCEPT !.pc = stage]
<1>1. u \in StreamStates
  BY DEF StreamIsRight, StreamStates
<1>2. /\ u.pc = stage /\ u.subscribed = t.subscribed /\ u.before = t.before
      /\ u.seen = t.seen /\ u.inbox = t.inbox
  BY DEF StreamIsRight, StreamStates
<1> HIDE DEF u
<1>3. StreamIsRight(u, acc)
  BY <1>1, <1>2 DEF StreamIsRight
<1> QED
  BY <1>3 DEF u

\* Redis processes a SUBSCRIBE.
LEMMA SubscribedIsRight ==
  ASSUME NEW acc \in Seq(Events), NEW t, StreamIsRight(t, acc), t.pc \in {"greet", "ready"},
         ~ t.subscribed
  PROVE  StreamIsRight([t EXCEPT !.subscribed = TRUE, !.before = acc], acc)
<1> DEFINE u == [t EXCEPT !.subscribed = TRUE, !.before = acc]
<1>1. u \in StreamStates
  BY DEF StreamIsRight, StreamStates
<1>2. /\ u.pc = t.pc /\ u.subscribed = TRUE /\ u.before = acc /\ u.seen = <<>>
      /\ u.inbox = <<>>
  BY DEF StreamIsRight, StreamStates
<1> HIDE DEF u
<1>3. acc \o <<>> \o <<>> = acc
  BY ConcatEmptySeq
<1>4. StreamIsRight(u, acc)
  BY <1>1, <1>2, <1>3 DEF StreamIsRight
<1> QED
  BY <1>4 DEF u

\* Redis takes an event, for a dashboard that is subscribed.
LEMMA PublishedIsRight ==
  ASSUME NEW acc \in Seq(Events), NEW t, StreamIsRight(t, acc), NEW e \in Events
  PROVE  StreamIsRight([t EXCEPT !.inbox = IF t.subscribed THEN Append(@, e) ELSE @],
                       Append(acc, e))
<1> DEFINE inbox == IF t.subscribed THEN Append(t.inbox, e) ELSE t.inbox
           u == [t EXCEPT !.inbox = inbox]
<1>0. /\ t.before \in Seq(Events) /\ t.seen \in Seq(Events) /\ t.inbox \in Seq(Events)
      /\ t \in StreamStates
  BY DEF StreamIsRight, StreamStates
<1>1. inbox \in Seq(Events)
  BY <1>0
<1>2. t.subscribed => Append(acc, e) = t.before \o t.seen \o inbox
  <2> SUFFICES ASSUME t.subscribed
               PROVE  Append(acc, e) = t.before \o t.seen \o Append(t.inbox, e)
    OBVIOUS
  <2>1. acc = t.before \o t.seen \o t.inbox
    BY DEF StreamIsRight
  <2>2. Append(t.before \o t.seen \o t.inbox, e) = t.before \o t.seen \o Append(t.inbox, e)
    <3>1. PICK b \in Seq(Events), r \in Seq(Events), q \in Seq(Events) :
            b = t.before /\ r = t.seen /\ q = t.inbox
      BY <1>0
    <3>2. Append(b \o r \o q, e) = b \o r \o Append(q, e)
      BY ChannelGrows, ZenonT(60)
    <3> QED
      BY <3>1, <3>2
  <2> QED
    BY <2>1, <2>2
<1>3. ~ t.subscribed => inbox = <<>>
  BY DEF StreamIsRight
<1> HIDE DEF inbox
<1>4. u \in StreamStates
  BY <1>0, <1>1 DEF StreamStates
<1>5. /\ u.pc = t.pc /\ u.subscribed = t.subscribed /\ u.before = t.before
      /\ u.seen = t.seen /\ u.inbox = inbox
  BY <1>0 DEF StreamStates
<1> HIDE DEF u
<1>6. StreamIsRight(u, Append(acc, e))
  BY <1>2, <1>3, <1>4, <1>5 DEF StreamIsRight
<1>7. [t EXCEPT !.inbox = IF t.subscribed THEN Append(@, e) ELSE @] = u
  BY <1>0 DEF StreamStates, inbox, u
<1> QED
  BY <1>6, <1>7

\* A dashboard is shown the head of its inbox.
LEMMA RelayedIsRight ==
  ASSUME NEW acc, NEW t, StreamIsRight(t, acc), t.inbox # <<>>
  PROVE  StreamIsRight([t EXCEPT !.inbox = Tail(t.inbox),
                                 !.seen = Append(t.seen, Head(t.inbox))], acc)
<1> DEFINE inbox == Tail(t.inbox)
           seen == Append(t.seen, Head(t.inbox))
           u == [t EXCEPT !.inbox = inbox, !.seen = seen]
<1>0. /\ t.before \in Seq(Events) /\ t.seen \in Seq(Events) /\ t.inbox \in Seq(Events)
      /\ t \in StreamStates /\ t.subscribed
  BY DEF StreamIsRight, StreamStates
<1>1. /\ seen \in Seq(Events) /\ inbox \in Seq(Events)
      /\ t.before \o t.seen \o t.inbox = t.before \o seen \o inbox
  <2>1. PICK b \in Seq(Events), r \in Seq(Events), q \in Seq(Events) :
          b = t.before /\ r = t.seen /\ q = t.inbox /\ q # <<>>
    BY <1>0
  <2>2. q # <<>> /\ Append(r, Head(q)) \in Seq(Events) /\ Tail(q) \in Seq(Events)
    BY <2>1, HeadTailProperties
  <2>3. b \o r \o q = b \o Append(r, Head(q)) \o Tail(q)
    BY <2>2, ChannelIsSeen, ZenonT(60)
  <2> QED
    BY <2>1, <2>2, <2>3
<1> HIDE DEF inbox, seen
<1>2. u \in StreamStates
  BY <1>0, <1>1 DEF StreamStates
<1>3. /\ u.pc = t.pc /\ u.subscribed = t.subscribed /\ u.before = t.before
      /\ u.seen = seen /\ u.inbox = inbox
  BY <1>0 DEF StreamStates
<1> HIDE DEF u
<1>4. StreamIsRight(u, acc)
  BY <1>0, <1>1, <1>2, <1>3 DEF StreamIsRight
<1> QED
  BY <1>4 DEF u, inbox, seen

\* A dashboard that is not connected.
LEMMA NoStreamIsRight == ASSUME NEW acc PROVE StreamIsRight(NoStream, acc)
<1>1. NoStream \in StreamStates
  BY EmptySeq DEF StreamStates, NoStream
<1> QED
  BY <1>1 DEF StreamIsRight, NoStream

\* Every dashboard stays right, whoever takes the step.
LEMMA StreamsStep ==
  ASSUME StateIsTyped, SubscribedIsAsked, StreamHasNoGap, [Next]_vars
  PROVE  /\ stream' \in [Streams -> StreamStates] /\ accepted' \in Seq(Events)
         /\ SubscribedIsAsked' /\ StreamHasNoGap'
<1>0. /\ stream \in [Streams -> StreamStates] /\ accepted \in Seq(Events)
      /\ \A s \in Streams : StreamIsRight(stream[s], accepted)
  BY DEF StateIsTyped, SubscribedIsAsked, StreamHasNoGap, StreamIsRight
<1>1. ASSUME stream' = [s \in Streams |-> stream'[s]], accepted' \in Seq(Events),
             \A s \in Streams : StreamIsRight(stream'[s], accepted')
      PROVE  /\ stream' \in [Streams -> StreamStates] /\ accepted' \in Seq(Events)
             /\ SubscribedIsAsked' /\ StreamHasNoGap'
  <2>1. \A s \in Streams : stream'[s] \in StreamStates
    BY <1>1 DEF StreamIsRight
  <2>2. stream' \in [Streams -> StreamStates]
    BY <1>1, <2>1
  <2> QED
    BY <1>1, <2>2 DEF StreamIsRight, SubscribedIsAsked, StreamHasNoGap
<1>2. ASSUME NEW s \in Streams, NEW u, StreamIsRight(u, accepted), accepted' = accepted,
             stream' = [stream EXCEPT ![s] = u]
      PROVE  /\ stream' = [x \in Streams |-> stream'[x]] /\ accepted' \in Seq(Events)
             /\ \A x \in Streams : StreamIsRight(stream'[x], accepted')
  BY <1>0, <1>2
<1>3. ASSUME NEW s \in Streams, StreamStep(s)
      PROVE  /\ accepted' = accepted
             /\ \E u : StreamIsRight(u, accepted) /\ stream' = [stream EXCEPT ![s] = u]
  <2> DEFINE t == stream[s]
  <2>0. StreamIsRight(t, accepted) /\ accepted' = accepted
    BY <1>0, <1>3 DEF StreamStep, Upgrade, Authenticate, Subscribe, Ready, Subscribed, Relay,
                      Close
  <2>1. CASE Upgrade(s)
    <3>1. PICK stage \in {"authenticate", "refused"} :
            t.pc = "new" /\ stream' = [stream EXCEPT ![s] = [t EXCEPT !.pc = stage]]
      BY <2>1 DEF Upgrade
    <3>2. ~ t.subscribed
      BY <2>0, <3>1 DEF StreamIsRight
    <3> QED
      BY <2>0, <3>1, <3>2, StageIsRight
  <2>2. CASE Authenticate(s)
    <3>1. PICK stage \in {"subscribe", "new"} :
            t.pc = "authenticate" /\ stream' = [stream EXCEPT ![s] = [t EXCEPT !.pc = stage]]
      BY <2>2 DEF Authenticate
    <3>2. ~ t.subscribed
      BY <2>0, <3>1 DEF StreamIsRight
    <3> QED
      BY <2>0, <3>1, <3>2, StageIsRight
  <2>3. CASE Subscribe(s)
    <3>1. stream' = [stream EXCEPT ![s] = [t EXCEPT !.pc = "greet"]]
      BY <2>3 DEF Subscribe
    <3> QED
      BY <2>0, <3>1, StageIsRight
  <2>4. CASE Ready(s)
    <3>1. stream' = [stream EXCEPT ![s] = [t EXCEPT !.pc = "ready"]]
      BY <2>4 DEF Ready
    <3> QED
      BY <2>0, <3>1, StageIsRight
  <2>5. CASE Subscribed(s)
    <3>1. /\ t.pc \in {"greet", "ready"} /\ ~ t.subscribed
          /\ stream' = [stream EXCEPT ![s] = [t EXCEPT !.subscribed = TRUE, !.before = accepted]]
      BY <1>0, <2>5 DEF Subscribed
    <3> QED
      BY <1>0, <2>0, <3>1, SubscribedIsRight
  <2>6. CASE Relay(s)
    <3>1. /\ t.inbox # <<>>
          /\ stream' = [stream EXCEPT ![s] =
               [t EXCEPT !.inbox = Tail(t.inbox), !.seen = Append(t.seen, Head(t.inbox))]]
      BY <1>0, <2>6 DEF Relay, StreamStates
    <3> QED
      BY <2>0, <3>1, RelayedIsRight
  <2>7. CASE Close(s)
    BY <2>0, <2>7, NoStreamIsRight DEF Close
  <2> QED
    BY <1>3, <2>0, <2>1, <2>2, <2>3, <2>4, <2>5, <2>6, <2>7 DEF StreamStep
<1>4. ASSUME NEW e \in Events, Publish(e), UNCHANGED <<stream, accepted>> => FALSE
      PROVE  /\ stream' = [x \in Streams |-> stream'[x]] /\ accepted' \in Seq(Events)
             /\ \A x \in Streams : StreamIsRight(stream'[x], accepted')
  <2>1. /\ stream' = [s \in Streams |-> [stream[s] EXCEPT
             !.inbox = IF stream[s].subscribed THEN Append(@, e) ELSE @]]
        /\ accepted' = Append(accepted, e)
    BY <1>4 DEF Publish
  <2>2. \A s \in Streams : StreamIsRight([stream[s] EXCEPT
             !.inbox = IF stream[s].subscribed THEN Append(@, e) ELSE @], Append(accepted, e))
    BY <1>0, PublishedIsRight
  <2>3. accepted' \in Seq(Events)
    BY <1>0, <2>1
  <2>4. ASSUME NEW x \in Streams PROVE StreamIsRight(stream'[x], accepted')
    <3>1. stream'[x] = [stream[x] EXCEPT
             !.inbox = IF stream[x].subscribed THEN Append(@, e) ELSE @]
      BY <2>1
    <3> QED
      BY <2>1, <2>2, <3>1
  <2> QED
    BY <2>1, <2>3, <2>4
<1>5. CASE UNCHANGED <<stream, accepted>>
  BY <1>5 DEF StateIsTyped, SubscribedIsAsked, StreamHasNoGap
<1>6. ASSUME NEW e \in Events, FanoutStep(e), ~ Publish(e)
      PROVE  UNCHANGED <<stream, accepted>>
  BY <1>6 DEF FanoutStep, Dispatch, SendAccepted, SendRejected, SendFails, Flush, Retire,
              Commit, Abort, streams
<1>7. ASSUME \/ \E d \in Devices : Register(d) \/ SignOut(d)
             \/ ResumeAi \/ UNCHANGED vars
      PROVE  UNCHANGED <<stream, accepted>>
  BY <1>7 DEF Register, SignOut, ResumeAi, vars, streams
<1> QED
  BY <1>1, <1>2, <1>3, <1>4, <1>5, <1>6, <1>7, NotificationSteps
-----------------------------------------------------------------------------
(***************************************************************************)
(* The order of the locks.                                                 *)
(***************************************************************************)

\* A list of devices in the order of their ids.
IsList(list) ==
  /\ list \in Seq(Devices)
  /\ \A i, j \in DOMAIN list : i < j => list[i] < list[j]

\* A fan-out that is under way has its devices before it in that order, behind the
\* object it has changed and not flushed; what it has locked is behind both.  One
\* that is not holds no lock.
InOrder(e, f, h) ==
  /\ f.pc \in {"publish", "classify", "send", "retire", "commit", "done"}
  /\ f.pc \notin Working => \A d \in Devices : h[d] # e
  /\ f.pc \in Working =>
       /\ IsList(f.todo) /\ (f.pc = "commit" <=> f.todo = <<>>)
       /\ f.dirty \in SUBSET Devices /\ \A x, y \in f.dirty : x = y
       /\ \A x \in f.dirty : \A i \in DOMAIN f.todo : x < f.todo[i]
       /\ \A d \in Devices : h[d] = e => /\ \A x \in f.dirty : d <= x
                                        /\ \A i \in DOMAIN f.todo : d < f.todo[i]

FanoutsInOrder ==
  /\ holder \in [Devices -> Events \cup {Free}]
  /\ \A e \in Events : InOrder(e, fan[e], holder)

\* Ids are numbers.
LEMMA DevicesAreNat == IsFiniteSet(Devices) /\ Devices \subseteq Nat
<1>1. IsFiniteSet(Devices) /\ Devices = 1 .. Cardinality(Devices)
  BY NotificationsAssumption
<1>2. Cardinality(Devices) \in Nat
  BY <1>1, FS_CardinalityType
<1>3. PICK n \in Nat : n = Cardinality(Devices)
  BY <1>2
<1>4. Devices = 1 .. n
  BY <1>1, <1>3
<1> QED
  BY <1>1, <1>4

\* The enabled devices come as a list.
LEMMA EnabledAreListed ==
  ASSUME NEW list \in EnabledDevices
  PROVE  IsList(list)
<1>1. PICK S : S = {d \in Devices : device[d].enabled}
  OBVIOUS
<1>2. IsFiniteSet(S) /\ S \subseteq Devices
  BY <1>1, DevicesAreNat, FS_Subset
<1>3. Cardinality(S) \in Nat
  BY <1>2, FS_CardinalityType
<1>4. PICK n \in Nat : n = Cardinality(S)
  BY <1>3
<1>5. list \in [1 .. n -> S] /\ \A i, j \in DOMAIN list : i < j => list[i] < list[j]
  BY <1>1, <1>4 DEF EnabledDevices, SetToSeqs
<1>6. list \in Seq(Devices)
  BY <1>2, <1>5
<1> QED
  BY <1>5, <1>6 DEF IsList

\* The rest of a list is a list, and behind its head.
LEMMA RestIsListed ==
  ASSUME NEW list, IsList(list), list # <<>>
  PROVE  /\ IsList(Tail(list)) /\ Head(list) \in Devices
         /\ \A i \in DOMAIN Tail(list) : Head(list) < Tail(list)[i]
<1>1. list \in Seq(Devices) /\ \A i, j \in DOMAIN list : i < j => list[i] < list[j]
  BY DEF IsList
<1>2. Tail(list) \in Seq(Devices) /\ Head(list) = list[1] /\ Head(list) \in Devices
      /\ Len(list) \in Nat /\ DOMAIN list = 1 .. Len(list) /\ Len(list) # 0
  BY <1>1
<1>3. \A i \in DOMAIN Tail(list) : /\ Tail(list)[i] = list[i + 1] /\ i \in Nat /\ i >= 1
                                   /\ i + 1 \in DOMAIN list
  BY <1>1, <1>2
<1>4. 1 \in DOMAIN list
  BY <1>2
<1>5. \A i \in DOMAIN Tail(list) : list[1] < list[i + 1]
  BY <1>1, <1>3, <1>4
<1>6. \A i, j \in DOMAIN Tail(list) : i < j => list[i + 1] < list[j + 1]
  BY <1>1, <1>3
<1> QED
  BY <1>2, <1>3, <1>5, <1>6 DEF IsList

\* After a device, a fan-out with the marks f and the locks h is in order.
LEMMA NextInOrder ==
  ASSUME NEW e \in Events, NEW f, IsFanout(f), IsList(f.todo), f.todo # <<>>,
         f.dirty \in SUBSET Devices, \A x, y \in f.dirty : x = y,
         \A x \in f.dirty : \A i \in DOMAIN Tail(f.todo) : x < Tail(f.todo)[i],
         NEW h, \A d \in Devices : h[d] = e =>
                  /\ \A x \in f.dirty : d <= x
                  /\ \A i \in DOMAIN Tail(f.todo) : d < Tail(f.todo)[i]
  PROVE  InOrder(e, AfterDevice(e, f), h)
<1>1. PICK g : g = AfterDevice(e, f)
  OBVIOUS
<1>2. /\ g.todo = Tail(f.todo) /\ g.dirty = f.dirty
      /\ g.pc = IF g.todo = <<>> THEN "commit" ELSE "send"
  BY <1>1 DEF AfterDevice, IsFanout, Fields
<1>3. IsList(g.todo)
  BY <1>2, RestIsListed
<1> QED
  BY <1>1, <1>2, <1>3 DEF InOrder, Working

\* Each step of a fan-out keeps its order.
LEMMA FanoutKeepsOrder ==
  ASSUME StateIsTyped, FanoutsInOrder, NEW e \in Events, FanoutStep(e)
  PROVE  InOrder(e, fan'[e], holder')
<1>1. /\ DOMAIN fan = Events /\ holder \in [Devices -> Events \cup {Free}]
      /\ InOrder(e, fan[e], holder) /\ (fan[e].pc \in Working => IsFanout(fan[e]))
      /\ Free \notin Events
  BY NotificationsAssumption DEF StateIsTyped, FanoutsInOrder, Free
<1>2. CASE Publish(e)
  <2>1. fan'[e].pc = "classify" /\ fan[e].pc = "publish" /\ holder' = holder
    BY <1>1, <1>2 DEF Publish, Goto
  <2> QED
    BY <1>1, <2>1 DEF InOrder, Working
<1>3. CASE Dispatch(e)
  <2>1. fan[e].pc = "classify" /\ holder' = holder /\ \A d \in Devices : holder[d] # e
    BY <1>1, <1>3 DEF Dispatch, InOrder, Working
  <2>2. CASE Done(e)
    <3>1. fan'[e].pc = "done"
      BY <1>1, <2>2 DEF Done, Goto
    <3> QED
      BY <2>1, <3>1 DEF InOrder, Working
  <2>3. CASE ~ Done(e)
    <3>1. PICK list \in EnabledDevices :
            /\ list # <<>>
            /\ Goto(e, [pc |-> "send", todo |-> list, dirty |-> {}, retired |-> {},
                        cleared |-> {}])
      BY <1>3, <2>3 DEF Dispatch
    <3>2. fan'[e].pc = "send" /\ fan'[e].todo = list /\ fan'[e].dirty = {}
      BY <1>1, <3>1 DEF Goto
    <3>3. IsList(list)
      BY EnabledAreListed
    <3> QED
      BY <2>1, <3>1, <3>2, <3>3 DEF InOrder, Working
  <2> QED
    BY <2>2, <2>3
<1>4. ASSUME fan[e].pc \in {"send", "retire"}
      PROVE  /\ IsFanout(fan[e]) /\ IsList(fan[e].todo) /\ fan[e].todo # <<>>
             /\ Current(e) = Head(fan[e].todo) /\ Current(e) \in Devices
             /\ fan[e].dirty \in SUBSET Devices /\ \A x, y \in fan[e].dirty : x = y
             /\ \A x \in fan[e].dirty : \A i \in DOMAIN fan[e].todo : x < fan[e].todo[i]
             /\ \A d \in Devices : holder[d] = e =>
                  /\ \A x \in fan[e].dirty : d <= x
                  /\ \A i \in DOMAIN fan[e].todo : d < fan[e].todo[i]
  BY <1>1, <1>4, RestIsListed DEF InOrder, Working, Current
<1>5. CASE SendAccepted(e) \/ SendFails(e)
  <2>1. fan[e].pc = "send" /\ fan'[e] = AfterDevice(e, fan[e]) /\ holder' = holder
    BY <1>1, <1>5 DEF SendAccepted, SendFails, Goto
  <2>2. /\ \A x \in fan[e].dirty : \A i \in DOMAIN Tail(fan[e].todo) : x < Tail(fan[e].todo)[i]
        /\ \A d \in Devices : holder[d] = e =>
             \A i \in DOMAIN Tail(fan[e].todo) : d < Tail(fan[e].todo)[i]
    <3>1. PICK q \in Seq(Devices) : q = fan[e].todo /\ q # <<>>
      BY <1>4, <2>1 DEF IsList
    <3>2. \A i \in DOMAIN Tail(q) : Tail(q)[i] = q[i + 1] /\ i + 1 \in DOMAIN q
      BY <3>1
    <3> QED
      BY <1>4, <2>1, <3>1, <3>2
  <2> QED
    BY <1>4, <2>1, <2>2, NextInOrder
<1>6. CASE SendRejected(e)
  <2>1. fan[e].pc = "send" /\ fan' = [fan EXCEPT ![e] = [fan[e] EXCEPT !.pc = "retire"]]
        /\ holder' = holder
    BY <1>6 DEF SendRejected, Goto
  <2>2. fan'[e].pc = "retire" /\ fan'[e].todo = fan[e].todo /\ fan'[e].dirty = fan[e].dirty
    BY <1>1, <1>4, <2>1 DEF IsFanout, Fields
  <2> QED
    BY <1>4, <2>1, <2>2 DEF InOrder, Working
<1>7. CASE Retire(e)
  <2>1. PICK f : f = [fan[e] EXCEPT !.retired = @ \cup Hit(e), !.dirty = {Current(e)}]
    OBVIOUS
  <2>2. fan[e].pc = "retire" /\ fan[e].dirty = {}
    BY <1>7 DEF Retire
  <2>3. Wants(e) = Hit(e)
    BY <2>2 DEF Wants, Hit
  <2>4. fan'[e] = AfterDevice(e, f) /\ holder' = Locked(e, Hit(e))
    BY <1>1, <1>7, <2>1, <2>3 DEF Retire, Goto
  <2>5. IsFanout(f) /\ f.todo = fan[e].todo /\ f.dirty = {Current(e)}
    BY <1>4, <2>1, <2>2 DEF IsFanout, Fields
  <2>6. /\ 1 \in DOMAIN fan[e].todo /\ fan[e].todo[1] = Current(e)
        /\ \A i \in DOMAIN Tail(fan[e].todo) :
             i + 1 \in DOMAIN fan[e].todo /\ Tail(fan[e].todo)[i] = fan[e].todo[i + 1]
    <3>1. PICK q \in Seq(Devices) : q = fan[e].todo /\ q # <<>>
      BY <1>4, <2>2 DEF IsList
    <3>2. 1 \in DOMAIN q /\ q[1] = Head(q)
      BY <3>1
    <3>3. \A i \in DOMAIN Tail(q) : i + 1 \in DOMAIN q /\ Tail(q)[i] = q[i + 1]
      BY <3>1
    <3> QED
      BY <1>4, <2>2, <3>1, <3>2, <3>3
  <2>7. \A i \in DOMAIN Tail(f.todo) : Current(e) < Tail(f.todo)[i]
    BY <1>4, <2>2, <2>5, RestIsListed
  <2>8. ASSUME NEW d \in Devices, holder'[d] = e
        PROVE  d <= Current(e) /\ \A i \in DOMAIN Tail(f.todo) : d < Tail(f.todo)[i]
    <3>1. Devices \subseteq Nat /\ Current(e) \in Devices
      BY <1>4, <2>2, DevicesAreNat
    <3>2. d = Current(e) \/ holder[d] = e
      BY <2>4, <2>8 DEF Locked, Hit
    <3>3. CASE holder[d] = e
      <4>1. \A i \in DOMAIN fan[e].todo : d < fan[e].todo[i]
        BY <1>4, <2>2, <3>3
      <4>2. d < Current(e) /\ d \in Nat /\ Current(e) \in Nat
        BY <2>6, <3>1, <4>1
      <4>3. \A i \in DOMAIN Tail(f.todo) : d < Tail(f.todo)[i]
        BY <2>5, <2>6, <4>1
      <4> QED
        BY <4>2, <4>3
    <3>4. CASE d = Current(e)
      BY <2>7, <3>1, <3>4
    <3> QED
      BY <3>2, <3>3, <3>4
  <2>9. f.dirty \in SUBSET Devices /\ \A x, y \in f.dirty : x = y
    BY <1>4, <2>2, <2>5
  <2>10. \A x \in f.dirty : \A i \in DOMAIN Tail(f.todo) : x < Tail(f.todo)[i]
    BY <2>5, <2>7
  <2>11. \A d \in Devices : holder'[d] = e =>
           /\ \A x \in f.dirty : d <= x
           /\ \A i \in DOMAIN Tail(f.todo) : d < Tail(f.todo)[i]
    BY <2>5, <2>8
  <2>12. IsList(f.todo) /\ f.todo # <<>>
    BY <1>4, <2>2, <2>5
  <2>13. InOrder(e, AfterDevice(e, f), holder')
    BY <2>5, <2>9, <2>10, <2>11, <2>12, NextInOrder
  <2> QED
    BY <2>4, <2>13
<1>9. CASE Flush(e)
  <2>1. PICK f : f = fan'[e]
    OBVIOUS
  <2>2. /\ fan[e].pc \in {"retire", "commit"} /\ holder' = Locked(e, fan[e].dirty)
        /\ IsFanout(fan[e])
        /\ f = [fan[e] EXCEPT !.cleared = @ \cup fan[e].dirty, !.dirty = {}]
    BY <1>1, <1>9, <2>1 DEF Flush, Goto, Working
  <2>3. f.pc = fan[e].pc /\ f.todo = fan[e].todo /\ f.dirty = {}
    BY <2>2 DEF IsFanout, Fields
  <2>4. /\ IsList(fan[e].todo) /\ (fan[e].pc = "commit" <=> fan[e].todo = <<>>)
        /\ \A x \in fan[e].dirty : \A i \in DOMAIN fan[e].todo : x < fan[e].todo[i]
        /\ \A d \in Devices : holder[d] = e => \A i \in DOMAIN fan[e].todo : d < fan[e].todo[i]
    BY <1>1, <2>2 DEF InOrder, Working
  <2>5. \A d \in Devices : holder'[d] = e => d \in fan[e].dirty \/ holder[d] = e
    BY <2>2 DEF Locked
  <2>6. \A d \in Devices : holder'[d] = e => \A i \in DOMAIN fan[e].todo : d < fan[e].todo[i]
    BY <2>4, <2>5
  <2>7. InOrder(e, f, holder')
    BY <2>2, <2>3, <2>4, <2>6 DEF InOrder, Working
  <2> QED
    BY <2>1, <2>7
<1>8. CASE Commit(e) \/ Abort(e)
  <2>1. Done(e) /\ holder' = [d \in Devices |-> IF holder[d] = e THEN Free ELSE holder[d]]
    BY <1>8 DEF Commit, Abort
  <2>2. \A d \in Devices : holder'[d] # e
    BY <1>1, <2>1
  <2>3. fan'[e].pc = "done"
    BY <1>1, <2>1 DEF Done, Goto
  <2> QED
    BY <2>2, <2>3 DEF InOrder, Working
<1> QED
  BY <1>2, <1>3, <1>5, <1>6, <1>7, <1>8, <1>9 DEF FanoutStep

LEMMA OrderStep ==
  ASSUME StateIsTyped, FanoutsInOrder, [Next]_vars
  PROVE  FanoutsInOrder'
<1>1. /\ DOMAIN fan = Events /\ holder \in [Devices -> Events \cup {Free}]
      /\ \A e \in Events : InOrder(e, fan[e], holder)
  BY DEF StateIsTyped, FanoutsInOrder
<1>2. ASSUME NEW e \in Events, FanoutStep(e) PROVE FanoutsInOrder'
  <2>1. holder' \in [Devices -> Events \cup {Free}]
        /\ \A x \in Events \ {e} : \A d \in Devices : holder'[d] = x => holder[d] = x
    <3>1. CASE \E rows : holder' = Locked(e, rows)
      BY <1>1, <3>1 DEF Locked
    <3>2. CASE holder' = [d \in Devices |-> IF holder[d] = e THEN Free ELSE holder[d]]
      <4>1. Free \notin Events
        BY NotificationsAssumption DEF Free
      <4> QED
        BY <1>1, <3>2, <4>1
    <3>3. CASE holder' = holder
      BY <1>1, <3>3
    <3> QED
      BY <1>2, <3>1, <3>2, <3>3
         DEF FanoutStep, Publish, Dispatch, SendAccepted, SendRejected, SendFails, Flush,
             Retire, Commit, Abort
  <2>2. \A x \in Events \ {e} : fan'[x] = fan[x]
    BY <1>2, FanoutMoves
  <2>3. ASSUME NEW x \in Events \ {e} PROVE InOrder(x, fan'[x], holder')
    BY <1>1, <2>1, <2>2 DEF InOrder
  <2>4. InOrder(e, fan'[e], holder')
    BY <1>2, FanoutKeepsOrder
  <2>5. \A x \in Events : InOrder(x, fan'[x], holder')
    BY <2>3, <2>4
  <2> QED
    BY <2>1, <2>5 DEF FanoutsInOrder
<1>3. CASE UNCHANGED <<fan, holder>>
  BY <1>1, <1>3 DEF FanoutsInOrder
<1> QED
  BY <1>2, <1>3, NotificationSteps, OthersLeaveFanouts

LEMMA OrderInit == Init => FanoutsInOrder
<1> SUFFICES ASSUME Init PROVE FanoutsInOrder
  OBVIOUS
<1>1. holder = [d \in Devices |-> Free] /\ \A e \in Events : fan[e].pc = "publish"
  BY DEF Init
<1>2. Free \notin Events
  BY NotificationsAssumption DEF Free
<1> QED
  BY <1>1, <1>2 DEF FanoutsInOrder, InOrder, Working

\* Of some devices, one has the largest id.
LEMMA LastOne ==
  ASSUME NEW S \in SUBSET Devices, S # {}
  PROVE  \E m \in S : \A d \in S : d <= m
<1>1. PICK n : n = Cardinality(Devices)
  OBVIOUS
<1>2. n \in Nat
  BY <1>1, DevicesAreNat, FS_CardinalityType
<1>3. Devices = 1 .. n
  BY <1>1, NotificationsAssumption
<1>4. PICK T : T = {n - d : d \in S}
  OBVIOUS
<1>5. T \subseteq Nat /\ T # {}
  <2>1. ASSUME NEW d \in S PROVE n - d \in Nat
    <3>1. d \in 1 .. n
      BY <1>3
    <3> QED
      BY <1>2, <3>1
  <2> QED
    BY <1>4, <2>1
<1>6. PICK k \in T : \A t \in T : k <= t
  <2>1. \E x \in T : \A y \in T : ~ <<y, x>> \in OpToRel(<, Nat)
    BY <1>5, WFMin, NatLessThanWellFounded
  <2>2. PICK x \in T : \A y \in T : ~ y < x
    BY <1>5, <2>1 DEF OpToRel
  <2> QED
    BY <1>5, <2>2
<1>7. PICK m \in S : k = n - m
  BY <1>4
<1>8. ASSUME NEW d \in S PROVE d <= m
  <2>1. n - d \in T /\ d \in Nat /\ m \in Nat
    BY <1>3, <1>4
  <2>2. n - m <= n - d
    BY <1>6, <1>7, <2>1
  <2> QED
    BY <1>2, <2>1, <2>2
<1> QED
  BY <1>8

\* The fan-out with the furthest lock waits for nobody: what it wants, and has
\* not, is further still.
LEMMA FurthestGoesOn ==
  ASSUME FanoutsInOrder
  PROVE  NoCircularWait
<1>1. /\ holder \in [Devices -> Events \cup {Free}] /\ Devices \subseteq Nat
      /\ \A e \in Events : InOrder(e, fan[e], holder)
  BY DevicesAreNat DEF FanoutsInOrder
<1>2. SUFFICES ASSUME NEW e \in Events, ~ CanLock(e, Wants(e))
               PROVE  \E x \in Events : CanLock(x, Wants(x)) /\ \E d \in Devices : holder[d] = x
  BY DEF NoCircularWait
<1>3. ASSUME NEW x \in Events
      PROVE  /\ Wants(x) \in SUBSET Devices
             /\ \A m \in Devices : holder[m] = x => \A d \in Wants(x) : m <= d
  <2>1. CASE fan[x].pc \in {"retire", "commit"} /\ fan[x].dirty # {}
    <3>1. Wants(x) = fan[x].dirty
      BY <2>1 DEF Wants
    <3> QED
      BY <1>1, <2>1, <3>1 DEF InOrder, Working
  <2>2. CASE fan[x].pc = "retire" /\ fan[x].dirty = {}
    <3>1. Wants(x) \subseteq {Current(x)}
      BY <2>2 DEF Wants
    <3>2. /\ IsList(fan[x].todo) /\ fan[x].todo # <<>>
          /\ \A m \in Devices : holder[m] = x => \A i \in DOMAIN fan[x].todo : m < fan[x].todo[i]
      BY <1>1, <2>2 DEF InOrder, Working
    <3>3. Current(x) = Head(fan[x].todo) /\ Current(x) \in Devices
      BY <3>2, RestIsListed DEF Current
    <3>4. 1 \in DOMAIN fan[x].todo /\ Head(fan[x].todo) = fan[x].todo[1]
      <4>1. PICK q \in Seq(Devices) : q = fan[x].todo /\ q # <<>>
        BY <3>2 DEF IsList
      <4> QED
        BY <4>1
    <3>5. ASSUME NEW m \in Devices, holder[m] = x PROVE m <= Current(x)
      <4>1. m < Current(x) /\ m \in Nat /\ Current(x) \in Nat
        BY <1>1, <3>2, <3>3, <3>4, <3>5
      <4> QED
        BY <4>1
    <3> QED
      BY <3>1, <3>3, <3>5
  <2>3. CASE ~ (fan[x].pc \in {"retire", "commit"} /\ fan[x].dirty # {})
             /\ ~ (fan[x].pc = "retire" /\ fan[x].dirty = {})
    <3>1. Wants(x) = {}
      BY <2>3 DEF Wants
    <3> QED
      BY <3>1
  <2> QED
    BY <2>1, <2>2, <2>3
<1>4. PICK H : H = {d \in Devices : holder[d] # Free}
  OBVIOUS
<1>5. H \in SUBSET Devices /\ H # {}
  BY <1>2, <1>3, <1>4 DEF CanLock
<1>6. PICK m \in H : \A d \in H : d <= m
  BY <1>5, LastOne
<1>7. PICK x \in Events : holder[m] = x /\ m \in Devices
  BY <1>1, <1>4
<1>11. \A d \in Devices : m <= d => holder[d] \in {Free, x}
  <2> SUFFICES ASSUME NEW d \in Devices, m <= d, holder[d] # Free PROVE holder[d] = x
    OBVIOUS
  <2>1. d <= m
    BY <1>4, <1>6
  <2>2. d = m
    BY <1>1, <1>7, <2>1
  <2> QED
    BY <1>7, <2>2
<1>12. \A d \in Wants(x) : m <= d
  BY <1>3, <1>7
<1>13. CanLock(x, Wants(x))
  BY <1>3, <1>11, <1>12 DEF CanLock
<1> QED
  BY <1>7, <1>13
-----------------------------------------------------------------------------
(***************************************************************************)
(* Bounds.                                                                 *)
(***************************************************************************)

\* What the invariants leave open of the types: the mode, the sets of devices and
\* the bounds.
RestIsTyped ==
  /\ mode \in {"human", "bot"} /\ alive \cup rejected \cup signedOut \subseteq Devices
  /\ upgrades \in 0 .. UpgradeLimit
  /\ failures \in 0 .. MaxFailures /\ appActions \in 0 .. MaxAppActions

LEMMA RestStep ==
  ASSUME StateIsTyped, FanoutsInOrder, RestIsTyped, [Next]_vars
  PROVE  RestIsTyped'
<1>1. MaxFailures \in Nat /\ MaxAppActions \in Nat /\ UpgradeLimit \in Nat
  BY NotificationsAssumption
<1>2. failures' = failures \/ (failures < MaxFailures /\ failures' = failures + 1)
  BY DEF Next, Publish, Dispatch, SendAccepted, SendRejected, SendFails, Flush, Retire, Commit,
         Abort, Register, SignOut, ResumeAi, Upgrade, Authenticate, Subscribe, Ready,
         Subscribed, Relay, Close,
         vars, app
<1>3. appActions' = appActions \/ (appActions < MaxAppActions /\ appActions' = appActions + 1)
  BY DEF Next, Publish, Dispatch, SendAccepted, SendRejected, SendFails, Flush, Retire, Commit,
         Abort, Register, SignOut, ResumeAi, Upgrade, Authenticate, Subscribe, Ready,
         Subscribed, Relay, Close,
         vars, app
<1>4. upgrades' = upgrades \/ (upgrades < UpgradeLimit /\ upgrades' = upgrades + 1)
  BY DEF Next, Publish, Dispatch, SendAccepted, SendRejected, SendFails, Flush, Retire, Commit,
         Abort, Register, SignOut, ResumeAi, Upgrade, Authenticate, Subscribe, Ready,
         Subscribed, Relay, Close,
         vars, streams
<1>5. mode' \in {"human", "bot"}
  BY DEF RestIsTyped, Next, Publish, Dispatch, SendAccepted, SendRejected, SendFails, Flush,
         Retire, Commit, Abort, Register, SignOut, ResumeAi, Upgrade, Authenticate, Subscribe,
         Ready, Subscribed, Relay, Close, vars, app
<1>6. alive' \cup rejected' \cup signedOut' \subseteq Devices
  <2>1. ASSUME NEW e \in Events, SendRejected(e)
        PROVE  rejected' = rejected \cup {Current(e)} /\ Current(e) \in Devices
               /\ UNCHANGED <<alive, signedOut>>
    <3>1. fan[e].pc = "send" /\ IsList(fan[e].todo) /\ fan[e].todo # <<>>
      BY <2>1 DEF SendRejected, FanoutsInOrder, InOrder, Working
    <3>2. Current(e) \in Devices
      BY <3>1, RestIsListed DEF Current
    <3> QED
      BY <2>1, <3>2 DEF SendRejected, app
  <2>2. ASSUME NEW d \in Devices, Register(d) \/ SignOut(d)
        PROVE  alive' \cup rejected' \cup signedOut' \subseteq Devices
    BY <2>2 DEF Register, SignOut, RestIsTyped
  <2>3. \/ UNCHANGED <<alive, rejected, signedOut>>
        \/ \E e \in Events : SendRejected(e)
        \/ \E d \in Devices : Register(d) \/ SignOut(d)
    BY DEF Next, Publish, Dispatch, SendAccepted, SendFails, Flush, Retire, Commit, Abort,
           ResumeAi, Upgrade, Authenticate, Subscribe, Ready, Subscribed, Relay, Close, vars,
           app, ghosts
  <2> QED
    BY <2>1, <2>2, <2>3 DEF RestIsTyped
<1>7. \A n \in Nat : \A c \in 0 .. n : c < n => c + 1 \in 0 .. n
  OBVIOUS
<1>8. failures' \in 0 .. MaxFailures /\ appActions' \in 0 .. MaxAppActions
      /\ upgrades' \in 0 .. UpgradeLimit
  BY <1>1, <1>2, <1>3, <1>4, <1>7 DEF RestIsTyped
<1> QED
  BY <1>5, <1>6, <1>8 DEF RestIsTyped
-----------------------------------------------------------------------------
(***************************************************************************)
(* The theorems.                                                           *)
(***************************************************************************)

LEMMA NotificationInit == Init => NotificationInvariant
<1> SUFFICES ASSUME Init PROVE NotificationInvariant
  OBVIOUS
<1>1. /\ DOMAIN fan = Events /\ (\A e \in Events : fan[e].pc \notin Working)
      /\ device = [d \in Devices |-> On] /\ DOMAIN holder = Devices
      /\ stream = [s \in Streams |-> NoStream] /\ accepted = <<>>
  BY DEF Init, Working
<1>2. On \in Rows /\ On.enabled = TRUE /\ On.reason = "none"
  BY DEF On, Row, Rows
<1>3. StreamIsRight(NoStream, accepted) /\ accepted \in Seq(Events)
  BY <1>1, NoStreamIsRight, EmptySeq
<1>4. StateIsTyped
  BY <1>1, <1>2, <1>3 DEF StateIsTyped, StreamIsRight
<1>5. RetiredForCause /\ WrittenIsLocked
  BY <1>1 DEF RetiredForCause, WrittenIsLocked
<1>6. SignedOutIsOff /\ DisabledForCause
  BY <1>1, <1>2 DEF SignedOutIsOff, DisabledForCause
<1>7. SubscribedIsAsked /\ StreamHasNoGap
  BY <1>1, <1>3 DEF StreamIsRight, SubscribedIsAsked, StreamHasNoGap
<1> QED
  BY <1>4, <1>5, <1>6, <1>7 DEF NotificationInvariant

LEMMA TypedStep ==
  ASSUME NotificationInvariant, [Next]_vars
  PROVE  StateIsTyped'
<1>0. StateIsTyped /\ SubscribedIsAsked /\ StreamHasNoGap
  BY DEF NotificationInvariant
<1>1. ASSUME NEW e \in Events, FanoutStep(e)
      PROVE  /\ DOMAIN fan' = Events /\ DOMAIN holder' = Devices
             /\ \A x \in Events : fan'[x].pc \in Working => IsFanout(fan'[x])
  <2>1. fan'[e].pc \in Working => IsFanout(fan'[e])
    BY <1>0, <1>1, FanoutMoves DEF SameMarks, Retired, Flushed
  <2> QED
    BY <1>0, <1>1, <2>1, FanoutMoves, LocksMove DEF StateIsTyped
<1>2. CASE UNCHANGED <<fan, holder>>
  BY <1>0, <1>2, RowsTyped, StreamsStep DEF StateIsTyped
<1> QED
  BY <1>0, <1>1, <1>2, RowsTyped, StreamsStep, NotificationSteps, OthersLeaveFanouts
  DEF StateIsTyped

LEMMA NotificationStep == NotificationInvariant /\ [Next]_vars => NotificationInvariant'
BY TypedStep, CauseStep, LockStep, SignOutStep, StreamsStep DEF NotificationInvariant

\* The inductive invariant, of every reachable state.
THEOREM NotificationsConsistent == Spec => []NotificationInvariant
BY NotificationInit, NotificationStep, PTL DEF Spec

\* A device is disabled only after the application asked for it, or after Firebase
\* rejected its token since its last registration or in a fan-out that was then still
\* under way; a passing failure disables nothing (DisabledForCause).
THEOREM OnlyForCause == Spec => []DisabledForCause
<1>1. NotificationInvariant => DisabledForCause
  BY DEF NotificationInvariant
<1> QED
  BY <1>1, NotificationsConsistent, PTL

\* A sign-out is never rewritten by a fan-out that had listed the device before:
\* only a registration ends it (SignOutIsKept: UPDATE ... WHERE enabled).
THEOREM SignOutsKept == Spec => SignOutIsKept
<1>1. NotificationInvariant /\ [Next]_vars =>
        [\A d \in Devices :
           device[d].reason = "by_device" /\ device'[d].reason # "by_device" =>
             device'[d].enabled]_vars
  BY SignOutStep DEF NotificationInvariant
<1> QED
  BY <1>1, NotificationsConsistent, PTL DEF Spec, SignOutIsKept

\* From the moment Redis processes its SUBSCRIBE, a dashboard is shown every event
\* Redis accepts, in order and without a gap, or still has it before it
\* (StreamHasNoGap: one relay loop, which forwards every message in turn).
THEOREM NoGap == Spec => []StreamHasNoGap
<1>1. NotificationInvariant => StreamHasNoGap
  BY DEF NotificationInvariant
<1> QED
  BY <1>1, NotificationsConsistent, PTL

\* Fan-outs never wait for each other in a circle, for any number of events and
\* devices: enabled_devices lists the rows in the order of their ids, so whoever
\* holds the furthest lock can go on (NoCircularWait).
THEOREM NobodyStuck == Spec => []NoCircularWait
<1>1. Init => NotificationInvariant /\ FanoutsInOrder
  BY NotificationInit, OrderInit
<1>2. NotificationInvariant /\ FanoutsInOrder /\ [Next]_vars
        => (NotificationInvariant /\ FanoutsInOrder)'
  BY NotificationStep, OrderStep DEF NotificationInvariant
<1>3. FanoutsInOrder => NoCircularWait
  BY FurthestGoesOn
<1> QED
  BY <1>1, <1>2, <1>3, PTL DEF Spec

\* Every variable has its type, for any events, devices, dashboards and bounds.
THEOREM NotificationTypes == Spec => []TypeOK
<1>1. Init => NotificationInvariant /\ FanoutsInOrder /\ RestIsTyped
  BY NotificationInit, OrderInit, NotificationsAssumption DEF Init, RestIsTyped
<1>2. NotificationInvariant /\ FanoutsInOrder /\ RestIsTyped /\ [Next]_vars
        => (NotificationInvariant /\ FanoutsInOrder /\ RestIsTyped)'
  BY NotificationStep, OrderStep, RestStep DEF NotificationInvariant
<1>3. NotificationInvariant /\ FanoutsInOrder /\ RestIsTyped => TypeOK
  <2> SUFFICES ASSUME NotificationInvariant, FanoutsInOrder, RestIsTyped PROVE TypeOK
    OBVIOUS
  <2>1. \A s \in Streams : stream[s].pc \in {"new", "authenticate", "subscribe", "greet",
                                             "ready", "refused"}
    BY DEF NotificationInvariant, StateIsTyped, StreamStates
  <2>2. device \in [Devices -> [enabled : BOOLEAN,
                                reason : {"none", "unregistered", "by_device"}]]
    BY DEF NotificationInvariant, StateIsTyped, Rows
  <2> QED
    BY <2>1, <2>2 DEF FanoutsInOrder, InOrder, RestIsTyped, TypeOK
<1> QED
  BY <1>1, <1>2, <1>3, PTL DEF Spec
=============================================================================
