------------------------ MODULE WebhookDeliveryProofs ------------------------
(***************************************************************************)
(* Deliveries and invitations, for any number of deliveries, items,        *)
(* retries, redeliveries, failures and crashes, in every deployment.       *)
(* DeliveryInvariant is inductive; it gives that a comment is invited once *)
(* and not left uninvited, that a failing comment surface holds up no      *)
(* private message, and that the business never answers itself.            *)
(***************************************************************************)
EXTENDS WebhookDelivery, WellFoundedInduction, TLAPS

-----------------------------------------------------------------------------
(***************************************************************************)
(* The inductive invariant.                                                *)
(***************************************************************************)

\* The invitation's row is reserved by one attempt, which then posts it once: the
\* reservation is what tells a second attempt that there is nothing left to do.
InviteHasOneOwner ==
  /\ \A i \in Items : invite[i] = "none" => invitePosts[i] = 0
  /\ \A d \in Deliveries : Running(d, "invite_post") =>
       invite[Item(d)] = "pending" /\ invitePosts[Item(d)] = 0
  /\ \A d \in Deliveries : Running(d, "invite_confirm") =>
       invitePosts[Item(d)] \in 1 .. MaxAttempts
  /\ \A d, e \in Deliveries :
       /\ Running(d, "invite_post") /\ Running(e, "invite_post")
       /\ Item(d) = Item(e)
       => d = e

\* A task exists only where there is a queue.
TasksAreQueued ==
  \A d \in Deliveries : delivery[d] = "queued" => queued

\* What will still invite for a claimed comment, or is known to have been lost: an
\* attempt that has the comment before it, one that will come, or one that never
\* ended.  Without a queue nothing comes again, so it is the claiming attempt.
OwesInvite(d, i) ==
  \E n \in Worklist(d) :
    /\ Payload[d][n] = i
    /\ \/ delivery[d] \in {"queued", "dead", "lost"}
       \/ /\ delivery[d] = "running" /\ n \in work[d]
          /\ queued \/ (n = Current(d) /\ pc[d] # "dispatch")
InviteIsOwed ==
  \A i \in claimed \ stale :
    /\ Surface[i] \in InviteEnabled
    /\ queued \/ i \notin raised
    /\ invite[i] = "none"
    => \E d \in Deliveries : OwesInvite(d, i)

\* What a running attempt has behind it of its private messages is taken up, and so
\* is everything private of an attempt that has ended.
TakenUp(i) == i \in claimed \cup stale \/ \E j \in raised : Surface[j] \notin Comments
PrivateIsBehind ==
  \A d \in Deliveries : \A n \in Worklist(d) :
    /\ Surface[Payload[d][n]] \notin Comments
    /\ \/ delivery[d] \in {"acked", "dead", "inline_done"}
       \/ /\ delivery[d] = "running"
          /\ n \notin work[d] \/ (n = Current(d) /\ pc[d] # "dispatch")
    => TakenUp(Payload[d][n])

DeliveryInvariant ==
  /\ InvitedOnce
  /\ InviteHasOneOwner
  /\ TasksAreQueued
  /\ InviteIsOwed
  /\ PrivateIsBehind
  /\ NeverAnswersItself
-----------------------------------------------------------------------------
(***************************************************************************)
(* The order of the events.                                                *)
(***************************************************************************)

\* A set of numbers that is not empty has a least one.
LEMMA LeastPlace ==
  ASSUME NEW T \in SUBSET Nat, T # {}
  PROVE  \E n \in T : \A m \in T \ {n} : n < m
<1>1. PICK n \in T : \A m \in T : ~ (<<m, n>> \in OpToRel(<, Nat))
  BY WFMin, NatLessThanWellFounded
<1>2. \A m \in T : ~ (m < n)
  BY <1>1 DEF OpToRel
<1> QED
  BY <1>2

\* An event of the worklist is an item of the payload on a surface whose adapter
\* is there, and it is not the business's own.
LEMMA ParsedItem ==
  ASSUME NEW d \in Deliveries, NEW n \in Worklist(d)
  PROVE  /\ n \in Nat /\ n \in DOMAIN Payload[d]
         /\ Payload[d][n] \in Items \ Own
         /\ Payload[d][n] \in ToSet(Payload[d])
         /\ Surface[Payload[d][n]] \in Adapters(Object[d])
<1>1. PICK c \in Adapters(Object[d]) : n \in Parse(c, Payload[d])
  BY DEF Worklist
<1>2. Payload[d] \in Seq(Items)
  BY DeliveryAssumption
<1>3. n \in DOMAIN Payload[d] /\ Surface[Payload[d][n]] = c
      /\ (c = "whatsapp" \/ Payload[d][n] \notin Own)
  BY <1>1 DEF Parse
<1>4. n \in Nat /\ Payload[d][n] \in Items
  BY <1>2, <1>3
<1>5. Payload[d][n] \notin Own
  BY <1>3, DeliveryAssumption
<1> QED
  BY <1>1, <1>3, <1>4, <1>5 DEF ToSet

\* The surfaces of an envelope: WhatsApp alone, a private one and then a public
\* one, or none.
LEMMA TwoSurfaces ==
  ASSUME NEW d \in Deliveries
  PROVE  \/ Adapters(Object[d]) \subseteq {"whatsapp"}
         \/ \E a, b \in MetaChannels :
              /\ a \notin Comments /\ b \in Comments
              /\ Adapters(Object[d]) \subseteq {a, b}
              /\ Precedes(Object[d], a, b)
              /\ ~ Precedes(Object[d], b, a)
<1>1. CASE Object[d] = "whatsapp"
  BY <1>1 DEF Adapters
<1>2. CASE Object[d] = "page"
  <2>1. MetaChannelsFor(Object[d]) = <<"messenger", "facebook_comment">>
    BY <1>2 DEF MetaChannelsFor
  <2>2. Adapters(Object[d]) \subseteq {"messenger", "facebook_comment"}
    BY <1>2, <2>1 DEF Adapters, ToSet
  <2>3. Precedes(Object[d], "messenger", "facebook_comment")
    BY <2>1 DEF Precedes
  <2>4. ~ Precedes(Object[d], "facebook_comment", "messenger")
    BY <2>1 DEF Precedes
  <2> QED
    BY <2>2, <2>3, <2>4 DEF MetaChannels, Comments
<1>3. CASE Object[d] = "instagram"
  <2>1. MetaChannelsFor(Object[d]) = <<"instagram_dm", "instagram_comment">>
    BY <1>3 DEF MetaChannelsFor
  <2>2. Adapters(Object[d]) \subseteq {"instagram_dm", "instagram_comment"}
    BY <1>3, <2>1 DEF Adapters, ToSet
  <2>3. Precedes(Object[d], "instagram_dm", "instagram_comment")
    BY <2>1 DEF Precedes
  <2>4. ~ Precedes(Object[d], "instagram_comment", "instagram_dm")
    BY <2>1 DEF Precedes
  <2> QED
    BY <2>2, <2>3, <2>4 DEF MetaChannels, Comments
<1>4. CASE Object[d] = "other"
  <2>1. MetaChannelsFor(Object[d]) = <<>>
    BY <1>4 DEF MetaChannelsFor
  <2> QED
    BY <1>4, <2>1 DEF Adapters, ToSet
<1> QED
  BY <1>1, <1>2, <1>3, <1>4, DeliveryAssumption

\* An attempt with events left has a first one.
LEMMA FirstIsFirst ==
  ASSUME NEW d \in Deliveries, NEW places \in SUBSET Worklist(d), places # {}
  PROVE  /\ First(d, places) \in places
         /\ \A m \in places \ {First(d, places)} : Before(d, First(d, places), m)
<1> DEFINE on(c) == {n \in places : Surface[Payload[d][n]] = c}
<1>1. \A c : on(c) \in SUBSET Nat
  BY ParsedItem
<1>2. ASSUME NEW c, on(c) # {}
      PROVE  \E n \in on(c) : \A m \in on(c) \ {n} : Before(d, n, m)
  <2>1. PICK T \in SUBSET Nat : T = on(c)
    BY <1>1, Zenon
  <2>2. T # {}
    BY <1>2, <2>1, Zenon
  <2> HIDE DEF on
  <2>3. PICK n \in T : \A m \in T \ {n} : n < m
    BY <2>2, LeastPlace
  <2>4. n \in on(c) /\ \A m \in on(c) \ {n} : n < m
    BY <2>1, <2>3
  <2> QED
    BY <2>4 DEF on, Before
<1>3. \E n \in places : \A m \in places \ {n} : Before(d, n, m)
  <2>1. CASE Adapters(Object[d]) \subseteq {"whatsapp"}
    <3>1. places = on("whatsapp")
      BY <2>1, ParsedItem
    <3> QED
      BY <1>2, <3>1
  <2>2. ASSUME NEW a, NEW b, Adapters(Object[d]) \subseteq {a, b},
               Precedes(Object[d], a, b)
        PROVE  \E n \in places : \A m \in places \ {n} : Before(d, n, m)
    <3>1. places = on(a) \cup on(b)
      BY <2>2, ParsedItem
    <3>2. CASE on(a) = {}
      BY <1>2, <3>1, <3>2
    <3>3. CASE on(a) # {}
      <4>1. PICK n \in on(a) : \A m \in on(a) \ {n} : Before(d, n, m)
        BY <1>2, <3>3
      <4>2. \A m \in on(b) : Before(d, n, m)
        BY <2>2 DEF Before
      <4> QED
        BY <3>1, <4>1, <4>2
    <3> QED
      BY <3>2, <3>3
  <2> QED
    BY <2>1, <2>2, TwoSurfaces
<1> QED
  BY <1>3 DEF First

\* Nothing private is left behind the first event when that is a comment.
LEMMA CommentsComeLast ==
  ASSUME NEW d \in Deliveries, NEW places \in SUBSET Worklist(d), NEW n \in places,
         Surface[Payload[d][First(d, places)]] \in Comments
  PROVE  Surface[Payload[d][n]] \in Comments
<1>1. First(d, places) \in places /\ (n # First(d, places) => Before(d, First(d, places), n))
  BY FirstIsFirst
<1>2. PICK f \in places : f = First(d, places)
  BY <1>1
<1>3. Surface[Payload[d][f]] \in Adapters(Object[d]) /\ Surface[Payload[d][n]] \in Adapters(Object[d])
  BY ParsedItem
<1>4. Surface[Payload[d][f]] \in Comments
  BY <1>2
<1>5. n = f \/ Before(d, f, n)
  BY <1>1, <1>2
<1>6. CASE Adapters(Object[d]) \subseteq {"whatsapp"}
  BY <1>3, <1>4, <1>6 DEF Comments
<1>7. ASSUME NEW a, NEW b, a \notin Comments, b \in Comments,
             Adapters(Object[d]) \subseteq {a, b}, ~ Precedes(Object[d], b, a)
      PROVE  Surface[Payload[d][n]] \in Comments
  BY <1>3, <1>4, <1>5, <1>7 DEF Before
<1> QED
  BY <1>6, <1>7, TwoSurfaces
-----------------------------------------------------------------------------
(***************************************************************************)
(* Types, and what a step leaves alone.                                    *)
(***************************************************************************)

\* The settings are read once, so what a delivery is parsed into does not change.
LEMMA ParsedSame ==
  ASSUME [Next]_vars
  PROVE  deployment' = deployment /\ \A d \in Deliveries : Worklist(d)' = Worklist(d)
<1>1. deployment' = deployment
  BY DEF Next, vars, ReceiveWebhook, ReceiveMetaWebhook, Enqueue, Refuse, Become, Start,
         Finish, Crash, SkipStale, SkipDuplicate, ClaimInbound, StaySilent, ReserveReply,
         PostReply, PostReplyFails, ConfirmReply, Raise, InviteOff, InviteReserved,
         ReserveInvite, PostInvite, InviteFails, ConfirmInvite, GrowOld, AfterHandler,
         Goto, NextEvent
<1>2. \A o : Adapters(o)' = Adapters(o)
  BY <1>1 DEF Adapters, Enabled
<1> QED
  BY <1>1, <1>2 DEF Worklist

\* The event an attempt is at is an item, and not one of the business's own.
LEMMA ItemIsParsed ==
  ASSUME TypeOK, NEW d \in Deliveries, work[d] # {}
  PROVE  /\ Current(d) \in work[d] /\ Current(d) \in Worklist(d)
         /\ Item(d) \in Items \ Own
         /\ Item(d) = Payload[d][Current(d)]
<1>1. work[d] \subseteq Worklist(d)
  BY DEF TypeOK
<1>2. Current(d) \in work[d]
  BY <1>1, FirstIsFirst DEF Current
<1> QED
  BY <1>1, <1>2, ParsedItem DEF Item

\* A step within an attempt goes to another stage of its event or to the next event.
Within(d) ==
  \/ SkipStale(d) \/ SkipDuplicate(d) \/ ClaimInbound(d) \/ StaySilent(d)
  \/ ReserveReply(d) \/ PostReply(d) \/ PostReplyFails(d) \/ ConfirmReply(d)
  \/ InviteOff(d) \/ InviteReserved(d) \/ ReserveInvite(d)
  \/ PostInvite(d) \/ InviteFails(d) \/ ConfirmInvite(d)

LEMMA WithinMoves ==
  ASSUME NEW d \in Deliveries, Within(d)
  PROVE  /\ delivery[d] = "running" /\ work[d] # {}
         /\ UNCHANGED <<delivery, raised, stale, retries>>
         /\ \/ /\ \E stage \in Stages : pc' = [pc EXCEPT ![d] = stage]
               /\ work' = work
            \/ /\ pc' = [pc EXCEPT ![d] = "dispatch"]
               /\ work' = [work EXCEPT ![d] = @ \ {Current(d)}]
BY DEF Within, SkipStale, SkipDuplicate, ClaimInbound, StaySilent, ReserveReply,
       PostReply, PostReplyFails, ConfirmReply, InviteOff, InviteReserved, ReserveInvite,
       PostInvite, InviteFails, ConfirmInvite, AfterHandler, Goto, NextEvent, Running,
       Stages, faults

\* The steps that begin, end or break off a delivery.
Outer(d) ==
  \/ \E signed, json \in BOOLEAN :
       ReceiveWebhook(d, signed, json) \/ ReceiveMetaWebhook(d, signed, json)
  \/ Start(d) \/ Finish(d) \/ Crash(d) \/ Raise(d)

LEMMA OneDelivery ==
  ASSUME TypeOK, NEW d \in Deliveries, Outer(d) \/ Within(d)
  PROVE  \A e \in Deliveries \ {d} : /\ delivery'[e] = delivery[e]
                                     /\ work'[e] = work[e] /\ pc'[e] = pc[e]
<1>0. DOMAIN delivery = Deliveries /\ DOMAIN work = Deliveries /\ DOMAIN pc = Deliveries
  BY DEF TypeOK
<1>1. CASE Within(d)
  BY <1>0, <1>1, WithinMoves
<1>2. CASE Outer(d)
  BY <1>0, <1>2
  DEF Outer, ReceiveWebhook, ReceiveMetaWebhook, Enqueue, Refuse, Become, Start, Finish,
      Crash, Raise, Fail
<1> QED
  BY <1>1, <1>2

\* The steps, as these lemmas group them.
LEMMA Steps ==
  ASSUME [Next]_vars
  PROVE  \/ \E d \in Deliveries : Outer(d) \/ Within(d)
         \/ \E i \in Items : GrowOld(i)
         \/ UNCHANGED vars
BY DEF Next, Outer, Within

LEMMA DeliveryTypesInit == Init => TypeOK
<1> SUFFICES ASSUME Init PROVE TypeOK
  OBVIOUS
<1>1. /\ delivery \in [Deliveries -> DeliveryStates] /\ pc \in [Deliveries -> Stages]
      /\ deployment \in Deployments
  BY DEF Init, DeliveryStates, Stages
<1>2. {MaxRetries, MaxFailures, MaxCrashes} \subseteq Nat
  BY DeliveryAssumption
<1>3. /\ retries \in [Deliveries -> 0 .. MaxRetries]
      /\ failures \in 0 .. MaxFailures /\ crashes \in 0 .. MaxCrashes
  BY <1>2 DEF Init
<1>4. DOMAIN work = Deliveries /\ (\A d \in Deliveries : work[d] \subseteq Worklist(d))
  BY DEF Init
<1>5. claimed \cup stale \cup raised \subseteq Items
  BY DEF Init
<1>6. {reply, invite} \subseteq [Items -> {"none", "pending", "sent", "unconfirmed"}]
  BY DEF Init
<1>7. /\ posts \in [Items -> SUBSET {"sender", "comment"}]
      /\ invitePosts \in [Items -> Nat]
  BY DEF Init
<1> QED
  BY <1>1, <1>3, <1>4, <1>5, <1>6, <1>7 DEF TypeOK

\* The attempt's own state keeps its type ...
LEMMA AttemptTypes ==
  ASSUME TypeOK, [Next]_vars
  PROVE  /\ delivery' \in [Deliveries -> DeliveryStates]
         /\ DOMAIN work' = Deliveries
         /\ \A d \in Deliveries : work'[d] \subseteq Worklist(d)'
         /\ pc' \in [Deliveries -> Stages]
<1>0. /\ delivery \in [Deliveries -> DeliveryStates] /\ pc \in [Deliveries -> Stages]
      /\ DOMAIN work = Deliveries /\ "dispatch" \in Stages
      /\ \A d \in Deliveries : work[d] \subseteq Worklist(d) /\ Worklist(d)' = Worklist(d)
  BY ParsedSame DEF TypeOK, Stages
<1>1. ASSUME NEW d \in Deliveries, Within(d)
      PROVE  /\ delivery' \in [Deliveries -> DeliveryStates]
             /\ DOMAIN work' = Deliveries
             /\ \A e \in Deliveries : work'[e] \subseteq Worklist(e)
             /\ pc' \in [Deliveries -> Stages]
  BY <1>0, <1>1, WithinMoves
<1>2. ASSUME NEW d \in Deliveries, Outer(d)
      PROVE  /\ delivery' \in [Deliveries -> DeliveryStates]
             /\ DOMAIN work' = Deliveries
             /\ \A e \in Deliveries : work'[e] \subseteq Worklist(e)
             /\ pc' \in [Deliveries -> Stages]
  <2>1. delivery' = delivery \/ \E s \in DeliveryStates : delivery' = [delivery EXCEPT ![d] = s]
    BY <1>2 DEF Outer, ReceiveWebhook, ReceiveMetaWebhook, Enqueue, Refuse, Become, Start,
                Finish, Crash, Raise, Fail, DeliveryStates
  <2>2. work' = work \/ \E S \in SUBSET Worklist(d) : work' = [work EXCEPT ![d] = S]
    <3>1. CASE Start(d)
      BY <3>1 DEF Start
    <3>2. CASE Raise(d)
      <4>1. {n \in work[d] : Surface[Payload[d][n]] # Surface[Item(d)]} \subseteq Worklist(d)
        BY <1>0
      <4> QED
        BY <3>2, <4>1 DEF Raise, Fail
    <3>3. CASE Crash(d)
      BY <3>3 DEF Crash
    <3>4. CASE \/ \E signed, json \in BOOLEAN :
                    ReceiveWebhook(d, signed, json) \/ ReceiveMetaWebhook(d, signed, json)
               \/ Finish(d)
      BY <3>4 DEF ReceiveWebhook, ReceiveMetaWebhook, Enqueue, Refuse, Become, Finish
    <3> QED
      BY <1>2, <3>1, <3>2, <3>3, <3>4 DEF Outer
  <2>3. pc' = pc \/ pc' = [pc EXCEPT ![d] = "dispatch"]
    BY <1>2 DEF Outer, ReceiveWebhook, ReceiveMetaWebhook, Enqueue, Refuse, Become, Start,
                Finish, Crash, Raise, Fail
  <2> QED
    BY <1>0, <2>1, <2>2, <2>3
<1>3. CASE (\E i \in Items : GrowOld(i)) \/ UNCHANGED vars
  BY <1>0, <1>3 DEF GrowOld, vars
<1> QED
  BY <1>0, <1>1, <1>2, <1>3, Steps

\* ... and so do the rows, the counters and what the provider saw.
LEMMA RowTypes ==
  ASSUME TypeOK, [Next]_vars
  PROVE  /\ claimed' \cup stale' \cup raised' \subseteq Items
         /\ {reply', invite'} \subseteq [Items -> {"none", "pending", "sent", "unconfirmed"}]
         /\ posts' \in [Items -> SUBSET {"sender", "comment"}]
         /\ invitePosts' \in [Items -> Nat]
<1> DEFINE Values == {"none", "pending", "sent", "unconfirmed"}
<1>0. /\ claimed \cup stale \cup raised \subseteq Items
      /\ reply \in [Items -> Values] /\ invite \in [Items -> Values]
      /\ posts \in [Items -> SUBSET {"sender", "comment"}]
      /\ invitePosts \in [Items -> Nat]
  BY DEF TypeOK
<1>1. ASSUME NEW d \in Deliveries, Within(d)
      PROVE  /\ claimed' \in {claimed, claimed \cup {Item(d)}}
             /\ stale' = stale /\ raised' = raised
             /\ reply' = reply \/ \E v \in Values : reply' = [reply EXCEPT ![Item(d)] = v]
             /\ invite' = invite \/ \E v \in Values : invite' = [invite EXCEPT ![Item(d)] = v]
             /\ posts' \in {posts, [posts EXCEPT ![Item(d)] = @ \cup {"sender"}]}
             /\ \/ invitePosts' = invitePosts
                \/ \E n \in 1 .. MaxAttempts :
                     invitePosts' = [invitePosts EXCEPT ![Item(d)] = @ + n]
  BY <1>1
  DEF Within, SkipStale, SkipDuplicate, ClaimInbound, StaySilent, ReserveReply,
      PostReply, PostReplyFails, ConfirmReply, InviteOff, InviteReserved, ReserveInvite,
      PostInvite, InviteFails, ConfirmInvite, AfterHandler, Goto, NextEvent, Recipient,
      rows, outside
<1>2. ASSUME NEW d \in Deliveries, Within(d)
      PROVE  /\ claimed' \cup stale' \cup raised' \subseteq Items
             /\ reply' \in [Items -> Values] /\ invite' \in [Items -> Values]
             /\ posts' \in [Items -> SUBSET {"sender", "comment"}]
             /\ invitePosts' \in [Items -> Nat]
  <2>1. Item(d) \in Items
    BY <1>2, WithinMoves, ItemIsParsed
  <2>2. claimed' \cup stale' \cup raised' \subseteq Items
    BY <1>0, <1>1, <1>2, <2>1
  <2>3. reply' \in [Items -> Values] /\ invite' \in [Items -> Values]
    BY <1>0, <1>1, <1>2, <2>1
  <2>4. posts' \in [Items -> SUBSET {"sender", "comment"}]
    BY <1>0, <1>1, <1>2, <2>1
  <2>5. invitePosts' \in [Items -> Nat]
    BY <1>0, <1>1, <1>2, <2>1
  <2> QED
    BY <2>2, <2>3, <2>4, <2>5
<1>3. ASSUME NEW d \in Deliveries, Outer(d)
      PROVE  UNCHANGED <<claimed, reply, invite, stale, posts, invitePosts>>
             /\ raised' \subseteq Items
  <2>1. UNCHANGED <<claimed, reply, invite, stale, posts, invitePosts>>
    BY <1>3 DEF Outer, ReceiveWebhook, ReceiveMetaWebhook, Enqueue, Refuse, Become, Start,
                Finish, Crash, Raise, Fail, rows, outside
  <2>2. CASE Raise(d)
    <3>1. Item(d) \in Items
      BY <2>2, ItemIsParsed DEF Raise
    <3> QED
      BY <1>0, <2>1, <2>2, <3>1 DEF Raise, Fail
  <2>3. CASE ~ Raise(d)
    BY <1>0, <1>3, <2>1, <2>3
    DEF Outer, ReceiveWebhook, ReceiveMetaWebhook, Enqueue, Refuse, Become, Start,
        Finish, Crash
  <2> QED
    BY <2>2, <2>3
<1>4. ASSUME NEW i \in Items, GrowOld(i)
      PROVE  UNCHANGED <<claimed, reply, invite, raised, posts, invitePosts>>
             /\ stale' \subseteq Items
  BY <1>0, <1>4 DEF GrowOld, rows, outside
<1> QED
  BY <1>0, <1>2, <1>3, <1>4, Steps DEF vars
LEMMA CounterTypes ==
  ASSUME TypeOK, [Next]_vars
  PROVE  /\ retries' \in [Deliveries -> 0 .. MaxRetries]
         /\ failures' \in 0 .. MaxFailures /\ crashes' \in 0 .. MaxCrashes
<1>0. /\ retries \in [Deliveries -> 0 .. MaxRetries]
      /\ failures \in 0 .. MaxFailures /\ crashes \in 0 .. MaxCrashes
      /\ MaxRetries \in Nat /\ MaxFailures \in Nat
      /\ MaxCrashes \in Nat
  BY DeliveryAssumption DEF TypeOK
<1>1. ASSUME NEW d \in Deliveries, Outer(d) \/ Within(d)
      PROVE  /\ failures' = failures \/ (failures < MaxFailures /\ failures' = failures + 1)
             /\ crashes' = crashes \/ (crashes < MaxCrashes /\ crashes' = crashes + 1)
             /\ \/ retries' = retries
                \/ /\ retries[d] < MaxRetries
                   /\ retries' = [retries EXCEPT ![d] = @ + 1]
  <2>1. CASE Outer(d)
    BY <2>1
    DEF Outer, ReceiveWebhook, ReceiveMetaWebhook, Enqueue, Refuse, Become, Start,
        Finish, Crash, Raise, Fail, faults
  <2>2. CASE Within(d)
    BY <2>2
    DEF Within, SkipStale, SkipDuplicate, ClaimInbound, StaySilent, ReserveReply,
        PostReply, PostReplyFails, ConfirmReply, InviteOff, InviteReserved, ReserveInvite,
        PostInvite, InviteFails, ConfirmInvite, faults
  <2> QED
    BY <1>1, <2>1, <2>2
<1>2. ASSUME NEW d \in Deliveries, Outer(d) \/ Within(d)
      PROVE  /\ retries' \in [Deliveries -> 0 .. MaxRetries]
             /\ failures' \in 0 .. MaxFailures /\ crashes' \in 0 .. MaxCrashes
  <2>1. retries' \in [Deliveries -> 0 .. MaxRetries]
    BY <1>0, <1>1, <1>2
  <2> QED
    BY <1>0, <1>1, <1>2, <2>1
<1>3. CASE (\E i \in Items : GrowOld(i)) \/ UNCHANGED vars
  BY <1>0, <1>3 DEF GrowOld, faults, vars
<1> QED
  BY <1>2, <1>3, Steps

LEMMA DeliveryTypesStep == TypeOK /\ [Next]_vars => TypeOK'
<1> SUFFICES ASSUME TypeOK, [Next]_vars PROVE TypeOK'
  OBVIOUS
<1>1. deployment' \in Deployments
  BY ParsedSame DEF TypeOK
<1> QED
  BY <1>1, AttemptTypes, RowTypes, CounterTypes DEF TypeOK

\* Deliveries, attempts, rows and counters keep their types, for any payloads and
\* any number of retries: an attempt's events are events of its payload
\* (WebhookDelivery.TypeOK).
THEOREM DeliveryTypes == Spec => []TypeOK
BY DeliveryTypesInit, DeliveryTypesStep, PTL DEF Spec
-----------------------------------------------------------------------------
(***************************************************************************)
(* One invitation per comment.                                             *)
(***************************************************************************)

\* An attempt that is not moved is where it was.
LEMMA SamePlace ==
  ASSUME NEW e \in Deliveries, delivery'[e] = delivery[e], work'[e] = work[e],
         pc'[e] = pc[e]
  PROVE  /\ Current(e)' = Current(e) /\ Item(e)' = Item(e)
         /\ \A stage : Running(e, stage)' <=> Running(e, stage)
BY DEF Current, Item, Running

\* What a step within d does to the invitations.
LEMMA InviteMoves ==
  ASSUME NEW d \in Deliveries, Within(d), DOMAIN pc = Deliveries
  PROVE  \/ UNCHANGED <<invite, invitePosts>> /\ pc'[d] \notin {"invite_post", "invite_confirm"}
         \/ ReserveInvite(d) \/ PostInvite(d) \/ InviteFails(d) \/ ConfirmInvite(d)
BY DEF Within, SkipStale, SkipDuplicate, ClaimInbound, StaySilent, ReserveReply,
       PostReply, PostReplyFails, ConfirmReply, InviteOff, InviteReserved, AfterHandler,
       Goto, NextEvent, rows, outside

LEMMA OwnerStep ==
  ASSUME TypeOK, InvitedOnce, InviteHasOneOwner, [Next]_vars
  PROVE  InvitedOnce' /\ InviteHasOneOwner'
<1>0. /\ DOMAIN pc = Deliveries /\ DOMAIN work = Deliveries /\ DOMAIN delivery = Deliveries
      /\ DOMAIN invite = Items /\ invitePosts \in [Items -> Nat] /\ MaxAttempts \in Nat
  BY DeliveryAssumption DEF TypeOK
<1>1. ASSUME NEW d \in Deliveries, Outer(d)
      PROVE  InvitedOnce' /\ InviteHasOneOwner'
  <2>1. UNCHANGED <<invite, invitePosts>>
    BY <1>1 DEF Outer, ReceiveWebhook, ReceiveMetaWebhook, Enqueue, Refuse, Become, Start,
                Finish, Crash, Raise, Fail, rows, outside
  <2>2. \A stage \in {"invite_post", "invite_confirm"} : ~ Running(d, stage)'
    BY <1>0, <1>1
    DEF Outer, ReceiveWebhook, ReceiveMetaWebhook, Enqueue, Refuse, Become, Start,
        Finish, Crash, Raise, Fail, Running
  <2> QED
    BY <1>1, <2>1, <2>2, OneDelivery, SamePlace DEF InvitedOnce, InviteHasOneOwner
<1>2. ASSUME NEW d \in Deliveries, Within(d)
      PROVE  InvitedOnce' /\ InviteHasOneOwner'
  <2>0. PICK i \in Items : i = Item(d)
    BY <1>2, WithinMoves, ItemIsParsed
  <2>a. \A e \in Deliveries \ {d} :
          Item(e)' = Item(e) /\ \A stage : Running(e, stage)' <=> Running(e, stage)
    BY <1>2, OneDelivery, SamePlace
  <2>b. \A e \in Deliveries : \A stage : Running(e, stage) => Item(e) \in Items
    BY ItemIsParsed DEF Running
  <2>1. CASE UNCHANGED <<invite, invitePosts>> /\ pc'[d] \notin {"invite_post", "invite_confirm"}
    <3>1. \A stage \in {"invite_post", "invite_confirm"} : ~ Running(d, stage)'
      BY <2>1 DEF Running
    <3> QED
      BY <2>1, <2>a, <3>1 DEF InvitedOnce, InviteHasOneOwner
  <2>2. CASE ReserveInvite(d)
    <3>1. /\ invite[i] = "none" /\ invite' = [invite EXCEPT ![i] = "pending"]
          /\ invitePosts' = invitePosts /\ work' = work
          /\ pc'[d] = "invite_post"
      BY <1>0, <2>0, <2>2 DEF ReserveInvite, Goto, outside
    <3>2. Item(d)' = i /\ ~ Running(d, "invite_confirm")'
      BY <2>0, <3>1 DEF Item, Current, Running
    <3>3. InvitedOnce'
      BY <1>0, <3>1 DEF InvitedOnce
    <3>4. \A j \in Items : invite'[j] = "none" => invitePosts'[j] = 0
      BY <1>0, <3>1 DEF InviteHasOneOwner
    <3>5. \A e \in Deliveries \ {d} : Running(e, "invite_post") => Item(e) # i
      BY <3>1 DEF InviteHasOneOwner
    <3>6. \A e \in Deliveries : Running(e, "invite_post")' =>
            invite'[Item(e)'] = "pending" /\ invitePosts'[Item(e)'] = 0
      BY <1>0, <2>a, <2>b, <3>1, <3>2, <3>5 DEF InviteHasOneOwner
    <3>7. \A e \in Deliveries : Running(e, "invite_confirm")' =>
            invitePosts'[Item(e)'] \in 1 .. MaxAttempts
      BY <2>a, <3>1, <3>2 DEF InviteHasOneOwner
    <3>8. \A e, f \in Deliveries :
            /\ Running(e, "invite_post")' /\ Running(f, "invite_post")'
            /\ Item(e)' = Item(f)'
            => e = f
      BY <2>a, <3>2, <3>5 DEF InviteHasOneOwner
    <3> QED
      BY <3>3, <3>4, <3>6, <3>7, <3>8 DEF InviteHasOneOwner
  <2>3. CASE PostInvite(d)
    <3>1. /\ Running(d, "invite_post") /\ invite' = invite
          /\ \E n \in 1 .. MaxAttempts :
               invitePosts' = [invitePosts EXCEPT ![i] = @ + n]
          /\ work' = work
          /\ pc'[d] = "invite_confirm"
      BY <1>0, <2>0, <2>3 DEF PostInvite, Goto, rows
    <3>2. Item(d)' = i /\ ~ Running(d, "invite_post")'
      BY <2>0, <3>1 DEF Item, Current, Running
    <3>3. invite[i] = "pending" /\ invitePosts[i] = 0 /\ invitePosts'[i] \in 1 .. MaxAttempts
      BY <1>0, <2>0, <3>1 DEF InviteHasOneOwner
    <3>4. InvitedOnce'
      BY <1>0, <3>1, <3>3 DEF InvitedOnce
    <3>5. \A e \in Deliveries \ {d} :
            (Running(e, "invite_post") \/ Running(e, "invite_confirm")) => Item(e) # i
      BY <2>0, <3>1, <3>3 DEF InviteHasOneOwner
    <3>6. \A j \in Items : invite'[j] = "none" => invitePosts'[j] = 0
      BY <1>0, <3>1, <3>3 DEF InviteHasOneOwner
    <3>7. \A e \in Deliveries : Running(e, "invite_post")' =>
            invite'[Item(e)'] = "pending" /\ invitePosts'[Item(e)'] = 0
      BY <1>0, <2>a, <2>b, <3>1, <3>2, <3>5 DEF InviteHasOneOwner
    <3>8. \A e \in Deliveries : Running(e, "invite_confirm")' =>
            invitePosts'[Item(e)'] \in 1 .. MaxAttempts
      BY <1>0, <2>a, <2>b, <3>1, <3>2, <3>3, <3>5 DEF InviteHasOneOwner
    <3>9. \A e, f \in Deliveries :
            /\ Running(e, "invite_post")' /\ Running(f, "invite_post")'
            /\ Item(e)' = Item(f)'
            => e = f
      BY <2>a, <3>2 DEF InviteHasOneOwner
    <3> QED
      BY <3>4, <3>6, <3>7, <3>8, <3>9 DEF InviteHasOneOwner
  <2>4. CASE InviteFails(d)
    <3>1. /\ Running(d, "invite_post") /\ invite' = [invite EXCEPT ![i] = "unconfirmed"]
          /\ \E n \in 1 .. MaxAttempts :
               invitePosts' = [invitePosts EXCEPT ![i] = @ + n]
          /\ pc'[d] = "dispatch"
      BY <1>0, <2>0, <2>4 DEF InviteFails, NextEvent
    <3>2. ~ Running(d, "invite_post")' /\ ~ Running(d, "invite_confirm")'
      BY <3>1 DEF Running
    <3>3. invite[i] = "pending" /\ invitePosts[i] = 0 /\ invitePosts'[i] \in 1 .. MaxAttempts
      BY <1>0, <2>0, <3>1 DEF InviteHasOneOwner
    <3>4. InvitedOnce'
      BY <1>0, <3>1, <3>3 DEF InvitedOnce
    <3>5. \A e \in Deliveries \ {d} :
            (Running(e, "invite_post") \/ Running(e, "invite_confirm")) => Item(e) # i
      BY <2>0, <3>1, <3>3 DEF InviteHasOneOwner
    <3>6. \A j \in Items : invite'[j] = "none" => invitePosts'[j] = 0
      BY <1>0, <3>1, <3>3 DEF InviteHasOneOwner
    <3>7. \A e \in Deliveries : Running(e, "invite_post")' =>
            invite'[Item(e)'] = "pending" /\ invitePosts'[Item(e)'] = 0
      BY <1>0, <2>a, <2>b, <3>1, <3>2, <3>5 DEF InviteHasOneOwner
    <3>8. \A e \in Deliveries : Running(e, "invite_confirm")' =>
            invitePosts'[Item(e)'] \in 1 .. MaxAttempts
      BY <1>0, <2>a, <2>b, <3>1, <3>2, <3>3, <3>5 DEF InviteHasOneOwner
    <3>9. \A e, f \in Deliveries :
            /\ Running(e, "invite_post")' /\ Running(f, "invite_post")'
            /\ Item(e)' = Item(f)'
            => e = f
      BY <2>a, <3>2 DEF InviteHasOneOwner
    <3> QED
      BY <3>4, <3>6, <3>7, <3>8, <3>9 DEF InviteHasOneOwner
  <2>5. CASE ConfirmInvite(d)
    <3>1. /\ Running(d, "invite_confirm") /\ invite' = [invite EXCEPT ![i] = "sent"]
          /\ invitePosts' = invitePosts /\ pc'[d] = "dispatch"
      BY <1>0, <2>0, <2>5 DEF ConfirmInvite, NextEvent, outside
    <3>2. ~ Running(d, "invite_post")' /\ ~ Running(d, "invite_confirm")'
      BY <3>1 DEF Running
    <3>3. invitePosts[i] \in 1 .. MaxAttempts
      BY <2>0, <3>1 DEF InviteHasOneOwner
    <3>4. InvitedOnce'
      BY <1>0, <3>1 DEF InvitedOnce
    <3>5. \A e \in Deliveries : Running(e, "invite_post") => Item(e) # i
      BY <3>3 DEF InviteHasOneOwner
    <3> QED
      BY <1>0, <2>a, <2>b, <3>1, <3>2, <3>4, <3>5 DEF InviteHasOneOwner
  <2> QED
    BY <1>0, <1>2, <2>1, <2>2, <2>3, <2>4, <2>5, InviteMoves
<1>3. CASE (\E i \in Items : GrowOld(i)) \/ UNCHANGED vars
  <2>1. UNCHANGED <<delivery, work, pc, invite, invitePosts>>
    BY <1>3 DEF GrowOld, vars, rows, outside
  <2> QED
    BY <2>1, SamePlace DEF InvitedOnce, InviteHasOneOwner
<1> QED
  BY <1>1, <1>2, <1>3, Steps
-----------------------------------------------------------------------------
(***************************************************************************)
(* No comment is left uninvited.                                           *)
(***************************************************************************)

LEMMA TasksStep ==
  ASSUME TypeOK, TasksAreQueued, [Next]_vars
  PROVE  TasksAreQueued'
<1>0. DOMAIN delivery = Deliveries /\ deployment' = deployment
  BY ParsedSame DEF TypeOK
<1>1. ASSUME NEW d \in Deliveries, Outer(d) PROVE TasksAreQueued'
  <2>1. delivery'[d] = "queued" => delivery[d] = "queued" \/ queued
    BY <1>0, <1>1
    DEF Outer, ReceiveWebhook, ReceiveMetaWebhook, Enqueue, Refuse, Become, Start,
        Finish, Crash, Raise, Fail
  <2> QED
    BY <1>0, <1>1, <2>1, OneDelivery DEF TasksAreQueued, queued
<1>2. CASE UNCHANGED delivery
  BY <1>0, <1>2 DEF TasksAreQueued, queued
<1> QED
  BY <1>1, <1>2, Steps, WithinMoves DEF GrowOld, vars

\* What the rows of an item can do in a step: a claim is made by an attempt that is
\* at the item, the invitation's row stays once it is there, and what was raised or
\* has grown old stays so.
LEMMA RowsGrow ==
  ASSUME TypeOK, [Next]_vars, NEW i \in Items
  PROVE  /\ i \in claimed => i \in claimed'
         /\ stale \subseteq stale' /\ raised \subseteq raised'
         /\ invite[i] # "none" => invite'[i] # "none"
<1>0. DOMAIN invite = Items
  BY DEF TypeOK
<1>1. ASSUME NEW d \in Deliveries, Within(d)
      PROVE  /\ claimed' \in {claimed, claimed \cup {Item(d)}}
             /\ stale' = stale /\ raised' = raised
             /\ invite' = invite
                \/ \E v \in {"pending", "sent", "unconfirmed"} :
                     invite' = [invite EXCEPT ![Item(d)] = v]
  BY <1>1
  DEF Within, SkipStale, SkipDuplicate, ClaimInbound, StaySilent, ReserveReply,
      PostReply, PostReplyFails, ConfirmReply, InviteOff, InviteReserved, ReserveInvite,
      PostInvite, InviteFails, ConfirmInvite, AfterHandler, Goto, NextEvent, rows
<1>2. ASSUME NEW d \in Deliveries, Outer(d)
      PROVE  UNCHANGED <<claimed, invite, stale>> /\ raised \subseteq raised'
  BY <1>2 DEF Outer, ReceiveWebhook, ReceiveMetaWebhook, Enqueue, Refuse, Become, Start,
              Finish, Crash, Raise, Fail, rows
<1>3. ASSUME NEW j \in Items, GrowOld(j)
      PROVE  UNCHANGED <<claimed, invite, raised>> /\ stale \subseteq stale'
  BY <1>3 DEF GrowOld, rows
<1> QED
  BY <1>0, <1>1, <1>2, <1>3, Steps DEF vars

\* An attempt that owes an invitation goes on owing it until the row is reserved.
LEMMA DebtStays ==
  ASSUME TypeOK, TasksAreQueued, [Next]_vars, NEW i \in Items, NEW d \in Deliveries,
         OwesInvite(d, i), i \in claimed' \ stale', Surface[i] \in InviteEnabled,
         queued \/ i \notin raised', invite'[i] = "none", i \in claimed
  PROVE  OwesInvite(d, i)'
<1>0. /\ DOMAIN delivery = Deliveries /\ DOMAIN work = Deliveries /\ DOMAIN pc = Deliveries
      /\ DOMAIN invite = Items /\ deployment' = deployment
      /\ Worklist(d)' = Worklist(d) /\ queued' = queued
  BY ParsedSame DEF TypeOK, queued
<1>1. PICK n \in Worklist(d) :
        /\ Payload[d][n] = i
        /\ \/ delivery[d] \in {"queued", "dead", "lost"}
           \/ /\ delivery[d] = "running" /\ n \in work[d]
              /\ queued \/ (n = Current(d) /\ pc[d] # "dispatch")
  BY DEF OwesInvite
<1>2. SUFFICES \/ delivery'[d] \in {"queued", "dead", "lost"}
               \/ /\ delivery'[d] = "running" /\ n \in work'[d]
                  /\ queued \/ (n = Current(d)' /\ pc'[d] # "dispatch")
  BY <1>0, <1>1 DEF OwesInvite
<1>3. CASE delivery'[d] = delivery[d] /\ work'[d] = work[d] /\ pc'[d] = pc[d]
  BY <1>1, <1>3, SamePlace
<1>4. CASE Within(d)
  <2>1. /\ delivery[d] = "running" /\ delivery' = delivery /\ work[d] # {}
    BY <1>4, WithinMoves
  <2>2. n \in work[d] /\ (queued \/ (n = Current(d) /\ pc[d] # "dispatch"))
    BY <1>1, <2>1
  <2>3. CASE n # Current(d)
    BY <1>0, <1>4, <2>1, <2>2, <2>3, WithinMoves
  <2>4. CASE n = Current(d)
    <3>1. Item(d) = i
      BY <1>1, <2>1, <2>4, ItemIsParsed
    <3>2. i \notin stale /\ Surface[i] \in Comments /\ invite[i] = "none"
      <4>1. InviteEnabled \subseteq Comments
        BY DeliveryAssumption DEF TypeOK, InviteEnabled
      <4> QED
        BY <4>1, RowsGrow
    <3>3. ~ SkipStale(d) /\ ~ InviteOff(d) /\ ~ InviteReserved(d)
          /\ ~ ReserveInvite(d) /\ ~ InviteFails(d) /\ ~ ConfirmInvite(d)
      BY <1>0, <3>1, <3>2
      DEF SkipStale, InviteOff, InviteReserved, ReserveInvite, InviteFails, ConfirmInvite
    <3>4. work' = work /\ pc'[d] # "dispatch"
      BY <1>0, <1>4, <3>1, <3>2, <3>3
      DEF Within, SkipDuplicate, ClaimInbound, StaySilent, ReserveReply, PostReply,
          PostReplyFails, ConfirmReply, PostInvite, AfterHandler, Goto
    <3>5. Current(d)' = Current(d)
      BY <3>4 DEF Current
    <3> QED
      BY <2>1, <2>2, <2>4, <3>4, <3>5
  <2> QED
    BY <2>3, <2>4
<1>5. CASE Start(d)
  <2>1. queued /\ delivery'[d] = "running" /\ work'[d] = Worklist(d)
    <3>1. delivery[d] = "queued"
      BY <1>1, <1>5 DEF Start
    <3> QED
      BY <1>0, <1>5, <3>1 DEF Start, TasksAreQueued
  <2> QED
    BY <2>1
<1>6. CASE Crash(d)
  BY <1>0, <1>6 DEF Crash
<1>7. CASE Raise(d)
  <2>1. CASE queued
    BY <1>0, <1>7, <2>1 DEF Raise, Fail
  <2>2. CASE ~ queued
    <3>1. delivery[d] = "running" /\ n = Current(d) /\ Item(d) = i
      BY <1>1, <1>7, <2>2, ItemIsParsed DEF Raise
    <3>2. i \in raised'
      BY <1>7, <3>1 DEF Raise, Fail
    <3> QED
      BY <2>2, <3>2
  <2> QED
    BY <2>1, <2>2
<1>8. CASE Finish(d)
  BY <1>1, <1>8 DEF Finish
<1>9. ASSUME NEW signed, NEW json,
             ReceiveWebhook(d, signed, json) \/ ReceiveMetaWebhook(d, signed, json)
      PROVE  FALSE
  BY <1>1, <1>9 DEF ReceiveWebhook, ReceiveMetaWebhook
<1>10. \/ delivery'[d] = delivery[d] /\ work'[d] = work[d] /\ pc'[d] = pc[d]
       \/ Outer(d) \/ Within(d)
  <2>1. CASE (\E j \in Items : GrowOld(j)) \/ UNCHANGED vars
    BY <2>1 DEF GrowOld, vars
  <2> QED
    BY <2>1, Steps, OneDelivery
<1> QED
  BY <1>3, <1>4, <1>5, <1>6, <1>7, <1>8, <1>9, <1>10 DEF Outer

LEMMA OwedStep ==
  ASSUME TypeOK, TasksAreQueued, InviteIsOwed, [Next]_vars
  PROVE  InviteIsOwed'
<1>0. /\ deployment' = deployment /\ queued' = queued /\ InviteEnabled' = InviteEnabled
      /\ claimed' \subseteq Items /\ DOMAIN pc = Deliveries
  BY ParsedSame, RowTypes DEF queued, InviteEnabled, TypeOK
<1> SUFFICES ASSUME NEW i \in claimed' \ stale', Surface[i] \in InviteEnabled,
                    queued \/ i \notin raised', invite'[i] = "none"
             PROVE  \E d \in Deliveries : OwesInvite(d, i)'
  BY <1>0 DEF InviteIsOwed
<1>1. i \in Items /\ i \notin stale /\ (queued \/ i \notin raised) /\ invite[i] = "none"
  BY <1>0, RowsGrow
<1>2. CASE i \in claimed
  <2>1. PICK d \in Deliveries : OwesInvite(d, i)
    BY <1>1, <1>2 DEF InviteIsOwed
  <2> QED
    BY <1>1, <1>2, <2>1, DebtStays
<1>3. CASE i \notin claimed
  <2>1. PICK d \in Deliveries : ClaimInbound(d)
    <3>1. ASSUME NEW d \in Deliveries, Within(d)
          PROVE  ClaimInbound(d) \/ claimed' = claimed
                 \/ (SkipStale(d) /\ claimed' \subseteq claimed \cup stale)
      BY <3>1
      DEF Within, SkipStale, SkipDuplicate, StaySilent, ReserveReply,
          PostReply, PostReplyFails, ConfirmReply, InviteOff, InviteReserved, ReserveInvite,
          PostInvite, InviteFails, ConfirmInvite, rows
    <3>2. ASSUME NEW d \in Deliveries, Outer(d)
          PROVE  claimed' = claimed
      BY <3>2
      DEF Outer, ReceiveWebhook, ReceiveMetaWebhook, Enqueue, Refuse, Become, Start,
          Finish, Crash, Raise, rows
    <3> QED
      BY <1>1, <1>3, <3>1, <3>2, Steps DEF GrowOld, vars, rows
  <2>2. /\ delivery[d] = "running" /\ work[d] # {} /\ delivery' = delivery
        /\ work' = work /\ pc'[d] = "answer" /\ claimed' = claimed \cup {Item(d)}
    BY <1>0, <2>1 DEF ClaimInbound, Running, Goto
  <2>3. Item(d) = i
    BY <1>3, <2>2
  <2>4. /\ Current(d) \in work[d] /\ Current(d) \in Worklist(d)
        /\ Payload[d][Current(d)] = i
    BY <2>2, <2>3, ItemIsParsed
  <2>5. Current(d)' = Current(d) /\ Worklist(d)' = Worklist(d)
    BY <2>2, ParsedSame DEF Current
  <2>6. OwesInvite(d, i)'
    BY <2>2, <2>4, <2>5 DEF OwesInvite
  <2> QED
    BY <2>6
<1> QED
  BY <1>2, <1>3
-----------------------------------------------------------------------------
(***************************************************************************)
(* Private messages are not held up, and no answer is answered.            *)
(***************************************************************************)

LEMMA BehindStep ==
  ASSUME TypeOK, PrivateIsBehind, [Next]_vars
  PROVE  PrivateIsBehind'
<1>0. /\ DOMAIN delivery = Deliveries /\ DOMAIN work = Deliveries /\ DOMAIN pc = Deliveries
      /\ \A d \in Deliveries : Worklist(d)' = Worklist(d) /\ work[d] \subseteq Worklist(d)
  BY ParsedSame DEF TypeOK
<1> SUFFICES ASSUME NEW d \in Deliveries, NEW n \in Worklist(d),
                    Surface[Payload[d][n]] \notin Comments,
                    \/ delivery'[d] \in {"acked", "dead", "inline_done"}
                    \/ /\ delivery'[d] = "running"
                       /\ n \notin work'[d] \/ (n = Current(d)' /\ pc'[d] # "dispatch")
             PROVE  TakenUp(Payload[d][n])'
  BY <1>0 DEF PrivateIsBehind
<1>1. Payload[d][n] \in Items
  BY ParsedItem
<1>2. TakenUp(Payload[d][n]) => TakenUp(Payload[d][n])'
  BY <1>1, RowsGrow DEF TakenUp
<1>a. ASSUME \/ delivery[d] \in {"acked", "dead", "inline_done"}
             \/ /\ delivery[d] = "running"
                /\ n \notin work[d] \/ (n = Current(d) /\ pc[d] # "dispatch")
      PROVE  TakenUp(Payload[d][n])'
  BY <1>2, <1>a DEF PrivateIsBehind
<1>3. CASE delivery'[d] = delivery[d] /\ work'[d] = work[d] /\ pc'[d] = pc[d]
  BY <1>3, <1>a, SamePlace
<1>4. CASE Within(d)
  <2>1. delivery[d] = "running" /\ delivery' = delivery /\ work[d] # {}
    BY <1>4, WithinMoves
  <2>2. CASE n \notin work[d] \/ (n = Current(d) /\ pc[d] # "dispatch")
    BY <1>a, <2>1, <2>2
  <2>3. CASE n \in work[d] /\ n # Current(d)
    <3>1. n \in work'[d] /\ (n = Current(d)' => pc'[d] = "dispatch")
      <4>1. CASE work' = work
        BY <2>3, <4>1 DEF Current
      <4>2. CASE /\ pc' = [pc EXCEPT ![d] = "dispatch"]
                 /\ work' = [work EXCEPT ![d] = @ \ {Current(d)}]
        BY <1>0, <2>3, <4>2
      <4> QED
        BY <1>4, <4>1, <4>2, WithinMoves
    <3> QED
      BY <2>1, <3>1
  <2>4. CASE n = Current(d) /\ pc[d] = "dispatch"
    <3>1. Item(d) = Payload[d][n] /\ Surface[Item(d)] \notin Comments
      BY <2>1, <2>4, ItemIsParsed
    <3>2. \/ Item(d) \in claimed' \cup stale'
          \/ ~ (SkipStale(d) \/ SkipDuplicate(d) \/ ClaimInbound(d))
      BY DEF SkipStale, SkipDuplicate, ClaimInbound, AfterHandler, Goto, NextEvent, rows
    <3>3. SkipStale(d) \/ SkipDuplicate(d) \/ ClaimInbound(d)
      BY <1>4, <2>4
      DEF Within, StaySilent, ReserveReply, PostReply, PostReplyFails, ConfirmReply,
          InviteOff, InviteReserved, ReserveInvite, PostInvite, InviteFails,
          ConfirmInvite, Running
    <3> QED
      BY <3>1, <3>2, <3>3 DEF TakenUp
  <2> QED
    BY <2>2, <2>3, <2>4
<1>5. CASE Start(d)
  BY <1>0, <1>5 DEF Start
<1>6. CASE Crash(d)
  BY <1>0, <1>6 DEF Crash
<1>7. CASE Raise(d)
  <2>1. /\ delivery[d] = "running" /\ work[d] # {} /\ Item(d) \in raised'
        /\ pc'[d] = "dispatch"
        /\ \/ delivery'[d] \in {"queued", "dead"}
           \/ /\ delivery'[d] = "running"
              /\ work'[d] = {m \in work[d] : Surface[Payload[d][m]] # Surface[Item(d)]}
    BY <1>0, <1>7 DEF Raise, Fail
  <2>2. CASE Surface[Item(d)] \notin Comments
    BY <2>1, <2>2 DEF TakenUp
  <2>3. CASE Surface[Item(d)] \in Comments
    <3>1. CASE n \notin work[d]
      BY <1>a, <2>1, <3>1
    <3>2. CASE n \in work[d]
      <4>1. Surface[Payload[d][First(d, work[d])]] \in Comments
        BY <2>3 DEF Item, Current
      <4> QED
        BY <1>0, <3>2, <4>1, CommentsComeLast
    <3> QED
      BY <3>1, <3>2
  <2> QED
    BY <2>2, <2>3
<1>8. CASE Finish(d)
  BY <1>a, <1>8 DEF Finish
<1>9. ASSUME NEW signed, NEW json,
             ReceiveWebhook(d, signed, json) \/ ReceiveMetaWebhook(d, signed, json)
      PROVE  FALSE
  <2>1. delivery'[d] \in {"unsent", "ignored", "queued", "background"}
    BY <1>0, <1>9 DEF ReceiveWebhook, ReceiveMetaWebhook, Enqueue, Refuse, Become
  <2> QED
    BY <2>1
<1>10. \/ delivery'[d] = delivery[d] /\ work'[d] = work[d] /\ pc'[d] = pc[d]
       \/ Outer(d) \/ Within(d)
  <2>1. CASE (\E j \in Items : GrowOld(j)) \/ UNCHANGED vars
    BY <2>1 DEF GrowOld, vars
  <2> QED
    BY <2>1, Steps, OneDelivery
<1> QED
  BY <1>3, <1>4, <1>5, <1>6, <1>7, <1>8, <1>9, <1>10 DEF Outer

LEMMA OwnStep ==
  ASSUME TypeOK, NeverAnswersItself, [Next]_vars
  PROVE  NeverAnswersItself'
<1>0. /\ DOMAIN posts = Items /\ DOMAIN invitePosts = Items /\ Own \subseteq Items
  BY DeliveryAssumption DEF TypeOK
<1>1. ASSUME NEW d \in Deliveries, Within(d)
      PROVE  /\ claimed' \in {claimed, claimed \cup {Item(d)}}
             /\ posts' \in {posts, [posts EXCEPT ![Item(d)] = @ \cup {"sender"}]}
             /\ \/ invitePosts' = invitePosts
                \/ \E n : invitePosts' = [invitePosts EXCEPT ![Item(d)] = @ + n]
             /\ Item(d) \notin Own
  <2>1. Item(d) \notin Own
    BY <1>1, WithinMoves, ItemIsParsed
  <2> QED
    BY <1>1, <2>1
    DEF Within, SkipStale, SkipDuplicate, ClaimInbound, StaySilent, ReserveReply,
        PostReply, PostReplyFails, ConfirmReply, InviteOff, InviteReserved, ReserveInvite,
        PostInvite, InviteFails, ConfirmInvite, Recipient, rows, outside
<1>2. ASSUME NEW d \in Deliveries, Within(d) PROVE NeverAnswersItself'
  BY <1>0, <1>1, <1>2 DEF NeverAnswersItself
<1>3. CASE UNCHANGED <<claimed, posts, invitePosts>>
  BY <1>3 DEF NeverAnswersItself
<1>4. \A d \in Deliveries : Outer(d) => UNCHANGED <<claimed, posts, invitePosts>>
  BY DEF Outer, ReceiveWebhook, ReceiveMetaWebhook, Enqueue, Refuse, Become, Start,
         Finish, Crash, Raise, rows, outside
<1> QED
  BY <1>2, <1>3, <1>4, Steps DEF GrowOld, vars, rows, outside
-----------------------------------------------------------------------------
(***************************************************************************)
(* The theorems.                                                           *)
(***************************************************************************)

LEMMA DeliveryInit == Init => DeliveryInvariant
<1> SUFFICES ASSUME Init PROVE DeliveryInvariant
  OBVIOUS
<1>1. /\ \A d \in Deliveries : delivery[d] = "unsent" /\ work[d] = {}
      /\ \A i \in Items : invite[i] = "none" /\ invitePosts[i] = 0 /\ posts[i] = {}
      /\ claimed = {}
  BY DEF Init
<1>2. \A d \in Deliveries : \A stage : ~ Running(d, stage)
  BY <1>1 DEF Running
<1>3. InvitedOnce /\ InviteHasOneOwner
  BY <1>1, <1>2, DeliveryAssumption DEF InvitedOnce, InviteHasOneOwner
<1>4. TasksAreQueued /\ InviteIsOwed /\ PrivateIsBehind
  BY <1>1 DEF TasksAreQueued, InviteIsOwed, PrivateIsBehind
<1>5. NeverAnswersItself
  BY <1>1, DeliveryAssumption DEF NeverAnswersItself
<1> QED
  BY <1>3, <1>4, <1>5 DEF DeliveryInvariant

LEMMA DeliveryStep == TypeOK /\ DeliveryInvariant /\ [Next]_vars => DeliveryInvariant'
BY OwnerStep, TasksStep, OwedStep, BehindStep, OwnStep DEF DeliveryInvariant

\* The inductive invariant, of every reachable state.
THEOREM DeliveriesConsistent == Spec => [](TypeOK /\ DeliveryInvariant)
BY DeliveryTypesInit, DeliveryTypesStep, DeliveryInit, DeliveryStep, PTL DEF Spec

\* One private reply per comment, whatever is redelivered, retried or lost, and its
\* reservation is there before it leaves (InvitedOnce: invite_after_comment).
THEOREM InviteOnlyOnce == Spec => []InvitedOnce
<1>1. DeliveryInvariant => InvitedOnce
  BY DEF DeliveryInvariant
<1> QED
  BY <1>1, DeliveriesConsistent, PTL

\* A comment that was taken up is invited, unless it grew old or its attempt raised
\* where nothing is retried (ClaimedIsInvited: process_meta_payload invites after a
\* duplicate too).
THEOREM NoneUninvited == Spec => []ClaimedIsInvited
<1>1. TypeOK /\ DeliveryInvariant => ClaimedIsInvited
  <2> SUFFICES ASSUME TypeOK, InviteIsOwed, NEW i \in claimed \ stale,
                      Surface[i] \in InviteEnabled, queued \/ i \notin raised,
                      \A d \in Deliveries : i \in ToSet(Payload[d]) =>
                        delivery[d] \in {"unsent", "acked", "inline_done"},
                      invite[i] = "none"
               PROVE  FALSE
    BY DEF DeliveryInvariant, ClaimedIsInvited
  <2>1. PICK d \in Deliveries : OwesInvite(d, i)
    BY DEF InviteIsOwed
  <2>2. PICK n \in Worklist(d) :
          /\ Payload[d][n] = i
          /\ delivery[d] \in {"queued", "dead", "lost", "running"}
    BY <2>1 DEF OwesInvite
  <2>3. i \in ToSet(Payload[d])
    BY <2>2, ParsedItem
  <2> QED
    BY <2>2, <2>3
<1> QED
  BY <1>1, DeliveriesConsistent, PTL

\* Comments that keep failing hold up no private message of their delivery
\* (PrivateIsNotHeldUp: meta_channels_for_object's order, and the inline task's
\* separate surfaces).
THEOREM PrivateGoesFirst == Spec => []PrivateIsNotHeldUp
<1>1. DeliveryInvariant => PrivateIsNotHeldUp
  BY DEF DeliveryInvariant, PrivateIsBehind, PrivateIsNotHeldUp, TakenUp
<1> QED
  BY <1>1, DeliveriesConsistent, PTL

\* What the business wrote itself is never claimed, answered or invited
\* (NeverAnswersItself: the adapters' echo and own-comment guards).
THEOREM NoEchoAnswered == Spec => []NeverAnswersItself
<1>1. DeliveryInvariant => NeverAnswersItself
  BY DEF DeliveryInvariant
<1> QED
  BY <1>1, DeliveriesConsistent, PTL
=============================================================================
