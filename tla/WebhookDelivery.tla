--------------------------- MODULE WebhookDelivery ---------------------------
(***************************************************************************)
(* From Meta's POST to the handled message, on every channel: the two      *)
(* webhook routes, the task queue or the inline background task, the       *)
(* adapters a delivery is parsed by, the dispatch of each event, and the   *)
(* private invitation that follows a comment.  A delivery carries items;   *)
(* the same item comes again when Meta redelivers it.  The turn inside     *)
(* ChatService is module ReplyPipeline's; here it is its claim, its        *)
(* reservation, its send and its confirmation.                             *)
(***************************************************************************)
EXTENDS Integers, Sequences, FiniteSets, SequencesExt

CONSTANTS
  Deliveries, Items,
  Object,       \* Object[d]: what the envelope of d is about
  Payload,      \* Payload[d]: the items d carries
  Surface,      \* Surface[i]: the channel i belongs to
  Own,          \* items the business wrote itself: echoes, own comments
  EchoOf,       \* EchoOf[i]: the item whose public answer the own item i is
  Nameless,     \* items without a sender or an id
  Dated,        \* items with a timestamp the age is computed from
  Poison,       \* items whose handling raises whenever it is tried
  AppSecretSet, Production,
  Configured,   \* channels whose credentials are set
  Deployments,  \* combinations of the settings below that are of interest
  MaxAttempts,  \* retry_max_attempts: POSTs the client makes of one call
  MaxRetries, MaxCrashes,
  MaxFailures   \* bounds the refused requests and the faults together

Comments == {"facebook_comment", "instagram_comment"}
MetaChannels == Comments \cup {"messenger", "instagram_dm"}

ASSUME DeliveryAssumption ==
  /\ Payload \in [Deliveries -> Seq(Items)]
  /\ Surface \in [Items -> MetaChannels \cup {"whatsapp"}]
  /\ Object \in [Deliveries -> {"whatsapp", "page", "instagram", "other"}]
  /\ Own \cup Nameless \cup Dated \cup Poison \subseteq Items
  /\ EchoOf \in [Own -> Items]
  /\ \A i \in Own : Surface[i] # "whatsapp"   \* WhatsApp sends a business no echoes
  /\ Deployments \subseteq [queue : BOOLEAN, enabled : SUBSET (MetaChannels \cup {"whatsapp"}),
                            invites : SUBSET Comments]
  /\ MaxAttempts \in Nat \ {0}
  /\ {MaxRetries, MaxFailures, MaxCrashes} \subseteq Nat

VARIABLES
  deployment,  \* USE_TASK_QUEUE, the channel switches, the invitation switches
  delivery,    \* how far each delivery has come
  retries,
  work,        \* the events the running attempt has left, as places of its payload
  pc,          \* where it is in the first of them
  claimed,     \* the inbound rows: items recorded once and for all
  reply,       \* the outbound row reserved under the item's id
  invite,      \* the outbound row reserved under "dm_invite:" and the id
  stale,       \* items older than the age limit
  failures, crashes,
  raised,      \* items whose handling has raised
  posts,       \* the recipients an answer to the item was posted to
  invitePosts  \* POSTs of its private reply, any of which may have arrived

vars == <<deployment, delivery, retries, work, pc, claimed, reply, invite,
          stale, failures, crashes, raised, posts, invitePosts>>

queued == deployment.queue
Enabled == deployment.enabled
InviteEnabled == deployment.invites

\* The public surface first.
MetaChannelsForSwapped(object) ==
  CASE object = "page" -> <<"facebook_comment", "messenger">>
    [] object = "instagram" -> <<"instagram_comment", "instagram_dm">>
    [] OTHER -> <<>>

\* meta_channels_for_object: the private surface comes before the public one.
MetaChannelsFor(object) ==
  CASE object = "page" -> <<"messenger", "facebook_comment">>
    [] object = "instagram" -> <<"instagram_dm", "instagram_comment">>
    [] OTHER -> <<>>

\* The adapters a worker builds for the envelope: enabled and configured.
Adapters(object) ==
  IF object = "whatsapp" THEN {"whatsapp"}
  ELSE ToSet(MetaChannelsFor(object)) \cap Enabled \cap Configured

\* What the adapter of a channel makes of a payload: the places of its own items,
\* without the business's echoes and without what cannot be routed.  WhatsApp's
\* messages are taken from the payload as they are.
ParseWithOwn(channel, payload) ==
  {n \in DOMAIN payload : Surface[payload[n]] = channel /\ payload[n] \notin Nameless}
Parse(channel, payload) ==
  {n \in DOMAIN payload :
     /\ Surface[payload[n]] = channel
     /\ channel = "whatsapp" \/ payload[n] \notin Own \cup Nameless}

\* The events of one attempt, and their order: adapter after adapter, and each
\* adapter's in the order of the payload.
Worklist(d) == UNION {Parse(channel, Payload[d]) : channel \in Adapters(Object[d])}
Precedes(object, a, b) ==
  LET order == MetaChannelsFor(object)
  IN \E m, n \in DOMAIN order : m < n /\ order[m] = a /\ order[n] = b
Before(d, m, n) ==
  LET a == Surface[Payload[d][m]]
      b == Surface[Payload[d][n]]
  IN Precedes(Object[d], a, b) \/ (a = b /\ m < n)

\* verify_meta_signature; without a secret only a non-production deployment
\* takes the request.
SignatureOk(signed) == IF AppSecretSet THEN signed ELSE ~Production

DeliveryStates == {"unsent", "ignored", "queued", "background", "running",
                   "acked", "dead", "inline_done", "lost"}
Stages == {"dispatch", "answer", "post", "confirm",
           "invite", "invite_post", "invite_confirm"}
First(d, places) == CHOOSE n \in places : \A m \in places \ {n} : Before(d, n, m)
Current(d) == First(d, work[d])
Item(d) == Payload[d][Current(d)]
Running(d, stage) == delivery[d] = "running" /\ work[d] # {} /\ pc[d] = stage

Init ==
  /\ deployment \in Deployments
  /\ delivery = [d \in Deliveries |-> "unsent"]
  /\ retries = [d \in Deliveries |-> 0]
  /\ work = [d \in Deliveries |-> {}]
  /\ pc = [d \in Deliveries |-> "dispatch"]
  /\ claimed = {} /\ stale = {} /\ raised = {}
  /\ reply = [i \in Items |-> "none"] /\ invite = reply
  /\ failures = 0 /\ crashes = 0
  /\ posts = [i \in Items |-> {}] /\ invitePosts = [i \in Items |-> 0]

rows == <<claimed, reply, invite>>
outside == <<posts, invitePosts>>
faults == <<failures, crashes, retries>>

Become(d, state) ==
  /\ delivery' = [delivery EXCEPT ![d] = state]
  /\ UNCHANGED <<deployment, retries, work, pc, rows, stale, crashes, raised, outside>>

\* 403, 400 or 500: nothing is kept of the request, and Meta sends it again.
Refuse(d) ==
  /\ failures < MaxFailures /\ failures' = failures + 1
  /\ Become(d, "unsent")

\* The payload is handed on: to the broker, which may be down, or to a
\* background task of this process.
Enqueue(d) ==
  \/ Become(d, IF queued THEN "queued" ELSE "background") /\ UNCHANGED failures
  \/ queued /\ Refuse(d)

\* POST /webhook, with or without a valid signature and a JSON body.
ReceiveWebhook(d, signed, json) ==
  /\ delivery[d] = "unsent" /\ Object[d] = "whatsapp"
  /\ \/ ~(SignatureOk(signed) /\ json) /\ Refuse(d)
     \/ SignatureOk(signed) /\ json /\ Enqueue(d)

\* An own item exists once its original has been answered in public.
Exists(d) == \A i \in ToSet(Payload[d]) \cap Own : posts[EchoOf[i]] # {}

\* POST /webhook/meta.  What no enabled surface understands is answered 200 and
\* dropped; the body is not even parsed when every Meta channel is off.
ReceiveMetaWebhook(d, signed, json) ==
  LET ignored == \/ Enabled \cap MetaChannels = {}
                 \/ json /\ ToSet(MetaChannelsFor(Object[d])) \cap Enabled = {}
  IN /\ delivery[d] = "unsent" /\ Object[d] # "whatsapp" /\ Exists(d)
     /\ \/ (~SignatureOk(signed) \/ (~ignored /\ ~json)) /\ Refuse(d)
        \/ /\ SignatureOk(signed) /\ ignored
           /\ Become(d, "ignored") /\ UNCHANGED failures
        \/ SignatureOk(signed) /\ json /\ ~ignored /\ Enqueue(d)

\* A worker takes the task, or the background task begins.
Start(d) ==
  /\ delivery[d] \in {"queued", "background"}
  /\ delivery' = [delivery EXCEPT ![d] = "running"]
  /\ work' = [work EXCEPT ![d] = Worklist(d)]
  /\ pc' = [pc EXCEPT ![d] = "dispatch"]
  /\ UNCHANGED <<deployment, rows, stale, raised, outside, faults>>

\* Every event is done: the task is acknowledged, the background task ends.
Finish(d) ==
  /\ delivery[d] = "running" /\ work[d] = {}
  /\ delivery' = [delivery EXCEPT ![d] = IF queued THEN "acked" ELSE "inline_done"]
  /\ UNCHANGED <<deployment, work, pc, rows, stale, raised, outside, faults>>

Goto(d, stage) ==
  /\ pc' = [pc EXCEPT ![d] = stage]
  /\ UNCHANGED <<deployment, delivery, work, stale, raised>>
NextEvent(d) ==
  /\ work' = [work EXCEPT ![d] = @ \ {Current(d)}]
  /\ pc' = [pc EXCEPT ![d] = "dispatch"]
  /\ UNCHANGED <<deployment, delivery, stale, raised>>

\* After the handler: a comment may be followed by an invitation.
AfterHandler(d) ==
  IF Surface[Item(d)] \in Comments THEN Goto(d, "invite") ELSE NextEvent(d)

\* The attempt raises.  A task is retried from the start of its payload and is
\* dead-lettered in the end; the background task drops what is left of this
\* adapter's events and goes on with the next adapter.
Fail(d) ==
  LET i == Item(d)
      others == {n \in work[d] : Surface[Payload[d][n]] # Surface[i]}
  IN /\ raised' = raised \cup {i}
     /\ pc' = [pc EXCEPT ![d] = "dispatch"]
     /\ \/ /\ queued /\ retries[d] < MaxRetries
           /\ delivery' = [delivery EXCEPT ![d] = "queued"]
           /\ retries' = [retries EXCEPT ![d] = @ + 1]
           /\ work' = [work EXCEPT ![d] = {}]
        \/ /\ queued /\ retries[d] = MaxRetries
           /\ delivery' = [delivery EXCEPT ![d] = "dead"]
           /\ work' = [work EXCEPT ![d] = {}] /\ UNCHANGED retries
        \/ /\ ~queued
           /\ work' = [work EXCEPT ![d] = others]
           /\ UNCHANGED <<delivery, retries>>

\* Too old to answer: WhatsApp records the message, the other channels drop the
\* event without a trace, and neither invites.
SkipStale(d) ==
  /\ Running(d, "dispatch") /\ Item(d) \in stale
  /\ claimed' = IF Surface[Item(d)] = "whatsapp" THEN claimed \cup {Item(d)} ELSE claimed
  /\ NextEvent(d)
  /\ UNCHANGED <<reply, invite, outside, faults>>

\* The handler finds the inbound row and returns.
SkipDuplicate(d) ==
  /\ Running(d, "dispatch") /\ Item(d) \notin stale /\ Item(d) \in claimed
  /\ AfterHandler(d)
  /\ UNCHANGED <<rows, outside, faults>>

\* _dispatch_event, _dispatch_message: one of the handlers claims the event.
ClaimInbound(d) ==
  /\ Running(d, "dispatch") /\ Item(d) \notin stale \cup claimed \cup Poison
  /\ claimed' = claimed \cup {Item(d)}
  /\ Goto(d, "answer")
  /\ UNCHANGED <<reply, invite, outside, faults>>

\* A conversation held by a person, a refusal of the quota: nothing is said.
StaySilent(d) ==
  /\ Running(d, "answer") /\ AfterHandler(d)
  /\ UNCHANGED <<rows, outside, faults>>

ReserveReply(d) ==
  /\ Running(d, "answer") /\ reply[Item(d)] = "none"
  /\ reply' = [reply EXCEPT ![Item(d)] = "pending"]
  /\ Goto(d, "post")
  /\ UNCHANGED <<claimed, invite, outside, faults>>

\* The handlers get the event's sender_id and send there, on every channel.
Recipient(i) == "sender"
PostReply(d) ==
  /\ Running(d, "post")
  /\ posts' = [posts EXCEPT ![Item(d)] = @ \cup {Recipient(Item(d))}]
  /\ Goto(d, "confirm")
  /\ UNCHANGED <<rows, invitePosts, faults>>

ConfirmReply(d) ==
  /\ Running(d, "confirm")
  /\ reply' = [reply EXCEPT ![Item(d)] = "sent"]
  /\ AfterHandler(d)
  /\ UNCHANGED <<claimed, invite, outside, faults>>

\* ExternalServiceError: the row is kept as unconfirmed and the handler returns;
\* the answer may have been delivered all the same.
PostReplyFails(d) ==
  /\ Running(d, "post") /\ failures < MaxFailures
  /\ failures' = failures + 1
  /\ reply' = [reply EXCEPT ![Item(d)] = "unconfirmed"]
  /\ posts' \in {posts, [posts EXCEPT ![Item(d)] = @ \cup {Recipient(Item(d))}]}
  /\ AfterHandler(d)
  /\ UNCHANGED <<claimed, invite, invitePosts, crashes, retries>>

\* Any other exception of a handler, or of the invitation's database work.
Raise(d) ==
  /\ delivery[d] = "running" /\ work[d] # {}
  /\ \/ pc[d] = "dispatch" /\ Item(d) \in Poison \ (stale \cup claimed) /\ UNCHANGED failures
     \/ failures < MaxFailures /\ failures' = failures + 1
  /\ Fail(d)
  /\ UNCHANGED <<deployment, rows, stale, outside, crashes>>

\* Invitations switched off on this surface.
InviteOff(d) ==
  /\ Running(d, "invite") /\ Surface[Item(d)] \notin InviteEnabled
  /\ NextEvent(d)
  /\ UNCHANGED <<rows, outside, faults>>

\* The comment's invitation is already reserved.
InviteReserved(d) ==
  /\ Running(d, "invite") /\ Surface[Item(d)] \in InviteEnabled
  /\ invite[Item(d)] # "none"
  /\ NextEvent(d)
  /\ UNCHANGED <<rows, outside, faults>>

\* The key without its prefix: the public reply's row already holds it.
ReserveInviteBareKey(d) ==
  /\ Running(d, "invite") /\ Surface[Item(d)] \in InviteEnabled
  /\ invite[Item(d)] = "none"
  /\ \/ /\ reply[Item(d)] = "none"
        /\ invite' = [invite EXCEPT ![Item(d)] = "pending"]
        /\ Goto(d, "invite_post")
     \/ reply[Item(d)] # "none" /\ NextEvent(d) /\ UNCHANGED invite
  /\ UNCHANGED <<claimed, reply, outside, faults>>

\* The reservation is committed before anything is sent.
ReserveInvite(d) ==
  /\ Running(d, "invite") /\ Surface[Item(d)] \in InviteEnabled
  /\ invite[Item(d)] = "none"
  /\ invite' = [invite EXCEPT ![Item(d)] = "pending"]
  /\ Goto(d, "invite_post")
  /\ UNCHANGED <<claimed, reply, outside, faults>>

\* invite_to_private_thread: http_retry posts again after a timeout or a 5xx,
\* which the provider may have acted on.
PostInvite(d) ==
  /\ Running(d, "invite_post")
  /\ \E n \in 1 .. MaxAttempts :
       invitePosts' = [invitePosts EXCEPT ![Item(d)] = @ + n]
  /\ Goto(d, "invite_confirm")
  /\ UNCHANGED <<rows, posts, faults>>

\* A failed invitation gives its reservation back.
InviteFailsReleased(d) ==
  /\ Running(d, "invite_post") /\ failures < MaxFailures
  /\ failures' = failures + 1
  /\ \E n \in 1 .. MaxAttempts :
       invitePosts' = [invitePosts EXCEPT ![Item(d)] = @ + n]
  /\ invite' = [invite EXCEPT ![Item(d)] = "none"]
  /\ NextEvent(d)
  /\ UNCHANGED <<claimed, reply, posts, crashes, retries>>

\* The last POST was refused or failed too: ExternalServiceError, kept as
\* unconfirmed and swallowed.
InviteFails(d) ==
  /\ Running(d, "invite_post") /\ failures < MaxFailures
  /\ failures' = failures + 1
  /\ \E n \in 1 .. MaxAttempts :
       invitePosts' = [invitePosts EXCEPT ![Item(d)] = @ + n]
  /\ invite' = [invite EXCEPT ![Item(d)] = "unconfirmed"]
  /\ NextEvent(d)
  /\ UNCHANGED <<claimed, reply, posts, crashes, retries>>

ConfirmInvite(d) ==
  /\ Running(d, "invite_confirm")
  /\ invite' = [invite EXCEPT ![Item(d)] = "sent"]
  /\ NextEvent(d)
  /\ UNCHANGED <<claimed, reply, outside, faults>>

\* The process dies: the broker delivers the task again, a background task is gone.
Crash(d) ==
  /\ delivery[d] = "running" /\ crashes < MaxCrashes
  /\ crashes' = crashes + 1
  /\ delivery' = [delivery EXCEPT ![d] = IF queued THEN "queued" ELSE "lost"]
  /\ work' = [work EXCEPT ![d] = {}]
  /\ pc' = [pc EXCEPT ![d] = "dispatch"]
  /\ UNCHANGED <<deployment, rows, stale, raised, outside, failures, retries>>

\* Time passes and an item is past inbound_max_age.
GrowOld(i) ==
  /\ i \in Dated \ stale
  /\ stale' = stale \cup {i}
  /\ UNCHANGED <<deployment, delivery, work, pc, rows, raised, outside, faults>>

Next ==
  \/ \E d \in Deliveries :
       \/ \E signed, json \in BOOLEAN :
            ReceiveWebhook(d, signed, json) \/ ReceiveMetaWebhook(d, signed, json)
       \/ Start(d) \/ Finish(d) \/ Crash(d)
       \/ SkipStale(d) \/ SkipDuplicate(d) \/ ClaimInbound(d) \/ StaySilent(d)
       \/ ReserveReply(d) \/ PostReply(d) \/ PostReplyFails(d) \/ ConfirmReply(d)
       \/ Raise(d)
       \/ InviteOff(d) \/ InviteReserved(d) \/ ReserveInvite(d)
       \/ PostInvite(d) \/ InviteFails(d) \/ ConfirmInvite(d)
  \/ \E i \in Items : GrowOld(i)

Spec == Init /\ [][Next]_vars
-----------------------------------------------------------------------------
(* Properties *)

\* Every delivery, attempt and row keeps its type; retries stay within bounds.
TypeOK ==
  /\ deployment \in Deployments
  /\ delivery \in [Deliveries -> DeliveryStates]
  /\ retries \in [Deliveries -> 0 .. MaxRetries]
  /\ DOMAIN work = Deliveries /\ (\A d \in Deliveries : work[d] \subseteq Worklist(d))
  /\ pc \in [Deliveries -> Stages]
  /\ claimed \cup stale \cup raised \subseteq Items
  /\ {reply, invite} \subseteq [Items -> {"none", "pending", "sent", "unconfirmed"}]
  /\ failures \in 0 .. MaxFailures /\ crashes \in 0 .. MaxCrashes
  /\ posts \in [Items -> SUBSET {"sender", "comment"}]
  /\ invitePosts \in [Items -> Nat]

\* One call of the provider's client per comment, whatever is redelivered, retried
\* by the queue or lost with a worker, and the reservation is there before it and
\* stays.  The call itself may post the private reply several times, but no more
\* than the client has attempts.
InvitedOnce ==
  \A i \in Items : /\ invitePosts[i] <= MaxAttempts
                   /\ invitePosts[i] > 0 => invite[i] # "none"

\* No comment is taken up and left uninvited: the invitation does not depend on
\* the fate of the public answer, and a retry that finds the comment claimed still
\* invites.  Only age excuses it, and an exception where nothing is retried.
ClaimedIsInvited ==
  \A i \in claimed \ stale :
    /\ Surface[i] \in InviteEnabled
    /\ queued \/ i \notin raised
    /\ \A d \in Deliveries : i \in ToSet(Payload[d]) =>
          delivery[d] \in {"unsent", "acked", "inline_done"}
    => invite[i] # "none"

\* A comment surface that keeps failing never keeps a private message of the same
\* delivery from being taken up: private before public in a task, and one surface
\* apart from the other in the background task.
PrivateIsNotHeldUp ==
  \A d \in Deliveries : delivery[d] \in {"acked", "dead", "inline_done"} =>
    \A n \in Worklist(d) :
      Surface[Payload[d][n]] \notin Comments =>
        \/ Payload[d][n] \in claimed \cup stale
        \/ \E j \in raised : Surface[j] \notin Comments

\* The business never answers or invites itself: the comment its own answer
\* creates comes back as a delivery, and the chain ends there.
NeverAnswersItself ==
  \A i \in Own : i \notin claimed /\ posts[i] = {} /\ invitePosts[i] = 0

\* What the comment adapters say of send_text: the public answer goes under the
\* comment, so it is posted to the comment's id.
AnsweredUnderComment ==
  \A i \in Items : Surface[i] \in Comments => posts[i] \subseteq {"comment"}
=============================================================================
