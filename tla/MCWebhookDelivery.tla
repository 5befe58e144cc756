-------------------------- MODULE MCWebhookDelivery --------------------------
(* A page delivery with a comment, a private message and a comment whose      *)
(* handling always raises; the comment again, with the page's own answer to   *)
(* it; a WhatsApp message.                                                    *)
EXTENDS WebhookDelivery

CONSTANTS page1, page2, wa, dm, poison, comment, echo, chat

MCDeliveries == {page1, page2, wa}
MCItems == {dm, poison, comment, echo, chat}
MCObject == [d \in MCDeliveries |->
  CASE d = wa -> "whatsapp" [] OTHER -> "page"]
MCPayload == page1 :> <<comment, dm, poison>> @@ page2 :> <<comment, echo>>
  @@ wa :> <<chat>>
MCSurface == dm :> "messenger" @@ poison :> "facebook_comment"
  @@ comment :> "facebook_comment" @@ echo :> "facebook_comment"
  @@ chat :> "whatsapp"
Surfaces == {"whatsapp", "messenger", "facebook_comment"}
MCDeployments == {
  [queue |-> TRUE, enabled |-> Surfaces, invites |-> {"facebook_comment"}],
  [queue |-> FALSE, enabled |-> Surfaces, invites |-> {"facebook_comment"}],
  [queue |-> FALSE, enabled |-> {"facebook_comment"}, invites |-> {}],
  [queue |-> TRUE, enabled |-> {"whatsapp"}, invites |-> {}]}
MCEchoOf == echo :> comment
=============================================================================
