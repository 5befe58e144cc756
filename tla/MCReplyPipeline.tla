--------------------------- MODULE MCReplyPipeline ---------------------------
(***************************************************************************)
(* ReplyPipeline on small instances.                                       *)
(***************************************************************************)
EXTENDS ReplyPipeline, TLC

CONSTANTS t1, t2, m1, m2

\* A delivery with two messages, and Meta's redelivery of the first of them.
MCTasks == {t1, t2}
MCMessages == {m1, m2}
OneMessage == {m1}
OneTask == {t1}
BatchAndDuplicate == (t1 :> <<m1, m2>>) @@ (t2 :> <<m1>>)
TwiceDelivered == (t1 :> <<m1>>) @@ (t2 :> <<m1>>)
Single == t1 :> <<m1>>
=============================================================================
