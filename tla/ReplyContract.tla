---------------------------- MODULE ReplyContract ----------------------------
(***************************************************************************)
(* What the bot promises about one inbound customer message, seen from the *)
(* outside: the message is recorded once, a reply is promised at most once,*)
(* copies of the reply reach the customer only under a standing promise,   *)
(* and a promise is settled once and for all.  The detailed pipeline of    *)
(* tasks, retries, crashes and transactions (ReplyPipeline) implements it. *)
(*                                                                         *)
(* An operator may delete a conversation with every row it holds; a        *)
(* message delivered again after that starts over in a new incarnation.    *)
(***************************************************************************)
EXTENDS Naturals

CONSTANTS
  Messages,      \* provider message ids
  Incarnations   \* incarnations of the customer's conversation

VARIABLES
  row,     \* row[m][e]: how far message m got in incarnation e
  copies   \* copies[m][e]: copies of its reply the customer received

vars == <<row, copies>>

Init ==
  /\ row = [m \in Messages |-> [e \in Incarnations |-> "absent"]]
  /\ copies = [m \in Messages |-> [e \in Incarnations |-> 0]]

Advance(m, e, from, to) ==
  /\ row[m][e] = from
  /\ row' = [row EXCEPT ![m][e] = to]
  /\ UNCHANGED copies

Record(m, e) == Advance(m, e, "absent", "recorded")

Promise(m, e) == Advance(m, e, "recorded", "pending")

\* A copy arrives only while the promise stands.
Deliver(m, e) ==
  /\ row[m][e] = "pending"
  /\ copies' = [copies EXCEPT ![m][e] = @ + 1]
  /\ UNCHANGED row

\* "sent" is only claimed of a reply the customer really has.
SettleSent(m, e) ==
  /\ copies[m][e] > 0
  /\ Advance(m, e, "pending", "sent")

SettleUnconfirmed(m, e) == Advance(m, e, "pending", "unconfirmed")

Next ==
  \E m \in Messages, e \in Incarnations :
    \/ Record(m, e)
    \/ Promise(m, e)
    \/ Deliver(m, e)
    \/ SettleSent(m, e)
    \/ SettleUnconfirmed(m, e)

Spec == Init /\ [][Next]_vars
=============================================================================
