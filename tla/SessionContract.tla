--------------------------- MODULE SessionContract ---------------------------
(***************************************************************************)
(* The state model of docs/SESSION_LIFECYCLE.md for the sessions of one    *)
(* customer: at most one is live, a session ends only by being claimed,    *)
(* said goodbye to at most once and closed, and a closed one may come back.*)
(***************************************************************************)
EXTENDS Naturals

CONSTANT Convs   \* the customer's conversations

VARIABLES
  state,   \* state[c] \in {"none", "open", "closing", "closed"}
  said     \* said[c]: goodbyes since c was last opened

vars == <<state, said>>

Live(c) == state[c] \in {"open", "closing"}

Init ==
  /\ state = [c \in Convs |-> "none"]
  /\ said = [c \in Convs |-> 0]

\* A session starts, or a closed one is revived and may be thanked again.
Open(c) ==
  /\ state[c] \in {"none", "closed"}
  /\ \A d \in Convs : ~ Live(d)
  /\ state' = [state EXCEPT ![c] = "open"]
  /\ said' = [said EXCEPT ![c] = 0]

Claim(c) ==
  /\ state[c] = "open"
  /\ state' = [state EXCEPT ![c] = "closing"]
  /\ UNCHANGED said

Goodbye(c) ==
  /\ state[c] = "closing"
  /\ said[c] = 0
  /\ said' = [said EXCEPT ![c] = 1]
  /\ UNCHANGED state

Close(c) ==
  /\ state[c] = "closing"
  /\ state' = [state EXCEPT ![c] = "closed"]
  /\ UNCHANGED said

Next == \E c \in Convs : Open(c) \/ Claim(c) \/ Goodbye(c) \/ Close(c)

Spec == Init /\ [][Next]_vars
=============================================================================
