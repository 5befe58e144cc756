------------------------- MODULE MCSessionLifecycle -------------------------
(***************************************************************************)
(* SessionLifecycle with two messages, two sweeps and one operator.        *)
(***************************************************************************)
EXTENDS SessionLifecycle

CONSTANTS m1, m2, s1, s2, o1

TwoMessages == {m1, m2}
TwoSweepers == {s1, s2}
OneOperator == {o1}
=============================================================================
