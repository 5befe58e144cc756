------------------------------- MODULE MCQuota -------------------------------
(***************************************************************************)
(* Quota on small instances: the windows are shrunk to a few ticks.        *)
(***************************************************************************)
EXTENDS Quota, TLC

CONSTANTS w1, w2, m1, m2, m3, m4, hello

TwoWorkers == {w1, w2}
OneWorker == {w1}
ThreeMessages == {m1, m2, m3}
FourMessages == {m1, m2, m3, m4}

\* Two messages say the same, the third is a picture.
TwoAlike == [m \in ThreeMessages |-> IF m = m3 THEN NoText ELSE hello]
Pictures == [m \in FourMessages |-> NoText]

ShortLength == [minute |-> 1, hour |-> 1, day |-> 2]
ShortLimit == [minute |-> 1, hour |-> 2, day |-> 2]
PacedLength == [minute |-> 3, hour |-> 4, day |-> 5]
PacedLimit == [minute |-> 3, hour |-> 4, day |-> 4]

\* A dear short completion, a cheap long one, and one the provider did not count.
MCUsages == {[cost |-> 1, tokens |-> 1], [cost |-> 0, tokens |-> 2],
             [cost |-> 0, tokens |-> 0]}

\* Workers are interchangeable, and so are the two messages with one text.
Symmetry == Permutations(TwoWorkers) \cup Permutations({m1, m2})
=============================================================================
