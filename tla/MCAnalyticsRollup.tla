-------------------------- MODULE MCAnalyticsRollup --------------------------
(***************************************************************************)
(* AnalyticsRollup on small instances.                                     *)
(***************************************************************************)
EXTENDS AnalyticsRollup, TLC

CONSTANTS r1, r2, modelA, modelB, night, manual

MCRows == {r1, r2}
MCModels == {modelA, modelB}
\* Turns call one model; the other is only on the price list.
MCContents == {[kind |-> "call", model |-> modelA], [kind |-> "message", model |-> modelA]}
MCJobs == {night, manual}

Symmetry == Permutations(MCRows)
=============================================================================
