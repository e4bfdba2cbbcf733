---------------------------- MODULE MCReduceOnly ----------------------------
(* Small instances of ReduceOnly for TLC.  The operation keys are the        *)
(* strings below: "a" a reactive and "b" a proactive unwind of risk, "d" an  *)
(* order of another producer.                                                *)
EXTENDS ReduceOnly, TLC

MCSideOf == [k \in Ops |-> "SELL"]
MCQtyOf == [k \in Ops |-> IF k = "a" THEN 1 ELSE 2]

PaperPositions == {0, 2}
Fills == {1, -1}
Buys == {1}

Symmetry == Permutations(RiskThreads) \cup Permutations(Executors)
=============================================================================
