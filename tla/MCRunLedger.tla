----------------------------- MODULE MCRunLedger ----------------------------
(* RunLedger with one or two lanes and two failure texts.                  *)
EXTENDS RunLedger, TLC
CONSTANTS f1, f2, t1, t2
MCFailures == {f1, f2}
OneLane == {t1}
TwoLanes == {t1, t2}
LaneSymmetry == Permutations({t1, t2})
=============================================================================
