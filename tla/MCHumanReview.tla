--------------------------- MODULE MCHumanReview ---------------------------
(* One target; its file is missing in version 0 of the code, or is not.    *)
EXTENDS HumanReview
CONSTANTS method
MCTargets == {method}
MCBorn == [t \in MCTargets |-> 1]
MCBornAtOnce == [t \in MCTargets |-> 0]
=============================================================================
