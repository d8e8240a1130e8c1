---------------------------- MODULE WriterLimits ----------------------------
(***************************************************************************)
(* What the two writing engines share: the repetition limits of the        *)
(* [retry] section and the deterministic classification of a test run      *)
(* (core/agent/limits.py).  A run result is a long text in the code; the   *)
(* engines look at three facts of it only: whether it starts with the      *)
(* "passed" mark, whether it holds an environment mark (time-out, refused  *)
(* selector), and whether it equals the previous text.                     *)
(***************************************************************************)
EXTENDS Naturals

CONSTANTS
    AskEvery,   \* ASK_EVERY_ATTEMPTS, or [retry] ask_every
    MaxTotal,   \* MAX_TOTAL_ATTEMPTS, or [retry] max_total
    Failures    \* the failure texts that can be told apart

ASSUME LimitsAssumption == AskEvery \in Nat \ {0} /\ MaxTotal \in Nat \ {0}

NoRun      == "no run"      \* last_run = "" : nothing was executed yet
Passed     == "passed"      \* the text starts with PASSED_PREFIX
Impossible == "impossible"  \* the text holds one of _IMPOSSIBLE_MARKERS

ASSUME FailuresAssumption == Failures \cap {NoRun, Passed, Impossible} = {}

Outcomes == Failures \cup {Passed, Impossible}

\* What classify_failure returns for a run that did not pass.
ClassifyFailure(last, prev) ==
    IF last = Impossible THEN "impossible"
    ELSE IF prev # NoRun /\ last = prev THEN "ask"
    ELSE "auto"
=============================================================================
