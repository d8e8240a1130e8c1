---------------------------- MODULE WriterPromise ---------------------------
(***************************************************************************)
(* What a writing engine promises to the rest of the program, whichever    *)
(* engine it is: how often it may execute tests on its own, when it must   *)
(* have a person's answer first, and what its verdict stands on.  The      *)
(* legacy graph (WriterGraph) and the ledger of the deep agent (RunLedger) *)
(* implement this specification.                                           *)
(***************************************************************************)
EXTENDS WriterLimits

VARIABLES
    tries,    \* executions started
    running,  \* an execution is under way
    last,     \* result of the last finished execution
    prev,     \* result of the one before
    streak,   \* failures since the last pass or the last answer of the user
    verdict   \* "working", "stopping", "passed", "reported" or "aborted"

vars == <<tries, running, last, prev, streak, verdict>>

Init ==
    /\ tries = 0 /\ running = FALSE
    /\ last = NoRun /\ prev = NoRun
    /\ streak = 0 /\ verdict = "working"

\* An execution needs room under both limits, no stop from the user, an
\* environment that can run tests, and an answer after a repeated failure.
Begin ==
    /\ verdict = "working" /\ ~running
    /\ tries < MaxTotal
    /\ streak < AskEvery
    /\ last # Impossible
    /\ (last = prev /\ last \in Failures) => streak = 0
    /\ tries' = tries + 1
    /\ running' = TRUE
    /\ UNCHANGED <<last, prev, streak, verdict>>

Observe(o) ==
    /\ running
    /\ running' = FALSE
    /\ last' = o /\ prev' = last
    /\ streak' = IF o = Passed THEN 0 ELSE streak + 1
    /\ UNCHANGED <<tries, verdict>>

Answer(reply) ==
    /\ verdict \in {"working", "stopping"} /\ ~running
    /\ streak' = 0
    /\ verdict' = IF reply = "stop" THEN "stopping" ELSE verdict
    /\ UNCHANGED <<tries, running, last, prev>>

\* The run ends; "passed" stands on the last execution.
Conclude(v) ==
    /\ verdict \in {"working", "stopping"} /\ ~running
    /\ v = "passed" => last = Passed
    /\ verdict' = v
    /\ UNCHANGED <<tries, running, last, prev, streak>>

\* An exception (gateway, token budget, Ctrl+C) ends the run without verdict.
Abort ==
    /\ verdict \in {"working", "stopping"}
    /\ verdict' = "aborted"
    /\ running' = FALSE
    /\ UNCHANGED <<tries, last, prev, streak>>

Next ==
    \/ Begin
    \/ \E o \in Outcomes : Observe(o)
    \/ \E reply \in {"continue", "stop"} : Answer(reply)
    \/ \E v \in {"passed", "reported"} : Conclude(v)
    \/ Abort

Spec == Init /\ [][Next]_vars
=============================================================================
