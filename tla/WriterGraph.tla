----------------------------- MODULE WriterGraph ----------------------------
(***************************************************************************)
(* The legacy writing engine (core/writer_graph.py): a LangGraph state     *)
(* machine gather -> write -> run, then quality, write, ask or report.     *)
(* A node and the conditional edge behind it are one action.  The texts of *)
(* the state (context, test code, history, report) are left out: no route  *)
(* depends on them.                                                        *)
(***************************************************************************)
EXTENDS WriterLimits

VARIABLES
    node,         \* the node to execute next; "end" and "aborted" are final
    status,       \* WriterState.status
    attempts,     \* WriterState.attempts
    last_run,     \* WriterState.last_run
    prev_run,     \* WriterState.prev_run
    streak        \* history: failures since the user's last answer

vars == <<node, status, attempts, last_run, prev_run, streak>>

Nodes == {"gather", "write", "run", "ask", "quality", "report",
          "end", "aborted"}

Final == {"end", "aborted"}

Init ==
    /\ node = "gather" /\ status = "working"
    /\ attempts = 0
    /\ last_run = NoRun /\ prev_run = NoRun
    /\ streak = 0

Gather ==
    /\ node = "gather"
    /\ node' = "write"
    /\ UNCHANGED <<status, attempts, last_run, prev_run, streak>>

\* One call of the generator, then write_test with its compile check.
Write ==
    /\ node = "write"
    /\ attempts' = attempts + 1
    /\ node' = "run"
    /\ UNCHANGED <<status, last_run, prev_run, streak>>

RouteNoHardCap(o, prev) ==
    IF o = Passed THEN "quality"
    ELSE IF ClassifyFailure(o, prev) = "impossible" THEN "report"
    ELSE IF ClassifyFailure(o, prev) = "ask" \/ attempts % AskEvery = 0
         THEN "ask"
    ELSE "write"

RouteImpossibleRetried(o, prev) ==
    IF o = Passed THEN "quality"
    ELSE IF attempts >= MaxTotal THEN "report"
    ELSE IF ClassifyFailure(o, prev) = "ask" \/ attempts % AskEvery = 0
         THEN "ask"
    ELSE "write"

RouteNoSoftLimit(o, prev) ==
    IF o = Passed THEN "quality"
    ELSE IF ClassifyFailure(o, prev) = "impossible" THEN "report"
    ELSE IF attempts >= MaxTotal THEN "report"
    ELSE IF ClassifyFailure(o, prev) = "ask" THEN "ask"
    ELSE "write"

RouteNoRepeatCheck(o, prev) ==
    IF o = Passed THEN "quality"
    ELSE IF ClassifyFailure(o, prev) = "impossible" THEN "report"
    ELSE IF attempts >= MaxTotal THEN "report"
    ELSE IF attempts % AskEvery = 0 THEN "ask"
    ELSE "write"

\* The order of the tests is the code's: a pass first, then the environment,
\* then the hard cap, then the two reasons to ask.
RouteAfterRun(o, prev) ==
    IF o = Passed THEN "quality"
    ELSE IF ClassifyFailure(o, prev) = "impossible" THEN "report"
    ELSE IF attempts >= MaxTotal THEN "report"
    ELSE IF ClassifyFailure(o, prev) = "ask" \/ attempts % AskEvery = 0
         THEN "ask"
    ELSE "write"

Run(o) ==
    /\ node = "run"
    /\ last_run' = o /\ prev_run' = last_run
    /\ node' = RouteAfterRun(o, last_run)
    /\ streak' = IF o = Passed THEN 0 ELSE streak + 1
    /\ UNCHANGED <<status, attempts>>

AskStopIgnored(reply) ==
    /\ node = "ask"
    /\ status' = IF reply = "stop" THEN "stopping" ELSE "working"
    /\ node' = "write"
    /\ streak' = 0
    /\ UNCHANGED <<attempts, last_run, prev_run>>

AskRefillsAttempts(reply) ==
    /\ node = "ask"
    /\ status' = IF reply = "stop" THEN "stopping" ELSE "working"
    /\ node' = IF reply = "stop" THEN "report" ELSE "write"
    /\ attempts' = 0
    /\ streak' = 0
    /\ UNCHANGED <<last_run, prev_run>>

\* The graph stops at the interrupt and resumes with the user's reply.
Ask(reply) ==
    /\ node = "ask"
    /\ status' = IF reply = "stop" THEN "stopping" ELSE "working"
    /\ node' = IF reply = "stop" THEN "report" ELSE "write"
    /\ streak' = 0
    /\ UNCHANGED <<attempts, last_run, prev_run>>

Quality ==
    /\ node = "quality"
    /\ status' = "passed"
    /\ node' = "end"
    /\ UNCHANGED <<attempts, last_run, prev_run, streak>>

Report ==
    /\ node = "report"
    /\ status' = "reported"
    /\ node' = "end"
    /\ UNCHANGED <<attempts, last_run, prev_run, streak>>

\* An exception leaves invoke: a gateway error, the token budget, Ctrl+C.
Abort ==
    /\ node \notin Final
    /\ node' = "aborted"
    /\ UNCHANGED <<status, attempts, last_run, prev_run, streak>>

Step ==
    \/ Gather
    \/ Write
    \/ \E o \in Outcomes : Run(o)
    \/ \E reply \in {"continue", "stop"} : Ask(reply)
    \/ Quality
    \/ Report

Next == Step \/ Abort

Spec == Init /\ [][Next]_vars

\* Nodes finish (sandbox and gateway calls have time-outs) and the person
\* at the prompt answers; nothing makes an exception happen.
FairSpec == Spec /\ WF_vars(Step)

-----------------------------------------------------------------------------
TypeOK ==
    /\ node \in Nodes
    /\ status \in {"working", "stopping", "passed", "reported"}
    /\ attempts \in 0..MaxTotal
    /\ last_run \in Outcomes \cup {NoRun}
    /\ prev_run \in Outcomes \cup {NoRun}
    /\ streak \in 0..MaxTotal

\* The tests are never executed more than MaxTotal times, whatever the
\* failures and the user's answers are; and never more than AskEvery times
\* in a row without an answer of the user ("not past a limit without the
\* user's permission", limits.py).
LimitsKept ==
    /\ attempts <= MaxTotal
    /\ streak <= AskEvery
    /\ node \in {"write", "run"} => streak < AskEvery

\* A stop, a time-out and a refused selector are final: from then on the
\* engine writes and executes nothing, it can only report.
NoWorkAfterStop ==
    status = "stopping" \/ last_run = Impossible
        => node \in {"report", "end", "aborted"}

\* A failure that came back unchanged is never tried again before the user
\* answered: the attempt that follows it starts with a fresh answer.
RepeatedFailureIsAsked ==
    [][attempts' > attempts /\ last_run = prev_run /\ last_run # NoRun
        => streak = 0]_vars

\* Every run of the engine ends, with a verdict or by an exception.
Terminates == <>(node \in Final)

\* The legacy engine keeps the promise of WriterPromise.
Verdict == IF node = "aborted" THEN "aborted" ELSE status
Promise == INSTANCE WriterPromise WITH
    tries <- attempts, running <- (node = "run"),
    last <- last_run, prev <- prev_run, verdict <- Verdict

KeepsPromise == Promise!Spec
=============================================================================
