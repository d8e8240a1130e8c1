------------------------------ MODULE RunLedger -----------------------------
(***************************************************************************)
(* The ledger of the deep agent (core/agent/limits.py, RunLedger) and the  *)
(* verdict run_agent draws from it (core/agent/build.py).  One instance is *)
(* middleware of the main agent and of every subagent.  A lane is a place  *)
(* where a tool call can be under way: LangGraph executes the tool calls   *)
(* of one message in threads, so there may be several lanes; the prompts   *)
(* ask the model for one at a time.  Which call a lane makes is the        *)
(* model's choice.  write_test and check_quality record texts that no      *)
(* refusal and no verdict depends on, and are left out.                    *)
(***************************************************************************)
EXTENDS WriterLimits, FiniteSets

CONSTANT Lanes

ASSUME LanesAssumption == Lanes # {} /\ IsFiniteSet(Lanes)

VARIABLES
    attempts,   \* RunLedger.attempts
    last_run,   \* RunLedger.last_run
    prev_run,   \* RunLedger.prev_run
    needs_ask,  \* RunLedger.needs_ask
    blocked,    \* RunLedger.blocked
    report,     \* RunLedger.report is a non-empty text
    lane,       \* where the run_tests call of each lane is
    status,     \* "working" until run_agent returns or raises
    streak      \* history: failures since the last pass or answer

vars == <<attempts, last_run, prev_run, needs_ask, blocked, report, lane,
          status, streak>>

Init ==
    /\ attempts = 0
    /\ last_run = NoRun /\ prev_run = NoRun
    /\ needs_ask = FALSE /\ blocked = "" /\ report = FALSE
    /\ lane = [l \in Lanes |-> "idle"]
    /\ status = "working"
    /\ streak = 0

Idle == \A l \in Lanes : lane[l] = "idle"

RefusalIgnoresStop ==
    \/ blocked \in {"impossible", "hard"}
    \/ attempts >= MaxTotal
    \/ needs_ask

RefusalForgetsCap ==
    \/ blocked \in {"stopped", "impossible"}
    \/ needs_ask

\* run_tests is answered with a refusal, and nothing is executed.
Refusal ==
    \/ blocked \in {"stopped", "impossible", "hard"}
    \/ attempts >= MaxTotal
    \/ needs_ask

\* The check of a run_tests call.  A refused call changes nothing.
Check(l) ==
    /\ status = "working"
    /\ lane[l] = "idle"
    /\ ~Refusal
    /\ lane' = [lane EXCEPT ![l] = "checked"]
    /\ UNCHANGED <<attempts, last_run, prev_run, needs_ask, blocked, report,
                   status, streak>>

\* attempts is raised after the check, with no lock around the two, and the
\* execution starts.
Start(l) ==
    /\ lane[l] = "checked"
    /\ attempts' = attempts + 1
    /\ lane' = [lane EXCEPT ![l] = "running"]
    /\ UNCHANGED <<last_run, prev_run, needs_ask, blocked, report, status,
                   streak>>

NoteForgetsSoftLimit(o, prev) ==
    IF o = Passed THEN "none"
    ELSE IF ClassifyFailure(o, prev) = "impossible" THEN "impossible"
    ELSE IF attempts >= MaxTotal THEN "hard"
    ELSE IF ClassifyFailure(o, prev) = "ask" THEN "ask"
    ELSE "none"

\* What _note_after_run decides; attempts is read when the execution is
\* over, not when it started.
NoteAfterRun(o, prev) ==
    IF o = Passed THEN "none"
    ELSE IF ClassifyFailure(o, prev) = "impossible" THEN "impossible"
    ELSE IF attempts >= MaxTotal THEN "hard"
    ELSE IF ClassifyFailure(o, prev) = "ask" \/ attempts % AskEvery = 0
         THEN "ask"
    ELSE "none"

FinishClearsBlock(l, o) ==
    /\ lane[l] = "running"
    /\ last_run' = o /\ prev_run' = last_run
    /\ LET note == NoteAfterRun(o, last_run) IN
         /\ blocked' = IF note = "ask" THEN blocked
                       ELSE IF note = "none" THEN "" ELSE note
         /\ needs_ask' = (needs_ask \/ note = "ask")
    /\ streak' = IF o = Passed THEN 0 ELSE streak + 1
    /\ lane' = [lane EXCEPT ![l] = "idle"]
    /\ UNCHANGED <<attempts, report, status>>

\* The execution returns: the results shift, and the note sets the marks
\* that refuse the next call.
Finish(l, o) ==
    /\ lane[l] = "running"
    /\ last_run' = o /\ prev_run' = last_run
    /\ LET note == NoteAfterRun(o, last_run) IN
         /\ blocked' = IF note \in {"impossible", "hard"} THEN note
                       ELSE blocked
         /\ needs_ask' = (needs_ask \/ note = "ask")
    /\ streak' = IF o = Passed THEN 0 ELSE streak + 1
    /\ lane' = [lane EXCEPT ![l] = "idle"]
    /\ UNCHANGED <<attempts, report, status>>

\* ask_user, which the main agent alone has.  interrupt() stops the graph
\* once the other calls of the message are over; the answer arrives with the
\* resumption, so no lane is busy when the ledger sees it.
AskUser(reply) ==
    /\ status = "working"
    /\ Idle
    /\ blocked' = IF reply = "stop" THEN "stopped" ELSE blocked
    /\ needs_ask' = FALSE
    /\ streak' = 0
    /\ UNCHANGED <<attempts, last_run, prev_run, report, lane, status>>

\* report_finding records its text; an empty one erases an earlier report.
ReportFinding(l, nonempty) ==
    /\ status = "working"
    /\ lane[l] = "idle"
    /\ report' = nonempty
    /\ UNCHANGED <<attempts, last_run, prev_run, needs_ask, blocked, lane,
                   status, streak>>

ConcludeWithoutLook ==
    /\ status = "working"
    /\ Idle
    /\ status' = IF report THEN "reported" ELSE "passed"
    /\ UNCHANGED <<attempts, last_run, prev_run, needs_ask, blocked, report,
                   lane, streak>>

\* The main agent says nothing more and run_agent draws the verdict.
Conclude ==
    /\ status = "working"
    /\ Idle
    /\ status' = IF last_run = Passed /\ ~report THEN "passed" ELSE "reported"
    /\ UNCHANGED <<attempts, last_run, prev_run, needs_ask, blocked, report,
                   lane, streak>>

\* An exception leaves run_agent: gateway, token budget, recursion limit,
\* Ctrl+C.  What the lanes were doing is lost.
Abort ==
    /\ status = "working"
    /\ status' = "aborted"
    /\ lane' = [l \in Lanes |-> "idle"]
    /\ UNCHANGED <<attempts, last_run, prev_run, needs_ask, blocked, report,
                   streak>>

Next ==
    \/ \E l \in Lanes :
         \/ Check(l)
         \/ Start(l)
         \/ \E o \in Outcomes : Finish(l, o)
         \/ \E nonempty \in BOOLEAN : ReportFinding(l, nonempty)
    \/ \E reply \in {"continue", "stop"} : AskUser(reply)
    \/ Conclude
    \/ Abort

Spec == Init /\ [][Next]_vars

-----------------------------------------------------------------------------
TypeOK ==
    /\ attempts \in Nat
    /\ last_run \in Outcomes \cup {NoRun}
    /\ prev_run \in Outcomes \cup {NoRun}
    /\ needs_ask \in BOOLEAN
    /\ blocked \in {"", "hard", "impossible", "stopped"}
    /\ report \in BOOLEAN
    /\ lane \in [Lanes -> {"idle", "checked", "running"}]
    /\ status \in {"working", "passed", "reported", "aborted"}
    /\ streak \in Nat

\* The limits of the ledger (limits.py: "the model may want it as much as it
\* likes, run_tests does not execute"): at most MaxTotal executions, at most
\* AskEvery failures in a row without an answer, and an execution under way
\* was below both limits when it began.
LimitsKept ==
    /\ attempts <= MaxTotal
    /\ streak <= AskEvery
    /\ ~Idle => streak < AskEvery

\* With several lanes the hard cap may be passed only by the calls that were
\* checked before the last count, one per other lane.
OvershootBounded ==
    attempts + Cardinality({l \in Lanes : lane[l] = "checked"})
        <= MaxTotal + Cardinality(Lanes) - 1

\* Whatever the lanes do, the user's "stop" is final: no execution starts
\* after it and no later result or answer lifts it.
StopIsFinal ==
    [][blocked = "stopped" => attempts' = attempts /\ blocked' = "stopped"]_vars

\* A call that is refused for good stays refused: once the ledger blocked the
\* run, no answer of the user, no result of another lane frees it, and only
\* calls that had passed the check before still start.
BlockIsForever ==
    [][blocked # "" =>
         /\ blocked' # ""
         /\ \A l \in Lanes : lane'[l] = "checked" => lane[l] = "checked"]_vars

\* The ledger keeps the promise of WriterPromise when calls come one by one.
Verdict ==
    IF status = "working" /\ blocked = "stopped" THEN "stopping" ELSE status

Promise == INSTANCE WriterPromise WITH
    tries <- attempts,
    running <- (\E l \in Lanes : lane[l] = "running"),
    last <- last_run, prev <- prev_run, verdict <- Verdict

KeepsPromise == Promise!Spec

-----------------------------------------------------------------------------
\* limits.py: at the soft limit run_tests waits for the user ("ask the user at
\* every ASK_EVERY_ATTEMPTS failures", "not past a limit without the user's
\* permission"): when AskEvery failures are unanswered and no call is under
\* way, the next call is refused.
SoftLimitHolds == Idle /\ streak >= AskEvery => Refusal
=============================================================================
