----------------------------- MODULE Evaluation -----------------------------
(***************************************************************************)
(* Evaluations.  `cta eval` (cli/eval_cmd.py): for each case of the defect  *)
(* set a test is generated on the fixed version of the bench project, the   *)
(* proposal applied, the bug planted and the test run; the bench, a folder  *)
(* of the repository, is reset before and after.  `cta eval --intents`      *)
(* (cli/eval_intents.py): each change is classified with and without its    *)
(* commit message, in a repository of its own.  Both save one record of     *)
(* all rows at the end; either may be killed.                               *)
(***************************************************************************)
EXTENDS Integers, FiniteSets, SequencesExt

CONSTANTS
    Defects,      \* cases in the order of their names: [target]
    Intents,      \* cases in the order of their names: [expected, demo]; demo: which
                  \* version of the change the example holds, "before", "after", "neither"
    Categories,   \* intents, with "unclear"
    RecordMax     \* bound: evaluations started

VARIABLES
    vstage,   \* "idle", "case", "generate", "apply", "plant", "run", "leave", "raise", "off"
    suite,    \* "defects" or "intents"
    ahead,     \* those left: [case, message]
    now,      \* the row of the case at work
    rows,
    bench,    \* examples/evalbench: [source, test]
    waiting,  \* targets with a proposal in its .cta/proposals
    tokens,   \* client.total_tokens
    record,   \* summaries of the records saved
    started   \* evaluations started

evalVars == <<vstage, suite, ahead, now, rows, bench, waiting, tokens, record, started>>

Fixed == 0   \* otherwise the number of the case whose bug is planted
\* over: made on top of a waiting proposal, so that its tests may be, also without
\* exception, those of an earlier case.
NoTest == [on |-> Fixed, over |-> FALSE, catches |-> FALSE]
Clean == [source |-> Fixed, test |-> NoTest]

EvalInit ==
    /\ vstage = "idle" /\ suite = "defects" /\ ahead = <<>> /\ now = <<>>
    /\ rows = <<>> /\ bench = Clean /\ waiting = {} /\ tokens = 0 /\ record = {} /\ started = 0

EvalOff ==
    /\ vstage = "off" /\ suite = "defects" /\ ahead = <<>> /\ now = <<>>
    /\ rows = <<>> /\ bench = Clean /\ waiting = {} /\ tokens = 0 /\ record = {} /\ started = 0

Start(s, items) ==
    /\ vstage = "idle" /\ started < RecordMax /\ started' = started + 1
    /\ items # <<>>
    /\ vstage' = "case" /\ suite' = s
    /\ ahead' = items /\ rows' = <<>> /\ now' = <<>> /\ tokens' = 0
    /\ UNCHANGED <<bench, waiting, record>>

\* --cases selects some.
StartDefects ==
    \E chosen \in SUBSET DOMAIN Defects :
        Start("defects", [i \in 1 .. Cardinality(chosen) |->
                            [case |-> SetToSortSeq(chosen, <)[i], message |-> TRUE]])

\* --cases and --variant; with the message first.
StartIntents ==
    \E chosen \in SUBSET DOMAIN Intents, variants \in {{TRUE}, {FALSE}, BOOLEAN} :
        Start("intents",
              SetToSortSeq([case : chosen, message : variants],
                           LAMBDA a, b : a.case < b.case \/ (a.case = b.case /\ a.message /\ ~b.message)))

-----------------------------------------------------------------------------
(* One case of the defect set                                               *)

Case == Head(ahead).case
Target(c) == Defects[c].target

\* Mutant: the bench is only put back afterwards.
BenchAsLeft == bench

\* reset_bench: git checkout, git clean, without target/.  git clean leaves the
\* ignored .cta/ alone, with the proposals.
BenchAtStart == Clean

ResetFirst ==
    /\ vstage = "case" /\ suite = "defects" /\ ahead # <<>>
    /\ bench' = BenchAtStart
    /\ now' = [case |-> Case, status |-> "none", test |-> NoTest, ran |-> Fixed, detected |-> "none"]
    /\ vstage' = "generate"
    /\ UNCHANGED <<suite, ahead, rows, waiting, tokens, record, started>>

\* git fails: CalledProcessError outside the try.
ResetFails ==
    /\ vstage \in {"case", "leave", "raise"} /\ suite = "defects" /\ ahead # <<>>
    /\ vstage' = "idle"
    /\ UNCHANGED <<suite, ahead, now, rows, bench, waiting, tokens, record, started>>

\* run_generation begins over a waiting proposal of the same test class, puts the
\* sources back, and leaves what it proposes, good or for review, waiting, if there
\* is a test file.  Without one nothing can be applied: an exception.
Generate ==
    /\ vstage = "generate"
    /\ \E status \in {"accepted", "human_review", "not_passed", "error"},
          written, catches \in BOOLEAN :
         /\ now' = [now EXCEPT !.status = status,
                               !.test = [on |-> bench.source, over |-> Target(Case) \in waiting,
                                         catches |-> catches]]
         /\ waiting' = IF written /\ status \in {"accepted", "human_review"}
                       THEN waiting \cup {Target(Case)} ELSE waiting
         /\ vstage' = IF status # "accepted" THEN "leave" ELSE IF written THEN "apply" ELSE "raise"
    /\ UNCHANGED <<suite, ahead, rows, bench, tokens, record, started>>

ApplyProposal ==
    /\ vstage = "apply" /\ vstage' = "plant"
    /\ bench' = [bench EXCEPT !.test = now.test]
    /\ waiting' = waiting \ {Target(Case)}
    /\ UNCHANGED <<suite, ahead, now, rows, tokens, record, started>>

Plant ==
    /\ vstage = "plant" /\ vstage' = "run"
    /\ bench' = [bench EXCEPT !.source = Case]
    /\ UNCHANGED <<suite, ahead, now, rows, waiting, tokens, record, started>>

\* Whatever is no pass counts as detected: also a run out of time or a build
\* that fails.
RunOnBug ==
    /\ vstage = "run" /\ vstage' = "leave"
    /\ \E passed \in (IF bench.test.catches THEN {FALSE} ELSE BOOLEAN) :
         now' = [now EXCEPT !.ran = bench.source, !.detected = IF passed THEN "no" ELSE "yes"]
    /\ UNCHANGED <<suite, ahead, rows, bench, waiting, tokens, record, started>>

Raise ==
    /\ vstage \in {"generate", "apply", "plant", "run"} /\ vstage' = "raise"
    /\ UNCHANGED <<suite, ahead, now, rows, bench, waiting, tokens, record, started>>

\* finally: after an exception the whole evaluation ends, without a record.
ResetLast ==
    /\ vstage \in {"leave", "raise"}
    /\ bench' = Clean
    /\ IF vstage = "raise"
       THEN vstage' = "idle" /\ UNCHANGED <<rows, ahead>>
       ELSE vstage' = "case" /\ rows' = Append(rows, now) /\ ahead' = Tail(ahead)
    /\ UNCHANGED <<suite, now, waiting, tokens, record, started>>

-----------------------------------------------------------------------------
(* One variant of an intent case                                            *)

\* prepare_repo: the example holds the change or the code before it; the other
\* one is made from it.  Without a message the change is not committed.
Prepared(c) == Intents[c].demo # "neither"
BaseOf(message) == IF message THEN "HEAD~1" ELSE "HEAD"

\* What a variant may come to: the category of its target, that the target was
\* not among the changes, or any exception, which becomes the row.
Results(c) == {"error"} \cup (IF Prepared(c) THEN Categories \cup {"missing"} ELSE {})

RunVariant ==
    /\ vstage = "case" /\ suite = "intents" /\ ahead # <<>>
    /\ \E actual \in Results(Case), usage \in {0, 1} :
         /\ tokens' = tokens + usage
         /\ rows' = Append(rows, [case |-> Case, message |-> Head(ahead).message,
                                  base |-> BaseOf(Head(ahead).message), actual |-> actual,
                                  correct |-> actual = Intents[Case].expected,
                                  tokens |-> tokens' - tokens])
    /\ ahead' = Tail(ahead)
    /\ UNCHANGED <<vstage, suite, now, bench, waiting, record, started>>

-----------------------------------------------------------------------------
(* The record                                                               *)

RowCount(P(_)) == Len(SelectSeq(rows, P))

\* The counts from which run_eval makes its rates.
DefectSummary ==
    [suite |-> "defects", cases |-> Len(rows),
     accepted |-> RowCount(LAMBDA r : r.status = "accepted"),
     detected |-> RowCount(LAMBDA r : r.status = "accepted" /\ r.detected = "yes"),
     escalated |-> RowCount(LAMBDA r : r.status \in {"human_review", "not_passed"})]

\* _summarize, of all rows; the variants are counted alike.
IntentSummary ==
    [suite |-> "intents", cases |-> Len(rows),
     correct |-> RowCount(LAMBDA r : r.correct),
     unclear |-> RowCount(LAMBDA r : r.actual = "unclear"),
     falseUnclear |-> RowCount(LAMBDA r : r.actual = "unclear" /\ ~r.correct)]

Save ==
    /\ vstage = "case" /\ ahead = <<>> /\ vstage' = "idle"
    /\ record' = record \cup {IF suite = "defects" THEN DefectSummary ELSE IntentSummary}
    /\ UNCHANGED <<suite, ahead, now, rows, bench, waiting, tokens, started>>

KillEval ==
    /\ vstage \notin {"idle", "off"} /\ vstage' = "idle"
    /\ UNCHANGED <<suite, ahead, now, rows, bench, waiting, tokens, record, started>>

EvalNext ==
    \/ StartDefects \/ ResetFirst \/ ResetFails \/ Generate \/ ApplyProposal \/ Plant \/ RunOnBug
    \/ Raise \/ ResetLast \/ StartIntents \/ RunVariant \/ Save \/ KillEval

EvalSpec == EvalInit /\ [][EvalNext]_evalVars

-----------------------------------------------------------------------------
\* A row that counts as accepted is about a test made on the fixed code and run
\* on the bug of its own case, and one that counts as missed about a test that
\* passed there -- also in an evaluation that follows one killed or ended by
\* an exception between planting the bug and putting it back.  It does not say that
\* the test is of this case: a proposal left waiting is built upon (over).
RowsAreOfTheirCase ==
    suite = "defects" =>
        \A r \in Range(rows) :
            r.status = "accepted" =>
                /\ r.test.on = Fixed /\ r.ran = r.case
                /\ r.detected = "no" => ~r.test.catches
=============================================================================
