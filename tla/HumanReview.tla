---------------------------- MODULE HumanReview ----------------------------
(***************************************************************************)
(* Changes that a person must judge: "cta maintain" of cli/maintain_cmd.py *)
(* with the rule table of core/pipeline/decide.py, the questions it stores *)
(* (cli/escalations.py), "cta resolve" of cli/resolve_cmd.py and the memos *)
(* of the answers (cli/memos.py), beside a developer who goes on working.  *)
(*                                                                         *)
(* Code is a version number: work is the working tree, head the last       *)
(* commit.  A generation (module Generation) is one step with its result;  *)
(* of its gates only the bug reproduction gate is looked into.  One        *)
(* command runs at a time.  Questions are numbered; the code names them by *)
(* second and target.  The callers that --impact adds to a change are not  *)
(* modelled.                                                               *)
(***************************************************************************)
EXTENDS Integers

CONSTANTS
    Targets,      \* methods that may change
    Born,         \* version in which the file of a target first exists
    MaxVersion,   \* bound: versions of the code
    MaxQuestions  \* bound: questions ever asked

ASSUME HumanReviewAssumption ==
    /\ MaxVersion \in Nat /\ MaxQuestions \in Nat
    /\ Born \in [Targets -> 0..MaxVersion]

VARIABLES
    pc,        \* where the command in progress is; "idle" when there is none
    cmd,       \* its local variables
    head,      \* the last commit
    work,      \* the working tree
    files,     \* the questions in .cta/escalations
    memos,     \* the newest answer in .cta/memos to each question
    proposals, \* the waiting proposal of each target, Nothing if there is none
    asked      \* how many questions have been asked

vars == <<pc, cmd, head, work, files, memos, proposals, asked>>

Categories == {"bug_fix", "new_feature", "refactor", "trivial", "unclear"}
Statuses == {"pass", "fail", "none"}
Versions == 0..MaxVersion
StatedCategories == {"bug_fix", "new_feature", "refactor"}
Answers == {"intended", "test-issue", "proceed", "skip", "as"}
Results == {"accepted", "human_review", "not_passed", "error"}

NoGate == -1       \* run_generation without regression_sources
Unmeasurable == -2 \* the gate has no old source to put in
Nothing == [result |-> "none"]

NoCmd ==
    [by |-> "", changed |-> {}, todo |-> {}, target |-> "", answer |-> "", category |-> "",
     status |-> "", released |-> FALSE, check |-> NoGate, before |-> 0,
     result |-> "", written |-> FALSE, back |-> 0, question |-> 0]

Init ==
    /\ pc = "idle" /\ cmd = NoCmd
    /\ head = 0 /\ work \in {0, 1} \cap Versions
    /\ files = {} /\ memos = [n \in 1..MaxQuestions |-> "none"]
    /\ proposals = [t \in Targets |-> Nothing]
    /\ asked = 0

Return == pc' = "idle" /\ cmd' = NoCmd

-----------------------------------------------------------------------------
(* git and the rule table                                                   *)

\* git show <base>:<file> with base "HEAD" (back 0) or "HEAD~1" (back 1): the
\* name is looked up whenever it is used.
Base(back) == head - back

HasOldSource(t, back) == Base(back) >= Born[t]

DecideByTests(category, status) ==
    IF category \in {"bug_fix", "new_feature"} \/ (category = "refactor" /\ status = "fail")
    THEN "create_test"
    ELSE IF category = "unclear" \/ (category = "refactor" /\ status = "none")
    THEN "ask" ELSE "no_action"

\* decide: the table; "unclear" is asked before it is looked at.
Decide(category, status) ==
    CASE category = "unclear" -> "ask"
      [] category \in {"bug_fix", "new_feature"} -> "create_test"
      [] category = "trivial" -> "no_action"
      [] category = "refactor" /\ status = "pass" -> "no_action"
      [] category = "refactor" /\ status = "fail" -> "escalate"
      [] category = "refactor" /\ status = "none" -> "ask"

-----------------------------------------------------------------------------
(* cta maintain                                                             *)

\* The changed targets are extracted; without a change, or with a base that
\* git does not know, the command ends at once.
Maintain(changed, back) ==
    /\ pc = "idle"
    /\ Base(back) \in 0..(work - 1)
    /\ \A t \in changed : Born[t] <= work
    /\ pc' = "loop"
    /\ cmd' = [NoCmd EXCEPT !.by = "maintain", !.changed = changed,
                            !.todo = changed, !.back = back, !.before = Base(back)]
    /\ UNCHANGED <<head, work, files, memos, proposals, asked>>

CheckAsResolveDoes(changed, back) ==
    IF \E t \in changed : HasOldSource(t, back) THEN Base(back) ELSE NoGate

\* old_main_sources: the files of all changed targets; one the base does not
\* have is there without content, and the gate is attached all the same.
CheckOf(changed, back) ==
    IF \E t \in changed : HasOldSource(t, back) THEN Base(back) ELSE Unmeasurable

\* An analysis is the intent, by the model or the author, and the result of
\* the tests of the target.  All are made before the first is dealt with; no
\* step between depends on one, so each is chosen where it is first used.
\* A trivial change runs no test.
Analyses ==
    {a \in [target : Targets, category : Categories, status : Statuses] :
       a.category = "trivial" => a.status = "none"}

CreateTest(a) ==
    /\ pc = "loop" /\ a.target \in cmd.todo
    /\ Decide(a.category, a.status) = "create_test"
    /\ pc' = "generate"
    /\ cmd' = [cmd EXCEPT !.todo = @ \ {a.target}, !.target = a.target,
                 !.category = a.category,
                 !.check = IF a.category = "bug_fix"
                           THEN CheckOf(cmd.changed, cmd.back) ELSE NoGate]
    /\ UNCHANGED <<head, work, files, memos, proposals, asked>>

SaveQuestion(a) ==
    /\ pc = "loop" /\ a.target \in cmd.todo
    /\ Decide(a.category, a.status) \in {"ask", "escalate"}
    /\ asked < MaxQuestions
    /\ asked' = asked + 1
    /\ files' = files \cup
         {[n |-> asked + 1, target |-> a.target, category |-> a.category,
           status |-> a.status, back |-> cmd.back, before |-> cmd.before]}
    /\ cmd' = [cmd EXCEPT !.todo = @ \ {a.target}]
    /\ UNCHANGED <<pc, head, work, memos, proposals>>

LeaveAlone(a) ==
    /\ pc = "loop" /\ a.target \in cmd.todo
    /\ Decide(a.category, a.status) = "no_action"
    /\ cmd' = [cmd EXCEPT !.todo = @ \ {a.target}]
    /\ UNCHANGED <<pc, head, work, files, memos, proposals, asked>>

\* The last analysis is dealt with, or --plan-only stops before the first.
EndMaintain ==
    /\ pc = "loop"
    /\ Return
    /\ UNCHANGED <<head, work, files, memos, proposals, asked>>

-----------------------------------------------------------------------------
(* cta resolve                                                              *)

Answering(q, answer, category) ==
    [NoCmd EXCEPT !.by = "resolve", !.question = q.n, !.target = q.target,
                  !.answer = answer, !.category = category,
                  !.status = q.status, !.before = q.before]

Skip(q) ==
    /\ pc = "idle" /\ q \in files
    /\ pc' = "remember"
    /\ cmd' = Answering(q, "skip", q.category)
    /\ UNCHANGED <<head, work, files, memos, proposals, asked>>

\* --intended, --test-issue, --proceed: the first two release the tests that
\* failed when the question was asked.
Resume(q, answer) ==
    /\ pc = "idle" /\ q \in files
    /\ pc' = "generate"
    /\ cmd' = [Answering(q, answer, q.category) EXCEPT
                 !.released = answer \in {"intended", "test-issue"}
                              /\ q.status = "fail"]
    /\ UNCHANGED <<head, work, files, memos, proposals, asked>>

\* --as: the table again, with the stated intent and the stored test status.
ResolveAs(q, category) ==
    /\ pc = "idle" /\ q \in files
    /\ LET kind == Decide(category, q.status) IN
       /\ kind # "escalate" /\ kind # "ask"
       /\ pc' = IF kind = "no_action" THEN "remember" ELSE "generate"
       /\ cmd' = [Answering(q, "as", category) EXCEPT
                    !.check = IF category = "bug_fix" /\ HasOldSource(q.target, q.back)
                              THEN Base(q.back) ELSE NoGate]
    /\ UNCHANGED <<head, work, files, memos, proposals, asked>>

-----------------------------------------------------------------------------
(* both commands                                                            *)

\* A test that passes on the code of now does not fail on that very code.
ReproductionGatePasses == cmd.check \notin {Unmeasurable, work}

\* A variant: the question is dropped whenever the generation ended.
AfterGenerationDone(result) ==
    IF cmd.by = "maintain" THEN "loop"
    ELSE IF result = "error" THEN "idle" ELSE "remember"

\* What follows a generation that has ended: maintain goes on, resolve keeps
\* the question after an error, and after "not_passed" unless it was --as.
AfterGeneration(result) ==
    IF cmd.by = "maintain" THEN "loop"
    ELSE IF result = "error" \/ (result = "not_passed" /\ cmd.answer # "as")
    THEN "idle" ELSE "remember"

\* History: the code the reproduction gate put in, seen from the change the
\* test is about.
TriedOn ==
    IF cmd.check \in {NoGate, Unmeasurable} THEN "nothing"
    ELSE IF cmd.check = cmd.before THEN "code before" ELSE "other code"

\* The generation ends with the test file there (written) or not: nothing need
\* have been written when no retry was allowed, or when the deep engine wrote
\* another file.  Only a file that is there is made a proposal of.  Its fix and
\* triedOn are history, of accepted ones alone.
Generate(result, written) ==
    /\ pc = "generate"
    /\ result = "accepted" => ReproductionGatePasses
    /\ pc' = AfterGeneration(result)
    /\ cmd' = IF pc' = "idle" THEN NoCmd
              ELSE IF cmd.by = "maintain"
              THEN [NoCmd EXCEPT !.by = "maintain", !.changed = cmd.changed,
                                 !.todo = cmd.todo, !.back = cmd.back, !.before = cmd.before]
              ELSE [NoCmd EXCEPT !.by = "resolve", !.question = cmd.question,
                                 !.target = cmd.target, !.answer = cmd.answer,
                                 !.result = result, !.written = written]
    /\ proposals' =
         IF written /\ result \in {"accepted", "human_review"}
         THEN [proposals EXCEPT ![cmd.target] =
                 [result |-> result, by |-> cmd.by,
                  fix |-> result = "accepted" /\ cmd.category = "bug_fix",
                  triedOn |-> IF result = "accepted" THEN TriedOn ELSE "nothing"]]
         ELSE proposals
    /\ UNCHANGED <<head, work, files, memos, asked>>

Remember ==
    /\ pc = "remember"
    /\ pc' = "discard"
    /\ memos' = [memos EXCEPT ![cmd.question] = cmd.answer]
    /\ UNCHANGED <<cmd, head, work, files, proposals, asked>>

DiscardUnremembered ==
    /\ pc \in {"remember", "discard"}
    /\ files' = {q \in files : q.n # cmd.question}
    /\ Return
    /\ UNCHANGED <<head, work, memos, proposals, asked>>

Discard ==
    /\ pc = "discard"
    /\ files' = {q \in files : q.n # cmd.question}
    /\ Return
    /\ UNCHANGED <<head, work, memos, proposals, asked>>

\* The process dies, or an exception ends the command: no step undoes another.
Kill ==
    /\ pc # "idle"
    /\ Return
    /\ UNCHANGED <<head, work, files, memos, proposals, asked>>

-----------------------------------------------------------------------------
(* the developer                                                            *)

Change ==
    /\ work = head /\ work < MaxVersion
    /\ work' = work + 1
    /\ UNCHANGED <<pc, cmd, head, files, memos, proposals, asked>>

Commit ==
    /\ head < work
    /\ head' = work
    /\ UNCHANGED <<pc, cmd, work, files, memos, proposals, asked>>

\* cta apply or cta discard of the proposal.
TakeProposal(t) ==
    /\ pc = "idle" /\ proposals[t] # Nothing
    /\ proposals' = [proposals EXCEPT ![t] = Nothing]
    /\ UNCHANGED <<pc, cmd, head, work, files, memos, asked>>

-----------------------------------------------------------------------------
Next ==
    \/ \E changed \in (SUBSET Targets) \ {{}}, back \in {0, 1} : Maintain(changed, back)
    \/ \E a \in Analyses : CreateTest(a) \/ SaveQuestion(a) \/ LeaveAlone(a)
    \/ EndMaintain
    \/ \E q \in files : Skip(q)
    \/ \E q \in files, answer \in {"intended", "test-issue", "proceed"} :
          Resume(q, answer)
    \/ \E q \in files, category \in StatedCategories : ResolveAs(q, category)
    \/ \E result \in Results, written \in BOOLEAN : Generate(result, written)
    \/ Remember
    \/ Discard
    \/ Kill
    \/ Change
    \/ Commit
    \/ \E t \in Targets : TakeProposal(t)

Spec == Init /\ [][Next]_vars

-----------------------------------------------------------------------------
Questions ==
    [n : 1..MaxQuestions, target : Targets, category : Categories,
     status : Statuses, back : {0, 1}, before : Versions]

TypeOK ==
    /\ pc \in {"idle", "loop", "generate", "remember", "discard"}
    /\ cmd = NoCmd <=> pc = "idle"
    /\ cmd.todo \subseteq cmd.changed /\ cmd.changed \subseteq Targets
    /\ head \in Versions /\ work \in {head, head + 1} \cap Versions
    /\ files \subseteq Questions
    /\ memos \in [1..MaxQuestions -> Answers \cup {"none"}]
    /\ \A t \in Targets : proposals[t] # Nothing =>
         /\ proposals[t].result \in {"accepted", "human_review"}
         /\ proposals[t].triedOn \in {"nothing", "code before", "other code"}
    /\ asked \in 0..MaxQuestions

\* A question leaves the store only when the answer that the command carries
\* is on file, wherever a command may have died before.
DecisionsAreKept ==
    [][\A q \in files \ files' : memos[q.n] = cmd.answer]_vars

\* The proposal this generation made for the question is in the store.
ProposedFor(q) ==
    /\ proposals[q.target] # Nothing
    /\ proposals[q.target].by = "resolve" /\ proposals[q.target].result = cmd.result

DropsOnlyProposed ==
    \A q \in files \ files' :
        cmd.answer \in {"intended", "test-issue", "proceed"}
          => \/ ProposedFor(q)
             \/ cmd.result \in {"accepted", "human_review"} /\ ~cmd.written

\* --intended, --test-issue and --proceed drop a question only after a generation
\* whose proposal for its target is in the store, or one that ended as well as a
\* generation with a proposal but had no test file to make it of.
KeptUntilProposed == [][DropsOnlyProposed]_vars

\* Rule R3: no test is written for a change meant as a refactoring, and no
\* assert is released, unless a person said so of this very question.
OrderedRewrites ==
    pc = "generate" =>
        /\ cmd.category \notin {"bug_fix", "new_feature"} =>
             cmd.answer \in {"intended", "test-issue", "proceed"}
        /\ cmd.released => cmd.status = "fail" /\ cmd.answer \in {"intended", "test-issue"}

\* A bug fix test of maintain is never accepted without having failed on a
\* committed version of the code, also for files that had none.
MaintainReproduces ==
    \A t \in Targets : LET p == proposals[t] IN
        p.result = "accepted" /\ p.by = "maintain" /\ p.fix
            => p.triedOn # "nothing"

-----------------------------------------------------------------------------
\* resolve_cmd.py: a question without a proposal stays ("deleting it would
\* lose the person's decision"), whatever the answer was and however the
\* generation ended.
AnswerYieldsProposal ==
    [][\A q \in files \ files' : cmd.result # "" => ProposedFor(q)]_vars

\* resolve_cmd.py: a bug fix stated by --as has "the same guarantee as
\* maintain", it failed on the code before the fix.
StatedFixIsReproduced ==
    \A t \in Targets : LET p == proposals[t] IN
        p.result = "accepted" /\ p.by = "resolve" /\ p.fix
            => p.triedOn = "code before"
=============================================================================
