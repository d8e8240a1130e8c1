----------------------------- MODULE Generation -----------------------------
(***************************************************************************)
(* One generation run at a time on a project: run_generation of            *)
(* cli/generate.py with the gate loop of core/submit.py, the source gates  *)
(* of adapters/java/gates.py and the proposal store of cli/proposals.py,   *)
(* beside the developer's own edits, apply and discard.                    *)
(*                                                                         *)
(* The content of a test file is the set of its assert statements; a file  *)
(* that is missing or empty is Absent ("if original" makes no difference   *)
(* between the two, and no other file is without asserts here).            *)
(* A proposal is two files, <class>.java and <class>.json.  Its test path  *)
(* is the class.  The writing engine is any number of writes and test      *)
(* executions (see WriterGraph and RunLedger for its limits).              *)
(***************************************************************************)
EXTENDS Naturals

CONSTANTS
    Classes,      \* test classes a run may be asked for
    Paths,        \* all test files of the project, Classes among them
    Asserts,      \* assert statements
    AgentTexts,   \* contents the model may write
    HumanTexts,   \* contents the developer may leave in a file
    AuthChoices,  \* sets of asserts a person may release (authorized_tests)
    MaxRetries,   \* [gates] max_retries
    MaxWrites,    \* bound: write_test calls of one writing attempt
    MaxFaults     \* bound: kills, exceptions outside "try", stray writes

ASSUME GenerationAssumption ==
    /\ Classes \subseteq Paths
    /\ AgentTexts \subseteq (SUBSET Asserts) \ {{}}
    /\ HumanTexts \subseteq SUBSET Asserts
    /\ AuthChoices \subseteq SUBSET Asserts
    /\ MaxRetries \in Nat /\ MaxWrites \in Nat /\ MaxFaults \in Nat

VARIABLES
    pc,     \* where the command in progress is; "idle" when there is none
    job,    \* the local variables of the command in progress
    disk,   \* the test files of the source tree
    java,   \* proposal code, Absent when there is none
    meta,   \* proposal status, "none" when there is no json file
    human,  \* history: what the developer last put or accepted in a file
    mess,   \* history: what last left generated code in a file
    facts,  \* history: what is true of the code in java
    torn,   \* history: a kill separated java from its meta
    faults  \* how many of the bounded faults have happened

vars == <<pc, job, disk, java, meta, human, mess, facts, torn, faults>>

Contents == SUBSET Asserts

Absent == {}

NoJob ==
    [cls |-> "", engine |-> "", fast |-> FALSE, auth |-> {},
     original |-> Absent, pending |-> Absent, base |-> <<>>, tries |-> 0,
     writes |-> 0, ok |-> FALSE, tested |-> FALSE, gated |-> FALSE,
     result |-> "", generated |-> Absent]

Init ==
    /\ pc = "idle" /\ job = NoJob
    /\ disk \in [Paths -> HumanTexts]
    /\ java = [c \in Classes |-> Absent]
    /\ meta = [c \in Classes |-> "none"]
    /\ human = disk
    /\ mess = [p \in Paths |-> ""]
    /\ facts = [c \in Classes |-> {}]
    /\ torn = [c \in Classes |-> FALSE]
    /\ faults = 0

Fault == faults < MaxFaults /\ faults' = faults + 1

\* A command ends and its local variables are gone.
Return == pc' = "idle" /\ job' = NoJob

-----------------------------------------------------------------------------
(* run_generation, up to the "try"                                          *)

PendingIgnored(c) == Absent

\* The code of the waiting proposal; a proposal lacking one of its two files
\* counts as none.
Pending(c) == IF meta[c] # "none" THEN java[c] ELSE Absent

\* The original text is read, and the waiting proposal is put in its place.
Begin(c, engine, fast, auth) ==
    /\ pc = "idle"
    /\ pc' = "prepare"
    /\ job' = [NoJob EXCEPT !.cls = c, !.engine = engine, !.fast = fast,
                            !.auth = auth, !.original = disk[c],
                            !.pending = Pending(c)]
    /\ disk' = [disk EXCEPT ![c] =
                  IF Pending(c) # Absent THEN Pending(c) ELSE @]
    /\ UNCHANGED <<java, meta, human, mess, facts, torn, faults>>

\* Mutant: what is put back is what the run began with, the proposal in place.
RestoredAsBegun ==
    [disk EXCEPT ![job.cls] = IF job.pending # Absent THEN job.pending ELSE job.original]

Restored == [disk EXCEPT ![job.cls] = job.original]

\* No method to test, or the preparation of the sandbox failed.
GiveUp ==
    /\ pc = "prepare"
    /\ disk' = Restored
    /\ Return
    /\ UNCHANGED <<java, meta, human, mess, facts, torn, faults>>

\* An exception outside the "try" (parsing, sandbox, Ctrl+C during the first
\* mutation measurement; or while the results are printed): no handler.
Escape ==
    /\ Fault
    /\ pc \in {"prepare", "finish"}
    /\ mess' = [mess EXCEPT ![job.cls] =
                  IF disk[job.cls] # human[job.cls] THEN "escape" ELSE @]
    /\ Return
    /\ UNCHANGED <<disk, java, meta, human, facts, torn>>

\* snapshot_baseline; the first attempt begins if there is one.
Snapshot ==
    /\ pc = "prepare"
    /\ pc' = IF MaxRetries = 0 THEN "finish" ELSE "write"
    /\ job' = [job EXCEPT !.base = disk, !.tries = 1,
                 !.result = IF MaxRetries = 0 THEN "human_review" ELSE ""]
    /\ UNCHANGED <<disk, java, meta, human, mess, facts, torn, faults>>

-----------------------------------------------------------------------------
(* the "try": writing attempts and gates                                    *)

\* write_test.  The legacy graph knows one path; the deep agent chooses it,
\* and only the test folder is enforced.
Write(p, x) ==
    /\ pc = "write" /\ job.writes < MaxWrites
    /\ job.engine = "legacy" => p = job.cls
    /\ IF p = job.cls THEN UNCHANGED faults ELSE Fault
    /\ disk' = [disk EXCEPT ![p] = x]
    /\ job' = [job EXCEPT !.writes = @ + 1, !.tested = FALSE]
    /\ mess' = [mess EXCEPT ![p] = IF p = job.cls THEN @ ELSE "stray"]
    /\ UNCHANGED <<pc, java, meta, human, facts, torn>>

\* run_tests.  The legacy graph runs the class of the run (own); the deep agent
\* names the tests and may have run others.
RunTests(own, passes) ==
    /\ pc = "write"
    /\ job.engine = "legacy" => own
    /\ own => disk[job.cls] # Absent
    /\ job' = [job EXCEPT !.ok = passes, !.tested = IF own THEN passes ELSE @]
    /\ UNCHANGED <<pc, disk, java, meta, human, mess, facts, torn, faults>>

WriterPassesUnrun ==
    /\ pc = "write" /\ disk[job.cls] # Absent
    /\ pc' = "gates"
    /\ UNCHANGED <<job, disk, java, meta, human, mess, facts, torn, faults>>

\* The engine concludes "passed" on its last execution.  The legacy graph
\* always executes what it wrote; the deep agent may have written since, or
\* have run other tests.
WriterPasses ==
    /\ pc = "write" /\ job.ok
    /\ job.engine = "legacy" => job.tested
    /\ pc' = "gates"
    /\ UNCHANGED <<job, disk, java, meta, human, mess, facts, torn, faults>>

WriterReports ==
    /\ pc = "write"
    /\ pc' = "finish"
    /\ job' = [job EXCEPT !.result = "not_passed"]
    /\ UNCHANGED <<disk, java, meta, human, mess, facts, torn, faults>>

\* Gate 1: the asserts of the baseline outside the released tests are there.
AssertsKept ==
    \A p \in Paths : job.base[p] # Absent =>
        disk[p] # Absent /\ job.base[p] \ job.auth \subseteq disk[p]

\* Gate 3: no other file differs from the baseline.
ScopeKept == \A p \in Paths \ {job.cls} : disk[p] = job.base[p]

\* The coverage gate executes the tests again and a failing one fails the
\* gate; --fast leaves coverage and mutation out.
ExecutedByGates(rest) == rest /\ ~job.fast

RunGatesUncounted(rest) ==
    /\ pc = "gates"
    /\ LET passes == AssertsKept /\ ScopeKept /\ rest IN
       IF passes
       THEN /\ pc' = "finish"
            /\ job' = [job EXCEPT !.tested = @ \/ ExecutedByGates(rest),
                 !.gated = passes, !.result = "accepted"]
       ELSE /\ pc' = "write"
            /\ job' = [job EXCEPT !.writes = 0, !.ok = FALSE]
    /\ UNCHANGED <<disk, java, meta, human, mess, facts, torn, faults>>

RunGatesUngated(rest) ==
    /\ pc = "gates"
    /\ IF rest \/ job.tries >= MaxRetries
       THEN /\ pc' = "finish"
            /\ job' = [job EXCEPT !.tested = @ \/ ExecutedByGates(rest),
                 !.gated = AssertsKept /\ ScopeKept /\ rest,
                 !.result = IF rest THEN "accepted" ELSE "human_review"]
       ELSE /\ pc' = "write"
            /\ job' = [job EXCEPT !.tries = @ + 1, !.writes = 0, !.ok = FALSE]
    /\ UNCHANGED <<disk, java, meta, human, mess, facts, torn, faults>>

\* All gates judge the files as they are.  The verdicts of the skip, bug
\* reproduction, coverage and mutation gates together are `rest`.  A
\* rejection is another attempt while there is one left.
RunGates(rest) ==
    /\ pc = "gates"
    /\ LET passes == AssertsKept /\ ScopeKept /\ rest IN
       IF passes \/ job.tries >= MaxRetries
       THEN /\ pc' = "finish"
            /\ job' = [job EXCEPT !.tested = @ \/ ExecutedByGates(rest),
                 !.gated = passes,
                 !.result = IF passes THEN "accepted" ELSE "human_review"]
       ELSE /\ pc' = "write"
            /\ job' = [job EXCEPT !.tries = @ + 1, !.writes = 0, !.ok = FALSE]
    /\ UNCHANGED <<disk, java, meta, human, mess, facts, torn, faults>>

\* "except BaseException": the target file is restored, the run is over.
Fail ==
    /\ pc \in {"write", "gates"}
    /\ disk' = Restored
    /\ Return
    /\ UNCHANGED <<java, meta, human, mess, facts, torn, faults>>

-----------------------------------------------------------------------------
(* after the "try": restore, then save_proposal in two writes               *)

FinishWithoutRestore ==
    /\ pc = "finish"
    /\ IF disk[job.cls] # Absent /\ job.result # "not_passed"
       THEN /\ job' = [job EXCEPT !.generated = disk[job.cls]]
            /\ disk' = Restored
            /\ pc' = "save"
       ELSE Return /\ UNCHANGED disk
    /\ UNCHANGED <<java, meta, human, mess, facts, torn, faults>>

Finish ==
    /\ pc = "finish"
    /\ IF disk[job.cls] # Absent /\ job.result # "not_passed"
       THEN /\ job' = [job EXCEPT !.generated = disk[job.cls]]
            /\ disk' = Restored
            /\ pc' = "save"
       ELSE Return /\ disk' = IF disk[job.cls] # Absent THEN Restored ELSE disk
    /\ UNCHANGED <<java, meta, human, mess, facts, torn, faults>>

\* What can be said of the generated code: the gates passed it as it is, an
\* execution passed with it (deep with --fast cannot know), and it has every
\* unreleased assert of what it replaces: the waiting proposal or else the
\* file ("kept"), the file in any case ("faithful").
Replaced(c, original) ==
    IF meta[c] # "none" /\ java[c] # Absent THEN java[c]
    ELSE original

FactsOf(j) ==
    {f \in {"gated", "ran", "kept", "faithful"} :
       /\ f = "gated" => j.gated
       /\ f = "ran" => j.tested \/ (j.engine = "deep" /\ j.fast)
       /\ f = "kept" => Replaced(j.cls, j.original) \ j.auth \subseteq j.generated
       /\ f = "faithful" => j.original \ j.auth \subseteq j.generated}

SaveJava ==
    /\ pc = "save"
    /\ pc' = "label"
    /\ java' = [java EXCEPT ![job.cls] = job.generated]
    /\ facts' = [facts EXCEPT ![job.cls] =
                  IF job.result = "accepted" THEN FactsOf(job) ELSE {}]
    /\ UNCHANGED <<job, disk, meta, human, mess, torn, faults>>

LabelOf(j) == IF j.result = "accepted" THEN "accepted" ELSE "needs_review"

SaveJson ==
    /\ pc = "label"
    /\ meta' = [meta EXCEPT ![job.cls] = LabelOf(job)]
    /\ torn' = [torn EXCEPT ![job.cls] = FALSE]
    /\ Return
    /\ UNCHANGED <<disk, java, human, mess, facts, faults>>

-----------------------------------------------------------------------------
(* the developer, and the proposals they take or refuse                     *)

Edit(p, x) ==
    /\ pc = "idle"
    /\ disk' = [disk EXCEPT ![p] = x]
    /\ human' = [human EXCEPT ![p] = x]
    /\ mess' = [mess EXCEPT ![p] = ""]
    /\ UNCHANGED <<pc, job, java, meta, facts, torn, faults>>

\* apply_proposal: without the .java file it raises before any change.
Apply(c) ==
    /\ pc = "idle" /\ meta[c] # "none" /\ java[c] # Absent
    /\ disk' = [disk EXCEPT ![c] = java[c]]
    /\ human' = [human EXCEPT ![c] = java[c]]
    /\ mess' = [mess EXCEPT ![c] = ""]
    /\ pc' = "drop java"
    /\ job' = [NoJob EXCEPT !.cls = c]
    /\ UNCHANGED <<java, meta, facts, torn, faults>>

\* list_proposals and select_names: the classes with a meta file.  With none,
\* discard does nothing; with one, any name can be given.
Waiting == {c \in Classes : meta[c] # "none"}

Discard(c) ==
    /\ pc = "idle" /\ Waiting # {}
    /\ pc' = "drop java"
    /\ job' = [NoJob EXCEPT !.cls = c]
    /\ UNCHANGED <<disk, java, meta, human, mess, facts, torn, faults>>

\* discard_proposal removes the code first, then its meta file.
DropJava ==
    /\ pc = "drop java"
    /\ pc' = "drop json"
    /\ java' = [java EXCEPT ![job.cls] = Absent]
    /\ facts' = [facts EXCEPT ![job.cls] = {}]
    /\ UNCHANGED <<job, disk, meta, human, mess, torn, faults>>

DropJson ==
    /\ pc = "drop json"
    /\ meta' = [meta EXCEPT ![job.cls] = "none"]
    /\ torn' = [torn EXCEPT ![job.cls] = FALSE]
    /\ Return
    /\ UNCHANGED <<disk, java, human, mess, facts, faults>>

\* The process dies without a word: nothing is restored.
Kill ==
    /\ Fault
    /\ pc # "idle"
    /\ mess' = [p \in Paths |-> IF disk[p] # human[p] /\ mess[p] = ""
                                THEN "kill" ELSE mess[p]]
    /\ torn' = IF pc = "label" THEN [torn EXCEPT ![job.cls] = TRUE] ELSE torn
    /\ Return
    /\ UNCHANGED <<disk, java, meta, human, facts>>

-----------------------------------------------------------------------------
Progress ==
    \/ Snapshot
    \/ \E p \in Paths, x \in AgentTexts : Write(p, x)
    \/ WriterPasses
    \/ WriterReports
    \/ \E rest \in BOOLEAN : RunGates(rest)
    \/ Finish
    \/ SaveJava
    \/ SaveJson
    \/ DropJava
    \/ DropJson

Next ==
    \/ \E c \in Classes, engine \in {"legacy", "deep"}, fast \in BOOLEAN,
          auth \in AuthChoices : Begin(c, engine, fast, auth)
    \/ Progress
    \/ \E own, passes \in BOOLEAN : RunTests(own, passes)
    \/ GiveUp
    \/ Escape
    \/ Fail
    \/ Kill
    \/ \E p \in Paths, x \in HumanTexts : Edit(p, x)
    \/ \E c \in Classes : Apply(c) \/ Discard(c)

Spec == Init /\ [][Next]_vars

\* The engines end on their own (WriterGraph!Terminates) and every other step
\* is a bounded piece of work; runs of tests alone are no progress.
FairSpec == Spec /\ WF_vars(Progress)

-----------------------------------------------------------------------------
TypeOK ==
    /\ pc \in {"idle", "prepare", "write", "gates", "finish", "save", "label",
               "drop java", "drop json"}
    /\ IF pc = "idle" THEN job = NoJob ELSE job.cls \in Classes
    /\ disk \in [Paths -> Contents]
    /\ java \in [Classes -> Contents]
    /\ meta \in [Classes -> {"none", "accepted", "needs_review"}]
    /\ human \in [Paths -> Contents]
    /\ mess \in [Paths -> {"", "kill", "escape", "stray"}]
    /\ facts \in [Classes -> SUBSET {"gated", "ran", "kept", "faithful"}]
    /\ torn \in [Classes -> BOOLEAN]
    /\ faults \in 0..MaxFaults

\* "The sources are touched by the person's command only": between commands
\* a test file differs from what the developer put or applied only where a
\* kill, an exception outside the "try" or a write of the deep engine to
\* another file left it so.
OnlyFaultsLeaveTraces ==
    pc = "idle" => \A p \in Paths : disk[p] # human[p] => mess[p] # ""

\* Labelled accepted, with both files there and of one run: not in the middle
\* of save_proposal, and no process died there.
Accepted(c) ==
    /\ meta[c] = "accepted" /\ java[c] # Absent
    /\ ~torn[c] /\ ~(pc = "label" /\ job.cls = c)

\* A proposal labelled accepted is the very code that all gates passed,
\* unless the process died between its two files.
LabelIsEarned == \A c \in Classes : Accepted(c) => "gated" \in facts[c]

\* An accepted proposal is code that was executed and passed; not so of the deep
\* agent with --fast, which may write after its last execution (FactsOf).
AcceptedRan == \A c \in Classes : Accepted(c) => "ran" \in facts[c]

\* A proposal never loses the asserts of the one it replaces ("so that the
\* tests of the earlier proposal are not overwritten and lost",
\* proposals.py), unless a person released them.
PendingKept == \A c \in Classes : Accepted(c) => "kept" \in facts[c]

\* Every command ends, and so does a half-done one after a failure.
Terminates == pc # "idle" ~> pc = "idle"

-----------------------------------------------------------------------------
(* The developer's view (DeveloperPromise)                                  *)

\* From Begin to the restoration of the sources.
Running == {"prepare", "write", "gates", "finish"}

\* The tree as it will be when the file of the run has been put back.
Tree == [p \in Paths |-> IF pc \in Running /\ p = job.cls THEN job.original ELSE disk[p]]

\* A proposal is saved with its code; its label is certain then, and on disk with the
\* next step.  One that lacks one of its two files is none.
Store ==
    [c \in Classes |->
       IF pc = "label" /\ c = job.cls
       THEN [state |-> "whole", code |-> java[c], label |-> LabelOf(job)]
       ELSE IF torn[c] THEN [state |-> "torn", code |-> Absent, label |-> "none"]
       ELSE IF Pending(c) = Absent THEN [state |-> "none", code |-> Absent, label |-> "none"]
       ELSE [state |-> "whole", code |-> java[c], label |-> meta[c]]]

Command ==
    [does |-> CASE pc = "idle" -> "nothing"
                [] pc \in {"drop java", "drop json"} -> "discard"
                [] OTHER -> "generate",
     cls |-> job.cls, released |-> job.auth]

Promise == INSTANCE DeveloperPromise WITH tree <- Tree, store <- Store, command <- Command

\* Runs, kills and all, give the developer what DeveloperPromise promises: no run
\* changes the tree or removes a proposal, a proposal is replaced at once by one that
\* keeps its asserts, and each fault harms at most one file or one proposal.
KeepsDeveloperPromise == Promise!Spec

-----------------------------------------------------------------------------
\* generate.py: "when generation ends (or dies on the way) the file is always
\* put back to this text": no exception leaves generated code behind.
RestoredWhenItDies ==
    pc = "idle" => \A p \in Paths : disk[p] # human[p] => mess[p] # "escape"

\* gates.py: an existing assert that is gone or changed fails the gate and is
\* put to a person; so an accepted proposal has every assert of the source
\* tree that nobody released.
AcceptedIsFaithful ==
    \A c \in Classes : Accepted(c) => "faithful" \in facts[c]
=============================================================================
