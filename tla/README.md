# TLA+ model of cta

`cta` (src/cta) writes and maintains Java unit tests with a language model. The model is never trusted:
deterministic code around it counts its attempts, gates its output, keeps that output out of the source
tree until a person applies it, and puts every doubtful change before a person. This directory models that
deterministic code, checks it with TLC and proves its core with TLAPS.

## 1. Inventory of the system

| component | state it keeps | operations | made correct by |
|---|---|---|---|
| legacy writing engine, `core/writer_graph.py` | `WriterState` (attempts, last and previous run, status) | LangGraph nodes gather, write, run, ask, quality, report | limits kept, stop is final, repeated failures are asked, it ends |
| deep agent: `core/agent/limits.py`, `build.py` | the `RunLedger` shared by main agent and subagents | wrapped tool calls: run_tests, ask_user, report_finding | the same limits, whatever calls the model makes, also in parallel |
| generation run, `cli/generate.py`, `core/submit.py` | the test file, a baseline of the sources, retries | begin, gate loop, restore, save | sources put back, `accepted` means all gates passed this code |
| source gates, `adapters/java/gates.py`, `regression.py` | baseline | assert, skip, scope, coverage, mutation, reproduction | nothing of the developer's is weakened |
| proposal store, `cli/proposals.py` | `.cta/proposals/<class>.java` and `.json` | save, pending, apply, discard | a crash harms at most the one proposal it splits, later runs build on earlier ones |
| maintain, `cli/maintain_cmd.py`, `core/pipeline` | analyses of the changed methods | extract, classify, decide by table, generate or ask | a refactoring that breaks tests is never "repaired" |
| resolve, `cli/resolve_cmd.py`, `escalations.py`, `memos.py` | `.cta/escalations`, `.cta/memos` | five answers | an answer is not lost, a question stays until it brought something |
| runner and sandboxes, `sandbox/`, `adapters/java/runner.py` | dependency cache, containers, `target/` | prepare, go offline, one Maven run, time-out | a verdict is about the run that was made |
| coverage and mutation, `coverage.py`, `mutation.py` | JaCoCo and PIT reports under `target/` | run, read the report, judge | no report of another run counts |
| test making, `materials.py`, `llm/generation.py`, `merge.py` | nothing kept | choose methods, prompt, read the answer, merge it | the developer's tests survive any answer |
| change extraction, `changes.py`, `llm/intent.py` | nothing kept | diff, methods, comments only, message, intent | every changed line belongs to its method |
| analysis of changes, `core/pipeline/maintain.py`, `impact.py` | a cache of test results | callers, tests, status, derived cases | a decision rests on the tests as they are |
| code graph, `graph/`, `calls.py` | nodes and edges in Neo4j or in memory | parse, replace the project, ask | a whole graph of one reading |
| LLM client, `metering.py`, `replay.py`, `model_cassette.py` | tokens spent, cassette files | call, record, replay | the budget, a replay that repeats the recording |
| settings, `core/config.py`, `llm/config.py`, `gateway.py` | `os.environ` | read `.env` and `cta.toml`, make a client | projects of one process do not mix |
| evaluation, `cli/eval_cmd.py`, `eval_intents.py` | the bench project, one record | reset, generate, apply, plant, run, save | a row is about its own case |
| heap reports, `hprof_report.py` | the table of objects, their graph | parse, layout, dominators, paths | the report is true of what is in the dump |
| skills, prompts, rendering, fakes, drawing scripts | none | | not modelled |

How they interact: `maintain` and `resolve` call `run_generation`; that calls the gate loop, which calls one of
the two engines and then the gates on the files as they are; the result goes to the proposal store; a person
applies or discards it. Everything is on one file system, without locks; the only threads are those in which
LangGraph executes the tool calls of one message. The hard parts are therefore: parallel tool calls on an
unlocked ledger, exceptions and kills while generated code lies in the source tree, pairs of files written
one after the other, names (HEAD, a waiting proposal) whose meaning changes between two commands, files that
outlive the run that wrote them (reports, cassettes, `.env` values in the environment), containers that outlive
their client, and loops that only counters end. `PROJECT.json` "hazards" lists each at its line with the
properties that watch it; where these catch a part of it only, its note says which part stays open.

## 2. Modules

    WriterLimits            limits, run results, classify_failure
      WriterPromise         abstract: what either engine promises
      WriterGraph           the legacy engine            MCWriterGraph    WriterGraph_proofs
      RunLedger             the deep agent's ledger      MCRunLedger      RunLedger_proofs
    ModuloLemmas            arithmetic for the proofs of the two engines
    DeveloperPromise        abstract: what a developer may count on
      Generation            generation, proposals        MCGeneration     Generation_proofs
    HumanReview             maintain, resolve            MCHumanReview    HumanReview_proofs
    HeapFile                a heap dump read             MCHeapFiles  |
      HeapPaths             the path from a root                      |
        HeapDominators      search, dominators, retained sizes        |
          HeapGraph         references, the way from dump to report   |   Heap_proofs
    LlmCalls                budget, recording, replay                 |   Making_proofs
    Settings                model client settings                     | M Making_proofs
    CodeGraph               the graph built and stored                | C Maintain_proofs
      ChangeImpact          the analysis over it                      | P Maintain_proofs
    ChangeExtract           diff, methods, intents                    | a Maintain_proofs
    Memos                   memos and their search                    | r Maintain_proofs
    ToolRuns                sandbox, reports, gates     MCStaleReport | t Making_proofs
    TestMaking              methods, answers, merging   MCTests       | s Making_proofs
    Evaluation              cta eval                                  |   Making_proofs

**WriterLimits.** A run result is a text in the code; the engines look at three facts of it only: it starts with
the passed mark, it holds an environment mark, it equals the previous text. So a result is `Passed`,
`Impossible` or one of the constants `Failures`. `ClassifyFailure` is `classify_failure`.

**WriterPromise** is the abstract specification of an engine: an execution begins only below both limits, not
after a stop or an environment failure, and after a repeated failure only with a fresh answer; "passed" stands
on the last execution. Both engines are shown to implement it (`KeepsPromise`, `INSTANCE WriterPromise WITH`).

**WriterGraph.** `node` is LangGraph's next node; a node with the conditional edge behind it is one action, because
LangGraph runs it so. `Ask` is the interrupt with the person's reply, `Abort` any exception. `streak` is a history
variable: failures since the last pass or answer.

**RunLedger.** The variables are the attributes of `RunLedger`; `lane[l]` is where the run_tests call of a thread is.
A call is three actions: `Check` (`_refusal`), `Start` (`attempts += 1`, then the execution), `Finish` (the results
shift, `_note_after_run`). Check and Start are split because nothing locks them; that today's CPython hardly
ever switches threads there is no promise of the code. `AskUser` needs all lanes idle: interrupt() stops the graph when the
other calls of the message are over. One lane is the sequential use the prompts ask for.

**Generation.** A test file is the set of its assert statements, `Absent` when missing or empty. `disk` is the source
tree, `java` and `meta` the two files of each proposal, `job` the local variables of the command in progress. The
engine is any number of writes and executions, with the differences the code makes: the deep agent may write
other files, may run other tests than those of the file (`RunTests`, `own`) and may write after its last execution. `Fail` is the `except BaseException` of the try, `Escape` an exception outside
it, `Kill` the end of the process at any point. save and discard take two steps each. `Edit`, `Apply`, `Discard`
are the developer; names are given only when some proposal waits (`Waiting`). `human`, `mess`, `facts` and `torn` are history: what the developer last put in a file, what
last left generated code there, what was true of a proposal when it was saved, whether a kill split its two files.

**DeveloperPromise** is the abstract specification behind it: a tree, a store of whole proposals, a command and faults. The tree changes
by edits and by proposals taken, nothing else; a proposal is replaced or dropped in one step, code and label together, and one saved as accepted
has every assert of what it replaces that was not released; a fault harms at most one file, or the one proposal of a command (`Torn`).
Generation implements it (`KeepsDeveloperPromise`): the tree is the disk with the original text in the place of the file of a run (`Tree`), a proposal
is there from its first file on, with the label that the second one will have, and lacks nothing but its label when a kill comes between (`Store`). So every write of a run
is a stutter, `SaveJava` saves, `SaveJson` ends the command, `DropJava` drops. What a restart finds in the files themselves is left to
the properties on Generation's own variables: a torn proposal can be taken, with code of which nothing is promised.

**HumanReview.** Code is a version number, `work` the working tree, `head` the last commit. `Maintain` extracts, each
analysis is then dealt with by the table `Decide`: `CreateTest`, `SaveQuestion` or `LeaveAlone`. `Skip`, `Resume` and `ResolveAs`
are the answers; `Generate` is a whole generation with its result, constrained by the one gate looked into here, the
reproduction gate: a test that passes on the code of now cannot fail on that very code, and by whether the test file is there at its
end (`written`): only then a proposal is made. It need not be, when no retry was allowed or the deep engine wrote another file. `Remember` and `Discard` are the
memo and the deletion, in this order. A question holds the base by name (`back`, 0 for HEAD, 1 for HEAD~1); `before`
is history: the version that name meant when the question was asked. Developers change and commit at any time.

The modules below are the parts around the engines. A generation, a model answer or a Maven run that one of them needs but
another one models is a step with its possible results.

**HeapFile.** A dump is segments of sub-records and the place where the file ends: behind the last sub-record, in its fixed part, or in
the data after it. An action is one turn of the parser's loop: `ReadObject` appends the row before it looks at the data, `ReadClass` and `ReadRoot`
raise where the bytes end, `SkipUnknown` gives the segment up, `EndSegment` takes the last row back when its data is not there. `Resolve`
follows superclasses and votes on the layout.

**HeapPaths.** `path_to_root` over any vertices and references: a layer is looked at vertex by vertex, twice if the strict search finds nothing, and
`Trace` builds the path. A layer is a set: its order decides only which of equally short paths is shown. `gaveUp` is history.

**HeapDominators.** `compute_dominators`, one turn of its loops an action: the search with its stack (`Descend`, `Retreat`), the references
backwards, Lengauer and Tarjan's two passes and the retained sizes. `evalnode` climbs the path of a vertex (`Climb`, `trail` is the code's
`stk`) and compresses it from above (`Unwind`); the loop over the predecessors (`LookBack`) has the same body inlined. A bucket, two
arrays of links in the code, is a sequence. The reference is what the words mean: take an object away and look what is still reachable.

**HeapGraph.** `build_graph` between the reading of a dump and the dominators, and the way of a dump through all four modules (`HeapSpec`).

**LlmCalls.** A lane is a conversation; `Check` is the look at the budget, `Answer` the gateway, `Note` to `Write` the cassette, whose
file is opened (and emptied) and written in two steps, `Load`, `Match`, `Advance` the replay of either engine, `Store` the read and
the write of `total_tokens` apart. `given` and `made` are history.

**Settings.** `NextProject` is `load_env`, the lookup of model, time-out, effort and address, and the client of either engine or the
exception it raises; the environment that one project filled is there for the next.

**CodeGraph, ChangeImpact.** Code is methods, calls with their receiver texts, tests and what they cover. A builder reads it, then deletes, stores
nodes, stores edges, each statement a step, and may die before each; two builders may overlap. `ChangeImpact` is
`analyze_changes`: callers from the graph or by parsing, tests by coverage or by text, the status from cache or run, derived cases.

**ToolRuns.** `EnsurePrepared`, `GoOffline`, `WarmUp` are the preparation; `Swap`, `SwapRaises`, `RunOnOld` the regression gate file by file;
`CoverageGate` and `ReadCoverage` the run and the reading of its report, two steps because a container left by a time-out (`late`) may
write its own report in between (`overtaken`); `MutationGate` takes whatever report is there. JaCoCo's execution file adds up.

**TestMaking.** Selection and splitting of methods (no property speaks of the selection; it is there for the answers that follow), what the
answer holds (`output` is the answer as it came, `fragment` what the code makes of it: members, or a class, which loses the members
declared before it), merging by name, and the source gates over the result, over several attempts. The merge goes as the code does: `ReplaceMember`
takes the members of the answer one by one, `AppendRest` puts what is left behind the others. A *bare* member has neither annotation
nor comment; the text of one begins on the line of the brace before it, so replacing it takes that brace out of the file (`TakesBrace`), which
`torn` remembers. What the gates say of a torn file is left open.

**ChangeExtract.** `unread` holds the lines of the diff that were not read yet; `ReadLine` takes the first of them and knows of the rest only
the file (`here`) and the code's counter (`newLine`). A changed line that begins as a file header does (`header`) is not counted,
and moves the counter on if it was a removed one. Buckets are by class name and method. Then the commit message and the classifier's answer with
its defaults.

**Memos.** A memo's name is the instant and a number; saving is a step that a kill may tear; maintain lists, puts those of the method
first, then of the class, then by cosine. The embedding call may be missing, fail, or be of another model. The clock is taken not to step
back, though local time may; names in another order than the saving would be the consequence.

**Evaluation.** The steps of a case with the reset before and after, the bench as [source, test], planted bugs, exceptions that end the
evaluation, kills that leave the bench as it is, and the record at the end. A generation may be accepted without a test file (`written` is false), and
then reading its proposal raises; `over` says that the test may have been made from a proposal of an earlier case.

**MCParts** puts these nine on small instances side by side. They share no state, so one part moves in each behaviour and the others rest:
TLC explores the sum of nine state spaces in one run. That loses nothing about any of them, and claims nothing about their
composition, which is in the interface each assumes (the results of a step of another part).

## 3. Runs

| run | module and bounds | shows |
|---|---|---|
| writer_graph | AskEvery 4, MaxTotal 8 (the defaults), two failure texts | types, `LimitsKept`, `NoWorkAfterStop`, `RepeatedFailureIsAsked`, `Terminates`, `KeepsPromise` |
| ledger_one | one lane, the default limits | `LimitsKept`, `KeepsPromise` |
| ledger_two | two lanes, the default limits | `OvershootBounded`, `StopIsFinal`, `BlockIsForever` |
| ledger_parallel | two lanes, the default limits | **violation** `SoftLimitHolds` |
| generation | one class, one other file, two asserts, 2 gate attempts of 1 write, 1 fault | `OnlyFaultsLeaveTraces`, `LabelIsEarned`, `AcceptedRan`, `PendingKept`, `Terminates`, `KeepsDeveloperPromise` |
| generation_escape | the same, no released asserts | **violation** `RestoredWhenItDies` |
| generation_faithful | the same | **violation** `AcceptedIsFaithful` |
| human_review | one target in a file that version 0 lacks, versions 0 to 2, two questions | `OrderedRewrites`, `MaintainReproduces`, `DecisionsAreKept`, `KeptUntilProposed` |
| resolve_lost | the same | **violation** `AnswerYieldsProposal` |
| resolve_unproved | the same target in an old file | **violation** `StatedFixIsReproduced` |
| parts | nine instances, see below; 2.5 million states | `CompleteObjectsOnly`, `DominatorsCorrect`, `RetainedIsFreed`, `PathsAreShortest` (heap reports); `BudgetOvershoot`, `RecordingKeeps`, `ReplayedAsRecorded`, `ReplayEndsTheSame` (model calls); `ProjectsDoNotMix` (settings); `GraphIsWhole`, `StatusOfThisRun`, `DerivedOnce` (graph and analysis); `CoverageIsThisRun`, `OnlyKillsLeaveOldCode` (tool runs); `MergeKeepsExisting`, `AssertsKept` (test making); `ChangesAttributed` (diffs); `DecisionsResurface` (memos); `RowsAreOfTheirCase` (evaluations) |
| stale_report | ToolRuns alone, one file, a killing and a surviving test | **violation** `MeasuredIsThisRun` |

Why the bounds are enough. The default limits are the ones the program runs with; MaxTotal is a multiple of AskEvery, so
soft limit, hard cap and their coincidence all occur; the proofs lift the limits to every value. In Generation an assert
of the developer and one of the model distinguish keeping, losing and adding; two attempts give a rejection with a
retry and a rejection at the end; one write per attempt is enough for a write after the last execution, since the execution
may precede it; the number of developer's edits, applications and commands is not bounded. `MaxFaults` (1) bounds kills,
exceptions outside the try and writes to other files; the same run with 2 faults was made once by hand (1.97
million states, no violation). In HumanReview three versions are a base, a fix and later work; two questions show that
an answer to one leaves the other alone; kills are not bounded.

The instances of *parts*. Heap: every reference graph between two arrays, an instance of a Reference class and a further array, which has
joins, cycles and unreachable objects, and files cut in header or data, with unknown sub-records, in two segments; `MaxVisit` 4 ends searches
among five objects. Model calls: two
lanes, two answers each, an ending and a continuing reply, no budget or one the first answer exhausts. Settings: two
projects, every place blank, missing, good or bad. Graph: two versions of two classes that call each other in all six ways the
resolver knows, two builders (interchangeable, hence SYMMETRY; nothing chooses among them and the run has no liveness property). Tools: two rounds, three
tests, up to three files to swap, one of them new; `RoundMax` bounds the retries, at two a report can be stale. Test making: a class with an
overload, a helper defined twice, bare helpers, answers that replace, add, repeat and move asserts, two attempts;
a file with two tests of one name, a class behind a member in an answer, a whole file that moves an assert. Diffs: up to two files,
same-named classes, hunks at the start, between and behind methods, removed and added lines that look like headers. Memos: three methods, two models, `MaxMemos` 3 for
`MaxShown` 2, two instants. Evaluation: two defects of one method, two intents, two evaluations.

The configurations with `CHECK_DEADLOCK FALSE` are those of the writer, of the ledger, and of the parts (parts, stale_report): an
engine really stops when its limits say so, a report, an analysis or an evaluation is done when it is done. Generation and HumanReview are checked for deadlock.

### Fairness

`WriterGraph!FairSpec` has weak fairness of `Step`: nodes end because gateway and sandbox calls have time-outs, and the person at the
prompt answers; `Abort` has none. `Generation!FairSpec` has weak fairness of `Progress`, the steps by which a command
comes nearer to its end; executions of tests alone, faults and the developer have none. That the engine reaches a verdict
is what `WriterGraph!Terminates` and the hard cap justify. No other property is a liveness property.

### Disagreements found

1. *ledger_parallel*: the soft limit is `attempts % ask_every == 0` after the execution; parallel calls step over the multiple.
2. *generation_escape*: the proposal is put in place at generate.py:203, the try begins at 427 and ends at 443; exceptions before and after
   leave it there, against the comment at 195.
3. *generation_faithful*: the baseline is taken with the waiting proposal in place, so asserts the developer wrote later are not
   compared; the next proposal is accepted without them.
4. *resolve_lost*: a question is deleted without a proposal, which resolve_cmd.py:233 calls losing the person's decision: by `--as` after
   `not_passed` (the other answers avoid that), and by all answers when the generation is not rejected but left no test file (generate.py:482).
5. *resolve_unproved*: the base is stored by name and looked up after further commits; for a file it lacks the gate is left out.
6. *stale_report*: `measure_mutation` ignores exit code and time-out (mutation.py:115) and never removes the old report, so an earlier
   one is judged when PIT measured nothing, against mutation.py:169.

Behaviour met on the way that the models contain and no run accuses, for lack of a promise it breaks or because the
properties are stated around it:

- Heap reports: a file cut in a sub-record header raises struct.error, though the warning promises what could be read.
- Diffs: removed lines of a deleted file count for the file before it, though changes.py:181 expects otherwise; a removed line that starts with `--`, or an
  added one with `++`, is taken for a header: it is not counted, and the removed one shifts what comes after it in its hunk; same-named classes of two packages share a bucket.
- Test making: overloads share the last overload's lines (materials.py:164); an answer with a class declared after members loses the
  members before it (`SplitFragment`); of tests with one name (@Nested, overloads) the assert gate compares the last one only
  (assert_report.py:89), so the asserts of the others may move to another test, though not out of the file. Replacing a helper that is neither annotated nor commented takes the closing brace of the member before
  it along (merge.py:148), where merge.py:83-84 has only the method with its annotations and comments go; `MergeKeepsExisting` and `AssertsKept` speak of files not so `torn`.
- Regression gate: a time-out or a compile error on the old code counts as "fails on it"; a save during the swap is lost (`upset`).
- Containers: one that outlives its client may write its report between a later run and its reading (`overtaken`).
- Graph: overlapping `cta graph` builds leave nodes and edges twice.
- Model calls: a kill inside a cassette write loses the recording, though replay.py:33 and model_cassette.py:88 write it every time so that nothing is lost; parallel lanes may
  lose additions to `total_tokens`.
- Settings: `make_chat_model` treats time-out 0 of cta.toml as not given and raises ValueError on a non-number, where GatewayClient falls back to 300.
- Memos: a file torn by a kill makes every later maintain raise, though maintain_cmd.py:123-124 calls the search dispensable; vectors of two models
  of one length are compared.
- Evaluation: `git clean -fdq` leaves the ignored `.cta/`, so a proposal of a case is what the next case of the method starts from
  (`over`, `waiting`); time-outs and build failures count as detected; an exception in one case ends the evaluation without a record; a bench committed
  dirty becomes the clean state.
- maintain: an exception in one generation ends it before the later questions are saved.
- The cache folder is made before the download (runner.py:69): a download that fails leaves it, and later runs go offline.

## 4. Proofs

All proofs are checked by TLAPS and hold for every value of the constants, so for any number of classes, files, lanes, rounds, kills and
edits, of diffs, dumps and graphs of any size. They rest on the named assumptions of the modules only:

| assumption | says |
|---|---|
| `LimitsAssumption`, `FailuresAssumption` | both limits positive (the code enforces it with a ValueError); failure texts differ from the marks |
| `LanesAssumption`, `LlmCallsAssumption` | finitely many lanes, for the ledger at least one; usages and budgets are natural numbers |
| `GenerationAssumption`, `HumanReviewAssumption` | types of the constants; an engine never writes an empty file of asserts |
| `HeapFileAssumption`, `HeapPathsAssumption` | a file is a sequence of segments of sub-records, their references and fields are sequences, bytes a natural number; the code's three numbers are positive |
| `SettingsAssumption` | the four keys are keys; a number of seconds is not blank and "300" is 300; projects are sequences of places |
| `ChangeImpactAssumption`, `MemosAssumption` | plans are sequences; a similarity is a number up to 100; bounds are natural numbers |
| `MakingAssumption`, `ChangeExtractAssumption` | the members of a class file or an answer, the asserts of a member, the hunks of a diff and the lines of a hunk are sequences |

The theorems about the parts are stated of the part's own specification (`FileSpec`, `PathsSpec`, `HeapSpec`, `CallsSpec`, `SettingsSpec`, `GraphStoreSpec`, `ImpactSpec`,
`ChangesSpec`, `MemosSpec`, `ToolsSpec`, `MakingSpec`, `EvalSpec`), of which the run *parts* is the instance in which the other parts rest.

*WriterGraph_proofs.* `LimitsKept` is not inductive: that `streak` stays below AskEvery depends on how it moves with
`attempts`. The inductive invariant `IInv` adds that between two questions the failures are counted since a multiple of AskEvery was last
passed, so that `streak` never exceeds the remainder of `attempts`, and ties each node to what led there
(status `stopping` and an environment failure only at the way out, a repeated failure only before a question). The step at which both
counters grow needs the arithmetic of remainders in `ModuloLemmas` (`DivisionWithRemainder`, `NextRemainder`). From `IInv` follow `TypeCorrect`, `LimitsAreKept`,
`StopEndsTheWork`, `RepetitionIsAsked`, and `Refinement`: each action is a step of WriterPromise or a stutter.

*RunLedger_proofs.* For any number of lanes: `TypeCorrect`; `HardCap`, by the count of executions plus checked calls, where a call
that passes the check finds attempts below the cap and at most all other lanes checked; `StopIsKept` and `BlockIsKept`. With one lane
(assumption `OneLane`): `LimitsAreKept` and `Refinement`, by an invariant like `IInv` in which `needs_ask` or `blocked` takes the place of the
node. Without `OneLane` they are false, which is the run ledger_parallel.

*Generation_proofs.* Three layers. `Typed` gives each variable and the record of the command its type, and says at which points a
baseline is there; with it `TypeCorrect`. `Traces` says where the tree may differ from the developer's: while a command works, at the file
of its own class, whose original text is in the record, or where a mark says why; `SourcesAreClean` is its idle case.
`Labels` follows the code from the gates into the store: the baseline is the waiting proposal, or else the file (`Basis`); a result
"accepted" goes with gates passed, an execution, and all asserts of the basis that nobody released (`Earned`), for the code on disk, then for the same code
in memory; what is stored and labelled has those facts on record (`Certified`). From it `LabelsAreEarned`, `AcceptedHasRun`, `PendingIsKept`. The three
are not inductive by themselves: they speak of the label, and what earns it happens several steps before. The mapping to DeveloperPromise needs a fourth,
`Saved`: what a command may release, that the file is put back before a proposal is saved, and which of its two files is there in the middle of a save or a
drop. With these each action is a step of DeveloperPromise or a stutter (`StepIsPromised`; `InsideTheRun` for those inside a run, `RunEnds` for its ends,
`DeathIsAFault` for kills and escapes), hence `DeveloperIsPromised`. At `Finish` it takes `Traces` (a run that
ends on a missing file without putting back had a missing file before), at `SaveJava` it takes `Labels`.

*HumanReview_proofs.* `IInv` is `Typed`, `Founded` (a generation has an order of the table or of a person, and that of maintain has the
gate the table asks for; behind the generation of an answer whose test file is there, there is a proposal, `HasProposal`; at the deletion the memo is on file), `Numbered`
(questions have numbers of their own, and a command has the target of its question) and `MaintainReproduces`. From it `RewritesAreOrdered`, `MaintainHasReproduced`, and the action properties `DecisionsStay` and `QuestionsStay`,
by the lemma that only the last step of an answer deletes a question (`OnlyDiscardDeletes`).

*Making_proofs*, of how tests are made and judged. `OnRecord`: cassettes in memory and on disk, and what a lane holds in its hand, are calls really made; so
`ReplayIsFaithful`, for any number of lanes. `MoneyInv`: a sum over lanes is out of reach of a prover without induction, so tokens are counted as the
elements of a set (`Balance`: what is spent and not in the total is in the hands of the lanes; `Within`: the total passes the budget by at most one call of each
lane that is past the check no more); so `BudgetIsKept`. `OneLaneInv` says where one lane is in the sequence of its calls: while they are made, how they got to the
file, how the recording ended, and where a replay stands in the same sequence; so `RecordingIsKept` and `ReplayIsTheRun`.
`SettingsInv`: the environment holds only what the places outside the projects gave it (`EnvFromPlaces`), so filling it again gives what the first filling gave; so `EachProjectItsOwn`.
`Held`: what the regression gate keeps in memory is what the developer last saved, and every other file is
as saved, unless `upset`; so `SourcesComeBack`, through the lemma that putting back restores (`RestoredIsWanted`). `Read`: between a run and its
reading the report is that run's, unless a late container came between; so `CoverageIsOfThisRun`. `MergeInv` describes a merge half done: after some turns of
`ReplaceMember` each name of the file is at its old place, and its member the old one if the answer does not have that name (`Placed`), each member taken from the
answer is in the draft (`Accounted`), no name twice (`Distinct`); the end of it is `MergeIsFaithful`. what is taken is measured against the answer as it
came by `FragmentOfOutput`. `MakingInv`, that the gates compare with the file of the start, gives `AssertsStay`: test by test by the comparison of names, in the
whole file by counting where an assert stands (`StillStands`: as often as before or more often outside of what was released, so at least once).
`CaseInv` ties bench and row to the step of the case, `RowsInv` to all rows so far; the reset re-establishes it after any kill; so `RowsAreRight`.

*Heap_proofs*, of the heap reports. `FileInv`: the table has a row for each complete object among the sub-records seen, in their order; that the rows are as many as the objects and in
their order, so that the last object is the last row which the code takes back, is an argument on the rank of the last one; so `EveryObjectOnce`.
`PathsInv`: a vertex come to has a distance to the goal, the search is through with all of one distance before it begins the next, and what it
is through with has no neighbour unseen; a shorter path would have a first vertex that was come to (`NoWayPast`, by the well-foundedness of the
natural numbers); so `PathsAreRight`, for any finite graph.
`HeapInv` follows a dump all the way, so the same holds of the whole report: `ObjectsAllTheWay`, `ReportedPathsAreRight`. Its core is `TreeInv`, the
invariant of compute_dominators, one conjunct for each phase. `SearchOk`: the stack is a path of the tree, what was found after a vertex of
it is below that vertex, and the vertices that left the stack have no reference unfollowed; so `EveryReachedOnce`, and, when the search ends, `DepthFirst`:
a reference to a vertex found later goes down the tree. `LinkOk`: semidominators of the vertices done (`SemisOk`), the forest (`PathsOk`: a
vertex's best has the least semidominator of the path that its link skips, whatever was compressed, and in the middle of a compression:
`TrailOk`), who waits in which bucket (`WaitsOk`), and what a vertex settled has got (`SettledOk`: its dominator, or one with the same).
`FinishOk`, `Dominated`, `RetainOk` are the second pass and the sums. The algorithm's own theorems come first, about any tree and without the program's
variables: a vertex is "above" another if every set that goes up from there holds it, and "dominates" by sets as well (`StaysIn`), so that no
path and no induction over one is needed, only least and greatest elements. From it `DominatorsAreRight` and `FreedIsRetained`; a sum of
sizes is the number of elements of a set, as in `BudgetIsKept`. Before the proof TLC went through 285 thousand states of
graphs of six arrays with a first form of `TreeInv` as the invariant and found none that breaks it. `FoundIsReached` was checked once by hand on the heap
instance of *parts* (626861 states) and is no property of the run.

*Maintain_proofs*, of the commands' data. `GraphInv`: a builder that met no other has between its statements exactly what it stored; so `GraphStaysWhole` and,
the analysis only reading, `AnalysisKeepsGraph`. `ImpactInv`: every status in the cache was true of its tests in a version seen by this analysis; so `StatusIsOfThisRun`.
`DerivedInv`: each call edge was read once in some version, and the callers still to be analysed are new; so `CallersAreDerivedOnce`.
`MemosInv`: names of files are in the order of saving, within one instant too; each sort of the search is by a strict order, and the place of a memo in what is
shown is the number of those before it (its rank); so `DecisionsComeBack`. `ExtractInv`: when a line is read, all printed before it and none
after it were; counter and file belong to it because nothing is printed between it and the line before, and the counter is the line's place plus the removed lines like headers
that were read in its hunk (`PlaceIsKnown`); so `EachLineCountsOnce`.

Only model-checked: liveness (`Terminates`, of WriterGraph and of Generation), which is out of the prover's reach. Every other property of a
passing run is stated by a theorem. A violation is TLC's alone: there is nothing to prove.

## 5. Not modelled, and why

Wording: prompts, skills, briefings, reports, masking of secrets, argument parsing, rendering, and the drawing and demonstration scripts
keep no state, and nothing is promised of them that a finite model could break. The regular expressions that find Java
methods, and git, Maven, JaCoCo, PIT, Neo4j and the gateway, are outside: their results are inputs or external definitions. Two commands at once on one
project: the code has no lock and no promise; overlapping graph builds are the exception and are modelled. The recording and replaying
embedding clients are used by no command. locate.py picks a project by a typed number (0 picks the last one): no state. Answers with
members after the class of a fragment do not compile and are left out. A local run is taken to end when its client does; of the containers that
go on, one at a time is modelled.

## 6. Plan

Generation composed with ToolRuns, in place of the free verdicts, for a refinement of `RunGates`; a second cta process beside the first.
