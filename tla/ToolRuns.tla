------------------------------ MODULE ToolRuns ------------------------------
(***************************************************************************)
(* Maven run in a sandbox (sandbox/, adapters/java/runner.py, coverage.py, *)
(* mutation.py, regression.py, gates.py): the dependency cache and its     *)
(* preparation, and the gates that judge a test by running it.  Reports    *)
(* are files under target/ that outlive the run that wrote them, and the   *)
(* regression gate swaps main sources for a while.  A time-out or a kill   *)
(* ends the docker client, not the container, which goes on with the       *)
(* project mounted.  Maven, JaCoCo and PIT themselves are external.        *)
(*                                                                         *)
(* A test is a record: cover (line -> [ci, mb, cb], what JaCoCo says of it *)
(* alone), mutants (set of [id, method, status], what PIT says), green (it *)
(* passes), and reproduces (it fails on the sources before the fix).       *)
(***************************************************************************)
EXTENDS Integers, Sequences, FiniteSets, FiniteSetsExt

CONSTANTS
    TestVersions, \* tests the writer may leave, and other test classes
    TargetLines,  \* lines of the methods under test
    Methods,      \* methods under test
    LineMin, BranchMin, MutationMin,  \* percentages of cta.toml, [gates]
    OldSources,   \* what changes may have: main file -> its content before the
                  \* change, or NoContent
    NoContent,
    RoundMax      \* bound: rounds of gates

ASSUME ToolRunsAssumption ==
    /\ \A n \in {LineMin, BranchMin, MutationMin} : n \in 0..100
    /\ RoundMax \in Nat

VARIABLES
    device,   \* "local" or "docker"
    plugins,  \* the pom has a plugins section
    m2,       \* docker: [folder, has], the cache directory and what it holds
    old,      \* _old_by_file: main file -> content before the change
    main,     \* main file -> content on disk
    wanted,   \* history: main file -> what the developer last saved
    kept,     \* contents the regression gate holds in memory
    test,     \* the test on disk
    exec,     \* jacoco.exec: covers of the runs recorded in it
    jacoco,   \* target/site/jacoco/jacoco.xml, <<>> if there is none
    pit,      \* target/pit-reports/mutations.xml, <<>> if there is none
    late,     \* <<cover>> of the last run whose container outlived it, or <<>>
    tpc,      \* where the command is
    verdicts, \* gate -> verdict of this round: "pass", "fail"
    pitRan,   \* history: the last run of PIT wrote its report
    overtaken, \* history: a late report came between this run's and its reading
    rounds,
    upset     \* history: a kill, or an edit while sources were swapped

toolVars == <<device, plugins, m2, old, main, wanted, kept, test, exec, jacoco, pit, late,
              tpc, verdicts, pitRan, overtaken, rounds, upset>>

NoVerdicts == [g \in {"regression", "coverage", "mutation"} |-> "none"]

ToolsInit ==
    /\ device \in {"local", "docker"} /\ plugins \in BOOLEAN
    /\ m2 = [folder |-> FALSE, has |-> {}]
    /\ old \in OldSources
    /\ main = [f \in DOMAIN old |-> "new"] /\ wanted = main /\ kept = <<>>
    /\ test \in TestVersions
    /\ exec = {} /\ jacoco = <<>> /\ pit = <<>> /\ late = <<>>
    /\ tpc = "start" /\ verdicts = NoVerdicts /\ pitRan = FALSE /\ overtaken = FALSE
    /\ rounds = 0 /\ upset = FALSE

ToolsOff ==
    /\ device = "off" /\ plugins = FALSE /\ m2 = [folder |-> FALSE, has |-> {}]
    /\ old = <<>> /\ main = <<>> /\ wanted = <<>> /\ kept = <<>> /\ test = <<>>
    /\ exec = {} /\ jacoco = <<>> /\ pit = <<>> /\ late = <<>>
    /\ tpc = "off" /\ verdicts = NoVerdicts /\ pitRan = FALSE /\ overtaken = FALSE
    /\ rounds = 0 /\ upset = FALSE

-----------------------------------------------------------------------------
(* Preparation (runner.prepare, ensure_prepared)                            *)

\* write_overlay_pom: PIT's plugin goes before the end of the plugins section.
OverlayPom == plugins

\* Whether a run can find what it needs: the local device fetches it, docker
\* runs offline on what the cache holds.
Has(part) == device = "local" \/ part \in m2.has

\* The cache is taken for prepared if its directory is there.
EnsurePrepared ==
    /\ tpc = "start"
    /\ IF device = "local" \/ m2.folder
       THEN tpc' = "ready" /\ UNCHANGED m2
       ELSE tpc' = "offline" /\ m2' = [m2 EXCEPT !.folder = TRUE]
    /\ UNCHANGED <<device, plugins, old, main, wanted, kept, test, exec, jacoco, pit, verdicts,
                   pitRan, rounds, upset, late, overtaken>>

\* dependency:go-offline, with the network; what it got stays if it fails.
GoOffline ==
    /\ tpc = "offline"
    /\ \/ tpc' = "warm" /\ m2' = [m2 EXCEPT !.has = @ \cup {"deps"}]
       \/ tpc' = "stopped" /\ UNCHANGED m2
    /\ UNCHANGED <<device, plugins, old, main, wanted, kept, test, exec, jacoco, pit, verdicts,
                   pitRan, rounds, upset, late, overtaken>>

\* A test run with JaCoCo to fill the cache, then PIT's plugin, whose failure is
\* ignored; without a plugins section there is no overlay pom to fetch it by.
WarmUp ==
    /\ tpc = "warm"
    /\ \/ /\ tpc' = "ready"
          /\ \E got \in IF OverlayPom THEN {{}, {"pit"}} ELSE {{}} :
               m2' = [m2 EXCEPT !.has = @ \cup {"jacoco"} \cup got]
          /\ exec' = exec \cup {test.cover} /\ jacoco' = <<exec'>>
       \/ tpc' = "stopped" /\ UNCHANGED <<m2, exec, jacoco>>
    /\ UNCHANGED <<device, plugins, old, main, wanted, kept, test, pit, verdicts, pitRan, rounds,
                   upset, late, overtaken>>

-----------------------------------------------------------------------------
(* Measuring                                                                *)

\* Mutant: JaCoCo's default, what was recorded before stays.
Appended(cover) == exec \cup {cover}

\* -Djacoco.append=false
Recorded(cover) == {cover}

\* What goes on if the docker client is gone: the client is killed, not the
\* container.
GoesOn == IF device = "docker" /\ Has("jacoco") THEN {<<test.cover>>} ELSE {}

\* A report sums what the exec file holds: a line ran if some run ran it.
LineOf(report, n) ==
    LET of == {c[n] : c \in {x \in report : n \in DOMAIN x}}
    IN  [ci |-> Max({c.ci : c \in of}), cb |-> Max({c.cb : c \in of}),
         mb |-> Min({c.mb : c \in of})]

LinesOf(report) == UNION {DOMAIN c : c \in report}

\* parse_covered_methods, parse_source_lines and the judgement of CoverageGate.
Covers(report) ==
    LET relevant == LinesOf(report) \cap TargetLines
        covered == {n \in relevant : LineOf(report, n).ci > 0}
        taken == MapThenSumSet(LAMBDA n : LineOf(report, n).cb, relevant)
        branches == taken + MapThenSumSet(LAMBDA n : LineOf(report, n).mb, relevant)
    IN  /\ relevant # {}
        /\ 100 * Cardinality(covered) >= LineMin * Cardinality(relevant)
        /\ branches > 0 => 100 * taken >= BranchMin * branches

\* parse_mutations and the judgement of MutationGate: mutants in the methods
\* under test only.
Detects(report) ==
    LET total == {m \in report : Methods = {} \/ m.method \in Methods}
        killed == {m \in total : m.status = "KILLED"}
    IN  /\ killed # {}
        /\ 100 * Cardinality(killed) >= MutationMin * Cardinality(total)

\* --fast leaves the measuring gates out.
Measured == {"coverage", "judged"}

ToVerdict(ok) == IF ok THEN "pass" ELSE "fail"

\* Test classes measured for the code graph, or a run of the developer's: the
\* reports in target/ are no longer those of the test.
OtherRun ==
    /\ tpc = "ready" /\ Has("jacoco")
    /\ \E t \in TestVersions :
         /\ exec' = Recorded(t.cover) /\ jacoco' = <<exec'>>
    /\ UNCHANGED <<device, plugins, m2, old, main, wanted, kept, test, pit, tpc, verdicts, pitRan,
                   rounds, upset, late, overtaken>>

\* PIT writes its report if the test passes; if it fails, finds no plugin or
\* times out the last report stays.  measure_mutation reads what is there.
PitReports ==
    IF OverlayPom /\ Has("pit") /\ test.green THEN {pit, <<test.mutants>>} ELSE {pit}

\* --measure-before: the test there was is measured as it stands.
MeasureBefore ==
    /\ tpc = "ready" /\ OverlayPom
    /\ pit' \in PitReports
    /\ UNCHANGED <<device, plugins, m2, old, main, wanted, kept, test, exec, jacoco, tpc, verdicts,
                   pitRan, rounds, upset, late, overtaken>>

\* The writer leaves a test and the gates are started; the first one judges tests
\* of bug fixes only.
WriterDone ==
    /\ tpc \in {"ready", "rejected"} /\ rounds < RoundMax
    /\ test' \in TestVersions
    /\ tpc' \in {"regression"} \cup Measured /\ verdicts' = NoVerdicts /\ rounds' = rounds + 1
    /\ overtaken' = FALSE
    /\ UNCHANGED <<device, plugins, m2, old, main, wanted, kept, exec, jacoco, pit, pitRan, upset,
                   late>>

-----------------------------------------------------------------------------
(* The regression gate (regression.py)                                      *)

Swappable == {f \in DOMAIN old : old[f] # NoContent}

\* Nothing to swap is a verdict; else file by file the content is kept and the
\* old one written.
Swap ==
    /\ tpc = "regression"
    /\ IF Swappable = {}
       THEN /\ verdicts' = [verdicts EXCEPT !["regression"] = "fail"]
            /\ tpc' \in Measured /\ UNCHANGED <<main, kept>>
       ELSE IF DOMAIN kept = Swappable
       THEN tpc' = "swapped" /\ UNCHANGED <<main, kept, verdicts>>
       ELSE \E f \in Swappable \ DOMAIN kept :
              /\ kept' = [g \in DOMAIN kept \cup {f} |-> IF g = f THEN main[f] ELSE kept[g]]
              /\ main' = [main EXCEPT ![f] = old[f]]
              /\ UNCHANGED <<tpc, verdicts>>
    /\ UNCHANGED <<device, plugins, m2, old, wanted, test, exec, jacoco, pit, pitRan, rounds,
                   upset, late, overtaken>>

\* Mutant: without the finally, an exception leaves the old sources.
RestoredIfOver(m) == IF tpc' = "crashed" THEN m
                     ELSE [f \in DOMAIN m |-> IF f \in DOMAIN kept THEN kept[f] ELSE m[f]]

Restored(m) == [f \in DOMAIN m |-> IF f \in DOMAIN kept THEN kept[f] ELSE m[f]]

\* One run on the device: Maven's exit code, the code of a time-out, or an
\* exception because there is no mvn or docker on the path.
SandboxRun(fails) == {IF fails THEN "fail" ELSE "pass", "timeout", "raise"}

\* The run; the kept contents are put back however it ends.
RunOnOld ==
    /\ tpc = "swapped"
    /\ \E outcome \in SandboxRun(test.reproduces \/ ~Has("deps")) :
         /\ tpc' \in IF outcome = "raise" THEN {"crashed"} ELSE Measured
         /\ verdicts' = IF outcome = "raise" THEN verdicts
                        ELSE [verdicts EXCEPT !["regression"] = ToVerdict(outcome # "pass")]
    /\ main' = Restored(main) /\ kept' = <<>>
    /\ UNCHANGED <<device, plugins, m2, old, wanted, test, exec, jacoco, pit, pitRan, rounds,
                   upset, late, overtaken>>

\* A source file is gone: reading it raises, and the files swapped so far are
\* put back.
SwapRaises ==
    /\ tpc = "regression" /\ Swappable # {}
    /\ tpc' = "crashed"
    /\ main' = Restored(main) /\ kept' = <<>>
    /\ UNCHANGED <<device, plugins, m2, old, wanted, test, exec, jacoco, pit, verdicts, pitRan,
                   rounds, upset, late, overtaken>>

-----------------------------------------------------------------------------
(* The coverage and the mutation gate; all gates run, whatever one says     *)

\* The run, whose failing tests are ignored.  If it fails or times out the gate
\* fails whatever report is there; after a time-out docker's container goes on.
CoverageGate ==
    /\ tpc = "coverage"
    /\ \/ /\ Has("jacoco") /\ tpc' = "reading"
          /\ exec' = Recorded(test.cover) /\ jacoco' = <<exec'>>
          /\ UNCHANGED <<verdicts, late>>
       \/ /\ verdicts' = [verdicts EXCEPT !["coverage"] = "fail"] /\ tpc' = "mutation"
          /\ late' \in {late} \cup GoesOn
          /\ UNCHANGED <<exec, jacoco>>
    /\ UNCHANGED <<device, plugins, m2, old, main, wanted, kept, test, pit, pitRan, rounds, upset,
                   overtaken>>

\* The report there is by now is judged.
ReadCoverage ==
    /\ tpc = "reading" /\ tpc' = "mutation"
    /\ verdicts' = [verdicts EXCEPT !["coverage"] = ToVerdict(Covers(jacoco[1]))]
    /\ UNCHANGED <<device, plugins, m2, old, main, wanted, kept, test, exec, jacoco, pit, pitRan,
                   rounds, upset, late, overtaken>>

\* A container that outlived its run ends and leaves its report.
LateReport ==
    /\ late # <<>> /\ late' = <<>>
    /\ exec' = Recorded(late[1]) /\ jacoco' = <<exec'>>
    /\ overtaken' = (overtaken \/ tpc = "reading")
    /\ UNCHANGED <<device, plugins, m2, old, main, wanted, kept, test, pit, tpc, verdicts, pitRan,
                   rounds, upset>>

\* Without an overlay pom nothing runs; else the report there is counts.
MutationGate ==
    /\ tpc = "mutation"
    /\ \E report \in PitReports :
         /\ pit' = report
         /\ pitRan' = (OverlayPom /\ Has("pit") /\ test.green /\ report = <<test.mutants>>)
         /\ verdicts' = [verdicts EXCEPT !["mutation"] =
                           ToVerdict(OverlayPom /\ report # <<>> /\ Detects(report[1]))]
    /\ tpc' = "judged"
    /\ UNCHANGED <<device, plugins, m2, old, main, wanted, kept, test, exec, jacoco, rounds, upset,
                   late, overtaken>>

\* run_gates: accepted if every gate passes, else the writer tries again.
Judge ==
    /\ tpc = "judged"
    /\ tpc' = IF \A g \in DOMAIN verdicts : verdicts[g] # "fail" THEN "accepted" ELSE "rejected"
    /\ UNCHANGED <<device, plugins, m2, old, main, wanted, kept, test, exec, jacoco, pit, verdicts,
                   pitRan, rounds, upset, late, overtaken>>

-----------------------------------------------------------------------------
\* The process is killed: what it held in memory is gone.
KillTool ==
    /\ tpc \in {"offline", "warm", "regression", "swapped", "coverage", "reading", "mutation"}
    /\ tpc' = "stopped" /\ kept' = <<>>
    /\ upset' = (upset \/ kept # <<>>)
    /\ late' \in {late} \cup (IF tpc = "coverage" THEN GoesOn ELSE {})
    /\ UNCHANGED <<device, plugins, m2, old, main, wanted, test, exec, jacoco, pit, verdicts,
                   pitRan, rounds, overtaken>>

\* cta is started again.
StartAgain ==
    /\ tpc \in {"stopped", "crashed", "accepted", "rejected"} /\ rounds < RoundMax
    /\ tpc' = "start" /\ verdicts' = NoVerdicts
    /\ UNCHANGED <<device, plugins, m2, old, main, wanted, kept, test, exec, jacoco, pit, pitRan,
                   rounds, upset, late, overtaken>>

\* The developer saves a main file.
SaveMain ==
    /\ \E f \in DOMAIN main :
         /\ wanted[f] # "edited"
         /\ main' = [main EXCEPT ![f] = "edited"] /\ wanted' = [wanted EXCEPT ![f] = "edited"]
         /\ upset' = (upset \/ f \in DOMAIN kept)
    /\ UNCHANGED <<device, plugins, m2, old, kept, test, exec, jacoco, pit, tpc, verdicts, pitRan,
                   rounds, late, overtaken>>

ToolsNext ==
    \/ EnsurePrepared \/ GoOffline \/ WarmUp \/ OtherRun \/ MeasureBefore \/ WriterDone
    \/ Swap \/ SwapRaises \/ RunOnOld \/ CoverageGate \/ ReadCoverage \/ MutationGate \/ Judge
    \/ LateReport \/ KillTool \/ StartAgain \/ SaveMain

ToolsSpec == ToolsInit /\ [][ToolsNext]_toolVars

-----------------------------------------------------------------------------
\* A coverage verdict is about the test on disk run alone: no run before it, no
\* report left in target/ and no container that goes on makes it pass, unless
\* that container reports between this run and the reading of its report.
CoverageIsThisRun ==
    verdicts["coverage"] = "pass" /\ ~overtaken => Covers({test.cover})

\* With no kill and no save during the swap, main sources are what the developer
\* last saved whenever no gate holds them, however the gate ended.
OnlyKillsLeaveOldCode ==
    ~upset => \A f \in DOMAIN main : f \notin DOMAIN kept => main[f] = wanted[f]

\* mutation.py:169: no measurement is no ground for passing.
MeasuredIsThisRun ==
    verdicts["mutation"] = "pass" => pitRan
=============================================================================
