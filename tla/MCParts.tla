------------------------------- MODULE MCParts -------------------------------
(***************************************************************************)
(* The parts around the engines on small instances.  They share no state:  *)
(* a behaviour is one of one part, the others resting, so that TLC sees    *)
(* the sum of their state spaces and never the product.                    *)
(***************************************************************************)
EXTENDS MCHeapFiles, LlmCalls, Settings, ChangeImpact, ToolRuns, MCTests,
        ChangeExtract, Memos, Evaluation, TLC

-----------------------------------------------------------------------------
(* Model calls: two lanes of different prompts, an answer that goes on and  *)
(* one that ends, no budget or one that the first answer exhausts.          *)

CONSTANTS l1, l2

MCKind(l) == IF l = l1 THEN "agent" ELSE "subagent"
MCReplies == {[text |-> "more", usage |-> 2], [text |-> "final", usage |-> 1]}
MCBudgets == {2, NoBudget}

-----------------------------------------------------------------------------
(* Settings: values that are missing, blank, good and bad, in every place.  *)

MCKeys == {"model", "timeout", "effort", "url"}
MCSeconds == "0" :> 0 @@ "30" :> 30 @@ "60" :> 60 @@ "300" :> 300
MCEnv == [model : {Absent, "", "gpt-5"}, timeout : {Absent, "30", "soon"},
          effort : {Absent, "none"}, url : {Absent, "u"}]
MCDotenv == {[model |-> Absent, timeout |-> "60", effort |-> Absent, url |-> "u"],
             [model |-> "gpt-4o", timeout |-> Absent, effort |-> "high", url |-> ""]}
MCSources == [env : MCEnv, cwd : MCDotenv, home : MCDotenv]
MCTomls == [model : {Absent, "o3"}, timeout : {Absent, "0", "30"},
            effort : {Absent, "low", "wild"}, retry : {0, 4}]
MCProjects ==
    {<<[toml |-> t, engine |-> e, override |-> o], [toml |-> u, engine |-> f, override |-> Absent]>> :
       t \in {x \in MCTomls : x.timeout = "30" /\ x.effort = "low"}, u \in {x \in MCTomls : x.retry = 4},
       e \in {"legacy"}, f \in {"legacy", "deep"}, o \in {Absent, "gpt-4o"}}

-----------------------------------------------------------------------------
(* The code graph: two classes that call each other by field, by class, by  *)
(* this, by plain name and by a variable of unknown type, before and after  *)
(* an edit that drops a method; two tests, one failing after it.            *)

CONSTANTS b1, b2

MCSymmetry == Permutations({b1, b2})

M(c, m) == <<c, m>>
CallAt(caller, receiver, name) == [at |-> caller, receiver |-> receiver, name |-> name]

Code1 ==
    [classes  |-> {1, 2},
     statics  |-> "Two" :> 2,
     methods  |-> {M(1, 1), M(1, 2), M(2, 1), M(2, 3)},
     declared |-> <<1, "two">> :> 2 @@ <<2, "list">> :> 7,
     calls    |-> {CallAt(M(1, 2), "", 1), CallAt(M(1, 2), "two", 3), CallAt(M(2, 3), "list", 1),
                   CallAt(M(1, 1), "Two", 3), CallAt(M(2, 1), "x", 2), CallAt(M(2, 1), "this", 3),
                   CallAt(M(1, 1), "", 1)},
     creates  |-> {[at |-> M(1, 1), class |-> 2], [at |-> M(1, 2), class |-> 5]},
     tests    |-> {8, 9},
     covers   |-> 8 :> {M(1, 1), M(2, 3)} @@ 9 :> {M(2, 3)},
     mentions |-> 8 :> {M(1, 1)} @@ 9 :> {M(1, 1), M(2, 3)},
     failing  |-> {}]

Code2 ==
    [Code1 EXCEPT
       !.methods = @ \ {M(2, 1)},
       !.calls = {CallAt(M(1, 2), "", 1), CallAt(M(1, 2), "y", 3), CallAt(M(1, 2), "two", 3)},
       !.covers = 8 :> {M(1, 1), M(1, 2)} @@ 9 :> {M(2, 3), M(2, 2)},
       !.failing = {9}]

MCCodes == <<Code1, Code2>>

MCPlans ==
    {<<[target |-> M(1, 1), intent |-> "bug_fix"], [target |-> M(2, 3), intent |-> "bug_fix"]>>,
     <<[target |-> M(2, 3), intent |-> "trivial"]>>}

-----------------------------------------------------------------------------
(* Tool runs: a test that covers and kills enough, one that does neither,   *)
(* one that covers other lines; two files to swap and one that was new, or  *)
(* that one alone.                                                          *)

Jacoco(ci, cb, mb) == [ci |-> ci, cb |-> cb, mb |-> mb]
Mutation(id, method, status) == [id |-> id, method |-> method, status |-> status]

MCTestVersions ==
    {[cover |-> 1 :> Jacoco(1, 2, 0) @@ 2 :> Jacoco(1, 0, 0),
      mutants |-> {Mutation(1, "m", "KILLED"), Mutation(2, "n", "SURVIVED")},
      green |-> TRUE, reproduces |-> TRUE],
     [cover |-> 1 :> Jacoco(1, 1, 1) @@ 2 :> Jacoco(0, 0, 0),
      mutants |-> {Mutation(1, "m", "SURVIVED")}, green |-> FALSE, reproduces |-> FALSE],
     [cover |-> 3 :> Jacoco(1, 0, 0) @@ 2 :> Jacoco(1, 0, 0),
      mutants |-> {}, green |-> TRUE, reproduces |-> FALSE]}

MCOldSources == {[a |-> "old", b |-> "old", c |-> NoContent], [c |-> NoContent]}
MCMethods == {"m"}

-----------------------------------------------------------------------------
(* Diffs: one or two files of one class name in two packages, changes of    *)
(* code, comments and access, on lines of one, two and no method, a file    *)
(* that is deleted, lines that look like the header of a file.              *)

Changed(is, access) == [code |-> is, access |-> access, header |-> FALSE]
Span(name, from, to) == [name |-> name, first |-> from, last |-> to]
Hunk(line, removed, added) == [at |-> line, removed |-> removed, added |-> added]
FileDiff(path, class, deleted, spans, hunks) ==
    [path |-> path, class |-> class, deleted |-> deleted, spans |-> spans, hunks |-> hunks]

CodeLine == Changed(TRUE, "")
Comment == Changed(FALSE, "")
HeaderLike == [CodeLine EXCEPT !.header = TRUE]

FilesA ==
    {FileDiff("a/A", "A", FALSE, <<Span("m", 2, 4), Span("n", 4, 6)>>, hunks) :
       hunks \in {<<Hunk(2, <<Changed(TRUE, "public")>>,
                            <<Changed(TRUE, "private"), CodeLine, CodeLine>>)>>,
                  <<Hunk(3, <<Comment, CodeLine>>, <<>>),
                    Hunk(4, <<CodeLine>>, <<Comment, Comment, Comment>>)>>,
                  <<Hunk(1, <<>>, <<Comment>>), Hunk(6, <<>>, <<CodeLine, CodeLine>>)>>,
                  <<Hunk(4, <<CodeLine, HeaderLike, Comment>>, <<CodeLine, HeaderLike, CodeLine>>)>>}}

FilesB ==
    {FileDiff("b/A", "A", FALSE, <<Span("m", 1, 2)>>,
              <<Hunk(2, <<CodeLine>>, <<CodeLine, CodeLine>>)>>),
     FileDiff("b/B", "B", TRUE, <<>>, <<Hunk(0, <<CodeLine>>, <<>>)>>),
     FileDiff("b/B", "B", FALSE, <<Span("m", 2, 3)>>,
              <<Hunk(1, <<CodeLine, CodeLine>>, <<Comment>>)>>)}

MCDiffs == {<<f>> : f \in FilesA \cup FilesB}
           \cup {<<f, g>> : f \in FilesA, g \in FilesB}
           \cup {<<g, f>> : f \in FilesA, g \in FilesB}

MCAnswers == {[json |-> FALSE, category |-> "", percent |-> 0],
              [json |-> TRUE, category |-> "bug_fix", percent |-> 120],
              [json |-> TRUE, category |-> "other", percent |-> 50]}

MCHistories == [override : {"", "said"}, base : {"HEAD", "HEAD~1"}, log : {"fails", "log"}]

-----------------------------------------------------------------------------
(* Memos: two methods of one class and one of another, whose situation is   *)
(* like that of the first; two embedding models of vectors of one length,   *)
(* between which the cosine has no meaning and is high.                     *)

Of(c, m) == [class |-> c, method |-> m]
MCTargets == {Of(1, 1), Of(1, 2), Of(2, 1)}
MCAlike(a, b) == IF a.model # b.model THEN 90
                 ELSE IF a.of[2].method = b.of[2].method THEN 60 ELSE 20
MCModels == {[name |-> "small", size |-> 2], [name |-> "ada", size |-> 2]}
MCNoModel == [name |-> "none", size |-> 0]

-----------------------------------------------------------------------------
(* Evaluations: two defects of one method; a change the example holds and   *)
(* one it lost.                                                             *)

MCDefects == <<[target |-> "clamp"], [target |-> "clamp"]>>
MCIntents == <<[expected |-> "bug_fix", demo |-> "after"],
               [expected |-> "unclear", demo |-> "neither"]>>

-----------------------------------------------------------------------------
PartsInit ==
    \/ /\ HeapInit /\ CallsOff /\ SettingsOff /\ ImpactOff /\ ToolsOff
       /\ MakingOff /\ ChangesOff /\ MemosOff /\ EvalOff
    \/ /\ HeapOff /\ CallsInit /\ SettingsOff /\ ImpactOff /\ ToolsOff
       /\ MakingOff /\ ChangesOff /\ MemosOff /\ EvalOff
    \/ /\ HeapOff /\ CallsOff /\ SettingsInit /\ ImpactOff /\ ToolsOff
       /\ MakingOff /\ ChangesOff /\ MemosOff /\ EvalOff
    \/ /\ HeapOff /\ CallsOff /\ SettingsOff /\ ImpactInit /\ ToolsOff
       /\ MakingOff /\ ChangesOff /\ MemosOff /\ EvalOff
    \/ /\ HeapOff /\ CallsOff /\ SettingsOff /\ ImpactOff /\ ToolsInit
       /\ MakingOff /\ ChangesOff /\ MemosOff /\ EvalOff
    \/ /\ HeapOff /\ CallsOff /\ SettingsOff /\ ImpactOff /\ ToolsOff
       /\ MakingInit /\ ChangesOff /\ MemosOff /\ EvalOff
    \/ /\ HeapOff /\ CallsOff /\ SettingsOff /\ ImpactOff /\ ToolsOff
       /\ MakingOff /\ ChangesInit /\ MemosOff /\ EvalOff
    \/ /\ HeapOff /\ CallsOff /\ SettingsOff /\ ImpactOff /\ ToolsOff
       /\ MakingOff /\ ChangesOff /\ MemosInit /\ EvalOff
    \/ /\ HeapOff /\ CallsOff /\ SettingsOff /\ ImpactOff /\ ToolsOff
       /\ MakingOff /\ ChangesOff /\ MemosOff /\ EvalInit

PartsNext ==
    \/ /\ HeapNext
       /\ UNCHANGED <<callVars, settingVars, impactAll, toolVars,
                      makingVars, changeVars, memoVars, evalVars>>
    \/ /\ CallsNext
       /\ UNCHANGED <<heapVars, settingVars, impactAll, toolVars,
                      makingVars, changeVars, memoVars, evalVars>>
    \/ /\ NextProject
       /\ UNCHANGED <<heapVars, callVars, impactAll, toolVars,
                      makingVars, changeVars, memoVars, evalVars>>
    \/ /\ ImpactNext
       /\ UNCHANGED <<heapVars, callVars, settingVars, toolVars,
                      makingVars, changeVars, memoVars, evalVars>>
    \/ /\ ToolsNext
       /\ UNCHANGED <<heapVars, callVars, settingVars, impactAll,
                      makingVars, changeVars, memoVars, evalVars>>
    \/ /\ MakingNext
       /\ UNCHANGED <<heapVars, callVars, settingVars, impactAll,
                      toolVars, changeVars, memoVars, evalVars>>
    \/ /\ ChangesNext
       /\ UNCHANGED <<heapVars, callVars, settingVars, impactAll,
                      toolVars, makingVars, memoVars, evalVars>>
    \/ /\ MemosNext
       /\ UNCHANGED <<heapVars, callVars, settingVars, impactAll,
                      toolVars, makingVars, changeVars, evalVars>>
    \/ /\ EvalNext
       /\ UNCHANGED <<heapVars, callVars, settingVars, impactAll,
                      toolVars, makingVars, changeVars, memoVars>>

partVars == <<heapVars, callVars, settingVars, impactAll, toolVars,
              makingVars, changeVars, memoVars, evalVars>>

PartsSpec == PartsInit /\ [][PartsNext]_partVars
=============================================================================
