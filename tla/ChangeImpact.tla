---------------------------- MODULE ChangeImpact ----------------------------
(***************************************************************************)
(* The analysis of changes (core/pipeline/maintain.py, analyze_changes)    *)
(* over the code graph: for each changed method its callers, the tests     *)
(* that verify it and their result, the decision, and with --impact the    *)
(* derived cases of its callers.  Meanwhile the graph may be built again   *)
(* and the sources may change.                                             *)
(***************************************************************************)
EXTENDS CodeGraph

CONSTANTS
    Plans,     \* change sets: sequences of [target, intent, memo]
    ImpactMax  \* impact_max, derived cases of one change

ASSUME ChangeImpactAssumption ==
    /\ ImpactMax \in Nat
    /\ \A p \in Plans : p \in Seq(ToSet(p)) /\ \A i \in DOMAIN p : p[i].target # <<>>

VARIABLES
    apc,      \* where the analysis is
    finder,   \* "graph", "parsing"
    static,   \* edges parsed for the first question to the fallback
    plan,     \* the changes
    cur,      \* the change being analysed
    callers,  \* its callers
    queue,    \* those of its callers still to be analysed
    cache,    \* run_cache: selector -> status
    results,  \* analyses: [target, tests, status, derived, creates]
    seenCode  \* history: versions of the sources since the analysis began

impactVars == <<apc, finder, static, plan, cur, callers, queue, cache, results, seenCode>>
impactAll == <<graphStoreVars, impactVars>>

ImpactInit ==
    /\ GraphStoreInit
    /\ apc = "idle" /\ finder = "graph" /\ static = <<>> /\ plan \in Plans /\ cur = 1
    /\ callers = {} /\ queue = {} /\ cache = <<>> /\ results = <<>> /\ seenCode = {}

ImpactOff ==
    /\ GraphStoreOff
    /\ apc = "off" /\ finder = "graph" /\ static = <<>> /\ plan = <<>> /\ cur = 1
    /\ callers = {} /\ queue = {} /\ cache = <<>> /\ results = <<>> /\ seenCode = {}

\* try_open_store: the database if it answers a question, else the sources.
Finders == {"graph", "parsing"}

Begin ==
    /\ apc = "idle"
    /\ finder' \in Finders
    /\ apc' = "change" /\ seenCode' = {version}
    /\ UNCHANGED <<graphStoreVars, static, plan, cur, callers, queue, cache, results>>

\* The callers, unless the change is trivial.  The fallback parses once, at its
\* first question.
FindCallers ==
    /\ apc = "change" /\ cur <= Len(plan)
    /\ IF plan[cur].intent = "trivial"
       THEN callers' = {} /\ UNCHANGED static
       ELSE /\ static' = IF finder = "parsing" /\ static = <<>>
                         THEN <<InMemory(code)>> ELSE static
            /\ callers' = CallersOf(IF finder = "graph" THEN dbEdges ELSE static'[1],
                                    plan[cur].target)
    /\ apc' = "tests"
    /\ UNCHANGED <<graphStoreVars, finder, plan, cur, queue, cache, results, seenCode>>

\* GraphTestLocator: measured; ReferencingTestLocator: the tests whose text
\* names the class and the method.
TestsFor(target) ==
    IF finder = "graph" THEN {k[1] : k \in NeighborsIn(dbEdges, target, "COVERS")}
    ELSE {t \in code.tests : target \in code.mentions[t]}

TestsPass(v, tests) == tests \cap v.failing = {}

\* Mutant: results are kept by the first test class of the selector.
FirstTest(tests) == {CHOOSE t \in tests : \A u \in tests : t <= u}

Selector(tests) == tests

\* decide: a bug fix is tested whatever its tests say.
Creates(intent) == intent \in {"bug_fix", "new_feature"}

\* run_tests_for and decide, for the change or a derived case: tests are run
\* once for a selector.
Report(target, derived) ==
    \E tests \in {TestsFor(target)} :
      LET intent == plan[cur].intent
          none == tests = {} \/ intent = "trivial"
          ran == IF Selector(tests) \in DOMAIN cache THEN cache[Selector(tests)]
                 ELSE IF TestsPass(code, tests) THEN "pass" ELSE "fail"
      IN  /\ cache' = IF none THEN cache
                      ELSE [s \in DOMAIN cache \cup {Selector(tests)} |->
                              IF s = Selector(tests) THEN ran ELSE cache[s]]
          /\ results' = Append(results,
               [target |-> target, tests |-> tests, status |-> IF none THEN "none" ELSE ran,
                derived |-> derived, creates |-> Creates(intent)])

ChangedTargets == {plan[i].target : i \in DOMAIN plan}

\* Mutant: a caller is derived by each change it calls.
PickedAgain == {c \in callers : c.confidence = "high" /\ c.target \notin ChangedTargets}

\* Sure callers that are neither changed nor derived already.
Picked ==
    {c \in callers :
       /\ c.confidence = "high" /\ c.target \notin ChangedTargets
       /\ \A i \in DOMAIN results : results[i].derived = <<>> \/ results[i].target # c.target}

CutOff(cases) == {c \in cases : Cardinality({d \in cases : Sooner(d, c)}) < ImpactMax}

\* After a change that gets a test come its derived cases.
AnalyseChange ==
    /\ apc = "tests"
    /\ Report(plan[cur].target, <<>>)
    /\ queue' = IF Creates(plan[cur].intent) THEN CutOff(Picked) ELSE {}
    /\ apc' = "derived"
    /\ UNCHANGED <<graphStoreVars, finder, static, plan, cur, callers, seenCode>>

AnalyseDerived ==
    /\ apc = "derived"
    /\ \E c \in queue :
         /\ \A d \in queue \ {c} : Sooner(c, d)
         /\ Report(c.target, plan[cur].target)
         /\ queue' = queue \ {c}
    /\ UNCHANGED <<graphStoreVars, apc, finder, static, plan, cur, callers, seenCode>>

NextChange ==
    /\ apc = "derived" /\ queue = {}
    /\ cur' = cur + 1
    /\ apc' = IF cur = Len(plan) THEN "done" ELSE "change"
    /\ UNCHANGED <<graphStoreVars, finder, static, plan, callers, queue, cache, results, seenCode>>

ImpactStep == Begin \/ FindCallers \/ AnalyseChange \/ AnalyseDerived \/ NextChange

ImpactNext ==
    \/ ImpactStep
    \/ /\ GraphStoreNext
       /\ seenCode' = IF apc \in {"idle", "off"} THEN {} ELSE seenCode \cup {version'}
       /\ UNCHANGED <<apc, finder, static, plan, cur, callers, queue, cache, results>>

ImpactSpec == ImpactInit /\ [][ImpactNext]_impactAll

-----------------------------------------------------------------------------
\* A status the decision rests on is that of exactly these tests, run on the
\* sources of this analysis, and changes verified by the same tests agree.
StatusOfThisRun ==
    \A i \in DOMAIN results :
        LET r == results[i] IN
        r.status # "none" =>
            /\ \E v \in seenCode : r.status = IF TestsPass(Codes[v], r.tests) THEN "pass" ELSE "fail"
            /\ \A j \in DOMAIN results :
                 results[j].tests = r.tests /\ results[j].status # "none" =>
                     results[j].status = r.status

\* No caller gets two derived cases, nor one beside its own change, as long as
\* no edge is stored twice; each is surely a caller in sources that were read.
DerivedOnce ==
    \A i \in DOMAIN results :
        LET r == results[i] IN
        r.derived # <<>> =>
            /\ r.creates
            /\ \E v \in DOMAIN Codes : \E e \in Calls(Codes[v]) :
                 e.src = r.target /\ e.dst = r.derived /\ e.confidence = "high"
            /\ \A j \in DOMAIN results \ {i} :
                 results[j].target = r.target => \E b \in Builders : ~lone[b]
=============================================================================
