-------------------------- MODULE Maintain_proofs --------------------------
(***************************************************************************)
(* Proofs about what cta maintain works on: the stored code graph, the     *)
(* analysis of changes, the memos shown with them and the diff they come   *)
(* from, for any sources, changes, memos, diffs and any number of          *)
(* processes building the graph.                                           *)
(***************************************************************************)
EXTENDS ChangeImpact, Memos, ChangeExtract, SequenceTheorems, FiniteSetTheorems, TLAPS

(***************************************************************************)
(* The stored graph                                                        *)
(***************************************************************************)

GraphTypes ==
    /\ DOMAIN bpc = Builders /\ DOMAIN lone = Builders /\ DOMAIN parsed = Builders

NodeBag(p) == [x \in p.nodes |-> 1]

EdgeBag(p) == [e \in {x \in p.edges : {x.src, x.dst} \subseteq p.nodes} |-> 1]

\* A builder that met nobody is the only one at work.
LoneIsAlone == \A b \in Working : lone[b] => Working = {b}

\* Between its statements the database is what its last statement left.
LoneWrites ==
    \A b \in Builders : lone[b] =>
        /\ bpc[b] = "deleted" => DOMAIN dbNodes = {} /\ DOMAIN dbEdges = {}
        /\ bpc[b] = "created" => dbNodes = NodeBag(parsed[b]) /\ DOMAIN dbEdges = {}

\* What is remembered as stored is stored until the next build deletes it.
StoredIsThere ==
    stored # <<>> =>
        /\ \A b \in Builders : bpc[b] \notin {"deleted", "created"}
        /\ dbNodes = NodeBag(stored) /\ dbEdges = EdgeBag(stored)

GraphInv == GraphTypes /\ LoneIsAlone /\ LoneWrites /\ StoredIsThere

LEMMA InitGraphInv == GraphStoreInit => GraphInv
BY DEF GraphStoreInit, GraphInv, GraphTypes, LoneIsAlone, LoneWrites, StoredIsThere, Working

\* A step that leaves the database alone and only takes a builder out of work or
\* within the states before its first statement.
LEMMA QuietStep ==
    ASSUME GraphInv, UNCHANGED <<dbNodes, dbEdges, lone, stored>>,
           NEW b \in Builders, NEW where \in {"measured", "failed"},
           bpc[b] = "parsed" \/ where = "failed", b \in Working,
           bpc' = [bpc EXCEPT ![b] = where],
           DOMAIN parsed' = Builders, \A c \in Builders \ {b} : parsed'[c] = parsed[c]
    PROVE  GraphInv'
<1>1. GraphTypes'
  BY DEF GraphInv, GraphTypes
<1>2. \A c \in Builders : bpc'[c] = IF c = b THEN where ELSE bpc[c]
  BY DEF GraphInv, GraphTypes
<1>3. Working' \subseteq Working /\ \A c \in Working' : c \in Builders
  BY <1>1, <1>2 DEF Working, GraphTypes, GraphInv
<1>4. LoneIsAlone'
  BY <1>3 DEF LoneIsAlone, GraphInv
<1>5. LoneWrites'
  BY <1>2 DEF LoneWrites, GraphInv, NodeBag
<1>6. StoredIsThere'
  BY <1>2 DEF StoredIsThere, GraphInv, NodeBag, EdgeBag
<1> QED
  BY <1>1, <1>4, <1>5, <1>6 DEF GraphInv

LEMMA NextGraphInv == GraphInv /\ [GraphStoreNext]_graphStoreVars => GraphInv'
<1> SUFFICES ASSUME GraphInv, [GraphStoreNext]_graphStoreVars PROVE GraphInv'
  OBVIOUS
<1>t. GraphTypes /\ LoneIsAlone /\ LoneWrites /\ StoredIsThere
  BY DEF GraphInv
<1>1. ASSUME NEW b \in Builders, Parse(b) PROVE GraphInv'
  <2>1. GraphTypes'
    BY <1>1, <1>t DEF Parse, GraphTypes
  <2>2. \A c \in Builders : /\ bpc'[c] = IF c = b THEN "parsed" ELSE bpc[c]
                            /\ c # b => parsed'[c] = parsed[c] /\ (lone'[c] <=> lone[c] /\ c \notin Working)
                            /\ c = b => (lone'[c] <=> Working = {})
    BY <1>1, <1>t DEF Parse, GraphTypes
  <2>3. Working' = Working \cup {b} /\ Working \subseteq Builders
    BY <2>1, <2>2, <1>t, <1>1 DEF Working, GraphTypes, Parse
  <2>4. LoneIsAlone'
    BY <2>2, <2>3, <1>t DEF LoneIsAlone
  <2>5. \A c \in Builders : bpc[c] \in {"deleted", "created"} => c \in Working
    BY <1>t DEF Working, GraphTypes
  <2>6. LoneWrites'
    BY <2>2, <2>5 DEF LoneWrites, NodeBag
  <2>7. StoredIsThere'
    BY <1>1, <2>2, <1>t DEF StoredIsThere, Parse, NodeBag, EdgeBag
  <2> QED
    BY <2>1, <2>4, <2>6, <2>7 DEF GraphInv
<1>2. ASSUME NEW b \in Builders, Measure(b) PROVE GraphInv'
  <2>1. b \in Working
    BY <1>2, <1>t DEF Measure, Working, GraphTypes
  <2>2. DOMAIN parsed' = Builders /\ \A c \in Builders \ {b} : parsed'[c] = parsed[c]
    BY <1>2, <1>t DEF Measure, GraphTypes
  <2>3. PICK where \in {"measured", "failed"} : bpc' = [bpc EXCEPT ![b] = where]
    BY <1>2 DEF Measure
  <2> QED
    BY <2>1, <2>2, <2>3, <1>2, QuietStep DEF Measure
<1>3. ASSUME NEW b \in Builders, Delete(b) PROVE GraphInv'
  <2>1. GraphTypes'
    BY <1>3, <1>t DEF Delete, GraphTypes
  <2>2. \A c \in Builders : bpc'[c] = IF c = b THEN "deleted" ELSE bpc[c]
    BY <1>3, <1>t DEF Delete, GraphTypes
  <2>3. Working' = Working /\ Working \subseteq Builders /\ b \in Working
    BY <2>1, <2>2, <1>t, <1>3 DEF Working, GraphTypes, Delete
  <2>4. LoneIsAlone'
    BY <1>3, <2>3, <1>t DEF LoneIsAlone, Delete
  <2>5. DOMAIN dbNodes' = {} /\ DOMAIN dbEdges' = {}
    BY <1>3 DEF Delete, NodesLeft, NoBag
  <2>6. \A c \in Builders : lone[c] /\ bpc[c] = "created" => c = b
    BY <2>3, <1>t DEF LoneIsAlone, Working, GraphTypes
  <2>7. LoneWrites'
    BY <1>3, <2>2, <2>5, <2>6 DEF LoneWrites, Delete
  <2>8. StoredIsThere'
    BY <1>3 DEF StoredIsThere, Delete
  <2> QED
    BY <2>1, <2>4, <2>7, <2>8 DEF GraphInv
<1>4. ASSUME NEW b \in Builders, CreateNodes(b) PROVE GraphInv'
  <2>1. GraphTypes'
    BY <1>4, <1>t DEF CreateNodes, GraphTypes
  <2>2. \A c \in Builders : bpc'[c] = IF c = b THEN "created" ELSE bpc[c]
    BY <1>4, <1>t DEF CreateNodes, GraphTypes
  <2>3. Working' = Working /\ Working \subseteq Builders /\ b \in Working
    BY <2>1, <2>2, <1>t, <1>4 DEF Working, GraphTypes, CreateNodes
  <2>4. LoneIsAlone'
    BY <1>4, <2>3, <1>t DEF LoneIsAlone, CreateNodes
  <2>5. \A c \in Builders : lone[c] /\ bpc[c] \in {"created", "deleted"} => c = b
    BY <2>3, <1>t DEF LoneIsAlone, Working, GraphTypes
  <2>6. lone[b] => dbNodes' = NodeBag(parsed[b]) /\ DOMAIN dbEdges' = {}
    BY <1>4, <1>t DEF LoneWrites, CreateNodes, Added, Count, NodeBag
  <2>7. LoneWrites'
    BY <1>4, <2>2, <2>5, <2>6 DEF LoneWrites, CreateNodes, NodeBag
  <2>8. StoredIsThere'
    BY <1>4, <1>t DEF StoredIsThere, CreateNodes
  <2> QED
    BY <2>1, <2>4, <2>7, <2>8 DEF GraphInv
<1>5. ASSUME NEW b \in Builders, CreateEdges(b) PROVE GraphInv'
  <2>1. GraphTypes'
    BY <1>5, <1>t DEF CreateEdges, GraphTypes
  <2>2. \A c \in Builders : bpc'[c] = IF c = b THEN "done" ELSE bpc[c]
    BY <1>5, <1>t DEF CreateEdges, GraphTypes
  <2>3. Working' = Working \ {b} /\ Working \subseteq Builders /\ b \in Working
    BY <2>1, <2>2, <1>t, <1>5 DEF Working, GraphTypes, CreateEdges
  <2>4. LoneIsAlone'
    BY <1>5, <2>3, <1>t DEF LoneIsAlone, CreateEdges
  <2>5. \A c \in Builders : lone[c] /\ bpc[c] \in {"created", "deleted"} => c = b
    BY <2>3, <1>t DEF LoneIsAlone, Working, GraphTypes
  <2>6. LoneWrites'
    BY <1>5, <2>2, <2>5 DEF LoneWrites, CreateEdges
  <2>7. ASSUME lone[b] PROVE StoredIsThere'
    <3>1. dbNodes = NodeBag(parsed[b]) /\ DOMAIN dbEdges = {}
      BY <1>5, <1>t, <2>7 DEF LoneWrites, CreateEdges
    <3>2. DOMAIN dbNodes = parsed[b].nodes /\ \A x \in parsed[b].nodes : dbNodes[x] = 1
      BY <3>1 DEF NodeBag
    <3> DEFINE kept == {x \in parsed[b].edges : {x.src, x.dst} \subseteq parsed[b].nodes}
               fresh == [e \in kept |-> dbNodes[e.src] * dbNodes[e.dst]]
    <3>3. dbEdges' = Added(dbEdges, fresh)
      BY <1>5, <3>2 DEF CreateEdges
    <3>4. \A e \in kept : fresh[e] = 1
      BY <3>2
    <3>5. dbEdges' = [e \in kept |-> 0 + fresh[e]]
      BY <3>1, <3>3 DEF Added, Count
    <3>6. dbEdges' = [e \in kept |-> 1]
      BY <3>4, <3>5
    <3>7. stored' = parsed[b] /\ dbNodes' = dbNodes
      BY <1>5, <2>7 DEF CreateEdges
    <3>8. Working' = {}
      BY <2>3, <2>7, <1>t DEF LoneIsAlone
    <3>9. \A c \in Builders : bpc'[c] \notin {"deleted", "created"}
      BY <2>1, <3>8 DEF Working, GraphTypes
    <3> QED
      BY <3>1, <3>6, <3>7, <3>9 DEF StoredIsThere, NodeBag, EdgeBag
  <2>8. ASSUME ~lone[b] PROVE StoredIsThere'
    BY <1>5, <1>t, <2>8 DEF StoredIsThere, CreateEdges
  <2> QED
    BY <2>1, <2>4, <2>6, <2>7, <2>8 DEF GraphInv
<1>6. ASSUME NEW b \in Builders, KillBuilder(b) PROVE GraphInv'
  BY <1>6, <1>t, QuietStep DEF KillBuilder, GraphTypes
<1>7. CASE Edit \/ UNCHANGED graphStoreVars
  <2>1. UNCHANGED <<dbNodes, dbEdges, bpc, parsed, lone, stored>>
    BY <1>7 DEF Edit, graphStoreVars
  <2>2. GraphTypes' /\ Working' = Working
    BY <2>1, <1>t DEF GraphTypes, Working
  <2>3. LoneIsAlone'
    BY <2>1, <2>2, <1>t DEF LoneIsAlone
  <2>4. LoneWrites' /\ StoredIsThere'
    BY <2>1, <1>t DEF LoneWrites, StoredIsThere, NodeBag, EdgeBag
  <2> QED
    BY <2>2, <2>3, <2>4 DEF GraphInv
<1> QED
  BY <1>1, <1>2, <1>3, <1>4, <1>5, <1>6, <1>7, <1>t DEF GraphStoreNext, GraphTypes

\* The stored graph is whole after a build that met no other, whatever builds
\* overlapped, failed or were killed before (neo4j_store.py, replace_project).
THEOREM GraphStaysWhole == GraphStoreSpec => []GraphIsWhole
<1>1. GraphInv => GraphIsWhole
  BY DEF GraphInv, StoredIsThere, GraphIsWhole, NodeBag, EdgeBag
<1> QED
  BY InitGraphInv, NextGraphInv, <1>1, PTL DEF GraphStoreSpec

(***************************************************************************)
(* The analysis                                                            *)
(***************************************************************************)

StatusIn(v, tests) == IF TestsPass(Codes[v], tests) THEN "pass" ELSE "fail"

\* Nothing is known before the analysis begins; from then on the sources as they
\* are now are among those seen.
SeenNow ==
    /\ apc \in {"idle", "change", "tests", "derived", "done"}
    /\ IF apc = "idle" THEN results = <<>> /\ cache = <<>> ELSE version \in seenCode

\* A status in the cache was true of its tests in some version seen.
CacheIsTrue == \A s \in DOMAIN cache : \E v \in seenCode : cache[s] = StatusIn(v, s)

\* The status of an analysis is still the one in the cache.
ResultsAreCached ==
    /\ \E S : results \in Seq(S)
    /\ \A i \in DOMAIN results :
         results[i].status # "none" =>
             results[i].tests \in DOMAIN cache /\ results[i].status = cache[results[i].tests]

ImpactInv == SeenNow /\ CacheIsTrue /\ ResultsAreCached

\* A report adds one result; the cache keeps what it had, and has the result's
\* status if it has one.
Adds(r, more) ==
    /\ results' = Append(results, r)
    /\ DOMAIN cache' = DOMAIN cache \cup more
    /\ \A s \in DOMAIN cache : cache'[s] = cache[s]
    /\ \A s \in more \ DOMAIN cache : cache'[s] = StatusIn(version, s)
    /\ r.status # "none" => r.tests \in DOMAIN cache' /\ r.status = cache'[r.tests]

IsOf(r, target, derived) ==
    r.target = target /\ r.derived = derived /\ r.creates = Creates(plan[cur].intent)

LEMMA ReportStep ==
    ASSUME NEW target, NEW derived, Report(target, derived)
    PROVE  \E r, more : Adds(r, more) /\ IsOf(r, target, derived)
<1> DEFINE tests == TestsFor(target)
           intent == plan[cur].intent
           none == tests = {} \/ intent = "trivial"
           ran == IF tests \in DOMAIN cache THEN cache[tests] ELSE StatusIn(version, tests)
           r == [target |-> target, tests |-> tests, status |-> IF none THEN "none" ELSE ran,
                 derived |-> derived, creates |-> Creates(intent)]
<1>2. /\ results' = Append(results, r)
      /\ cache' = IF none THEN cache
                  ELSE [s \in DOMAIN cache \cup {tests} |-> IF s = tests THEN ran ELSE cache[s]]
  BY DEF Report, Selector, StatusIn, code
<1>3. /\ r.tests = tests /\ r.status = IF none THEN "none" ELSE ran
      /\ r.target = target /\ r.derived = derived /\ r.creates = Creates(intent)
  OBVIOUS
<1> HIDE DEF r, ran, tests
<1>4. CASE none
  <2>1. Adds(r, {}) /\ IsOf(r, target, derived)
    BY <1>2, <1>3, <1>4 DEF Adds, IsOf
  <2> QED
    BY <2>1
<1>5. CASE ~none
  <2>1. /\ DOMAIN cache' = DOMAIN cache \cup {tests} /\ cache'[tests] = ran
        /\ \A s \in DOMAIN cache : cache'[s] = IF s = tests THEN ran ELSE cache[s]
    BY <1>2, <1>5
  <2>2. ran = IF tests \in DOMAIN cache THEN cache[tests] ELSE StatusIn(version, tests)
    BY DEF ran
  <2>3. Adds(r, {tests}) /\ IsOf(r, target, derived)
    BY <1>2, <1>3, <1>5, <2>1, <2>2 DEF Adds, IsOf
  <2> QED
    BY <2>3
<1> QED
  BY <1>4, <1>5

LEMMA NextImpactInv == ImpactInv /\ [ImpactNext]_impactAll => ImpactInv'
<1> SUFFICES ASSUME ImpactInv, [ImpactNext]_impactAll PROVE ImpactInv'
  OBVIOUS
<1>t. SeenNow /\ CacheIsTrue /\ ResultsAreCached
  BY DEF ImpactInv
<1>1. CASE Begin
  BY <1>1, <1>t DEF Begin, ImpactInv, SeenNow, CacheIsTrue, ResultsAreCached, graphStoreVars
<1>2. CASE FindCallers \/ NextChange
  <2>1. /\ apc' \in {"tests", "change", "done"} /\ apc # "idle"
        /\ UNCHANGED <<version, results, cache, seenCode>>
    BY <1>2 DEF FindCallers, NextChange, graphStoreVars
  <2> QED
    BY <2>1, <1>t DEF ImpactInv, SeenNow, CacheIsTrue, ResultsAreCached, StatusIn
<1>3. CASE AnalyseChange \/ AnalyseDerived
  <2>r. PICK target, derived : Report(target, derived)
    BY <1>3 DEF AnalyseChange, AnalyseDerived
  <2>p. PICK r, more : Adds(r, more)
    BY <2>r, ReportStep
  <2>1. /\ results' = Append(results, r)
        /\ DOMAIN cache' = DOMAIN cache \cup more
        /\ \A s \in DOMAIN cache : cache'[s] = cache[s]
        /\ \A s \in more \ DOMAIN cache : cache'[s] = StatusIn(version, s)
        /\ r.status # "none" => r.tests \in DOMAIN cache' /\ r.status = cache'[r.tests]
    BY <2>p DEF Adds
  <2>2. SeenNow' /\ seenCode' = seenCode /\ version \in seenCode
    BY <1>3, <1>t DEF AnalyseChange, AnalyseDerived, SeenNow, graphStoreVars
  <2>3. CacheIsTrue'
    BY <2>1, <2>2, <1>t DEF CacheIsTrue, StatusIn
  <2>4. PICK S : results \in Seq(S)
    BY <1>t DEF ResultsAreCached
  <2>5. results \in Seq(S \cup {r})
    BY <2>4
  <2>6. results' \in Seq(S \cup {r})
    BY <2>1, <2>5
  <2>7. ASSUME NEW i \in DOMAIN results' PROVE results'[i] = r \/ (i \in DOMAIN results /\ results'[i] = results[i])
    BY <2>1, <2>5
  <2>8. ASSUME NEW i \in DOMAIN results', results'[i].status # "none"
        PROVE  results'[i].tests \in DOMAIN cache' /\ results'[i].status = cache'[results'[i].tests]
    <3>1. CASE results'[i] = r
      BY <2>1, <2>8, <3>1
    <3>2. CASE i \in DOMAIN results /\ results'[i] = results[i]
      BY <2>1, <2>8, <3>2, <1>t DEF ResultsAreCached
    <3> QED
      BY <2>7, <3>1, <3>2
  <2>9. ResultsAreCached'
    BY <2>6, <2>8 DEF ResultsAreCached
  <2> QED
    BY <2>2, <2>3, <2>9 DEF ImpactInv
<1>4. ASSUME seenCode' = IF apc \in {"idle", "off"} THEN {} ELSE seenCode \cup {version'},
             UNCHANGED <<apc, cache, results>>
      PROVE  ImpactInv'
  BY <1>4, <1>t DEF ImpactInv, SeenNow, CacheIsTrue, ResultsAreCached, StatusIn
<1>5. CASE UNCHANGED impactAll
  BY <1>5, <1>t DEF impactAll, impactVars, graphStoreVars, ImpactInv, SeenNow, CacheIsTrue,
                    ResultsAreCached, StatusIn
<1> QED
  BY <1>1, <1>2, <1>3, <1>4, <1>5 DEF ImpactNext, ImpactStep

\* What analyze_changes decides on is the status of exactly the tests of the case,
\* in sources of this analysis; no two analyses of the same tests differ.
THEOREM StatusIsOfThisRun == ImpactSpec => []StatusOfThisRun
<1>1. ImpactInit => ImpactInv
  BY DEF ImpactInit, ImpactInv, SeenNow, CacheIsTrue, ResultsAreCached
<1>2. ImpactInv => StatusOfThisRun
  BY DEF ImpactInv, CacheIsTrue, ResultsAreCached, StatusOfThisRun, StatusIn
<1> QED
  BY <1>1, <1>2, NextImpactInv, PTL DEF ImpactSpec

(***************************************************************************)
(* Derived cases.  Every edge that is asked about was read in some version *)
(* of the sources, and stored once unless two builders met.                *)
(***************************************************************************)
AllCalls == UNION {Calls(Codes[v]) : v \in DOMAIN Codes}
CallsIn(edges) == {e \in edges : e.kind = "CALLS"}

NobodyMet == \A b \in Builders : lone[b]

EdgesAreRead ==
    /\ version \in DOMAIN Codes
    /\ \A b \in Builders : CallsIn(parsed[b].edges) \subseteq AllCalls
    /\ CallsIn(DOMAIN dbEdges) \subseteq AllCalls

StoredOnce ==
    /\ \A b \in Builders : bpc[b] = "idle" => lone[b]
    /\ NobodyMet => /\ \A x \in DOMAIN dbNodes : dbNodes[x] = 1
                    /\ \A e \in DOMAIN dbEdges : dbEdges[e] = 1

StoreInv == GraphInv /\ EdgesAreRead /\ StoredOnce

ParsedOnce ==
    static # <<>> => /\ CallsIn(DOMAIN static[1]) \subseteq AllCalls
                     /\ \A e \in DOMAIN static[1] : static[1][e] = 1

Caller(c, target) ==
    \E e \in AllCalls : e.src = c.target /\ e.dst = target /\ e.confidence = c.confidence

Once(c) == [target |-> c.target, confidence |-> c.confidence, copy |-> 1]

\* Where the analysis is.
PlanInv ==
    /\ plan \in Plans /\ cur \in Nat \ {0} /\ finder \in Finders
    /\ apc \in {"tests", "derived"} => cur \in DOMAIN plan
    /\ apc # "derived" => queue = {}

CallersInv ==
    apc \in {"tests", "derived"} =>
        \A c \in callers : Caller(c, plan[cur].target) /\ (NobodyMet => c = Once(c))

\* What is still to be analysed is new, to the results and among itself.
QueueInv ==
    \A c \in queue :
        /\ c \in callers /\ c.confidence = "high" /\ c.target \notin ChangedTargets
        /\ Creates(plan[cur].intent)
        /\ NobodyMet => \A i \in DOMAIN results :
                          results[i].derived # <<>> => results[i].target # c.target

DerivedFrom(r) ==
    /\ r.creates /\ r.target \notin ChangedTargets
    /\ Caller([target |-> r.target, confidence |-> "high"], r.derived)

ResultsInv ==
    /\ \E S : results \in Seq(S)
    /\ \A i \in DOMAIN results :
         IF results[i].derived = <<>> THEN results[i].target \in ChangedTargets
         ELSE DerivedFrom(results[i])
    /\ NobodyMet => \A i, j \in DOMAIN results :
         /\ i # j /\ results[i].derived # <<>> /\ results[j].derived # <<>>
         => results[i].target # results[j].target

DerivedInv ==
    StoreInv /\ ParsedOnce /\ PlanInv /\ CallersInv /\ QueueInv /\ ResultsInv

LEMMA EdgesOfVersion ==
    ASSUME NEW v \in DOMAIN Codes
    PROVE  /\ CallsIn(StaticEdges(Codes[v])) \subseteq AllCalls
           /\ CallsIn(CoverEdges(Codes[v])) = {}
<1>1. Calls(Codes[v]) \subseteq AllCalls
  BY DEF AllCalls
<1>0. \A kind, src, dst : Edge4(kind, src, dst).kind = kind
  BY DEF Edge4
<1>2. ASSUME NEW e \in StaticEdges(Codes[v]), e.kind = "CALLS" PROVE e \in Calls(Codes[v])
  <2> DEFINE X == {x \in Codes[v].creates : x.class \in Codes[v].classes \cup Codes[v].tests}
         D == {Edge4("DECLARES", <<m[1]>>, m) : m \in Codes[v].methods}
         C == {Edge4("CREATES", x.at, <<x.class>>) : x \in X}
  <2>1. e \in D \/ e \in C \/ e \in Calls(Codes[v])
    BY DEF StaticEdges
  <2>2. e \in D => e.kind = "DECLARES"
    BY <1>0
  <2>3. e \in C => e.kind = "CREATES"
    BY <1>0
  <2> HIDE DEF D, C
  <2> QED
    BY <1>2, <2>1, <2>2, <2>3
<1>3. ASSUME NEW e \in CoverEdges(Codes[v]) PROVE e.kind = "COVERS"
  <2>1. PICK t \in Codes[v].tests : e \in {Edge4("COVERS", <<t>>, m) : m \in Codes[v].covers[t]}
    BY DEF CoverEdges
  <2> QED
    BY <1>0, <2>1
<1> QED
  BY <1>1, <1>2, <1>3 DEF CallsIn

LEMMA InitStoreInv == GraphStoreInit => StoreInv
<1> SUFFICES ASSUME GraphStoreInit PROVE StoreInv
  OBVIOUS
<1>1. GraphInv
  BY InitGraphInv
<1>2. EdgesAreRead
  BY DEF GraphStoreInit, EdgesAreRead, CallsIn, NoBag
<1>3. StoredOnce
  BY DEF GraphStoreInit, StoredOnce, NoBag
<1> QED
  BY <1>1, <1>2, <1>3 DEF StoreInv

\* What is read off the sources stays read; builders that met have met.
LEMMA NextStoreInv ==
    ASSUME StoreInv, [GraphStoreNext]_graphStoreVars
    PROVE  StoreInv' /\ (NobodyMet' => NobodyMet)
<1>g. GraphInv'
  BY NextGraphInv DEF StoreInv
<1>t. GraphTypes /\ LoneWrites /\ EdgesAreRead /\ StoredOnce
  BY DEF StoreInv, GraphInv
<1> SUFFICES EdgesAreRead' /\ StoredOnce' /\ (NobodyMet' => NobodyMet)
  BY <1>g DEF StoreInv
<1>1. ASSUME NEW b \in Builders, Parse(b)
      PROVE  EdgesAreRead' /\ StoredOnce' /\ (NobodyMet' => NobodyMet)
  <2>1. \A c \in Builders : parsed'[c].edges = IF c = b THEN StaticEdges(Codes[version])
                                                ELSE parsed[c].edges
    BY <1>1, <1>t DEF Parse, GraphTypes, code
  <2>2. EdgesAreRead'
    BY <1>1, <2>1, <1>t, EdgesOfVersion DEF EdgesAreRead, Parse
  <2>3. \A c \in Builders : /\ bpc'[c] = IF c = b THEN "parsed" ELSE bpc[c]
                            /\ c # b => (lone'[c] <=> lone[c] /\ c \notin Working)
    BY <1>1, <1>t DEF Parse, GraphTypes
  <2>4. lone[b]
    BY <1>1, <1>t DEF Parse, StoredOnce
  <2>5. NobodyMet' => NobodyMet
    BY <2>3, <2>4 DEF NobodyMet
  <2>6. \A c \in Builders : bpc[c] = "idle" => c \notin Working
    BY DEF Working
  <2>7. StoredOnce'
    BY <1>1, <2>3, <2>5, <2>6, <1>t DEF StoredOnce, Parse
  <2> QED
    BY <2>2, <2>5, <2>7
<1>2. ASSUME NEW b \in Builders, Measure(b)
      PROVE  EdgesAreRead' /\ StoredOnce' /\ (NobodyMet' => NobodyMet)
  <2>1. ASSUME NEW c \in Builders PROVE CallsIn(parsed'[c].edges) \subseteq CallsIn(parsed[c].edges)
    <3>1. CASE UNCHANGED parsed
      BY <3>1
    <3>2. CASE \E covers \in {{}, CoverEdges(code)} :
                 parsed' = [parsed EXCEPT ![b].edges = @ \cup covers]
      <4>1. PICK covers \in {{}, CoverEdges(Codes[version])} :
              parsed' = [parsed EXCEPT ![b].edges = @ \cup covers]
        BY <3>2 DEF code
      <4>2. CallsIn(covers) = {}
        BY <4>1, <1>t, EdgesOfVersion DEF EdgesAreRead, CallsIn
      <4>3. parsed'[c].edges \subseteq parsed[c].edges \cup covers
        <5>1. CASE "edges" \in DOMAIN parsed[b]
          BY <4>1, <5>1, <1>t DEF GraphTypes
        <5> QED
          BY <4>1, <5>1, <1>t DEF GraphTypes
      <4> QED
        BY <4>2, <4>3 DEF CallsIn
    <3> QED
      BY <1>2, <3>1, <3>2 DEF Measure
  <2>2. EdgesAreRead'
    BY <1>2, <2>1, <1>t DEF EdgesAreRead, Measure
  <2>3. \A c \in Builders : bpc'[c] = "idle" => bpc[c] = "idle"
    BY <1>2, <1>t DEF Measure, GraphTypes
  <2>4. UNCHANGED <<lone, dbNodes, dbEdges>>
    BY <1>2 DEF Measure
  <2> QED
    BY <2>2, <2>3, <2>4, <1>t DEF StoredOnce, NobodyMet
<1>3. ASSUME NEW b \in Builders, Delete(b)
      PROVE  EdgesAreRead' /\ StoredOnce' /\ (NobodyMet' => NobodyMet)
  <2>1. DOMAIN dbNodes' = {} /\ DOMAIN dbEdges' = {} /\ UNCHANGED <<version, parsed, lone>>
    BY <1>3 DEF Delete, NodesLeft, NoBag
  <2>2. \A c \in Builders : bpc'[c] = "idle" => bpc[c] = "idle"
    BY <1>3, <1>t DEF Delete, GraphTypes
  <2> QED
    BY <2>1, <2>2, <1>t DEF EdgesAreRead, StoredOnce, NobodyMet, CallsIn
<1>4. ASSUME NEW b \in Builders, CreateNodes(b)
      PROVE  EdgesAreRead' /\ StoredOnce' /\ (NobodyMet' => NobodyMet)
  <2>1. UNCHANGED <<version, parsed, lone, dbEdges>>
    BY <1>4 DEF CreateNodes
  <2>2. \A c \in Builders : bpc'[c] = "idle" => bpc[c] = "idle"
    BY <1>4, <1>t DEF CreateNodes, GraphTypes
  <2>3. NobodyMet => \A x \in DOMAIN dbNodes' : dbNodes'[x] = 1
    BY <1>4, <1>t DEF NobodyMet, LoneWrites, CreateNodes, Added, Count
  <2> QED
    BY <2>1, <2>2, <2>3, <1>t DEF EdgesAreRead, StoredOnce, NobodyMet
<1>5. ASSUME NEW b \in Builders, CreateEdges(b)
      PROVE  EdgesAreRead' /\ StoredOnce' /\ (NobodyMet' => NobodyMet)
  <2>1. UNCHANGED <<version, parsed, lone, dbNodes>>
    BY <1>5 DEF CreateEdges
  <2>2. \A c \in Builders : bpc'[c] = "idle" => bpc[c] = "idle"
    BY <1>5, <1>t DEF CreateEdges, GraphTypes
  <2>3. DOMAIN dbEdges' \subseteq DOMAIN dbEdges \cup parsed[b].edges
    BY <1>5 DEF CreateEdges, Added
  <2>4. EdgesAreRead'
    BY <2>1, <2>3, <1>t DEF EdgesAreRead, CallsIn
  <2>5. ASSUME NobodyMet, NEW e \in DOMAIN dbEdges' PROVE dbEdges'[e] = 1
    <3>1. DOMAIN dbEdges = {} /\ \A x \in DOMAIN dbNodes : dbNodes[x] = 1
      BY <1>5, <1>t, <2>5 DEF NobodyMet, LoneWrites, CreateEdges, StoredOnce
    <3> DEFINE kept == {x \in parsed[b].edges : {x.src, x.dst} \subseteq DOMAIN dbNodes}
               fresh == [x \in kept |-> dbNodes[x.src] * dbNodes[x.dst]]
    <3>2. dbEdges' = Added(dbEdges, fresh)
      BY <1>5 DEF CreateEdges
    <3>3. \A x \in kept : fresh[x] = 1
      BY <3>1
    <3>4. dbEdges' = [x \in kept |-> 0 + fresh[x]]
      BY <3>1, <3>2 DEF Added, Count
    <3> QED
      BY <3>3, <3>4
  <2> QED
    BY <2>1, <2>2, <2>4, <2>5, <1>t DEF StoredOnce, NobodyMet
<1>6. ASSUME NEW b \in Builders, KillBuilder(b)
      PROVE  EdgesAreRead' /\ StoredOnce' /\ (NobodyMet' => NobodyMet)
  BY <1>6, <1>t DEF KillBuilder, GraphTypes, EdgesAreRead, StoredOnce, NobodyMet
<1>7. CASE Edit \/ UNCHANGED graphStoreVars
  <2>1. version' \in DOMAIN Codes /\ UNCHANGED <<dbNodes, dbEdges, bpc, parsed, lone>>
    BY <1>7, <1>t DEF Edit, graphStoreVars, EdgesAreRead
  <2> QED
    BY <2>1, <1>t DEF EdgesAreRead, StoredOnce, NobodyMet
<1> QED
  BY <1>1, <1>2, <1>3, <1>4, <1>5, <1>6, <1>7, <1>t DEF GraphStoreNext, GraphTypes

LEMMA CallersAreRead ==
    ASSUME NEW edges, CallsIn(DOMAIN edges) \subseteq AllCalls, NEW target,
           NEW c \in CallersOf(edges, target)
    PROVE  /\ Caller(c, target)
           /\ (\A e \in DOMAIN edges : edges[e] = 1) => c = Once(c)
<1>0. PICK e \in DOMAIN edges :
        /\ e.kind = "CALLS" /\ e.dst = target
        /\ c \in {[target |-> e.src, confidence |-> e.confidence, copy |-> n] : n \in 1 .. edges[e]}
  BY DEF CallersOf
<1>1. PICK n \in 1 .. edges[e] :
        c = [target |-> e.src, confidence |-> e.confidence, copy |-> n]
  BY <1>0
<1>2. e \in AllCalls
  BY <1>0 DEF CallsIn
<1>3. c.target = e.src /\ c.confidence = e.confidence
  BY <1>1
<1>4. edges[e] = 1 => n = 1
  BY <1>1
<1> QED
  BY <1>0, <1>1, <1>2, <1>3, <1>4 DEF Caller, Once

\* One more result, for the change itself or for one of its callers.
LEMMA ReportedResults ==
    ASSUME PlanInv, QueueInv, ResultsInv, apc \in {"tests", "derived"},
           NEW r, results' = Append(results, r), UNCHANGED <<plan, cur, lone>>,
           r.derived = <<>> => r.target \in ChangedTargets,
           r.derived # <<>> =>
             /\ DerivedFrom(r)
             /\ NobodyMet => \A i \in DOMAIN results :
                               results[i].derived # <<>> => results[i].target # r.target
    PROVE  ResultsInv' /\ DOMAIN results \subseteq DOMAIN results'
           /\ \A i \in DOMAIN results' : results'[i] = r \/ (i \in DOMAIN results /\ results'[i] = results[i])
<1>1. PICK S : results \in Seq(S)
  BY DEF ResultsInv
<1>2. results \in Seq(S \cup {r})
  BY <1>1
<1>3. results' \in Seq(S \cup {r})
  BY <1>2
<1> DEFINE n == Len(results) + 1
<1>4. /\ DOMAIN results' = DOMAIN results \cup {n} /\ n \notin DOMAIN results
      /\ results'[n] = r /\ \A i \in DOMAIN results : results'[i] = results[i]
  BY <1>2
<1> HIDE DEF n
<1>5. ASSUME NEW i \in DOMAIN results'
      PROVE  IF results'[i].derived = <<>> THEN results'[i].target \in ChangedTargets
             ELSE DerivedFrom(results'[i])
  <2>1. CASE i = n
    BY <1>4, <2>1
  <2>2. CASE i \in DOMAIN results
    BY <1>4, <2>2 DEF ResultsInv
  <2> QED
    BY <1>4, <2>1, <2>2
<1>6. ASSUME NobodyMet, NEW i \in DOMAIN results', NEW j \in DOMAIN results', i # j,
             results'[i].derived # <<>>, results'[j].derived # <<>>
      PROVE  results'[i].target # results'[j].target
  BY <1>4, <1>6 DEF ResultsInv
<1>7. /\ ChangedTargets' = ChangedTargets /\ NobodyMet' = NobodyMet
      /\ \A x : DerivedFrom(x)' <=> DerivedFrom(x)
  BY DEF ChangedTargets, NobodyMet, DerivedFrom
<1>8. ResultsInv'
  BY <1>3, <1>5, <1>6, <1>7 DEF ResultsInv
<1> QED
  BY <1>4, <1>8

LEMMA InitDerivedInv == ImpactInit => DerivedInv
<1> SUFFICES ASSUME ImpactInit PROVE DerivedInv
  OBVIOUS
<1>1. StoreInv
  BY InitStoreInv DEF ImpactInit
<1>2. ParsedOnce /\ PlanInv /\ CallersInv /\ QueueInv
  BY DEF ImpactInit, ParsedOnce, PlanInv, Finders, CallersInv, QueueInv
<1>3. ResultsInv
  BY DEF ImpactInit, ResultsInv
<1> QED
  BY <1>1, <1>2, <1>3 DEF DerivedInv

\* The store changes beside the analysis: what was asked stays what it was.
LEMMA StoreSteps ==
    ASSUME DerivedInv, [GraphStoreNext]_graphStoreVars,
           UNCHANGED <<apc, finder, static, plan, cur, callers, queue, cache, results>>
    PROVE  DerivedInv'
<1>1. StoreInv' /\ (NobodyMet' => NobodyMet)
  BY NextStoreInv DEF DerivedInv
<1>2. ParsedOnce' /\ PlanInv'
  BY DEF DerivedInv, ParsedOnce, PlanInv
<1>3. CallersInv'
  BY <1>1 DEF DerivedInv, CallersInv
<1>4. QueueInv'
  BY <1>1 DEF DerivedInv, QueueInv, ChangedTargets
<1>5. ResultsInv'
  BY <1>1 DEF DerivedInv, ResultsInv, DerivedFrom, ChangedTargets
<1> QED
  BY <1>1, <1>2, <1>3, <1>4, <1>5 DEF DerivedInv

LEMMA NextDerivedInv == DerivedInv /\ [ImpactNext]_impactAll => DerivedInv'
<1> SUFFICES ASSUME DerivedInv, [ImpactNext]_impactAll PROVE DerivedInv'
  OBVIOUS
<1>t. StoreInv /\ ParsedOnce /\ PlanInv /\ CallersInv /\ QueueInv /\ ResultsInv
  BY DEF DerivedInv
<1>p. ASSUME NEW i \in Nat \ {0}, i <= Len(plan)
      PROVE  i \in DOMAIN plan /\ plan[i].target \in ChangedTargets /\ plan[i].target # <<>>
  BY <1>p, <1>t, ChangeImpactAssumption DEF PlanInv, ChangedTargets
<1>s. ASSUME UNCHANGED graphStoreVars PROVE StoreInv' /\ NobodyMet' = NobodyMet
  <2>1. StoreInv'
    BY <1>s, <1>t, NextStoreInv
  <2> QED
    BY <1>s, <2>1 DEF graphStoreVars, NobodyMet
<1>1. CASE Begin
  <2>1. /\ UNCHANGED <<graphStoreVars, static, plan, cur, callers, queue, cache, results>>
        /\ apc' = "change" /\ apc = "idle"
    BY <1>1 DEF Begin
  <2>2. queue = {}
    BY <2>1, <1>t DEF PlanInv
  <2>3. ParsedOnce' /\ PlanInv' /\ CallersInv' /\ QueueInv'
    BY <1>1, <2>1, <2>2, <1>t DEF Begin, ParsedOnce, PlanInv, CallersInv, QueueInv
  <2>4. ResultsInv'
    BY <2>1, <1>s, <1>t DEF ResultsInv, DerivedFrom, ChangedTargets
  <2> QED
    BY <2>1, <2>3, <2>4, <1>s DEF DerivedInv
<1>2. CASE FindCallers
  <2>1. /\ UNCHANGED <<graphStoreVars, finder, plan, cur, queue, cache, results>>
        /\ apc' = "tests" /\ apc = "change" /\ cur <= Len(plan)
    BY <1>2 DEF FindCallers
  <2>2. queue = {} /\ cur \in DOMAIN plan
    BY <2>1, <1>p, <1>t DEF PlanInv
  <2>3. PlanInv' /\ QueueInv'
    BY <2>1, <2>2, <1>t DEF PlanInv, QueueInv
  <2>4. ResultsInv'
    BY <2>1, <1>s, <1>t DEF ResultsInv, DerivedFrom, ChangedTargets
  <2>5. ParsedOnce'
    <3>1. CASE UNCHANGED static
      BY <3>1, <1>t DEF ParsedOnce
    <3>2. CASE static' = <<InMemory(Codes[version])>>
      <4> DEFINE f == InMemory(Codes[version])
      <4>1. DOMAIN f \subseteq StaticEdges(Codes[version]) /\ \A e \in DOMAIN f : f[e] = 1
        BY DEF InMemory
      <4>2. CallsIn(DOMAIN f) \subseteq AllCalls
        BY <4>1, <1>t, EdgesOfVersion DEF StoreInv, EdgesAreRead, CallsIn
      <4> QED
        BY <3>2, <4>1, <4>2 DEF ParsedOnce
    <3> QED
      BY <1>2, <3>1, <3>2 DEF FindCallers, code
  <2>6. CallersInv'
    <3>1. CASE callers' = {}
      BY <3>1 DEF CallersInv
    <3>2. CASE finder = "graph" /\ callers' = CallersOf(dbEdges, plan[cur].target)
      <4>1. /\ CallsIn(DOMAIN dbEdges) \subseteq AllCalls
            /\ NobodyMet => \A e \in DOMAIN dbEdges : dbEdges[e] = 1
        BY <1>t DEF StoreInv, EdgesAreRead, StoredOnce
      <4>2. \A c \in callers' : Caller(c, plan[cur].target) /\ (NobodyMet => c = Once(c))
        BY <3>2, <4>1, CallersAreRead
      <4> QED
        BY <2>1, <4>2, <1>s DEF CallersInv
    <3>3. ASSUME finder # "graph", static' # <<>>,
                 callers' = CallersOf(static'[1], plan[cur].target)
          PROVE  CallersInv'
      <4> PICK f : f = static'[1]
        OBVIOUS
      <4>1. CallsIn(DOMAIN f) \subseteq AllCalls /\ \A e \in DOMAIN f : f[e] = 1
        BY <2>5, <3>3 DEF ParsedOnce
      <4>2. \A c \in callers' : Caller(c, plan[cur].target) /\ c = Once(c)
        BY <3>3, <4>1, CallersAreRead
      <4> QED
        BY <2>1, <4>2 DEF CallersInv
    <3>4. CASE plan[cur].intent = "trivial"
      BY <1>2, <3>1, <3>4 DEF FindCallers
    <3>5. CASE plan[cur].intent # "trivial"
      <4>1. /\ callers' = CallersOf(IF finder = "graph" THEN dbEdges ELSE static'[1], plan[cur].target)
            /\ static' = IF finder = "parsing" /\ static = <<>> THEN <<InMemory(code)>> ELSE static
        BY <1>2, <3>5 DEF FindCallers
      <4>2. CASE finder = "graph"
        BY <3>2, <4>1, <4>2
      <4>3. CASE finder # "graph"
        <5>1. finder = "parsing"
          BY <4>3, <1>t DEF PlanInv, Finders
        <5>2. static' # <<>>
          BY <4>1, <5>1
        <5> QED
          BY <3>3, <4>1, <4>3, <5>2
      <4> QED
        BY <4>2, <4>3
    <3> QED
      BY <3>4, <3>5
  <2> QED
    BY <2>1, <2>3, <2>4, <2>5, <2>6, <1>s DEF DerivedInv
<1>3. CASE AnalyseChange
  <2>1. /\ UNCHANGED <<graphStoreVars, finder, static, plan, cur, callers>>
        /\ apc' = "derived" /\ apc = "tests"
        /\ Report(plan[cur].target, <<>>)
        /\ queue' = IF Creates(plan[cur].intent) THEN CutOff(Picked) ELSE {}
    BY <1>3 DEF AnalyseChange
  <2>2. PICK r, more : Adds(r, more) /\ IsOf(r, plan[cur].target, <<>>)
    BY <2>1, ReportStep
  <2>3. results' = Append(results, r) /\ r.target = plan[cur].target /\ r.derived = <<>>
    BY <2>2 DEF Adds, IsOf
  <2>4. plan[cur].target \in ChangedTargets /\ cur \in DOMAIN plan
    BY <2>1, <1>t DEF PlanInv, ChangedTargets
  <2>5. UNCHANGED <<plan, cur, lone>>
    BY <2>1 DEF graphStoreVars
  <2>6. /\ ResultsInv'
        /\ \A i \in DOMAIN results' : results'[i] = r \/ (i \in DOMAIN results /\ results'[i] = results[i])
    BY <2>1, <2>3, <2>4, <2>5, <1>t, ReportedResults
  <2>7. \A c \in queue' :
          /\ c \in callers /\ c.confidence = "high" /\ c.target \notin ChangedTargets
          /\ Creates(plan[cur].intent)
          /\ \A i \in DOMAIN results : results[i].derived # <<>> => results[i].target # c.target
    BY <2>1 DEF CutOff, Picked
  <2>8. QueueInv'
    BY <2>1, <2>3, <2>6, <2>7 DEF QueueInv, ChangedTargets
  <2>9. ParsedOnce' /\ PlanInv' /\ CallersInv'
    BY <2>1, <2>4, <1>s, <1>t DEF ParsedOnce, PlanInv, CallersInv
  <2> QED
    BY <2>1, <2>6, <2>8, <2>9, <1>s DEF DerivedInv
<1>4. CASE AnalyseDerived
  <2>1. PICK c \in queue :
          /\ Report(c.target, plan[cur].target)
          /\ queue' = queue \ {c}
    BY <1>4 DEF AnalyseDerived
  <2>2. /\ UNCHANGED <<graphStoreVars, apc, finder, static, plan, cur, callers>>
        /\ apc = "derived" /\ UNCHANGED <<plan, cur, lone>>
    BY <1>4 DEF AnalyseDerived, graphStoreVars
  <2>3. PICK r, more : Adds(r, more) /\ IsOf(r, c.target, plan[cur].target)
    BY <2>1, ReportStep
  <2>4. /\ results' = Append(results, r) /\ r.target = c.target
        /\ r.derived = plan[cur].target /\ r.creates = Creates(plan[cur].intent)
    BY <2>3 DEF Adds, IsOf
  <2>5. plan[cur].target # <<>>
    BY <2>2, <1>p, <1>t, ChangeImpactAssumption DEF PlanInv
  <2>6. /\ c \in callers /\ c.confidence = "high" /\ c.target \notin ChangedTargets
        /\ Creates(plan[cur].intent) /\ Caller(c, plan[cur].target)
    BY <2>1, <2>2, <1>t DEF QueueInv, CallersInv
  <2>7. DerivedFrom(r)
    BY <2>4, <2>6 DEF DerivedFrom, Caller
  <2>8. NobodyMet => \A i \in DOMAIN results : results[i].derived # <<>> => results[i].target # r.target
    BY <2>1, <2>4, <1>t DEF QueueInv
  <2>9. /\ ResultsInv'
        /\ \A i \in DOMAIN results' : results'[i] = r \/ (i \in DOMAIN results /\ results'[i] = results[i])
    BY <2>2, <2>4, <2>5, <2>7, <2>8, <1>t, ReportedResults
  <2>10. ASSUME NobodyMet, NEW d \in queue' PROVE d.target # c.target
    <3>1. c = Once(c) /\ d = Once(d) /\ d.confidence = c.confidence
      BY <2>1, <2>2, <2>10, <1>t DEF CallersInv, QueueInv
    <3>2. d.target = c.target => Once(d) = Once(c)
      BY <3>1 DEF Once
    <3> QED
      BY <2>1, <3>1, <3>2
  <2>11. QueueInv'
    BY <2>1, <2>2, <2>4, <2>9, <2>10, <1>s, <1>t DEF QueueInv, ChangedTargets
  <2>12. ParsedOnce' /\ PlanInv' /\ CallersInv'
    BY <2>2, <1>s, <1>t DEF ParsedOnce, PlanInv, CallersInv
  <2> QED
    BY <2>2, <2>9, <2>11, <2>12, <1>s DEF DerivedInv
<1>5. CASE NextChange
  <2>1. /\ UNCHANGED <<graphStoreVars, finder, static, plan, callers, queue, cache, results>>
        /\ apc' \in {"done", "change"} /\ queue = {} /\ cur' = cur + 1
    BY <1>5 DEF NextChange
  <2>2. ParsedOnce' /\ PlanInv' /\ CallersInv' /\ QueueInv'
    BY <2>1, <1>t DEF ParsedOnce, PlanInv, CallersInv, QueueInv
  <2>3. ResultsInv'
    BY <2>1, <1>s, <1>t DEF ResultsInv, DerivedFrom, ChangedTargets
  <2> QED
    BY <2>1, <2>2, <2>3, <1>s DEF DerivedInv
<1>6. CASE GraphStoreNext /\ UNCHANGED <<apc, finder, static, plan, cur, callers, queue, cache, results>>
  BY <1>6, StoreSteps
<1>7. CASE UNCHANGED impactAll
  BY <1>7, StoreSteps DEF impactAll, impactVars
<1> QED
  BY <1>1, <1>2, <1>3, <1>4, <1>5, <1>6, <1>7 DEF ImpactNext, ImpactStep

\* analyze_changes with --impact: each derived case is that of a sure caller,
\* after a change that gets a test, and no caller is derived twice or beside its
\* own change, however many changes call it, unless two builds of the graph met.
THEOREM CallersAreDerivedOnce == ImpactSpec => []DerivedOnce
<1>1. DerivedInv => DerivedOnce
  <2> SUFFICES ASSUME DerivedInv, NEW i \in DOMAIN results, results[i].derived # <<>>
               PROVE  /\ results[i].creates
                      /\ \E v \in DOMAIN Codes : \E e \in Calls(Codes[v]) :
                           /\ e.src = results[i].target /\ e.dst = results[i].derived
                           /\ e.confidence = "high"
                      /\ \A j \in DOMAIN results \ {i} :
                           results[j].target = results[i].target => \E b \in Builders : ~lone[b]
    BY DEF DerivedOnce
  <2>1. DerivedFrom(results[i])
    BY DEF DerivedInv, ResultsInv
  <2>2. PICK e \in AllCalls : /\ e.src = results[i].target /\ e.dst = results[i].derived
                              /\ e.confidence = "high"
    BY <2>1 DEF DerivedFrom, Caller
  <2>3. ASSUME NEW j \in DOMAIN results \ {i}, results[j].target = results[i].target
        PROVE  ~NobodyMet
    BY <2>1, <2>3 DEF DerivedInv, ResultsInv, DerivedFrom
  <2> QED
    BY <2>1, <2>2, <2>3 DEF DerivedFrom, AllCalls, NobodyMet
<1> QED
  BY <1>1, InitDerivedInv, NextDerivedInv, PTL DEF ImpactSpec

\* The analysis only reads the graph: builds and analysis together keep it whole.
THEOREM AnalysisKeepsGraph == ImpactSpec => []GraphIsWhole
<1>1. ImpactInit => GraphStoreInit
  BY DEF ImpactInit
<1>2. [ImpactNext]_impactAll => [GraphStoreNext]_graphStoreVars
  BY DEF ImpactNext, ImpactStep, impactAll, Begin, FindCallers, AnalyseChange,
     AnalyseDerived, NextChange
<1>3. GraphInv => GraphIsWhole
  BY DEF GraphInv, StoredIsThere, GraphIsWhole, NodeBag, EdgeBag
<1> QED
  BY <1>1, <1>2, <1>3, InitGraphInv, NextGraphInv, PTL DEF ImpactSpec

-----------------------------------------------------------------------------
(***************************************************************************)
(* A finite set in a strict total order R: the number of elements before   *)
(* an element is its rank, and each rank below the size is taken.          *)
(***************************************************************************)
StrictOrder(S, R) ==
    /\ \A a \in S : <<a, a>> \notin R
    /\ \A a, b \in S : a # b => <<a, b>> \in R \/ <<b, a>> \in R
    /\ \A a, b, c \in S : <<a, b>> \in R /\ <<b, c>> \in R => <<a, c>> \in R

Below(S, R, a) == {b \in S : <<b, a>> \in R}

LEMMA RanksGrow ==
    ASSUME NEW S, IsFiniteSet(S), NEW R, StrictOrder(S, R)
    PROVE  /\ \A a \in S : Cardinality(Below(S, R, a)) \in 0 .. (Cardinality(S) - 1)
           /\ \A a, b \in S : <<a, b>> \in R =>
                 Cardinality(Below(S, R, a)) < Cardinality(Below(S, R, b))
<1>1. ASSUME NEW T \in SUBSET S, NEW U \in SUBSET T, NEW a \in T, a \notin U
      PROVE  Cardinality(U) \in Nat /\ Cardinality(T) \in Nat /\ Cardinality(U) < Cardinality(T)
  <2>1. IsFiniteSet(T) /\ IsFiniteSet(U)
    BY FS_Subset
  <2>2. Cardinality(U) <= Cardinality(T) /\ Cardinality(U) # Cardinality(T)
    BY <1>1, <2>1, FS_Subset
  <2> QED
    BY <2>1, <2>2, FS_CardinalityType
<1>2. ASSUME NEW a \in S PROVE Cardinality(Below(S, R, a)) \in 0 .. (Cardinality(S) - 1)
  <2>1. Below(S, R, a) \in SUBSET S /\ a \notin Below(S, R, a)
    BY DEF Below, StrictOrder
  <2>2. Cardinality(Below(S, R, a)) \in Nat /\ Cardinality(S) \in Nat
        /\ Cardinality(Below(S, R, a)) < Cardinality(S)
    BY <1>1, <2>1
  <2> QED
    BY <2>2
<1>3. ASSUME NEW a \in S, NEW b \in S, <<a, b>> \in R
      PROVE  Cardinality(Below(S, R, a)) < Cardinality(Below(S, R, b))
  <2>1. /\ Below(S, R, b) \in SUBSET S /\ Below(S, R, a) \in SUBSET Below(S, R, b)
        /\ a \in Below(S, R, b) /\ a \notin Below(S, R, a)
    BY <1>3 DEF Below, StrictOrder
  <2> QED
    BY <1>1, <2>1
<1> QED
  BY <1>2, <1>3

LEMMA RanksAreTaken ==
    ASSUME NEW S, IsFiniteSet(S), NEW R, StrictOrder(S, R),
           NEW k \in 0 .. (Cardinality(S) - 1)
    PROVE  \E a \in S : Cardinality(Below(S, R, a)) = k
<1> SUFFICES ASSUME \A a \in S : Cardinality(Below(S, R, a)) # k PROVE FALSE
  OBVIOUS
<1> DEFINE n == Cardinality(S)
           T == (0 .. (n - 1)) \ {k}
           f == [a \in S |-> Cardinality(Below(S, R, a))]
<1>1. n \in Nat
  BY FS_CardinalityType
<1>2. IsFiniteSet(T) /\ Cardinality(T) < n
  <2> DEFINE I == 0 .. (n - 1)
  <2>1. IsFiniteSet(I) /\ Cardinality(I) = n
    <3>1. n - 1 \in Int /\ 0 \in Int /\ n - 1 >= 0
      BY <1>1
    <3> QED
      BY <3>1, <1>1, FS_Interval
  <2>2. k \in I
    OBVIOUS
  <2> HIDE DEF I
  <2>3. IsFiniteSet(I \ {k}) /\ Cardinality(I \ {k}) = n - 1
    BY <2>1, <2>2, FS_RemoveElement
  <2> QED
    BY <2>3, <1>1 DEF I
<1>3. f \in [S -> T]
  BY RanksGrow
<1> HIDE DEF T, f
<1>4. PICK a \in S, b \in S : a # b /\ f[a] = f[b]
  BY <1>2, <1>3, FS_PigeonHole
<1>5. /\ f[a] = Cardinality(Below(S, R, a)) /\ f[b] = Cardinality(Below(S, R, b))
      /\ f[a] \in Int /\ f[b] \in Int
  BY RanksGrow DEF f
<1>6. <<a, b>> \in R \/ <<b, a>> \in R
  BY <1>4 DEF StrictOrder
<1>7. f[a] < f[b] \/ f[b] < f[a]
  BY <1>5, <1>6, RanksGrow
<1> QED
  BY <1>4, <1>5, <1>7

-----------------------------------------------------------------------------
(***************************************************************************)
(* The files.  Their names are in the order of the memos in them, and the  *)
(* numbers used within the instant that lasts leave no gap.                *)
(***************************************************************************)
Vecs == [model : Models, of : Messages \X MemoTargets]
MemoSet == [target : MemoTargets, embedding : Vecs \cup {NoVector}, number : Nat]

MemoTypes ==
    /\ clock \in Nat /\ deployed \in Models \cup {NoModel} /\ embedder \in Models \cup {NoModel}
    /\ DOMAIN memoFiles \subseteq Nat \X Nat /\ IsFiniteSet(DOMAIN memoFiles)
    /\ saved \in Seq(MemoSet)

\* Each file holds a memo that was saved or is torn, each memo is in a file.
FilesAreSaved ==
    /\ \A i \in DOMAIN saved : saved[i].number = i /\ \E a \in DOMAIN memoFiles : memoFiles[a] = saved[i]
    /\ \A a \in DOMAIN memoFiles :
         memoFiles[a] # Torn => /\ memoFiles[a].number \in DOMAIN saved
                                /\ memoFiles[a] = saved[memoFiles[a].number]

NamesInOrder ==
    \A a, b \in DOMAIN memoFiles :
        memoFiles[a] # Torn /\ memoFiles[b] # Torn /\ Earlier(a, b) =>
            memoFiles[a].number < memoFiles[b].number

NamesOfNow ==
    /\ \A a \in DOMAIN memoFiles : a[1] <= clock
    /\ \A n, k \in Nat : <<clock, n>> \in DOMAIN memoFiles /\ k < n => <<clock, k>> \in DOMAIN memoFiles

\* What is shown was found in the files as they are.
ShownInv ==
    memoStage = "looking" /\ asked # <<>> =>
        /\ Readable
        /\ \E target \in MemoTargets, vector \in Vecs \cup {NoVector} :
              asked = <<target>> /\ shown = FindSimilar(target, vector)

MemosInv == MemoTypes /\ FilesAreSaved /\ NamesInOrder /\ NamesOfNow /\ ShownInv

LEMMA InitMemosInv == MemosInit => MemosInv
<1> SUFFICES ASSUME MemosInit PROVE MemosInv
  OBVIOUS
<1>1. DOMAIN memoFiles = {} /\ saved = <<>>
  BY DEF MemosInit
<1>2. MemoTypes
  BY <1>1, FS_EmptySet DEF MemosInit, MemoTypes
<1> QED
  BY <1>1, <1>2 DEF MemosInit, MemosInv, FilesAreSaved, NamesInOrder, NamesOfNow, ShownInv

\* A file with a new name, the last in the order.
LEMMA NewFile ==
    ASSUME MemosInv, NEW n \in Nat, FreeNumber(n), NEW memo, UNCHANGED <<clock, deployed, embedder>>,
           memoFiles' = WithFile(<<clock, n>>, memo), asked' = <<>>,
           \/ memo = Torn /\ UNCHANGED saved
           \/ memo \in MemoSet /\ memo.number = Len(saved) + 1 /\ saved' = Append(saved, memo)
    PROVE  MemosInv'
<1> DEFINE new == <<clock, n>>
<1>t. MemoTypes /\ FilesAreSaved /\ NamesInOrder /\ NamesOfNow
  BY DEF MemosInv
<1>1. /\ DOMAIN memoFiles' = DOMAIN memoFiles \cup {new} /\ new \notin DOMAIN memoFiles
      /\ memoFiles'[new] = memo /\ \A a \in DOMAIN memoFiles : memoFiles'[a] = memoFiles[a]
  BY DEF WithFile, FreeNumber
<1>2. \A a \in DOMAIN memoFiles : Earlier(a, new) /\ ~Earlier(new, a)
  <2> SUFFICES ASSUME NEW a \in DOMAIN memoFiles PROVE Earlier(a, new) /\ ~Earlier(new, a)
    OBVIOUS
  <2>1. a \in Nat \X Nat /\ clock \in Nat /\ a[1] <= clock
    BY <1>t DEF MemoTypes, NamesOfNow
  <2>2. a = <<a[1], a[2]>> /\ a[1] \in Nat /\ a[2] \in Nat
    BY <2>1
  <2>3. a[1] = clock => a[2] < n
    BY <1>1, <2>2, <1>t DEF NamesOfNow
  <2> QED
    BY <2>1, <2>2, <2>3 DEF Earlier
<1>3. ~Earlier(new, new)
  BY <1>t DEF Earlier, MemoTypes
<1>4. /\ DOMAIN saved \subseteq DOMAIN saved' /\ \A i \in DOMAIN saved : saved'[i] = saved[i]
      /\ saved' \in Seq(MemoSet)
      /\ \A i \in DOMAIN saved' \ DOMAIN saved : saved'[i] = memo /\ memo.number = i /\ memo # Torn
      /\ memo # Torn => memo.number \in DOMAIN saved' /\ memo = saved'[memo.number]
                        /\ \A i \in DOMAIN saved : i < memo.number
  <2>1. CASE memo = Torn /\ UNCHANGED saved
    BY <2>1, <1>t DEF MemoTypes
  <2>2. CASE memo \in MemoSet /\ memo.number = Len(saved) + 1 /\ saved' = Append(saved, memo)
    <3>1. saved \in Seq(MemoSet)
      BY <1>t DEF MemoTypes
    <3>2. /\ DOMAIN saved' = DOMAIN saved \cup {memo.number} /\ saved'[memo.number] = memo
          /\ \A i \in DOMAIN saved : saved'[i] = saved[i] /\ i < memo.number
          /\ saved' \in Seq(MemoSet)
      BY <2>2, <3>1
    <3>3. memo # Torn
      <4>1. Torn.number = 0 /\ memo.number # 0
        BY <2>2, <3>1 DEF Torn
      <4> QED
        BY <4>1
    <3> QED
      BY <3>2, <3>3
  <2> QED
    BY <2>1, <2>2
<1>5. MemoTypes'
  <2>1. new \in Nat \X Nat
    BY <1>t DEF MemoTypes
  <2>2. IsFiniteSet(DOMAIN memoFiles \cup {new})
    BY <1>t, FS_AddElement DEF MemoTypes
  <2> QED
    BY <1>1, <1>4, <2>1, <2>2, <1>t DEF MemoTypes
<1>6. FilesAreSaved'
  <2>1. ASSUME NEW i \in DOMAIN saved'
        PROVE  saved'[i].number = i /\ \E a \in DOMAIN memoFiles' : memoFiles'[a] = saved'[i]
    <3>1. CASE i \in DOMAIN saved
      BY <1>1, <1>4, <3>1, <1>t DEF FilesAreSaved
    <3>2. CASE i \notin DOMAIN saved
      BY <1>1, <1>4, <2>1, <3>2
    <3> QED
      BY <3>1, <3>2
  <2>2. ASSUME NEW a \in DOMAIN memoFiles', memoFiles'[a] # Torn
        PROVE  memoFiles'[a].number \in DOMAIN saved' /\ memoFiles'[a] = saved'[memoFiles'[a].number]
    <3>1. CASE a = new
      BY <1>1, <1>4, <2>2, <3>1
    <3>2. CASE a \in DOMAIN memoFiles
      BY <1>1, <1>4, <2>2, <3>2, <1>t DEF FilesAreSaved
    <3> QED
      BY <1>1, <3>1, <3>2
  <2> QED
    BY <2>1, <2>2 DEF FilesAreSaved
<1>7. NamesInOrder'
  <2> SUFFICES ASSUME NEW a \in DOMAIN memoFiles', NEW b \in DOMAIN memoFiles',
                      memoFiles'[a] # Torn, memoFiles'[b] # Torn, Earlier(a, b)
               PROVE  memoFiles'[a].number < memoFiles'[b].number
    BY DEF NamesInOrder
  <2>1. a \in DOMAIN memoFiles
    BY <1>1, <1>2, <1>3
  <2>2. CASE b = new
    BY <1>1, <1>4, <2>1, <2>2, <1>t DEF FilesAreSaved
  <2>3. CASE b \in DOMAIN memoFiles
    BY <1>1, <2>1, <2>3, <1>t DEF NamesInOrder
  <2> QED
    BY <1>1, <2>2, <2>3
<1>8. NamesOfNow'
  <2>1. \A a \in DOMAIN memoFiles' : a[1] <= clock
    BY <1>1, <1>t DEF NamesOfNow, MemoTypes
  <2>2. ASSUME NEW m \in Nat, NEW k \in Nat, <<clock, m>> \in DOMAIN memoFiles', k < m
        PROVE  <<clock, k>> \in DOMAIN memoFiles'
    <3>1. CASE m = n
      BY <1>1, <2>2, <3>1 DEF FreeNumber
    <3>2. CASE m # n
      BY <1>1, <2>2, <3>2, <1>t DEF NamesOfNow
    <3> QED
      BY <3>1, <3>2
  <2> QED
    BY <2>1, <2>2 DEF NamesOfNow
<1>9. ShownInv'
  BY DEF ShownInv
<1> QED
  BY <1>5, <1>6, <1>7, <1>8, <1>9 DEF MemosInv

LEMMA VectorsAre ==
    ASSUME NEW model \in Models \cup {NoModel}, NEW target \in MemoTargets, NEW said \in Messages,
           NEW vector \in Vectors(model, Situation(said, target))
    PROVE  vector \in Vecs \cup {NoVector}
  BY DEF Vectors, Situation, Embed, Vecs

LEMMA NextMemosInv == MemosInv /\ [MemosNext]_memoVars => MemosInv'
<1> SUFFICES ASSUME MemosInv, [MemosNext]_memoVars PROVE MemosInv'
  OBVIOUS
<1>t. MemoTypes /\ FilesAreSaved /\ NamesInOrder /\ NamesOfNow /\ ShownInv
  BY DEF MemosInv
<1>1. CASE Remember
  <2>1. PICK target \in MemoTargets, said \in Messages, n \in 0 .. MaxMemos :
          \E vector \in Vectors(deployed, Situation(said, target)) :
            LET memo == [target |-> target, embedding |-> vector, number |-> Len(saved) + 1]
            IN  /\ FreeNumber(n)
                /\ \/ memoFiles' = WithFile(<<clock, n>>, memo) /\ saved' = Append(saved, memo)
                   \/ memoFiles' = WithFile(<<clock, n>>, Torn) /\ UNCHANGED saved
    BY <1>1 DEF Remember
  <2>2. PICK vector \in Vectors(deployed, Situation(said, target)) :
          LET memo == [target |-> target, embedding |-> vector, number |-> Len(saved) + 1]
          IN  /\ FreeNumber(n)
              /\ \/ memoFiles' = WithFile(<<clock, n>>, memo) /\ saved' = Append(saved, memo)
                 \/ memoFiles' = WithFile(<<clock, n>>, Torn) /\ UNCHANGED saved
    BY <2>1
  <2> DEFINE memo == [target |-> target, embedding |-> vector, number |-> Len(saved) + 1]
  <2>3. memo \in MemoSet /\ memo.number = Len(saved) + 1
    <3>1. vector \in Vecs \cup {NoVector}
      BY <2>2, <1>t, VectorsAre DEF MemoTypes
    <3>2. Len(saved) + 1 \in Nat
      BY <1>t DEF MemoTypes
    <3> QED
      BY <3>1, <3>2 DEF MemoSet
  <2>4. n \in Nat /\ asked' = <<>> /\ UNCHANGED <<clock, deployed, embedder>>
    BY <1>1 DEF Remember
  <2>5. FreeNumber(n)
    BY <2>2
  <2>6. CASE memoFiles' = WithFile(<<clock, n>>, memo) /\ saved' = Append(saved, memo)
    <3> HIDE DEF memo
    <3> QED
      BY <2>3, <2>4, <2>5, <2>6, NewFile
  <2>7. CASE memoFiles' = WithFile(<<clock, n>>, Torn) /\ UNCHANGED saved
    BY <2>4, <2>5, <2>7, NewFile
  <2> QED
    BY <2>2, <2>6, <2>7
<1>2. CASE Lookup
  <2>0. UNCHANGED <<clock, memoFiles, deployed, embedder, saved>> /\ memoStage = "looking"
    BY <1>2 DEF Lookup
  <2>1. PICK target \in MemoTargets, said \in Messages :
          /\ asked' = <<target>>
          /\ IF ~Readable
             THEN memoStage' = "dead" /\ shown' = <<>> /\ UNCHANGED embedFailed
             ELSE \E vector \in Vectors(IF embedFailed THEN NoModel ELSE embedder,
                                       Situation(said, target)) :
                    /\ shown' = FindSimilar(target, vector)
                    /\ embedFailed' = (embedder # NoModel /\ vector = NoVector)
                    /\ UNCHANGED memoStage
    BY <1>2 DEF Lookup
  <2>2. ShownInv'
    <3>1. CASE ~Readable
      BY <2>1, <3>1 DEF ShownInv
    <3>2. CASE Readable
      <4>1. PICK vector \in Vectors(IF embedFailed THEN NoModel ELSE embedder,
                                    Situation(said, target)) :
              shown' = FindSimilar(target, vector)
        BY <2>1, <3>2
      <4>2. vector \in Vecs \cup {NoVector}
        BY <4>1, <1>t, VectorsAre DEF MemoTypes
      <4>3. Readable' /\ shown' = FindSimilar(target, vector)'
        BY <2>0, <3>2, <4>1 DEF Readable, FindSimilar, Matches, Preceding, Precedes
      <4> QED
        BY <2>1, <4>2, <4>3 DEF ShownInv
    <3> QED
      BY <3>1, <3>2
  <2> QED
    BY <2>0, <2>2, <1>t DEF MemosInv, MemoTypes, FilesAreSaved, NamesInOrder, NamesOfNow
<1>3. CASE BeginMaintain \/ EndMaintain \/ Configure
  <2>1. /\ UNCHANGED <<clock, memoFiles, saved>> /\ deployed' \in Models \cup {NoModel}
        /\ embedder' \in Models \cup {NoModel}
        /\ asked' = <<>> \/ memoStage' = "idle"
    BY <1>3, <1>t DEF BeginMaintain, EndMaintain, Configure, MemoTypes
  <2> QED
    BY <2>1, <1>t DEF MemosInv, MemoTypes, FilesAreSaved, NamesInOrder, NamesOfNow, ShownInv
<1>4. CASE Tick \/ Tidy
  <2>1. /\ clock' = clock + 1 /\ UNCHANGED <<memoStage, deployed, embedder, saved>> /\ memoStage = "idle"
        /\ DOMAIN memoFiles' \subseteq DOMAIN memoFiles
        /\ \A a \in DOMAIN memoFiles' : memoFiles'[a] = memoFiles[a]
        /\ \A a \in DOMAIN memoFiles : memoFiles[a] # Torn => a \in DOMAIN memoFiles'
    BY <1>4 DEF Tick, Tidy
  <2>2. MemoTypes'
    <3>1. IsFiniteSet(DOMAIN memoFiles')
      BY <2>1, <1>t, FS_Subset DEF MemoTypes
    <3> QED
      BY <2>1, <3>1, <1>t DEF MemoTypes
  <2>3. FilesAreSaved'
    <3>1. ASSUME NEW i \in DOMAIN saved PROVE \E a \in DOMAIN memoFiles' : memoFiles'[a] = saved[i]
      <4>1. PICK a \in DOMAIN memoFiles : memoFiles[a] = saved[i]
        BY <1>t DEF FilesAreSaved
      <4>2. saved[i] # Torn
        <5>1. saved[i].number = i /\ i # 0
          BY <1>t DEF FilesAreSaved, MemoTypes
        <5>2. Torn.number = 0
          BY DEF Torn
        <5> QED
          BY <5>1, <5>2
      <4> QED
        BY <2>1, <4>1, <4>2
    <3> QED
      BY <2>1, <3>1, <1>t DEF FilesAreSaved
  <2>4. NamesInOrder'
    BY <2>1, <1>t DEF NamesInOrder
  <2>5. NamesOfNow'
    <3>1. \A a \in DOMAIN memoFiles' : a[1] < clock'
      BY <2>1, <1>t DEF NamesOfNow, MemoTypes
    <3>2. \A n \in Nat : <<clock', n>> \notin DOMAIN memoFiles'
      BY <3>1, <2>2 DEF MemoTypes
    <3>3. \A a \in DOMAIN memoFiles' : a[1] <= clock'
      BY <3>1, <2>2 DEF MemoTypes
    <3> QED
      BY <3>2, <3>3 DEF NamesOfNow
  <2>6. ShownInv'
    BY <2>1 DEF ShownInv
  <2> QED
    BY <2>2, <2>3, <2>4, <2>5, <2>6 DEF MemosInv
<1>5. CASE UNCHANGED memoVars
  <2>1. UNCHANGED <<memoStage, clock, memoFiles, deployed, embedder, asked, shown, saved>>
    BY <1>5 DEF memoVars
  <2>2. ShownInv'
    <3> SUFFICES ASSUME memoStage = "looking", asked # <<>> PROVE ShownInv'
      BY <2>1 DEF ShownInv
    <3>1. PICK target \in MemoTargets, vector \in Vecs \cup {NoVector} :
            Readable /\ asked = <<target>> /\ shown = FindSimilar(target, vector)
      BY <1>t DEF ShownInv
    <3>2. Readable' /\ shown' = FindSimilar(target, vector)'
      BY <2>1, <3>1 DEF Readable, FindSimilar, Matches, Preceding, Precedes
    <3> QED
      BY <2>1, <3>1, <3>2 DEF ShownInv
  <2> QED
    BY <2>1, <2>2, <1>t DEF MemosInv, MemoTypes, FilesAreSaved, NamesInOrder, NamesOfNow
<1> QED
  BY <1>1, <1>2, <1>3, <1>4, <1>5 DEF MemosNext

-----------------------------------------------------------------------------
(***************************************************************************)
(* The search.  The matches are in a strict order, and what is shown are   *)
(* those of the first ranks.                                               *)
(***************************************************************************)
OrderOf(target, vector) ==
    {p \in Matches(target, vector) \X Matches(target, vector) : Precedes(target, vector, p[1], p[2])}

\* Names of files are ordered by instant and number.
LEMMA NamesAreOrdered ==
    ASSUME NEW S \in SUBSET (Nat \X Nat)
    PROVE  /\ \A a \in S : ~Earlier(a, a)
           /\ \A a, b \in S : a # b => Earlier(a, b) \/ Earlier(b, a)
           /\ \A a, b, c \in S : Earlier(a, b) /\ Earlier(b, c) => Earlier(a, c)
<1>1. \A a \in S : a = <<a[1], a[2]>> /\ a[1] \in Nat /\ a[2] \in Nat
  OBVIOUS
<1> QED
  BY <1>1 DEF Earlier

\* A file that can be read holds a saved memo, two files two of them, the later
\* name the later one.
LEMMA FilesOfMemos ==
    ASSUME MemosInv, Readable
    PROVE  /\ \A a \in DOMAIN memoFiles : /\ memoFiles[a] \in MemoSet
                                          /\ memoFiles[a].number \in DOMAIN saved
                                          /\ memoFiles[a] = saved[memoFiles[a].number]
           /\ \A a, b \in DOMAIN memoFiles :
                /\ memoFiles[a].number < memoFiles[b].number <=> Earlier(a, b)
                /\ memoFiles[a].number = memoFiles[b].number => a = b
<1>t. MemoTypes /\ FilesAreSaved /\ NamesInOrder
  BY DEF MemosInv
<1>1. ASSUME NEW a \in DOMAIN memoFiles
      PROVE  /\ memoFiles[a] \in MemoSet /\ memoFiles[a].number \in DOMAIN saved
             /\ memoFiles[a] = saved[memoFiles[a].number] /\ memoFiles[a].number \in Int
  BY <1>t DEF Readable, FilesAreSaved, MemoTypes
<1>2. ASSUME NEW a \in DOMAIN memoFiles, NEW b \in DOMAIN memoFiles
      PROVE  /\ memoFiles[a].number < memoFiles[b].number <=> Earlier(a, b)
             /\ memoFiles[a].number = memoFiles[b].number => a = b
  <2>1. /\ Earlier(a, b) => memoFiles[a].number < memoFiles[b].number
        /\ Earlier(b, a) => memoFiles[b].number < memoFiles[a].number
    BY <1>t DEF NamesInOrder, Readable
  <2>2. a # b => Earlier(a, b) \/ Earlier(b, a)
    BY <1>t, NamesAreOrdered DEF MemoTypes
  <2>3. ~Earlier(a, a)
    BY <1>t, NamesAreOrdered DEF MemoTypes
  <2>4. memoFiles[a].number \in Int /\ memoFiles[b].number \in Int
    BY <1>1
  <2> QED
    BY <2>1, <2>2, <2>3, <2>4
<1> QED
  BY <1>1, <1>2

LEMMA MatchesAreOrdered ==
    ASSUME MemosInv, Readable, NEW target \in MemoTargets, NEW vector \in Vecs \cup {NoVector}
    PROVE  /\ IsFiniteSet(Matches(target, vector))
           /\ StrictOrder(Matches(target, vector), OrderOf(target, vector))
           /\ \A a \in Matches(target, vector) :
                Below(Matches(target, vector), OrderOf(target, vector), a) = Preceding(target, vector, a)
<1> DEFINE S == Matches(target, vector)
           D(a) == Distance(memoFiles[a], target)
           Sc(a) == Score(vector, memoFiles[a])
           P(a, b) == Precedes(target, vector, a, b)
<1>1. S \subseteq DOMAIN memoFiles /\ DOMAIN memoFiles \subseteq Nat \X Nat /\ IsFiniteSet(S)
  <2>1. S \in SUBSET DOMAIN memoFiles
    BY DEF Matches
  <2> QED
    BY <2>1, FS_Subset DEF MemosInv, MemoTypes
<1>2. /\ \A a \in S : ~Earlier(a, a)
      /\ \A a, b \in S : a # b => Earlier(a, b) \/ Earlier(b, a)
      /\ \A a, b, c \in S : Earlier(a, b) /\ Earlier(b, c) => Earlier(a, c)
  <2>1. S \in SUBSET (Nat \X Nat)
    BY <1>1
  <2> HIDE DEF S
  <2> QED
    BY <2>1, NamesAreOrdered
<1>3. ASSUME NEW a \in S PROVE D(a) \in {0, 1, 2} /\ (D(a) = 2 => Sc(a) \in Int)
  <2>1. D(a) \in {0, 1, 2}
    BY DEF Distance
  <2>2. ASSUME D(a) = 2 PROVE Sc(a) \in Int
    <3>1. vector # NoVector /\ memoFiles[a].embedding # NoVector
      BY <2>2 DEF Matches
    <3>2. memoFiles[a] \in MemoSet
      BY <1>1, FilesOfMemos
    <3>3. memoFiles[a].embedding \in Vecs /\ vector \in Vecs
      BY <3>1, <3>2 DEF MemoSet
    <3>4. Alike(vector, memoFiles[a].embedding) \in 0 .. 100
      BY <3>3, MemosAssumption DEF Vecs
    <3> QED
      BY <3>4 DEF Score, Cosine
  <2> QED
    BY <2>1, <2>2
<1>4. \A a, b \in S : P(a, b) <=>
        \/ D(a) < D(b)
        \/ /\ D(a) = D(b)
           /\ \/ D(a) < 2 /\ Earlier(b, a)
              \/ D(a) = 2 /\ Sc(a) > Sc(b)
              \/ D(a) = 2 /\ Sc(a) = Sc(b) /\ Earlier(a, b)
  BY DEF Precedes
<1>5. \A a, b \in S : <<a, b>> \in OrderOf(target, vector) <=> P(a, b)
  BY DEF OrderOf
<1> HIDE DEF S, D, Sc, P
<1>6. \A a \in S : ~P(a, a)
  BY <1>2, <1>3, <1>4
<1>7. \A a, b \in S : a # b => P(a, b) \/ P(b, a)
  BY <1>2, <1>3, <1>4
<1>8. \A a, b, c \in S : P(a, b) /\ P(b, c) => P(a, c)
  BY <1>2, <1>3, <1>4
<1>9. StrictOrder(S, OrderOf(target, vector))
  BY <1>5, <1>6, <1>7, <1>8 DEF StrictOrder
<1>10. ASSUME NEW a \in S PROVE Below(S, OrderOf(target, vector), a) = Preceding(target, vector, a)
  BY <1>5 DEF Below, Preceding, S, P
<1> QED
  BY <1>1, <1>9, <1>10 DEF S

\* Shown at place k is the match before which there are k - 1.
LEMMA ShownByRank ==
    ASSUME MemosInv, Readable, NEW target \in MemoTargets, NEW vector \in Vecs \cup {NoVector},
           shown = FindSimilar(target, vector)
    PROVE  LET S == Matches(target, vector)
               RankOf(a) == Cardinality(Preceding(target, vector, a))
           IN  /\ \E room \in 0 .. MaxShown : DOMAIN shown = 1 .. room /\ Len(shown) = room
               /\ \A k \in DOMAIN shown : \E a \in S : RankOf(a) = k - 1 /\ shown[k] = memoFiles[a]
               /\ \A a \in S : RankOf(a) \in Nat /\ (RankOf(a) < MaxShown => RankOf(a) + 1 \in DOMAIN shown)
               /\ \A a, b \in S : Precedes(target, vector, a, b) => RankOf(a) < RankOf(b)
               /\ \A a, b \in S : RankOf(a) = RankOf(b) => a = b
<1> DEFINE S == Matches(target, vector)
           R == OrderOf(target, vector)
           RankOf(a) == Cardinality(Preceding(target, vector, a))
           n == Cardinality(S)
           c == IF n < MaxShown THEN n ELSE MaxShown
<1>1. /\ IsFiniteSet(S) /\ StrictOrder(S, R)
      /\ \A a \in S : RankOf(a) = Cardinality(Below(S, R, a))
  BY MatchesAreOrdered
<1>2. \A a, b \in S : <<a, b>> \in R <=> Precedes(target, vector, a, b)
  BY DEF OrderOf
<1>3. /\ shown = [k \in 1 .. c |-> memoFiles[CHOOSE a \in S : RankOf(a) = k - 1]]
      /\ MaxShown \in Nat
  BY MemosAssumption DEF FindSimilar
<1> HIDE DEF S, R, RankOf
<1>4. n \in Nat /\ c \in 0 .. MaxShown /\ c <= n
  BY <1>1, <1>3, FS_CardinalityType
<1> HIDE DEF n
<1>5. /\ \A a \in S : RankOf(a) \in 0 .. (n - 1)
      /\ \A a, b \in S : <<a, b>> \in R => RankOf(a) < RankOf(b)
  <2>1. /\ \A a \in S : Cardinality(Below(S, R, a)) \in 0 .. (Cardinality(S) - 1)
        /\ \A a, b \in S : <<a, b>> \in R =>
              Cardinality(Below(S, R, a)) < Cardinality(Below(S, R, b))
    BY <1>1, RanksGrow
  <2> QED
    BY <1>1, <2>1 DEF n
<1>6. \A k \in 0 .. (n - 1) : \E a \in S : RankOf(a) = k
  <2> TAKE k \in 0 .. (n - 1)
  <2>1. \E a \in S : Cardinality(Below(S, R, a)) = k
    BY <1>1, RanksAreTaken DEF n
  <2> QED
    BY <1>1, <2>1
<1>7. DOMAIN shown = 1 .. c /\ Len(shown) = c
  BY <1>3, <1>4
<1>8. ASSUME NEW k \in 1 .. c PROVE \E a \in S : RankOf(a) = k - 1 /\ shown[k] = memoFiles[a]
  <2>1. k - 1 \in 0 .. (n - 1)
    BY <1>4
  <2>2. PICK a : a = CHOOSE x \in S : RankOf(x) = k - 1
    OBVIOUS
  <2>3. a \in S /\ RankOf(a) = k - 1
    BY <1>6, <2>1, <2>2
  <2> QED
    BY <1>3, <2>2, <2>3
<1>9. \A a \in S : RankOf(a) \in Nat /\ (RankOf(a) < MaxShown => RankOf(a) + 1 \in DOMAIN shown)
  BY <1>4, <1>5, <1>7, <1>3
<1>10. \A a, b \in S : RankOf(a) = RankOf(b) => a = b
  <2>1. \A a, b \in S : a # b => <<a, b>> \in R \/ <<b, a>> \in R
    BY <1>1 DEF StrictOrder
  <2>2. \A a, b \in S : a # b => RankOf(a) < RankOf(b) \/ RankOf(b) < RankOf(a)
    BY <1>5, <2>1
  <2>3. \A a \in S : RankOf(a) \in Int
    BY <1>5
  <2> QED
    BY <2>2, <2>3
<1> HIDE DEF c
<1>11. \E room \in 0 .. MaxShown : DOMAIN shown = 1 .. room /\ Len(shown) = room
  BY <1>4, <1>7
<1>12. \A k \in DOMAIN shown : \E a \in S : RankOf(a) = k - 1 /\ shown[k] = memoFiles[a]
  BY <1>7, <1>8
<1>13. \A a, b \in S : Precedes(target, vector, a, b) => RankOf(a) < RankOf(b)
  BY <1>2, <1>5
<1> QED
  BY <1>9, <1>10, <1>11, <1>12, <1>13 DEF S, RankOf

\* As many saved memos of a method are later than one as its files precede it.
LEMMA LaterOwn ==
    ASSUME MemosInv, Readable, NEW target \in MemoTargets, NEW vector \in Vecs \cup {NoVector},
           NEW a \in Matches(target, vector), memoFiles[a].target = target
    PROVE  Cardinality(Preceding(target, vector, a)) =
             Cardinality({j \in DOMAIN saved : saved[j].target = target /\ j > memoFiles[a].number})
<1> DEFINE L == {j \in DOMAIN saved : saved[j].target = target /\ j > memoFiles[a].number}
           Q == Preceding(target, vector, a)
           f == [b \in Q |-> memoFiles[b].number]
<1>1. IsFiniteSet(Q)
  <2>1. IsFiniteSet(Matches(target, vector)) /\ Q \in SUBSET Matches(target, vector)
    BY MatchesAreOrdered DEF Preceding
  <2> QED
    BY <2>1, FS_Subset
<1>2. Matches(target, vector) \subseteq DOMAIN memoFiles
  BY DEF Matches
<1>3. \A b \in Q : b \in DOMAIN memoFiles /\ memoFiles[b].target = target /\ Earlier(a, b)
  BY <1>2 DEF Preceding, Precedes, Distance
<1>4. \A b \in Matches(target, vector) : memoFiles[b].target = target /\ Earlier(a, b) => b \in Q
  BY DEF Preceding, Precedes, Distance
<1>5. \A b \in DOMAIN memoFiles : memoFiles[b].target = target => b \in Matches(target, vector)
  BY DEF Matches, Distance
<1>6. f \in [Q -> L]
  <2>1. ASSUME NEW b \in Q PROVE memoFiles[b].number \in L
    <3>1. /\ memoFiles[b].number \in DOMAIN saved /\ memoFiles[b] = saved[memoFiles[b].number]
          /\ memoFiles[a].number < memoFiles[b].number
      BY <1>2, <1>3, FilesOfMemos
    <3>2. memoFiles[a].number \in Nat /\ memoFiles[b].number \in Nat
      BY <1>2, <1>3, FilesOfMemos DEF MemoSet
    <3> QED
      BY <1>3, <3>1, <3>2
  <2> QED
    BY <2>1
<1>7. \A b, d \in Q : f[b] = f[d] => b = d
  BY <1>3, FilesOfMemos
<1>8. \A j \in L : \E b \in Q : f[b] = j
  <2> TAKE j \in L
  <2>1. PICK b \in DOMAIN memoFiles : memoFiles[b] = saved[j]
    BY DEF MemosInv, FilesAreSaved
  <2>2. saved[j].number = j /\ saved[j].target = target
    BY DEF MemosInv, FilesAreSaved
  <2>3. memoFiles[a].number < memoFiles[b].number
    <3>1. j > memoFiles[a].number /\ memoFiles[b].number = j
      BY <2>1, <2>2
    <3>2. memoFiles[a].number \in Nat /\ memoFiles[b].number \in Nat
      BY <1>2, FilesOfMemos DEF MemoSet
    <3> QED
      BY <3>1, <3>2
  <2>4. Earlier(a, b)
    BY <1>2, <2>3, FilesOfMemos
  <2>5. b \in Q
    BY <1>4, <1>5, <2>1, <2>2, <2>4
  <2> QED
    BY <2>1, <2>2, <2>5
<1> HIDE DEF L, Q, f
<1>9. f \in Bijection(Q, L)
  BY <1>6, <1>7, <1>8 DEF Bijection, Injection, Surjection, IsInjective
<1>10. ExistsBijection(Q, L)
  BY <1>9 DEF ExistsBijection
<1>11. Cardinality(L) = Cardinality(Q)
  BY <1>1, <1>10, FS_Bijection
<1> QED
  BY <1>11 DEF L, Q

\* What is shown was found by rank in files that hold the saved memos.
LEMMA WhatIsShown == MemosInv => DecisionsResurface
<1> SUFFICES ASSUME MemosInv, memoStage = "looking", asked # <<>> PROVE DecisionsResurface
  BY DEF DecisionsResurface
<1>1. PICK target \in MemoTargets, vector \in Vecs \cup {NoVector} :
        Readable /\ asked = <<target>> /\ shown = FindSimilar(target, vector)
  BY DEF MemosInv, ShownInv
<1> DEFINE S == Matches(target, vector)
           RankOf(a) == Cardinality(Preceding(target, vector, a))
           N(a) == memoFiles[a].number
           own == {i \in DOMAIN saved : saved[i].target = target}
           later(i) == {j \in own : j > i}
           top == {i \in own : Cardinality(later(i)) < MaxShown}
<1>2. /\ \E room \in 0 .. MaxShown : DOMAIN shown = 1 .. room /\ Len(shown) = room
      /\ \A k \in DOMAIN shown : \E a \in S : RankOf(a) = k - 1 /\ shown[k] = memoFiles[a]
      /\ \A a \in S : RankOf(a) \in Nat /\ (RankOf(a) < MaxShown => RankOf(a) + 1 \in DOMAIN shown)
      /\ \A a, b \in S : Precedes(target, vector, a, b) => RankOf(a) < RankOf(b)
      /\ \A a, b \in S : RankOf(a) = RankOf(b) => a = b
  BY <1>1, ShownByRank
<1>3. /\ \A a \in S : memoFiles[a] = saved[N(a)] /\ N(a) \in DOMAIN saved
      /\ \A a, b \in S : N(a) < N(b) => Earlier(a, b)
      /\ \A a, b \in S : N(a) = N(b) => a = b
  BY <1>1, FilesOfMemos DEF Matches
<1>4. \A i \in DOMAIN saved : saved[i].number = i /\ i \in Nat
  BY DEF MemosInv, FilesAreSaved, MemoTypes
<1>5. \A i \in own : \E a \in S : memoFiles[a] = saved[i] /\ N(a) = i
  <2> TAKE i \in own
  <2>1. PICK a \in DOMAIN memoFiles : memoFiles[a] = saved[i]
    BY DEF MemosInv, FilesAreSaved
  <2> QED
    BY <1>4, <2>1 DEF Matches, Distance
<1>6. \A a, b \in S : memoFiles[a].target = target /\ memoFiles[b].target = target /\ Earlier(b, a)
                      => Precedes(target, vector, a, b)
  BY DEF Precedes, Distance
<1>7. \A a \in S : memoFiles[a].target = target => RankOf(a) = Cardinality(later(N(a)))
  <2> TAKE a \in S
  <2> HAVE memoFiles[a].target = target
  <2>1. later(N(a)) = {j \in DOMAIN saved : saved[j].target = target /\ j > memoFiles[a].number}
    OBVIOUS
  <2> QED
    BY <1>1, <2>1, LaterOwn
<1>8. IsFiniteSet(own) /\ own \subseteq Nat
  <2>1. own \in SUBSET DOMAIN saved /\ IsFiniteSet(DOMAIN saved)
    <3>1. DOMAIN saved = 1 .. Len(saved) /\ Len(saved) \in Nat
      BY DEF MemosInv, MemoTypes
    <3> QED
      BY <3>1, FS_Interval
  <2> QED
    BY <1>4, <2>1, FS_Subset
<1> HIDE DEF S, RankOf, N
<1>9. Len(shown) <= MaxShown
  BY <1>2, MemosAssumption
<1>10. IsInjective(shown)
  <2> SUFFICES ASSUME NEW p \in DOMAIN shown, NEW q \in DOMAIN shown, shown[p] = shown[q]
               PROVE  p = q
    BY DEF IsInjective
  <2>1. PICK a \in S : RankOf(a) = p - 1 /\ shown[p] = memoFiles[a]
    BY <1>2
  <2>2. PICK b \in S : RankOf(b) = q - 1 /\ shown[q] = memoFiles[b]
    BY <1>2
  <2>3. a = b
    BY <1>3, <2>1, <2>2 DEF N
  <2> QED
    BY <1>2, <2>1, <2>2, <2>3
<1>11. \A i \in top : saved[i] \in Range(shown)
  <2> TAKE i \in top
  <2>1. PICK a \in S : memoFiles[a] = saved[i] /\ N(a) = i
    BY <1>5
  <2>2. RankOf(a) < MaxShown
    BY <1>7, <2>1
  <2>3. RankOf(a) + 1 \in DOMAIN shown /\ RankOf(a) \in Nat
    BY <1>2, <2>2
  <2>4. PICK b \in S : RankOf(b) = (RankOf(a) + 1) - 1 /\ shown[RankOf(a) + 1] = memoFiles[b]
    BY <1>2, <2>3
  <2>5. a = b
    BY <1>2, <2>3, <2>4
  <2> QED
    BY <2>1, <2>3, <2>4, <2>5 DEF Range
<1>12. \A i, j \in own : \A p, q \in DOMAIN shown :
         i > j /\ shown[p] = saved[i] /\ shown[q] = saved[j] => p < q
  <2> SUFFICES ASSUME NEW i \in own, NEW j \in own, NEW p \in DOMAIN shown, NEW q \in DOMAIN shown,
                      i > j, shown[p] = saved[i], shown[q] = saved[j]
               PROVE  p < q
    OBVIOUS
  <2>1. PICK a \in S : RankOf(a) = p - 1 /\ shown[p] = memoFiles[a]
    BY <1>2
  <2>2. PICK b \in S : RankOf(b) = q - 1 /\ shown[q] = memoFiles[b]
    BY <1>2
  <2>3. N(a) = i /\ N(b) = j
    BY <1>4, <2>1, <2>2 DEF N
  <2>4. Earlier(b, a)
    BY <1>3, <1>4, <2>3
  <2>5. RankOf(a) < RankOf(b)
    BY <1>2, <1>6, <2>1, <2>2, <2>4
  <2> QED
    BY <1>2, <2>1, <2>2, <2>5
<1>13. \A p \in DOMAIN shown : p > Cardinality(top) => shown[p].target # target
  <2> SUFFICES ASSUME NEW p \in DOMAIN shown, shown[p].target = target
               PROVE  ~(p > Cardinality(top))
    OBVIOUS
  <2>1. PICK a \in S : RankOf(a) = p - 1 /\ shown[p] = memoFiles[a]
    BY <1>2
  <2> DEFINE i == N(a)
             L == later(i)
  <2>2. i \in own /\ Cardinality(L) = p - 1 /\ p - 1 < MaxShown
    <3>1. p \in Nat /\ p <= MaxShown
      BY <1>2, MemosAssumption
    <3> QED
      BY <1>2, <1>3, <1>7, <2>1, <3>1, MemosAssumption
  <2>3. /\ IsFiniteSet(L) /\ i \notin L /\ L \in SUBSET own
        /\ \A j \in L : later(j) \in SUBSET L
    <3>1. L \in SUBSET own
      OBVIOUS
    <3>2. IsFiniteSet(L)
      BY <1>8, <3>1, FS_Subset
    <3> QED
      BY <1>8, <2>2, <3>1, <3>2
  <2>4. L \cup {i} \in SUBSET top
    <3>1. ASSUME NEW j \in L PROVE j \in top
      <4>1. Cardinality(later(j)) \in Nat /\ Cardinality(later(j)) <= Cardinality(L)
        <5>1. later(j) \in SUBSET L
          BY <2>3
        <5> HIDE DEF L, later
        <5>2. IsFiniteSet(later(j)) /\ Cardinality(later(j)) <= Cardinality(L)
          BY <2>3, <5>1, FS_Subset
        <5> QED
          BY <5>2, FS_CardinalityType
      <4> QED
        BY <1>2, <2>2, <2>3, <4>1, MemosAssumption
    <3> QED
      BY <2>2, <3>1
  <2>5. top \in SUBSET own
    OBVIOUS
  <2> HIDE DEF L, i, top, own, later
  <2>6. IsFiniteSet(top)
    BY <1>8, <2>5, FS_Subset
  <2>7. Cardinality(L \cup {i}) = (p - 1) + 1 /\ p - 1 \in Int
    <3>1. Cardinality(L \cup {i}) = Cardinality(L) + 1
      BY <2>3, FS_AddElement
    <3> QED
      BY <1>2, <2>2, <3>1
  <2>8. Cardinality(L \cup {i}) <= Cardinality(top)
    BY <2>4, <2>6, FS_Subset
  <2>9. Cardinality(top) \in Nat
    BY <2>6, FS_CardinalityType
  <2> QED
    BY <1>2, <2>7, <2>8, <2>9
<1> QED
  BY <1>1, <1>9, <1>10, <1>11, <1>12, <1>13 DEF DecisionsResurface

\* Every decision about the method that there is room for is shown with a change
\* to it, newest first, before anything of lesser weight and nothing twice
\* (cli/memos.py, find_similar): whatever memos were saved within one instant or
\* without a vector, by however many commands, some killed while they wrote.
THEOREM DecisionsComeBack == MemosSpec => []DecisionsResurface
<1>1. MemosInit => MemosInv
  BY InitMemosInv
<1>2. MemosInv /\ [MemosNext]_memoVars => MemosInv'
  BY NextMemosInv
<1>3. MemosInv => DecisionsResurface
  BY WhatIsShown
<1> QED
  BY <1>1, <1>2, <1>3, PTL DEF MemosSpec

-----------------------------------------------------------------------------
(***************************************************************************)
(* The diff.  Its lines are read in the order they are printed, and when a *)
(* line is recorded, extract knows the file and the line it stands at.     *)
(***************************************************************************)
IsLineOf(d, p) ==
    /\ p = <<p[1], p[2], p[3], p[4]>>
    /\ p[1] \in Nat /\ p[2] \in Nat /\ p[3] \in 0 .. 2 /\ p[4] \in Nat
    /\ p[1] \in DOMAIN d
    /\ p[2] = 0 => p[3] = 0 /\ p[4] = 0
    /\ p[2] # 0 => p[2] \in DOMAIN d[p[1]].hunks
    /\ p[3] = 0 => p[4] = 0
    /\ p[3] # 0 => p[4] > 0
    /\ p[3] = 1 => p[4] \in DOMAIN d[p[1]].hunks[p[2]].removed
    /\ p[3] = 2 => p[4] \in DOMAIN d[p[1]].hunks[p[2]].added

LEMMA LinesOfDiff ==
    ASSUME NEW d \in Diffs
    PROVE  /\ \A p \in DiffLines(d) : IsLineOf(d, p)
           /\ \A i \in DOMAIN d : <<i, 0, 0, 0>> \in DiffLines(d)
           /\ \A i \in DOMAIN d : \A h \in DOMAIN d[i].hunks :
                /\ <<i, h, 0, 0>> \in DiffLines(d)
                /\ \A n \in DOMAIN d[i].hunks[h].removed : <<i, h, 1, n>> \in DiffLines(d)
                /\ \A n \in DOMAIN d[i].hunks[h].added : <<i, h, 2, n>> \in DiffLines(d)
<1>0. ASSUME NEW s, IsASequence(s), NEW n \in DOMAIN s PROVE n \in Nat /\ n > 0
  BY <1>0 DEF IsASequence
<1>1. \A i \in DOMAIN d :
        /\ i \in Nat
        /\ \A h \in DOMAIN d[i].hunks :
             /\ h \in Nat /\ h > 0
             /\ \A n \in DOMAIN d[i].hunks[h].removed : n \in Nat /\ n > 0
             /\ \A n \in DOMAIN d[i].hunks[h].added : n \in Nat /\ n > 0
  <2>1. /\ IsASequence(d)
        /\ \A i \in DOMAIN d :
             /\ IsASequence(d[i].hunks)
             /\ \A h \in DOMAIN d[i].hunks :
                  IsASequence(d[i].hunks[h].removed) /\ IsASequence(d[i].hunks[h].added)
    BY ChangeExtractAssumption
  <2> QED
    BY <1>0, <2>1
<1>2. ASSUME NEW i \in DOMAIN d, NEW h \in DOMAIN d[i].hunks, NEW p \in HunkLines(i, h, d[i].hunks[h])
      PROVE  /\ p = <<p[1], p[2], p[3], p[4]>> /\ p[1] = i /\ p[2] = h
             /\ p[3] \in 0 .. 2 /\ p[4] \in Nat
             /\ p[3] = 0 => p[4] = 0
             /\ p[3] = 1 => p[4] \in DOMAIN d[i].hunks[h].removed
             /\ p[3] = 2 => p[4] \in DOMAIN d[i].hunks[h].added
             /\ p[3] # 0 => p[4] > 0
  <2>1. CASE p = <<i, h, 0, 0>>
    BY <2>1
  <2>2. ASSUME NEW n \in DOMAIN d[i].hunks[h].removed, p = <<i, h, 1, n>>
        PROVE  p = <<p[1], p[2], p[3], p[4]>> /\ p[1] = i /\ p[2] = h /\ p[3] = 1 /\ p[4] = n
               /\ n \in Nat /\ n > 0
    BY <1>1, <2>2
  <2>3. ASSUME NEW n \in DOMAIN d[i].hunks[h].added, p = <<i, h, 2, n>>
        PROVE  p = <<p[1], p[2], p[3], p[4]>> /\ p[1] = i /\ p[2] = h /\ p[3] = 2 /\ p[4] = n
               /\ n \in Nat /\ n > 0
    BY <1>1, <2>3
  <2>4. \/ p = <<i, h, 0, 0>> \/ \E n \in DOMAIN d[i].hunks[h].removed : p = <<i, h, 1, n>>
        \/ \E n \in DOMAIN d[i].hunks[h].added : p = <<i, h, 2, n>>
    BY DEF HunkLines
  <2> QED
    BY <2>1, <2>2, <2>3, <2>4
<1>3. ASSUME NEW p \in DiffLines(d)
      PROVE  \E i \in DOMAIN d : p = <<i, 0, 0, 0>> \/ \E h \in DOMAIN d[i].hunks :
                p \in HunkLines(i, h, d[i].hunks[h])
  <2>1. PICK i \in DOMAIN d : p \in FileLines(i, d[i])
    BY DEF DiffLines
  <2>2. p = <<i, 0, 0, 0>> \/ \E h \in DOMAIN d[i].hunks : p \in HunkLines(i, h, d[i].hunks[h])
    BY <2>1 DEF FileLines
  <2> QED
    BY <2>2
<1>4. ASSUME NEW i \in DOMAIN d, NEW p \in FileLines(i, d[i]) PROVE p \in DiffLines(d)
  BY DEF DiffLines
<1>5. ASSUME NEW i \in DOMAIN d, NEW h \in DOMAIN d[i].hunks, NEW p \in HunkLines(i, h, d[i].hunks[h])
      PROVE  p \in DiffLines(d)
  <2>1. p \in FileLines(i, d[i])
    BY DEF FileLines
  <2> QED
    BY <1>4, <2>1
<1>6. ASSUME NEW i \in DOMAIN d PROVE <<i, 0, 0, 0>> \in DiffLines(d)
  BY <1>4 DEF FileLines
<1>7. ASSUME NEW i \in DOMAIN d, NEW h \in DOMAIN d[i].hunks
      PROVE  /\ <<i, h, 0, 0>> \in DiffLines(d)
             /\ \A n \in DOMAIN d[i].hunks[h].removed : <<i, h, 1, n>> \in DiffLines(d)
             /\ \A n \in DOMAIN d[i].hunks[h].added : <<i, h, 2, n>> \in DiffLines(d)
  <2>1. <<i, h, 0, 0>> \in HunkLines(i, h, d[i].hunks[h])
    BY DEF HunkLines
  <2>2. \A n \in DOMAIN d[i].hunks[h].added : <<i, h, 2, n>> \in HunkLines(i, h, d[i].hunks[h])
    BY DEF HunkLines
  <2>3. \A n \in DOMAIN d[i].hunks[h].removed : <<i, h, 1, n>> \in HunkLines(i, h, d[i].hunks[h])
    BY DEF HunkLines
  <2> QED
    BY <1>5, <2>1, <2>2, <2>3
<1>8. ASSUME NEW p \in DiffLines(d)
      PROVE  IsLineOf(d, p)
  <2>1. PICK i \in DOMAIN d : p = <<i, 0, 0, 0>> \/ \E h \in DOMAIN d[i].hunks :
                p \in HunkLines(i, h, d[i].hunks[h])
    BY <1>3
  <2>2. CASE p = <<i, 0, 0, 0>>
    BY <1>1, <2>2 DEF IsLineOf
  <2>3. ASSUME NEW h \in DOMAIN d[i].hunks, p \in HunkLines(i, h, d[i].hunks[h])
        PROVE  IsLineOf(d, p)
    BY <1>1, <1>2, <2>3 DEF IsLineOf
  <2> QED
    BY <2>1, <2>2, <2>3
<1> QED
  BY <1>6, <1>7, <1>8

\* The order of the lines is strict and total.
LEMMA LinesAreOrdered ==
    ASSUME NEW d \in Diffs
    PROVE  /\ \A p \in DiffLines(d) : ~PrintedBefore(p, p)
           /\ \A p, q \in DiffLines(d) : p # q => PrintedBefore(p, q) \/ PrintedBefore(q, p)
           /\ \A p, q, r \in DiffLines(d) : PrintedBefore(p, q) /\ PrintedBefore(q, r) => PrintedBefore(p, r)
<1>1. \A p \in DiffLines(d) : /\ p = <<p[1], p[2], p[3], p[4]>>
                              /\ p[1] \in Nat /\ p[2] \in Nat /\ p[3] \in Nat /\ p[4] \in Nat
  BY LinesOfDiff DEF IsLineOf
<1>2. \A p \in DiffLines(d) : ~PrintedBefore(p, p)
  BY <1>1 DEF PrintedBefore
<1>3. \A p, q \in DiffLines(d) : p # q => PrintedBefore(p, q) \/ PrintedBefore(q, p)
  BY <1>1 DEF PrintedBefore
<1>4. \A p, q, r \in DiffLines(d) : PrintedBefore(p, q) /\ PrintedBefore(q, r) => PrintedBefore(p, r)
  <2>1. SUFFICES ASSUME NEW p \in DiffLines(d), NEW q \in DiffLines(d), NEW r \in DiffLines(d),
                        PrintedBefore(p, q), PrintedBefore(q, r)
                 PROVE  PrintedBefore(p, r)
    OBVIOUS
  <2> QED
    BY <1>1, <2>1 DEF PrintedBefore
<1> QED
  BY <1>2, <1>3, <1>4

-----------------------------------------------------------------------------
\* The lines read, and those of them that count: at all, and for t.
LinesRead == DiffLines(diff) \ unread
Counted(lines) == {p \in lines : p[3] # 0 /\ ~LineAt(p).header}
Own(lines, t, side) == {p \in Counted(lines) : p[3] = side /\ Holder(p) = t}
OwnCode(lines, t) == {p \in Counted(lines) : Holder(p) = t /\ LineAt(p).code}

\* The line read next.
IsNextLine(p) == p \in unread /\ \A q \in unread : ~PrintedBefore(q, p)

ReadInOrder ==
    /\ diff \in Diffs /\ unread \subseteq DiffLines(diff) /\ IsFiniteSet(LinesRead)
    /\ \A p \in unread, q \in DiffLines(diff) : PrintedBefore(p, q) => q \in unread

\* What extract knows when it reads a line.
PlaceIsKnown ==
    \A p \in unread : IsNextLine(p) =>
        /\ p[2] # 0 => here = [path |-> diff[p[1]].path, class |-> diff[p[1]].class,
                               spans |-> diff[p[1]].spans]
        /\ p[3] # 0 => newLine = CountedAt(p)

LinesAreCounted ==
    /\ DOMAIN buckets = {Holder(p) : p \in Counted(LinesRead)}
    /\ \A t \in DOMAIN buckets :
         /\ buckets[t].removed = Cardinality(Own(LinesRead, t, 1))
         /\ buckets[t].added = Cardinality(Own(LinesRead, t, 2))
         /\ buckets[t].code = Cardinality(OwnCode(LinesRead, t))

NoneDeleted == \A i \in DOMAIN diff : ~diff[i].deleted

ExtractInv == ReadInOrder /\ (NoneDeleted => PlaceIsKnown /\ LinesAreCounted)

LEMMA InitExtractInv == ChangesInit => ExtractInv
<1> SUFFICES ASSUME ChangesInit PROVE ExtractInv
  OBVIOUS
<1>1. diff \in Diffs /\ unread = DiffLines(diff) /\ LinesRead = {} /\ buckets = <<>>
  BY DEF ChangesInit, LinesRead
<1>2. ReadInOrder
  BY <1>1, FS_EmptySet DEF ReadInOrder
<1>3. LinesAreCounted
  BY <1>1 DEF LinesAreCounted, Counted
<1>4. PlaceIsKnown
  <2> SUFFICES ASSUME NEW p \in unread, IsNextLine(p) PROVE p[2] = 0 /\ p[3] = 0
    BY DEF PlaceIsKnown
  <2>1. IsLineOf(diff, p)
    BY <1>1, LinesOfDiff
  <2>2. <<p[1], 0, 0, 0>> \in unread
    BY <1>1, <2>1, LinesOfDiff DEF IsLineOf
  <2>3. ~PrintedBefore(<<p[1], 0, 0, 0>>, p)
    BY <2>2 DEF IsNextLine
  <2> QED
    BY <2>1, <2>3 DEF IsLineOf, PrintedBefore
<1> QED
  BY <1>2, <1>3, <1>4 DEF ExtractInv

\* After the line p the next is q, with nothing between them.
LEMMA NothingBetween ==
    ASSUME ReadInOrder, NEW p, IsNextLine(p), UNCHANGED diff, unread' = unread \ {p},
           NEW q \in unread', IsNextLine(q)'
    PROVE  /\ PrintedBefore(p, q)
           /\ \A r \in DiffLines(diff) : ~(PrintedBefore(p, r) /\ PrintedBefore(r, q))
<1>1. /\ p \in DiffLines(diff) /\ q \in DiffLines(diff) /\ diff \in Diffs
      /\ p # q /\ p \in unread /\ q \in unread
  BY DEF ReadInOrder, IsNextLine
<1>2. PrintedBefore(p, q)
  BY <1>1, LinesAreOrdered DEF IsNextLine
<1>3. ASSUME NEW r \in DiffLines(diff), PrintedBefore(p, r), PrintedBefore(r, q) PROVE FALSE
  <2>1. r \in unread /\ r # p
    BY <1>1, <1>3, LinesAreOrdered DEF ReadInOrder
  <2>2. \A x \in unread \ {p} : ~PrintedBefore(x, q)
    BY DEF IsNextLine
  <2> QED
    BY <1>3, <2>1, <2>2
<1> QED
  BY <1>2, <1>3

LEMMA ReadKeepsOrder ==
    ASSUME ReadInOrder, NEW p, IsNextLine(p), UNCHANGED diff, unread' = unread \ {p}
    PROVE  ReadInOrder' /\ LinesRead' = LinesRead \cup {p} /\ p \notin LinesRead
<1>1. /\ p \in unread /\ p \in DiffLines(diff) /\ DiffLines(diff)' = DiffLines(diff)
      /\ unread \subseteq DiffLines(diff) /\ diff \in Diffs
  BY DEF ReadInOrder, IsNextLine, DiffLines
<1>2. LinesRead' = LinesRead \cup {p} /\ p \notin LinesRead
  BY <1>1 DEF LinesRead
<1>3. IsFiniteSet(LinesRead)'
  BY <1>2, FS_AddElement DEF ReadInOrder
<1>4. ASSUME NEW x \in unread', NEW y \in DiffLines(diff), PrintedBefore(x, y) PROVE y \in unread'
  <2>1. y \in unread
    BY <1>4 DEF ReadInOrder
  <2>2. y # p
    BY <1>4 DEF IsNextLine
  <2> QED
    BY <2>1, <2>2
<1> QED
  BY <1>1, <1>2, <1>3, <1>4 DEF ReadInOrder

LEMMA PlaceOfChange ==
    ASSUME ReadInOrder, PlaceIsKnown, NEW p, IsNextLine(p), p[3] # 0
    PROVE  /\ newLine = CountedAt(p) /\ here # NoPlace
           /\ here.class = diff[p[1]].class /\ here.spans = diff[p[1]].spans
<1>1. p \in unread /\ diff \in Diffs /\ IsLineOf(diff, p)
  BY LinesOfDiff DEF ReadInOrder, IsNextLine
<1>2. /\ newLine = CountedAt(p)
      /\ here = [path |-> diff[p[1]].path, class |-> diff[p[1]].class, spans |-> diff[p[1]].spans]
  BY <1>1 DEF PlaceIsKnown, IsLineOf
<1>3. here.path # ""
  BY <1>1, <1>2, ChangeExtractAssumption DEF IsLineOf
<1>4. NoPlace.path = ""
  BY DEF NoPlace
<1> QED
  BY <1>2, <1>3, <1>4

\* A line, or the header of a hunk, is of the Boolean kinds the code asks for.
LEMMA KindsOfLine ==
    ASSUME NEW p, diff \in Diffs, IsLineOf(diff, p), p[3] # 0
    PROVE  LineAt(p).code \in BOOLEAN /\ LineAt(p).header \in BOOLEAN
<1>1. p[1] \in DOMAIN diff /\ p[2] \in DOMAIN diff[p[1]].hunks
  BY DEF IsLineOf
<1>2. /\ \A n \in DOMAIN HunkOf(p).removed :
           HunkOf(p).removed[n].code \in BOOLEAN /\ HunkOf(p).removed[n].header \in BOOLEAN
      /\ \A n \in DOMAIN HunkOf(p).added :
           HunkOf(p).added[n].code \in BOOLEAN /\ HunkOf(p).added[n].header \in BOOLEAN
  BY <1>1, ChangeExtractAssumption DEF HunkOf
<1>3. /\ p[3] = 1 => p[4] \in DOMAIN HunkOf(p).removed
      /\ p[3] = 2 => p[4] \in DOMAIN HunkOf(p).added
      /\ p[3] = 1 \/ p[3] = 2
  BY DEF IsLineOf, HunkOf
<1> QED
  BY <1>2, <1>3 DEF LineAt

\* What stands before a changed line: the header of its hunk or its neighbour.
LEMMA LineBefore ==
    ASSUME ReadInOrder, NEW p, IsNextLine(p), UNCHANGED diff, unread' = unread \ {p},
           NEW q \in unread', IsNextLine(q)', q[3] # 0
    PROVE  /\ p[1] = q[1] /\ p[2] = q[2] /\ HunkOf(p) = HunkOf(q)
           /\ \/ p[3] = 0 /\ q[3] = 1 /\ q[4] = 1
              \/ p[3] = 0 /\ q[3] = 2 /\ q[4] = 1 /\ DOMAIN HunkOf(q).removed = {}
              \/ p[3] = 1 /\ q[3] = 1 /\ q[4] = p[4] + 1
              \/ /\ p[3] = 1 /\ q[3] = 2 /\ q[4] = 1
                 /\ \A n \in DOMAIN HunkOf(q).removed : n <= p[4]
              \/ p[3] = 2 /\ q[3] = 2 /\ q[4] = p[4] + 1
<1>1. /\ PrintedBefore(p, q)
      /\ \A r \in DiffLines(diff) : ~(PrintedBefore(p, r) /\ PrintedBefore(r, q))
  BY NothingBetween
<1>2. p \in DiffLines(diff) /\ q \in DiffLines(diff) /\ diff \in Diffs /\ p \in unread
  BY DEF ReadInOrder, IsNextLine
<1>3. IsLineOf(diff, p) /\ IsLineOf(diff, q)
  BY <1>2, LinesOfDiff
<1>4. ASSUME NEW r \in DiffLines(diff), PrintedBefore(r, q) PROVE r = p \/ PrintedBefore(r, p)
  BY <1>1, <1>2, <1>4, LinesAreOrdered
<1>5. q[2] # 0 /\ q[2] \in DOMAIN diff[q[1]].hunks /\ q[1] \in DOMAIN diff
  BY <1>3 DEF IsLineOf
<1>6. /\ <<q[1], q[2], 0, 0>> \in DiffLines(diff)
      /\ \A n \in DOMAIN HunkOf(q).removed : <<q[1], q[2], 1, n>> \in DiffLines(diff)
      /\ \A n \in DOMAIN HunkOf(q).added : <<q[1], q[2], 2, n>> \in DiffLines(diff)
  BY <1>2, <1>5, LinesOfDiff DEF HunkOf
<1>7. PrintedBefore(<<q[1], q[2], 0, 0>>, q)
  BY <1>3 DEF IsLineOf, PrintedBefore
<1>8. p = <<q[1], q[2], 0, 0>> \/ PrintedBefore(<<q[1], q[2], 0, 0>>, p)
  BY <1>4, <1>6, <1>7
<1>9. p[1] = q[1] /\ p[2] = q[2] /\ HunkOf(p) = HunkOf(q)
  BY <1>1, <1>3, <1>8 DEF IsLineOf, PrintedBefore, HunkOf
<1>10. /\ IsASequence(HunkOf(q).removed) /\ IsASequence(HunkOf(q).added)
       /\ q[3] = 1 => q[4] \in DOMAIN HunkOf(q).removed
       /\ q[3] = 2 => q[4] \in DOMAIN HunkOf(q).added
       /\ p[3] = 1 => p[4] \in DOMAIN HunkOf(q).removed
       /\ q[3] \in {1, 2} /\ p[3] \in {0, 1, 2} /\ q[4] \in Nat /\ q[4] > 0 /\ p[4] \in Nat
       /\ q[1] \in Nat /\ q[2] \in Nat
  <2>1. IsASequence(HunkOf(q).removed) /\ IsASequence(HunkOf(q).added)
    BY <1>2, <1>5, ChangeExtractAssumption DEF HunkOf
  <2>2. /\ q[3] = 1 => q[4] \in DOMAIN HunkOf(q).removed
        /\ q[3] = 2 => q[4] \in DOMAIN HunkOf(q).added
        /\ q[3] \in {1, 2} /\ q[4] \in Nat /\ q[4] > 0 /\ q[1] \in Nat /\ q[2] \in Nat
    BY <1>3 DEF IsLineOf, HunkOf
  <2>3. p[3] \in {0, 1, 2} /\ p[4] \in Nat /\ (p[3] = 1 => p[4] \in DOMAIN HunkOf(p).removed)
    BY <1>3 DEF IsLineOf, HunkOf
  <2> QED
    BY <1>9, <2>1, <2>2, <2>3
<1>11. CASE q[4] # 1
  <2> DEFINE r == <<q[1], q[2], q[3], q[4] - 1>>
  <2>1. r \in DiffLines(diff)
    <3>1. \/ q[3] = 1 /\ q[4] - 1 \in DOMAIN HunkOf(q).removed
          \/ q[3] = 2 /\ q[4] - 1 \in DOMAIN HunkOf(q).added
      BY <1>10, <1>11 DEF IsASequence
    <3> QED
      BY <1>6, <3>1
  <2>2. PrintedBefore(r, q)
    BY <1>10, <1>11 DEF PrintedBefore
  <2>3. p = r \/ PrintedBefore(r, p)
    BY <1>4, <2>1, <2>2
  <2>4. p[3] = q[3] /\ p[4] = q[4] - 1
    BY <1>1, <1>3, <1>9, <1>10, <2>3 DEF IsLineOf, PrintedBefore
  <2> QED
    BY <1>9, <1>10, <2>4
<1>12. CASE q[4] = 1 /\ q[3] = 1
  <2>1. p[3] = 0
    BY <1>1, <1>3, <1>9, <1>12 DEF IsLineOf, PrintedBefore
  <2> QED
    BY <1>9, <1>12, <2>1
<1>13. CASE q[4] = 1 /\ q[3] = 2
  <2>1. p[3] = 0 \/ p[3] = 1
    BY <1>1, <1>3, <1>9, <1>13 DEF IsLineOf, PrintedBefore
  <2>2. ASSUME NEW n \in DOMAIN HunkOf(q).removed PROVE p[3] = 1 /\ n <= p[4]
    <3> DEFINE r == <<q[1], q[2], 1, n>>
    <3>1. r \in DiffLines(diff) /\ n \in Nat
      BY <1>6, <1>10, <2>2 DEF IsASequence
    <3>2. PrintedBefore(r, q)
      BY <1>13 DEF PrintedBefore
    <3>3. p = r \/ PrintedBefore(r, p)
      BY <1>4, <3>1, <3>2
    <3> QED
      <4>1. CASE p = r
        BY <3>1, <4>1
      <4>2. CASE PrintedBefore(r, p)
        <5>1. 1 < p[3] \/ (1 = p[3] /\ n < p[4])
          BY <1>9, <1>10, <4>2 DEF PrintedBefore
        <5> QED
          BY <1>10, <2>1, <3>1, <5>1
      <4> QED
        BY <3>3, <4>1, <4>2
  <2>3. p[3] = 0 => DOMAIN HunkOf(q).removed = {}
    BY <2>2
  <2> QED
    BY <1>9, <1>13, <2>1, <2>2, <2>3
<1> QED
  BY <1>10, <1>11, <1>12, <1>13

\* How many removed header-like lines stand before the next line.
LEMMA HeadersBeforeNext ==
    ASSUME ReadInOrder, NEW p, IsNextLine(p), UNCHANGED diff, unread' = unread \ {p},
           NEW q \in unread', IsNextLine(q)', q[3] # 0
    PROVE  /\ p[3] = 0 => Cardinality(HeadersBefore(q)) = 0
           /\ p[3] = 1 => Cardinality(HeadersBefore(q))
                            = Cardinality(HeadersBefore(p)) + (IF LineAt(p).header THEN 1 ELSE 0)
           /\ p[3] = 2 => Cardinality(HeadersBefore(q)) = Cardinality(HeadersBefore(p))
           /\ Cardinality(HeadersBefore(p)) \in Nat
<1>1. p \in DiffLines(diff) /\ q \in DiffLines(diff) /\ diff \in Diffs
  BY DEF ReadInOrder, IsNextLine
<1>2. IsLineOf(diff, p) /\ IsLineOf(diff, q) /\ HunkOf(p) = HunkOf(q)
  BY <1>1, LinesOfDiff, LineBefore
<1>3. q[2] # 0 /\ q[2] \in DOMAIN diff[q[1]].hunks /\ q[1] \in DOMAIN diff
  BY <1>2 DEF IsLineOf
<1>4. IsASequence(HunkOf(q).removed)
  BY <1>1, <1>3, ChangeExtractAssumption DEF HunkOf
<1>5. /\ DOMAIN HunkOf(q).removed \subseteq Nat /\ IsFiniteSet(DOMAIN HunkOf(q).removed)
      /\ \A n \in DOMAIN HunkOf(q).removed : n > 0
  BY <1>4, FS_Interval DEF IsASequence
<1>6. HeadersBefore(p) \subseteq DOMAIN HunkOf(q).removed
  BY <1>2 DEF HeadersBefore
<1>7. IsFiniteSet(HeadersBefore(p)) /\ Cardinality(HeadersBefore(p)) \in Nat
  BY <1>5, <1>6, FS_Subset, FS_CardinalityType
<1>8. ASSUME p[3] = 0 PROVE Cardinality(HeadersBefore(q)) = 0
  <2>1. (q[3] = 1 /\ q[4] = 1) \/ DOMAIN HunkOf(q).removed = {}
    BY <1>8, LineBefore
  <2>2. HeadersBefore(q) = {}
    BY <1>5, <2>1 DEF HeadersBefore
  <2> QED
    BY <2>2, FS_EmptySet
<1>9. ASSUME p[3] = 1
      PROVE  Cardinality(HeadersBefore(q))
               = Cardinality(HeadersBefore(p)) + (IF LineAt(p).header THEN 1 ELSE 0)
  <2>1. p[4] \in DOMAIN HunkOf(q).removed /\ p[4] \in Nat /\ LineAt(p) = HunkOf(q).removed[p[4]]
    BY <1>2, <1>9 DEF IsLineOf, HunkOf, LineAt
  <2>2. \/ q[3] = 1 /\ q[4] = p[4] + 1
        \/ q[3] = 2 /\ \A n \in DOMAIN HunkOf(q).removed : n <= p[4]
    BY <1>9, LineBefore
  <2>3. p[4] \notin HeadersBefore(p)
    BY <1>9, <2>1 DEF HeadersBefore
  <2>4. \A n \in DOMAIN HunkOf(q).removed : (q[3] = 1 => n < q[4]) <=> (n < p[4] \/ n = p[4])
    BY <1>5, <2>1, <2>2
  <2>5. HeadersBefore(q) = IF LineAt(p).header THEN HeadersBefore(p) \cup {p[4]}
                           ELSE HeadersBefore(p)
    BY <1>2, <1>9, <2>1, <2>4 DEF HeadersBefore
  <2>6. Cardinality(HeadersBefore(p) \cup {p[4]}) = Cardinality(HeadersBefore(p)) + 1
    BY <1>7, <2>3, FS_AddElement
  <2> QED
    BY <1>7, <2>5, <2>6
<1>10. ASSUME p[3] = 2 PROVE Cardinality(HeadersBefore(q)) = Cardinality(HeadersBefore(p))
  <2>1. q[3] = 2
    BY <1>10, LineBefore
  <2>2. HeadersBefore(q) = HeadersBefore(p)
    BY <1>2, <1>10, <2>1 DEF HeadersBefore
  <2> QED
    BY <2>2
<1> QED
  BY <1>7, <1>8, <1>9, <1>10

LEMMA ReadKnowsPlace ==
    ASSUME ReadInOrder, PlaceIsKnown, NoneDeleted, UNCHANGED diff,
           NEW p, IsNextLine(p), unread' = unread \ {p},
           \/ p[2] = 0 /\ ReadFileHeader(p[1])
           \/ p[2] # 0 /\ p[3] = 0 /\ ReadHunkHeader(HunkOf(p))
           \/ p[3] # 0 /\ ReadChanged(p[3], LineAt(p))
    PROVE  PlaceIsKnown'
<1> SUFFICES ASSUME NEW q \in unread', IsNextLine(q)'
             PROVE  /\ q[2] # 0 => here' = [path |-> diff[q[1]].path, class |-> diff[q[1]].class,
                                           spans |-> diff[q[1]].spans]
                    /\ q[3] # 0 => newLine' = CountedAt(q)
  BY DEF PlaceIsKnown, CountedAt, HeadersBefore, StandsAt, HunkOf
<1>1. /\ PrintedBefore(p, q)
      /\ \A r \in DiffLines(diff) : ~(PrintedBefore(p, r) /\ PrintedBefore(r, q))
  BY NothingBetween
<1>2. p \in DiffLines(diff) /\ q \in DiffLines(diff) /\ diff \in Diffs /\ p \in unread
  BY DEF ReadInOrder, IsNextLine
<1>3. IsLineOf(diff, p) /\ IsLineOf(diff, q)
  BY <1>2, LinesOfDiff
<1>4. ASSUME NEW r \in DiffLines(diff), PrintedBefore(r, q) PROVE r = p \/ PrintedBefore(r, p)
  BY <1>1, <1>2, <1>4, LinesAreOrdered
<1>5. ASSUME q[2] # 0
      PROVE  p[1] = q[1] /\ here' = [path |-> diff[q[1]].path, class |-> diff[q[1]].class,
                                     spans |-> diff[q[1]].spans]
  <2>1. <<q[1], 0, 0, 0>> \in DiffLines(diff)
    BY <1>2, <1>3, LinesOfDiff DEF IsLineOf
  <2>2. PrintedBefore(<<q[1], 0, 0, 0>>, q)
    BY <1>3, <1>5 DEF IsLineOf, PrintedBefore
  <2>3. p = <<q[1], 0, 0, 0>> \/ PrintedBefore(<<q[1], 0, 0, 0>>, p)
    BY <1>4, <2>1, <2>2
  <2>4. p[1] = q[1]
    BY <1>1, <1>3, <2>3 DEF IsLineOf, PrintedBefore
  <2>5. CASE p[2] = 0
    <3>1. ReadFileHeader(p[1]) /\ ~diff[p[1]].deleted
      BY <1>3, <2>5 DEF IsLineOf, NoneDeleted
    <3> QED
      BY <2>4, <3>1 DEF ReadFileHeader
  <2>6. CASE p[2] # 0
    <3>1. here' = here
      BY <2>6 DEF ReadHunkHeader, ReadChanged
    <3>2. here = [path |-> diff[p[1]].path, class |-> diff[p[1]].class, spans |-> diff[p[1]].spans]
      BY <1>2, <2>6 DEF PlaceIsKnown
    <3> QED
      BY <2>4, <3>1, <3>2
  <2> QED
    BY <2>4, <2>5, <2>6
<1>6. ASSUME q[3] # 0 PROVE newLine' = CountedAt(q)
  <2>1. /\ HunkOf(q) = HunkOf(p) /\ p[2] # 0
        /\ \/ p[3] = 0 /\ (q[3] = 1 \/ q[4] = 1)
           \/ p[3] = 1 /\ (q[3] = 1 \/ (q[3] = 2 /\ q[4] = 1))
           \/ p[3] = 2 /\ q[3] = 2 /\ q[4] = p[4] + 1
    BY <1>3, <1>6, LineBefore DEF IsLineOf
  <2>2. HunkOf(q).at \in Nat /\ p[4] \in Nat
    BY <1>2, <1>3, <1>6, ChangeExtractAssumption DEF IsLineOf, HunkOf
  <2>3. CASE p[3] = 0
    <3>1. newLine' = HunkOf(p).at
      BY <2>1, <2>3 DEF ReadHunkHeader
    <3>2. Cardinality(HeadersBefore(q)) = 0
      BY <1>6, <2>3, HeadersBeforeNext
    <3> QED
      BY <2>1, <2>2, <2>3, <3>1, <3>2 DEF CountedAt, StandsAt
  <2>4. CASE p[3] # 0
    <3>1. newLine = CountedAt(p) /\ here # NoPlace
      BY <2>4, PlaceOfChange
    <3>2. newLine' = IF LineAt(p).header THEN newLine + 1 ELSE NextLine(p[3])
      BY <2>1, <2>4, <3>1 DEF ReadChanged
    <3>3. LineAt(p).header \in BOOLEAN
      BY <1>2, <1>3, <2>4, KindsOfLine
    <3>4. CASE p[3] = 1
      <4>1. Cardinality(HeadersBefore(q))
              = Cardinality(HeadersBefore(p)) + (IF LineAt(p).header THEN 1 ELSE 0)
        BY <1>6, <3>4, HeadersBeforeNext
      <4>2. Cardinality(HeadersBefore(p)) \in Nat
        BY <1>6, HeadersBeforeNext
      <4>3. StandsAt(q) = HunkOf(p).at /\ StandsAt(p) = HunkOf(p).at
        BY <2>1, <2>2, <3>4 DEF StandsAt
      <4> QED
        BY <2>1, <2>2, <3>1, <3>2, <3>3, <3>4, <4>1, <4>2, <4>3 DEF CountedAt, NextLine
    <3>5. CASE p[3] = 2
      <4>1. Cardinality(HeadersBefore(q)) = Cardinality(HeadersBefore(p))
        BY <1>6, <3>5, HeadersBeforeNext
      <4>2. Cardinality(HeadersBefore(p)) \in Nat
        BY <1>6, HeadersBeforeNext
      <4>3. StandsAt(q) = StandsAt(p) + 1 /\ StandsAt(p) \in Int
        BY <2>1, <2>2, <3>5 DEF StandsAt
      <4>4. newLine' = newLine + 1
        BY <3>2, <3>3, <3>5 DEF NextLine
      <4> QED
        BY <3>1, <4>1, <4>2, <4>3, <4>4 DEF CountedAt
    <3> QED
      BY <1>3, <2>4, <3>4, <3>5 DEF IsLineOf
  <2> QED
    BY <2>3, <2>4
<1> QED
  BY <1>5, <1>6

LEMMA OneMore ==
    ASSUME NEW T, IsFiniteSet(T), NEW p, p \notin T, NEW c \in BOOLEAN
    PROVE  Cardinality(IF c THEN T \cup {p} ELSE T) = Cardinality(T) + (IF c THEN 1 ELSE 0)
BY FS_AddElement, FS_CardinalityType

LEMMA CountedFields ==
    ASSUME NEW old, NEW side, NEW line, line.code \in BOOLEAN
    PROVE  /\ CountedWith(old, side, line).removed = old.removed + (IF side = 1 THEN 1 ELSE 0)
           /\ CountedWith(old, side, line).added = old.added + (IF side = 2 THEN 1 ELSE 0)
           /\ CountedWith(old, side, line).code = old.code + (IF line.code THEN 1 ELSE 0)
BY DEF CountedWith

LEMMA ReadCounts ==
    ASSUME ReadInOrder, LinesAreCounted, PlaceIsKnown, UNCHANGED diff,
           NEW p, IsNextLine(p), unread' = unread \ {p}, p[3] # 0, ~LineAt(p).header,
           ReadChanged(p[3], LineAt(p))
    PROVE  LinesAreCounted'
<1>h. PICK t0, line : t0 = Holder(p) /\ line = LineAt(p)
  OBVIOUS
<1> DEFINE changed == Counted(LinesRead)
<1>0. line.code \in BOOLEAN
  <2>1. IsLineOf(diff, p) /\ diff \in Diffs
    BY LinesOfDiff DEF ReadInOrder, IsNextLine
  <2> QED
    BY <1>h, <2>1, KindsOfLine
<1>1. /\ IsLineOf(diff, p) /\ LinesRead' = LinesRead \cup {p} /\ p \notin LinesRead
      /\ IsFiniteSet(LinesRead)
  BY LinesOfDiff, ReadKeepsOrder DEF ReadInOrder, IsNextLine
<1>2. \A q : Holder(q)' = Holder(q) /\ LineAt(q)' = LineAt(q)
  BY DEF Holder, LineAt, HunkOf, CountedAt, HeadersBefore, StandsAt
<1>3. buckets' = Counting(p[3], line) /\ t0 = <<here.class, MethodAt(here.spans, newLine)>>
  BY <1>h, PlaceOfChange DEF ReadChanged, Holder
<1> DEFINE old == IF t0 \in DOMAIN buckets THEN buckets[t0]
                  ELSE [NoBucket EXCEPT !.path = here.path, !.first = newLine]
<1>4. /\ DOMAIN buckets' = DOMAIN buckets \cup {t0}
      /\ \A t \in DOMAIN buckets' :
           buckets'[t] = IF t = t0 THEN CountedWith(old, p[3], line) ELSE buckets[t]
  BY <1>3 DEF Counting
<1>5. p[3] \in {1, 2}
  BY <1>1 DEF IsLineOf
<1>6. DOMAIN buckets = {Holder(q) : q \in changed}
  BY DEF LinesAreCounted
<1>c. Counted(LinesRead)' = changed \cup {p} /\ p \notin changed
  BY <1>1, <1>2 DEF Counted
<1>7. DOMAIN buckets' = {Holder(q)' : q \in Counted(LinesRead)'}
  <2>1. Counted(LinesRead)' = changed \cup {p}
    BY <1>c
  <2> HIDE DEF changed
  <2>2. {Holder(q)' : q \in changed \cup {p}} = {Holder(q) : q \in changed} \cup {t0}
    BY <1>h, <1>2
  <2> QED
    BY <1>4, <1>6, <2>1, <2>2
<1>8. ASSUME NEW t
      PROVE  LET mine == t = t0 IN
             /\ Own(LinesRead, t, 1)' = IF mine /\ p[3] = 1 THEN Own(LinesRead, t, 1) \cup {p}
                                        ELSE Own(LinesRead, t, 1)
             /\ Own(LinesRead, t, 2)' = IF mine /\ p[3] = 2 THEN Own(LinesRead, t, 2) \cup {p}
                                        ELSE Own(LinesRead, t, 2)
             /\ OwnCode(LinesRead, t)' = IF mine /\ line.code THEN OwnCode(LinesRead, t) \cup {p}
                                         ELSE OwnCode(LinesRead, t)
  BY <1>h, <1>c, <1>2, <1>5 DEF Own, OwnCode
<1>9. ASSUME NEW t
      PROVE  /\ IsFiniteSet(Own(LinesRead, t, 1)) /\ p \notin Own(LinesRead, t, 1)
             /\ IsFiniteSet(Own(LinesRead, t, 2)) /\ p \notin Own(LinesRead, t, 2)
             /\ IsFiniteSet(OwnCode(LinesRead, t)) /\ p \notin OwnCode(LinesRead, t)
  <2>1. \A T \in SUBSET LinesRead : IsFiniteSet(T)
    BY <1>1, FS_Subset
  <2>2. /\ Own(LinesRead, t, 1) \in SUBSET LinesRead /\ Own(LinesRead, t, 2) \in SUBSET LinesRead
        /\ OwnCode(LinesRead, t) \in SUBSET LinesRead
    BY DEF Own, OwnCode, Counted
  <2> QED
    BY <1>1, <2>1, <2>2
<1>10. /\ old.removed = Cardinality(Own(LinesRead, t0, 1))
       /\ old.added = Cardinality(Own(LinesRead, t0, 2))
       /\ old.code = Cardinality(OwnCode(LinesRead, t0))
  <2>1. CASE t0 \in DOMAIN buckets
    BY <2>1 DEF LinesAreCounted
  <2>2. CASE t0 \notin DOMAIN buckets
    <3>1. Own(LinesRead, t0, 1) = {} /\ Own(LinesRead, t0, 2) = {} /\ OwnCode(LinesRead, t0) = {}
      BY <1>6, <2>2 DEF Own, OwnCode
    <3>2. old.removed = 0 /\ old.added = 0 /\ old.code = 0
      BY <2>2 DEF NoBucket
    <3> QED
      BY <3>1, <3>2, FS_EmptySet
  <2> QED
    BY <2>1, <2>2
<1> HIDE DEF old, changed
<1>11. ASSUME NEW t \in DOMAIN buckets', t # t0
       PROVE  /\ buckets'[t].removed = Cardinality(Own(LinesRead, t, 1)')
              /\ buckets'[t].added = Cardinality(Own(LinesRead, t, 2)')
              /\ buckets'[t].code = Cardinality(OwnCode(LinesRead, t)')
  <2>1. t \in DOMAIN buckets /\ buckets'[t] = buckets[t]
    BY <1>4, <1>11
  <2>2. /\ Own(LinesRead, t, 1)' = Own(LinesRead, t, 1) /\ Own(LinesRead, t, 2)' = Own(LinesRead, t, 2)
        /\ OwnCode(LinesRead, t)' = OwnCode(LinesRead, t)
    BY <1>8, <1>11
  <2> QED
    BY <2>1, <2>2 DEF LinesAreCounted
<1> DEFINE one1 == IF p[3] = 1 THEN 1 ELSE 0
           one2 == IF p[3] = 2 THEN 1 ELSE 0
           oneC == IF line.code THEN 1 ELSE 0
<1>12. /\ buckets'[t0].removed = Cardinality(Own(LinesRead, t0, 1)')
       /\ buckets'[t0].added = Cardinality(Own(LinesRead, t0, 2)')
       /\ buckets'[t0].code = Cardinality(OwnCode(LinesRead, t0)')
  <2>1. buckets'[t0] = CountedWith(old, p[3], line)
    BY <1>4
  <2>2. /\ buckets'[t0].removed = old.removed + one1
        /\ buckets'[t0].added = old.added + one2
        /\ buckets'[t0].code = old.code + oneC
    BY <1>0, <2>1, CountedFields
  <2>3. Cardinality(Own(LinesRead, t0, 1)') = Cardinality(Own(LinesRead, t0, 1)) + one1
    <3>1. Own(LinesRead, t0, 1)' = IF p[3] = 1 THEN Own(LinesRead, t0, 1) \cup {p}
                                   ELSE Own(LinesRead, t0, 1)
      BY <1>8
    <3>2. PICK c \in BOOLEAN : c <=> p[3] = 1
      OBVIOUS
    <3>3. Cardinality(IF c THEN Own(LinesRead, t0, 1) \cup {p} ELSE Own(LinesRead, t0, 1))
            = Cardinality(Own(LinesRead, t0, 1)) + (IF c THEN 1 ELSE 0)
      BY <1>9, OneMore
    <3> QED
      BY <3>1, <3>2, <3>3
  <2>4. Cardinality(Own(LinesRead, t0, 2)') = Cardinality(Own(LinesRead, t0, 2)) + one2
    <3>1. Own(LinesRead, t0, 2)' = IF p[3] = 2 THEN Own(LinesRead, t0, 2) \cup {p}
                                   ELSE Own(LinesRead, t0, 2)
      BY <1>8
    <3>2. PICK c \in BOOLEAN : c <=> p[3] = 2
      OBVIOUS
    <3>3. Cardinality(IF c THEN Own(LinesRead, t0, 2) \cup {p} ELSE Own(LinesRead, t0, 2))
            = Cardinality(Own(LinesRead, t0, 2)) + (IF c THEN 1 ELSE 0)
      BY <1>9, OneMore
    <3> QED
      BY <3>1, <3>2, <3>3
  <2>5. Cardinality(OwnCode(LinesRead, t0)') = Cardinality(OwnCode(LinesRead, t0)) + oneC
    <3>1. OwnCode(LinesRead, t0)' = IF line.code THEN OwnCode(LinesRead, t0) \cup {p}
                                    ELSE OwnCode(LinesRead, t0)
      BY <1>8
    <3> QED
      BY <1>0, <1>9, <3>1, OneMore
  <2> HIDE DEF one1, one2, oneC
  <2> QED
    BY <1>10, <2>2, <2>3, <2>4, <2>5
<1> QED
  BY <1>7, <1>11, <1>12 DEF LinesAreCounted

LEMMA NextExtractInv == ExtractInv /\ [ChangesNext]_changeVars => ExtractInv'
<1> SUFFICES ASSUME ExtractInv, [ChangesNext]_changeVars PROVE ExtractInv'
  OBVIOUS
<1>1. CASE ReadLine
  <2>1. PICK p \in unread :
          /\ IsNextLine(p) /\ unread' = unread \ {p} /\ UNCHANGED diff
          /\ \/ p[2] = 0 /\ ReadFileHeader(p[1])
             \/ p[2] # 0 /\ p[3] = 0 /\ ReadHunkHeader(HunkOf(p))
             \/ p[3] # 0 /\ ReadChanged(p[3], LineAt(p))
    BY <1>1 DEF ReadLine, IsNextLine
  <2>2. ReadInOrder /\ ReadInOrder' /\ LinesRead' = LinesRead \cup {p} /\ p \notin LinesRead
    BY <2>1, ReadKeepsOrder DEF ExtractInv
  <2>3. ASSUME NoneDeleted' PROVE PlaceIsKnown' /\ LinesAreCounted'
    <3>1. NoneDeleted /\ PlaceIsKnown /\ LinesAreCounted
      BY <2>1, <2>3 DEF NoneDeleted, ExtractInv
    <3>2. PlaceIsKnown'
      BY <2>1, <2>2, <3>1, ReadKnowsPlace
    <3>3. CASE p[3] # 0 /\ ~LineAt(p).header
      <4>1. ReadChanged(p[3], LineAt(p))
        <5>1. IsLineOf(diff, p)
          BY <2>1, <2>2, LinesOfDiff DEF ReadInOrder
        <5> QED
          BY <2>1, <3>3, <5>1 DEF IsLineOf
      <4> QED
        BY <2>1, <2>2, <3>1, <3>2, <3>3, <4>1, ReadCounts
    <3>4. CASE ~(p[3] # 0 /\ ~LineAt(p).header)
      <4>1. UNCHANGED buckets
        <5>1. CASE p[3] = 0
          BY <2>1, <5>1 DEF ReadFileHeader, ReadHunkHeader
        <5>2. CASE p[3] # 0
          BY <2>1, <3>4, <5>2 DEF ReadFileHeader, ReadChanged
        <5> QED
          BY <5>1, <5>2
      <4>3. \A q : Holder(q)' = Holder(q) /\ LineAt(q)' = LineAt(q)
        BY <2>1 DEF Holder, LineAt, HunkOf, CountedAt, HeadersBefore, StandsAt
      <4>2. Counted(LinesRead)' = Counted(LinesRead)
        BY <2>2, <3>4, <4>3 DEF Counted
      <4>4. ASSUME NEW t
            PROVE  /\ Own(LinesRead, t, 1)' = Own(LinesRead, t, 1)
                   /\ Own(LinesRead, t, 2)' = Own(LinesRead, t, 2)
                   /\ OwnCode(LinesRead, t)' = OwnCode(LinesRead, t)
        BY <4>2, <4>3 DEF Own, OwnCode
      <4>5. DOMAIN buckets' = {Holder(q)' : q \in Counted(LinesRead)'}
        <5>1. DOMAIN buckets = {Holder(q) : q \in Counted(LinesRead)}
          BY <3>1 DEF LinesAreCounted
        <5> QED
          BY <4>1, <4>2, <4>3, <5>1
      <4>6. \A t \in DOMAIN buckets :
              /\ buckets[t].removed = Cardinality(Own(LinesRead, t, 1))
              /\ buckets[t].added = Cardinality(Own(LinesRead, t, 2))
              /\ buckets[t].code = Cardinality(OwnCode(LinesRead, t))
        BY <3>1 DEF LinesAreCounted
      <4>7. \A t \in DOMAIN buckets' :
              /\ buckets'[t].removed = Cardinality(Own(LinesRead, t, 1)')
              /\ buckets'[t].added = Cardinality(Own(LinesRead, t, 2)')
              /\ buckets'[t].code = Cardinality(OwnCode(LinesRead, t)')
        BY <4>1, <4>4, <4>6
      <4> QED
        BY <3>2, <4>5, <4>7 DEF LinesAreCounted
    <3> QED
      BY <3>2, <3>3, <3>4
  <2> QED
    BY <2>2, <2>3 DEF ExtractInv
<1>2. ASSUME UNCHANGED <<diff, unread, here, newLine, buckets>> PROVE ExtractInv'
  <2>1. \A q : Holder(q)' = Holder(q) /\ LineAt(q)' = LineAt(q) /\ CountedAt(q)' = CountedAt(q)
    BY <1>2 DEF Holder, LineAt, HunkOf, CountedAt, HeadersBefore, StandsAt
  <2>2. LinesRead' = LinesRead
    BY <1>2 DEF LinesRead, DiffLines
  <2>3. ReadInOrder'
    BY <1>2, <2>2 DEF ExtractInv, ReadInOrder, DiffLines
  <2>4. PlaceIsKnown => PlaceIsKnown'
    BY <1>2, <2>1 DEF PlaceIsKnown, IsNextLine
  <2>5. ASSUME NEW t
        PROVE  /\ Own(LinesRead, t, 1)' = Own(LinesRead, t, 1)
               /\ Own(LinesRead, t, 2)' = Own(LinesRead, t, 2)
               /\ OwnCode(LinesRead, t)' = OwnCode(LinesRead, t)
    BY <2>1, <2>2 DEF Own, OwnCode, Counted
  <2>6. LinesAreCounted => LinesAreCounted'
    BY <1>2, <2>1, <2>2, <2>5 DEF LinesAreCounted, Counted
  <2> QED
    BY <1>2, <2>3, <2>4, <2>6 DEF ExtractInv, NoneDeleted
<1>3. CASE ReadMessage
  BY <1>2, <1>3 DEF ReadMessage
<1>4. CASE \E target \in DOMAIN buckets : Classify(target)
  BY <1>2, <1>4 DEF Classify
<1>5. CASE UNCHANGED changeVars
  BY <1>2, <1>5 DEF changeVars
<1> QED
  BY <1>1, <1>3, <1>4, <1>5 DEF ChangesNext

LEMMA AllIsCounted == ExtractInv => ChangesAttributed
<1> SUFFICES ASSUME ExtractInv, unread = {}, NoneDeleted PROVE ChangesAttributed
  BY DEF ChangesAttributed, NoneDeleted
<1>1. LinesAreCounted /\ LinesRead = DiffLines(diff) /\ ReadInOrder
  BY DEF ExtractInv, LinesRead
<1>2. ChangedLines = Counted(LinesRead)
  BY <1>1 DEF ChangedLines, Counted
<1>3. ASSUME NEW t \in DOMAIN buckets
      PROVE  LET own == {p \in ChangedLines : Holder(p) = t}
             IN  /\ buckets[t].removed = Cardinality({p \in own : p[3] = 1})
                 /\ buckets[t].added = Cardinality({p \in own : p[3] = 2})
                 /\ CommentOnly(t) <=> \A p \in own : ~LineAt(p).code
  <2> DEFINE own == {p \in ChangedLines : Holder(p) = t}
  <2>1. /\ {p \in own : p[3] = 1} = Own(LinesRead, t, 1)
        /\ {p \in own : p[3] = 2} = Own(LinesRead, t, 2)
        /\ {p \in own : LineAt(p).code} = OwnCode(LinesRead, t)
    BY <1>2 DEF Own, OwnCode
  <2>2. IsFiniteSet(OwnCode(LinesRead, t))
    <3>1. OwnCode(LinesRead, t) \in SUBSET LinesRead
      BY DEF OwnCode, Counted
    <3> QED
      BY <1>1, <3>1, FS_Subset DEF ReadInOrder
  <2>3. buckets[t].code = Cardinality(OwnCode(LinesRead, t))
    BY <1>1 DEF LinesAreCounted
  <2>4. buckets[t].code = 0 <=> OwnCode(LinesRead, t) = {}
    BY <2>2, <2>3, FS_EmptySet
  <2>5. CommentOnly(t) <=> \A p \in own : ~LineAt(p).code
    BY <2>1, <2>4 DEF CommentOnly
  <2> QED
    BY <1>1, <2>1, <2>5 DEF LinesAreCounted
<1> QED
  BY <1>1, <1>2, <1>3 DEF ChangesAttributed, LinesAreCounted

\* Each changed line that does not look like the header of a file counts once, for
\* the method that holds its line now, moved down by the removed header-like lines
\* before it in its hunk (adapters/java/changes.py, extract), whatever the diff, its
\* hunks and the methods.
THEOREM EachLineCountsOnce == ChangesSpec => []ChangesAttributed
<1>1. ChangesInit => ExtractInv
  BY InitExtractInv
<1>2. ExtractInv /\ [ChangesNext]_changeVars => ExtractInv'
  BY NextExtractInv
<1>3. ExtractInv => ChangesAttributed
  BY AllIsCounted
<1> QED
  BY <1>1, <1>2, <1>3, PTL DEF ChangesSpec
=============================================================================
