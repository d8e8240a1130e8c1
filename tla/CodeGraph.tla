----------------------------- MODULE CodeGraph -----------------------------
(***************************************************************************)
(* The code graph: how it is read off the sources (graph_builder.py,       *)
(* calls.py), stored (neo4j_store.py) and asked (answers.py, impact.py).   *)
(*                                                                         *)
(* A class has the key <<c>>, a method <<c, m>>; keys are ordered.  Code   *)
(* is a record: classes, methods (of the main tree), calls [at, receiver,  *)
(* name], declared (the declared type of a variable in a class), creates   *)
(* [at, class], tests (test classes), covers (test class -> methods it     *)
(* runs), mentions (test class -> methods its text names), failing.        *)
(***************************************************************************)
EXTENDS Integers, FiniteSets, SequencesExt

CONSTANTS
    Codes,    \* versions of the sources, a sequence
    Builders  \* cta graph processes

VARIABLES
    version,  \* of the sources now, 0 if the part rests
    dbNodes,  \* key -> copies of the node in the database
    dbEdges,  \* edge -> copies
    bpc,      \* builder -> where it is
    parsed,   \* builder -> nodes and edges it will store
    lone,     \* builder -> it met no other builder so far
    stored    \* what the last build stored, if it ran alone to its end

graphStoreVars == <<version, dbNodes, dbEdges, bpc, parsed, lone, stored>>

code == Codes[version]

-----------------------------------------------------------------------------
(* calls.py: extract_calls, _resolve                                       *)

Owners(v, name) == {c \in v.classes : <<c, name>> \in v.methods}

\* The class a receiver stands for: itself, a class named, a declared type; 0
\* if its type is not read.
OwnerOf(v, call) ==
    IF call.receiver = "this" THEN call.at[1]
    ELSE IF call.receiver \in DOMAIN v.statics THEN v.statics[call.receiver]
    ELSE IF <<call.at[1], call.receiver>> \in DOMAIN v.declared
         THEN v.declared[<<call.at[1], call.receiver>>]
    ELSE 0

Call(src, dst, confidence) ==
    [kind |-> "CALLS", src |-> src, dst |-> dst, confidence |-> confidence]

\* x.name(: high if the type is read and declares the method; medium if the type
\* is not read and one class only declares a method of that name.
ResolveCall(v, call) ==
    LET owner == OwnerOf(v, call)
        owners == Owners(v, call.name) IN
    IF owner # 0
    THEN IF owner \in owners THEN {Call(call.at, <<owner, call.name>>, "high")} ELSE {}
    ELSE IF Cardinality(owners) = 1
         THEN {Call(call.at, <<c, call.name>>, "medium") : c \in owners} ELSE {}

\* name(: a method of the same class, never of the caller's own name.
ResolveBare(v, call) ==
    IF call.name # call.at[2] /\ call.at[1] \in Owners(v, call.name)
    THEN {Call(call.at, <<call.at[1], call.name>>, "high")} ELSE {}

\* One edge for a pair, the surer one; none from a method to itself.
Calls(v) ==
    LET found == UNION {IF call.receiver = "" THEN ResolveBare(v, call) ELSE ResolveCall(v, call) :
                          call \in v.calls}
    IN  {e \in found : /\ e.src # e.dst
                       /\ e.confidence = "medium" => [e EXCEPT !.confidence = "high"] \notin found}

-----------------------------------------------------------------------------
(* graph_builder.py: build_graph                                            *)

Edge4(kind, src, dst) == [kind |-> kind, src |-> src, dst |-> dst, confidence |-> ""]

NodesOf(v) == {<<c>> : c \in v.classes \cup v.tests} \cup v.methods

\* Objects made of classes outside the project are left out.
StaticEdges(v) ==
    {Edge4("DECLARES", <<m[1]>>, m) : m \in v.methods}
    \cup {Edge4("CREATES", x.at, <<x.class>>) :
            x \in {y \in v.creates : y.class \in v.classes \cup v.tests}}
    \cup Calls(v)

\* coverage.py, collect_edges: the methods each test class ran.
CoverEdges(v) ==
    UNION {{Edge4("COVERS", <<t>>, m) : m \in v.covers[t]} : t \in v.tests}

-----------------------------------------------------------------------------
(* neo4j_store.py                                                           *)

Count(bag, x) == IF x \in DOMAIN bag THEN bag[x] ELSE 0

Added(bag, more) ==
    [x \in DOMAIN bag \cup DOMAIN more |-> Count(bag, x) + Count(more, x)]

NoBag == <<>>

GraphStoreInit ==
    /\ version \in DOMAIN Codes
    /\ dbNodes = NoBag /\ dbEdges = NoBag
    /\ bpc = [b \in Builders |-> "idle"]
    /\ parsed = [b \in Builders |-> [nodes |-> {}, edges |-> {}]]
    /\ lone = [b \in Builders |-> TRUE]
    /\ stored = <<>>

GraphStoreOff ==
    /\ version = 0 /\ dbNodes = NoBag /\ dbEdges = NoBag /\ bpc = <<>>
    /\ parsed = <<>> /\ lone = <<>> /\ stored = <<>>

Working == {b \in DOMAIN bpc : bpc[b] \in {"parsed", "measured", "deleted", "created"}}

\* The sources are parsed at one moment ...
Parse(b) ==
    /\ bpc[b] = "idle"
    /\ bpc' = [bpc EXCEPT ![b] = "parsed"]
    /\ parsed' = [parsed EXCEPT ![b] = [nodes |-> NodesOf(code), edges |-> StaticEdges(code)]]
    /\ lone' = [c \in Builders |-> IF c = b THEN Working = {}
                                   ELSE lone[c] /\ c \notin Working]
    /\ UNCHANGED <<version, dbNodes, dbEdges, stored>>

\* ... and with --coverage the tests run at a later one; if they cannot be
\* prepared the build ends with the old graph in place.
Measure(b) ==
    /\ bpc[b] = "parsed"
    /\ \/ /\ bpc' = [bpc EXCEPT ![b] = "measured"]
          /\ \E covers \in {{}, CoverEdges(code)} :
               parsed' = [parsed EXCEPT ![b].edges = @ \cup covers]
       \/ bpc' = [bpc EXCEPT ![b] = "failed"] /\ UNCHANGED parsed
    /\ UNCHANGED <<version, dbNodes, dbEdges, lone, stored>>

\* Mutant: only the nodes that are to be created again are deleted.
DeletedAgain(b) ==
    [x \in {k \in DOMAIN dbNodes : k \notin parsed[b].nodes} |-> dbNodes[x]]

NodesLeft(b) == NoBag

\* replace_project, first statement: the project's nodes and their edges.
Delete(b) ==
    /\ bpc[b] = "measured"
    /\ bpc' = [bpc EXCEPT ![b] = "deleted"]
    /\ dbNodes' = NodesLeft(b)
    /\ dbEdges' = [e \in {x \in DOMAIN dbEdges : {x.src, x.dst} \subseteq DOMAIN NodesLeft(b)} |->
                     dbEdges[e]]
    /\ stored' = <<>>
    /\ UNCHANGED <<version, parsed, lone>>

CreateNodes(b) ==
    /\ bpc[b] = "deleted"
    /\ bpc' = [bpc EXCEPT ![b] = "created"]
    /\ dbNodes' = Added(dbNodes, [x \in parsed[b].nodes |-> 1])
    /\ UNCHANGED <<version, dbEdges, parsed, lone, stored>>

\* An edge for every pair of nodes with its keys, none if an end is missing.
CreateEdges(b) ==
    /\ bpc[b] = "created"
    /\ bpc' = [bpc EXCEPT ![b] = "done"]
    /\ dbEdges' = Added(dbEdges,
                    [e \in {x \in parsed[b].edges : {x.src, x.dst} \subseteq DOMAIN dbNodes} |->
                       dbNodes[e.src] * dbNodes[e.dst]])
    /\ stored' = IF lone[b] THEN parsed[b] ELSE stored
    /\ UNCHANGED <<version, dbNodes, parsed, lone>>

\* A builder dies between two statements.
KillBuilder(b) ==
    /\ b \in Working
    /\ bpc' = [bpc EXCEPT ![b] = "failed"]
    /\ UNCHANGED <<version, dbNodes, dbEdges, parsed, lone, stored>>

Edit ==
    /\ version \in DOMAIN Codes
    /\ version' \in DOMAIN Codes \ {version}
    /\ UNCHANGED <<dbNodes, dbEdges, bpc, parsed, lone, stored>>

GraphStoreNext ==
    \/ \E b \in DOMAIN bpc :
         \/ Parse(b) \/ Measure(b) \/ Delete(b) \/ CreateNodes(b) \/ CreateEdges(b)
         \/ KillBuilder(b)
    \/ Edit

GraphStoreSpec == GraphStoreInit /\ [][GraphStoreNext]_graphStoreVars

-----------------------------------------------------------------------------
(* Queries                                                                  *)

\* neighbors(..., "in"): the sources of the edges, each once.
NeighborsIn(edges, target, kind) ==
    {e.src : e \in {x \in DOMAIN edges : x.kind = kind /\ x.dst = target}}

Before(k, l) == \/ k[1] < l[1]
                \/ k[1] = l[1] /\ (Len(k) < Len(l) \/ (Len(k) = 2 /\ Len(l) = 2 /\ k[2] < l[2]))

Rank(c) == IF c.confidence = "high" THEN 0 ELSE 1

\* edges_in: an edge stored twice is listed twice.
CallersOf(edges, target) ==
    UNION {{[target |-> e.src, confidence |-> e.confidence, copy |-> n] : n \in 1 .. edges[e]} :
             e \in {x \in DOMAIN edges : x.kind = "CALLS" /\ x.dst = target}}

\* GraphImpactFinder.find, _callers: the surest first, then by key.
Sooner(c, d) ==
    \/ Rank(c) < Rank(d)
    \/ /\ Rank(c) = Rank(d)
       /\ Before(c.target, d.target) \/ (c.target = d.target /\ c.copy < d.copy)

\* InMemoryGraphStore: every edge once; nothing is dropped but edges whose
\* source is unknown.
InMemory(v) ==
    [e \in {x \in StaticEdges(v) : x.src \in NodesOf(v)} |-> 1]

-----------------------------------------------------------------------------
\* After a build that met no other builder the database holds what it read,
\* each node and each edge between them once, whatever was there before:
\* earlier crashes and overlapping builds leave no trace.
GraphIsWhole ==
    stored # <<>> /\ Working = {} =>
        /\ dbNodes = [x \in stored.nodes |-> 1]
        /\ dbEdges = [e \in {x \in stored.edges : {x.src, x.dst} \subseteq stored.nodes} |-> 1]
=============================================================================
