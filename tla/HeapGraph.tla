----------------------------- MODULE HeapGraph -----------------------------
(***************************************************************************)
(* From a dump that was read to its report (hprof_report.py,               *)
(* HeapDump.build_graph): who refers to whom.  Then dominators and         *)
(* retained sizes are computed once, and paths are asked for.              *)
(***************************************************************************)
EXTENDS HeapDominators

graphVars == <<searchVars, vertex, preds>>
heapVars == <<fileVars, graphVars, pathVars>>

\* The node of a class, if it was dumped.
ClassNode(cid) ==
    LET c == IndexOf(cid) IN IF c # 0 /\ table[c].tag = "class" THEN c ELSE 0

\* The nodes that the ids in a row name, by position; 0 for null and for what was
\* not dumped.  An instance has as many as its class has reference fields, none if
\* its class was not dumped.
NodesNamed(row, ids) ==
    [i \in DOMAIN ids |->
       IF row.tag = "instance" /\ (ClassNode(row.cls) = 0 \/ i > FieldCount(row.cls))
       THEN 0 ELSE IndexOf(ids[i])]

\* An instance and an array of references refer to their class behind the rest, a
\* class first to its superclass.
RefsOf(row) ==
    LET refs == NodesNamed(row, row.refs)
        end == Len(row.refs) + 1 IN
    CASE row.tag \in {"instance", "objarray"} ->
           [i \in DOMAIN refs \cup {end} |-> IF i = end THEN ClassNode(row.cls) ELSE refs[i]]
      [] row.tag = "class" ->
           [i \in DOMAIN refs \cup {0} |-> IF i = 0 THEN IndexOf(row.super) ELSE refs[i]]
      [] OTHER -> <<>>

\* Ids of objects that were not dumped, and null, are left out.
Dropped(refs) == Restrict(refs, {i \in DOMAIN refs : refs[i] # 0})

\* The dumped roots; every class if there is none.
RootNodes ==
    LET known == {IndexOf(id) : id \in roots} \ {0} IN
    IF known # {} THEN known ELSE {i \in Nodes : table[i].tag = "class"}

BuildGraph ==
    /\ phase = "graph"
    /\ adj' = [v \in 0..Len(table) |-> IF v = 0 THEN [i \in RootNodes |-> i]
                                       ELSE Dropped(RefsOf(table[v]))]
    /\ shallow' = [v \in Nodes |-> SizeUnder(table[v], layout)]
    /\ phase' = "built"
    /\ UNCHANGED <<file, seg, at, table, roots, layout, vertex, preds, stack, parent,
                   w, least, todo, trail, linkVars, rs, pathVars>>

HeapInit == FileInit /\ TreeInit /\ PathsIdle
HeapOff == FileOff /\ TreeInit /\ PathsIdle

HeapNext ==
    \/ FileNext /\ UNCHANGED <<graphVars, pathVars>>
    \/ BuildGraph
    \/ TreeNext
    \/ PathsNext /\ UNCHANGED searchVars

HeapSpec == HeapInit /\ [][HeapNext]_heapVars
=============================================================================
