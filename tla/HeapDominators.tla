--------------------------- MODULE HeapDominators ---------------------------
(***************************************************************************)
(* Who keeps whom alive in a heap dump (hprof_report.py,                   *)
(* HeapDump.compute_dominators): the depth first search from the root of   *)
(* all roots, the references backwards, the dominator tree by Lengauer and *)
(* Tarjan with path compression, and how much each object retains.         *)
(*                                                                         *)
(* Nodes are rows of the table, 0 the root of all roots.  From the search  *)
(* on everything is in its numbering: 0..N-1, parents first.               *)
(***************************************************************************)
EXTENDS HeapPaths

VARIABLES
    adj,      \* es, targets: node -> position -> the node referred to there
    shallow,  \* node -> its own bytes
    stack,    \* stack_d: the vertices the search is in, the last one on top
    parent,   \* vertex -> its parent in the search tree
    w,        \* the vertex the current loop is at
    least,    \* s: the least semidominator found for w yet
    todo,     \* predecessors of w not looked at yet
    trail,    \* stk: vertices whose paths are compressed, the last one first
    semi, best, ancestor, idom,
    bucket,   \* bhead, bnext: v -> the vertices with semidominator v, last first
    rs        \* vertex -> retained bytes

linkVars == <<semi, best, ancestor, idom, bucket>>
searchVars == <<adj, shallow, stack, parent, w, least, todo, trail, linkVars, rs>>

Min2(a, b) == IF a < b THEN a ELSE b

TreeInit ==
    /\ adj = <<>> /\ shallow = <<>> /\ vertex = <<>> /\ preds = <<>>
    /\ stack = <<>> /\ parent = <<>> /\ w = 0 /\ least = 0 /\ todo = {} /\ trail = <<>>
    /\ semi = <<>> /\ best = <<>> /\ ancestor = <<>> /\ idom = <<>>
    /\ bucket = <<>> /\ rs = <<>>

-----------------------------------------------------------------------------
(* Depth first search, and the references backwards                         *)

StartSearch ==
    /\ phase = "built" /\ phase' = "search"
    /\ vertex' = [d \in {0} |-> 0] /\ parent' = [d \in {0} |-> 0] /\ stack' = <<0>>
    /\ UNCHANGED <<adj, shallow, preds, w, least, todo, trail, linkVars, rs>>

\* The nodes the vertex on top refers to that were not found yet, by position.
Unfound ==
    LET targets == adj[vertex[Last(stack)]] IN
    {i \in DOMAIN targets : targets[i] \notin Range(vertex)}

\* The search goes on at the first of them.
Descend ==
    /\ phase = "search" /\ stack # <<>>
    /\ \E i \in Unfound :
         /\ \A j \in Unfound : i <= j
         /\ LET d == Cardinality(Found) IN
            /\ vertex' = [x \in Found \cup {d} |->
                            IF x = d THEN adj[vertex[Last(stack)]][i] ELSE vertex[x]]
            /\ parent' = [x \in Found \cup {d} |-> IF x = d THEN Last(stack) ELSE parent[x]]
            /\ stack' = Append(stack, d)
    /\ UNCHANGED <<phase, adj, shallow, preds, w, least, todo, trail, linkVars, rs>>

Retreat ==
    /\ phase = "search" /\ stack # <<>> /\ Unfound = {}
    /\ stack' = Front(stack)
    /\ UNCHANGED <<phase, adj, shallow, vertex, parent, preds, w, least, todo, trail, linkVars, rs>>

PredsOf(d) == {u \in Found : vertex[d] \in Range(adj[vertex[u]])}

\* The loop for w begins.
Turn(v, behind) == w' = v /\ least' = parent[v] /\ todo' = behind

EndSearch ==
    /\ phase = "search" /\ stack = <<>>
    /\ preds' = [d \in Found |-> PredsOf(d)]
    /\ semi' = [d \in Found |-> d] /\ best' = [d \in Found |-> d]
    /\ ancestor' = [d \in Found |-> -1] /\ idom' = [d \in Found |-> 0]
    /\ bucket' = [d \in Found |-> <<>>]
    /\ IF Found = {0} THEN phase' = "finish" /\ w' = 1 /\ UNCHANGED <<least, todo>>
       ELSE phase' = "semi" /\ Turn(Cardinality(Found) - 1, PredsOf(Cardinality(Found) - 1))
    /\ UNCHANGED <<adj, shallow, stack, vertex, parent, trail, rs>>

-----------------------------------------------------------------------------
(* evalnode                                                                 *)

\* v hangs directly under the root of its tree.
Hangs(v) == ancestor[ancestor[v]] < 0

\* The path from v up to the root of its tree is put on the trail,
Climb(v) ==
    /\ IF trail = <<>> THEN ~Hangs(v) /\ trail' = <<v>>
       ELSE LET a == ancestor[Last(trail)] IN ~Hangs(a) /\ trail' = Append(trail, a)
    /\ UNCHANGED <<phase, w, least, todo, linkVars>>

\* and compressed from above: a vertex is hung under the root, best becoming the one
\* with the least semidominator on the path it skips.
Unwind ==
    /\ trail # <<>> /\ Hangs(ancestor[Last(trail)])
    /\ LET y == Last(trail)
           a == ancestor[y] IN
       /\ best' = [best EXCEPT ![y] = IF semi[best[a]] < semi[@] THEN best[a] ELSE @]
       /\ ancestor' = [ancestor EXCEPT ![y] = ancestor[a]]
    /\ trail' = Front(trail)
    /\ UNCHANGED <<phase, w, least, todo, semi, idom, bucket>>

Evaluated(v) == trail = <<>> /\ Hangs(v)

-----------------------------------------------------------------------------
(* Semidominators from the last vertex to the first, and what is waiting at *)
(* the parent                                                               *)

NextPred(v) == v \in todo /\ \A u \in todo : v <= u

\* A predecessor with a lower number counts itself, of another one the best above it.
LookBelow(v) ==
    /\ v <= w /\ least' = Min2(least, v) /\ todo' = todo \ {v}
    /\ UNCHANGED <<phase, w, trail, linkVars>>

LookAbove(v) ==
    /\ v > w /\ Evaluated(v)
    /\ least' = Min2(least, semi[best[v]]) /\ todo' = todo \ {v}
    /\ UNCHANGED <<phase, w, trail, linkVars>>

LookBack(v) ==
    /\ phase = "semi" /\ NextPred(v)
    /\ \/ LookBelow(v) \/ LookAbove(v)
       \/ v > w /\ (Climb(v) \/ Unwind)

Link ==
    /\ phase = "semi" /\ todo = {}
    /\ semi' = [semi EXCEPT ![w] = least]
    /\ bucket' = [bucket EXCEPT ![least] = <<w>> \o @]
    /\ ancestor' = [ancestor EXCEPT ![w] = parent[w]]
    /\ phase' = "settle"
    /\ UNCHANGED <<w, least, todo, trail, best, idom>>

\* The first vertex waiting gets p as its dominator or, written as a negative
\* number, a vertex with the same one.
Settle(p, v) ==
    /\ Evaluated(v)
    /\ idom' = [idom EXCEPT ![v] = IF semi[best[v]] = semi[v] THEN p ELSE -best[v] - 1]
    /\ bucket' = [bucket EXCEPT ![p] = Tail(@)]
    /\ UNCHANGED <<phase, w, least, todo, trail, semi, best, ancestor>>

SettleNext ==
    LET waiting == bucket[parent[w]] IN
    /\ phase = "settle" /\ waiting # <<>>
    /\ Settle(parent[w], Head(waiting)) \/ Climb(Head(waiting)) \/ Unwind

NextVertex ==
    /\ phase = "settle" /\ bucket[parent[w]] = <<>>
    /\ IF w = 1 THEN phase' = "finish" /\ UNCHANGED <<w, least, todo>>
       ELSE phase' = "semi" /\ Turn(w - 1, preds[w - 1])
    /\ UNCHANGED <<trail, linkVars>>

LinkStep ==
    /\ (\E v \in todo : LookBack(v)) \/ Link \/ SettleNext \/ NextVertex
    /\ UNCHANGED <<adj, shallow, stack, vertex, parent, preds, rs>>

-----------------------------------------------------------------------------
(* Dominators, then retained sizes                                          *)

\* Mutant: the other vertex itself is taken for the dominator.
FinishShallow(v) == IF idom[v] < 0 THEN -idom[v] - 1 ELSE idom[v]

FinishOf(v) == IF idom[v] < 0 THEN idom[-idom[v] - 1] ELSE idom[v]

Finish ==
    /\ phase = "finish" /\ w \in Found
    /\ idom' = [idom EXCEPT ![w] = FinishOf(w)]
    /\ w' = w + 1
    /\ UNCHANGED <<phase, adj, shallow, stack, vertex, parent, preds, least, todo, trail,
                   semi, best, ancestor, bucket, rs>>

\* Mutant: the last vertex found is left out of the sum.
StartBeforeLast == LET top == Cardinality(Found) - 1 IN IF top > 0 THEN top - 1 ELSE top

StartRetained == Cardinality(Found) - 1

EndFinish ==
    /\ phase = "finish" /\ w \notin Found
    /\ rs' = [d \in Found |-> IF d = 0 THEN 0 ELSE shallow[vertex[d]]]
    /\ w' = StartRetained
    /\ phase' = "retained"
    /\ UNCHANGED <<adj, shallow, stack, vertex, parent, preds, least, todo, trail, linkVars>>

Retain ==
    /\ phase = "retained" /\ w > 0
    /\ rs' = [rs EXCEPT ![idom[w]] = @ + rs[w]]
    /\ w' = w - 1
    /\ UNCHANGED <<phase, adj, shallow, stack, vertex, parent, preds, least, todo, trail, linkVars>>

\* The forward references are given back.
EndRetained ==
    /\ phase = "retained" /\ w = 0
    /\ phase' = "done" /\ adj' = <<>>
    /\ UNCHANGED <<shallow, stack, vertex, parent, preds, w, least, todo, trail, linkVars, rs>>

TreeNext ==
    /\ \/ StartSearch \/ Descend \/ Retreat \/ EndSearch
       \/ LinkStep \/ Finish \/ EndFinish \/ Retain \/ EndRetained
    /\ UNCHANGED <<file, seg, at, table, roots, layout, pathVars>>

-----------------------------------------------------------------------------
(* What dominators and retained sizes are, without the algorithm            *)

\* The rows one comes to from the root of all roots over references.
Reached ==
    {row \in 0..Len(table) :
        \A closed \in SUBSET (0..Len(table)) :
            0 \in closed /\ (\A x \in closed : Range(adj[x]) \subseteq closed) => row \in closed}

\* The search finds all of them and each once (nothing is counted twice, or left out).
FoundIsReached ==
    phase \in {"semi", "settle", "finish", "retained"} =>
        /\ Range(vertex) = Reached
        /\ \A u, v \in Found : vertex[u] = vertex[v] => u = v

\* Where one may come from 0 without d, and on from there without d.
ClosedWithout(d, reached) ==
    /\ {0} \ {d} \subseteq reached
    /\ \A v \in Found \ {d} : preds[v] \cap reached # {} => v \in reached

\* Vertices that are reached from 0 when d is taken away.
Without(d) ==
    LET closed == {reached \in SUBSET (Found \ {d}) : ClosedWithout(d, reached)} IN
    {v \in Found \ {d} : \A reached \in closed : v \in reached}

\* The parent of an object in the dominator tree is one that, taken away, makes it
\* unreachable, and every other such one is such a one for the parent as well.
DominatorsCorrect ==
    phase \in {"retained", "done"} /\ hunt = "idle" =>
        LET left == [d \in Found |-> Without(d)] IN
        \A v \in Found \ {0} :
            /\ idom[v] \in Found \ {v} /\ v \notin left[idom[v]]
            /\ \A d \in Found \ {v} : v \notin left[d] => idom[v] \notin left[d]

\* The bytes of the objects among vs, each counted once.
BytesOf(vs) == UNION {{v} \X (1..shallow[vertex[v]]) : v \in vs \ {0}}

\* Retained bytes are those of the objects that would be freed with this one;
\* the root of all roots retains every reachable object.
RetainedIsFreed ==
    phase = "done" /\ hunt = "idle" =>
        \A d \in Found : rs[d] = Cardinality(BytesOf(Found \ Without(d)))
=============================================================================
