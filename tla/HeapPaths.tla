----------------------------- MODULE HeapPaths -----------------------------
(***************************************************************************)
(* Why an object is in memory (hprof_report.py, HeapDump.strong_edge and   *)
(* path_to_root): the shortest path from a GC root to it, searched         *)
(* backwards from the object over the references to it.  Links that keep   *)
(* nothing alive are passed only if there is no other way, and a search    *)
(* that has come to too many objects is given up.                          *)
(*                                                                         *)
(* Vertices are the objects reached from the roots, 0 the root of all      *)
(* roots, which refers to the GC roots and to nothing else.                *)
(***************************************************************************)
EXTENDS HeapFile

CONSTANT MaxVisit  \* vertices after which a search is given up (500000)

ASSUME HeapPathsAssumption == MaxVisit \in Nat \ {0}

VARIABLES
    vertex,   \* vertex -> node, by compute_dominators
    preds,    \* vertex -> the vertices that refer to it, by compute_dominators
    hunt,     \* path_to_root: "idle", "look", "trace" (the path is built), "shown"
    goal,     \* d, the vertex a path is asked for
    strict,   \* weak links are not passed
    nxtOf,    \* vertex come to -> the vertex after it on the way to the goal
    frontier, \* vertices of this layer not looked at yet
    fresh,    \* new: vertices of the next layer
    chain,    \* path, the vertices from a root to the goal
    gaveUp    \* history: the searches (their values of strict) ended by MaxVisit

pathVars == <<hunt, goal, strict, nxtOf, frontier, fresh, chain, gaveUp>>

Found == DOMAIN vertex

PathsIdle ==
    /\ hunt = "idle" /\ goal = 0 /\ strict = FALSE
    /\ nxtOf = <<>> /\ frontier = {} /\ fresh = {} /\ chain = <<>> /\ gaveUp = {}

\* Finitely many objects with any references between them.
PathsInit ==
    /\ phase = "done" /\ PathsIdle
    /\ IsFiniteSet(Found) /\ preds \in [Found -> SUBSET Found]

-----------------------------------------------------------------------------
\* An instance holds an object by a field; a Reference does not by "referent",
\* and no instance does only because the object is its class.
StrongEdge(u, v) ==
    LET row == table[u]
        fields == RefFields(row.cls)
        names == {fields[i] : i \in {j \in DOMAIN fields : row.refs[j] = table[v].id}}
    IN  \/ row.tag # "instance"
        \/ names # {} /\ ~(IsReference(row.cls) /\ names = {"referent"})

\* Mutant: the strict search passes weak links too.
AnyPassable(u, v, only) == TRUE

Passable(u, v, only) == only => StrongEdge(vertex[u], vertex[v])

StartFrom(d, only) ==
    /\ strict' = only
    /\ nxtOf' = [x \in {d} |-> -1] /\ frontier' = {} /\ fresh' = {d}

AskPath(d) ==
    /\ phase = "done" /\ hunt \in {"idle", "shown"}
    /\ goal' = d /\ StartFrom(d, TRUE)
    /\ hunt' = "look" /\ chain' = <<>> /\ gaveUp' = {}

\* The while loop goes on with the next layer.
NextLayer ==
    /\ hunt = "look" /\ frontier = {}
    /\ fresh # {} /\ Cardinality(DOMAIN nxtOf) < MaxVisit
    /\ frontier' = fresh /\ fresh' = {}
    /\ UNCHANGED <<hunt, goal, strict, nxtOf, chain, gaveUp>>

\* The predecessors of v come in ascending order, 0 first.  (The order of v among
\* its layer decides between paths of one length.)
LookAt(v) ==
    /\ hunt = "look" /\ v \in frontier
    /\ frontier' = frontier \ {v}
    /\ IF 0 \in preds[v]
       THEN /\ hunt' = "trace" /\ chain' = <<v>>
            /\ UNCHANGED <<nxtOf, fresh>>
       ELSE LET new == {u \in preds[v] : u \notin DOMAIN nxtOf /\ Passable(u, v, strict)} IN
            /\ nxtOf' = [u \in DOMAIN nxtOf \cup new |-> IF u \in new THEN v ELSE nxtOf[u]]
            /\ fresh' = fresh \cup new
            /\ UNCHANGED <<hunt, chain>>
    /\ UNCHANGED <<goal, strict, gaveUp>>

\* Nothing was found: once more with weak links, then None.
EndLook ==
    /\ hunt = "look" /\ frontier = {}
    /\ fresh = {} \/ Cardinality(DOMAIN nxtOf) >= MaxVisit
    /\ gaveUp' = IF fresh = {} THEN gaveUp ELSE gaveUp \cup {strict}
    /\ IF strict THEN StartFrom(goal, FALSE) /\ UNCHANGED hunt
       ELSE hunt' = "shown" /\ UNCHANGED <<strict, nxtOf, frontier, fresh>>
    /\ UNCHANGED <<goal, chain>>

Trace ==
    /\ hunt = "trace"
    /\ LET x == chain[Len(chain)] IN
       IF x = goal THEN hunt' = "shown" /\ UNCHANGED chain
       ELSE chain' = Append(chain, nxtOf[x]) /\ UNCHANGED hunt
    /\ UNCHANGED <<goal, strict, nxtOf, frontier, fresh, gaveUp>>

PathsNext ==
    /\ \/ \E d \in Found \ {0} : AskPath(d)
       \/ NextLayer \/ EndLook \/ Trace
       \/ \E v \in frontier : LookAt(v)
    /\ UNCHANGED <<fileVars, vertex, preds>>

pathsAll == <<fileVars, vertex, preds, pathVars>>

PathsSpec == PathsInit /\ [][PathsNext]_pathsAll

-----------------------------------------------------------------------------
\* q is a path of n vertices from a GC root to d; if only is set, no link on it
\* is weak.
IsPath(q, n, d, only) ==
    /\ 0 \in preds[q[1]] /\ q[n] = d
    /\ \A i \in 1..(n - 1) :
         q[i] \in preds[q[i + 1]] /\ (only => StrongEdge(vertex[q[i]], vertex[q[i + 1]]))

NoPath(n, d, only) == \A q \in [1..n -> Found \ {0}] : ~IsPath(q, n, d, only)

\* The path shown for an object leads there from a GC root, is as short as any of
\* its kind, and passes a weak link only if no path does without; none is shown only
\* if there is none.  Where a search was given up, the last two are not known.
PathsAreShortest ==
    hunt = "shown" =>
        /\ chain # <<>> => /\ IsPath(chain, Len(chain), goal, strict)
                           /\ \A n \in 1..(Len(chain) - 1) : NoPath(n, goal, strict)
        /\ ~strict /\ TRUE \notin gaveUp =>
              \A n \in 1..Cardinality(Found) : NoPath(n, goal, TRUE)
        /\ chain = <<>> /\ FALSE \notin gaveUp =>
              \A n \in 1..Cardinality(Found) : NoPath(n, goal, FALSE)
=============================================================================
