---------------------------- MODULE Heap_proofs ----------------------------
(***************************************************************************)
(* Proofs about the heap reports, for any dump, wherever it is cut, any    *)
(* objects and any references: the table has each object once, the search  *)
(* numbers each object that is reached once, the tree of Lengauer and      *)
(* Tarjan is that of the dominators, retained sizes are what would be      *)
(* freed, and the path shown is a shortest one.                            *)
(*                                                                         *)
(* First the theory of dominators, about any tree and any predecessors and *)
(* without the variables of the program; then the reading of a dump, the   *)
(* paths, and the invariant of compute_dominators that uses the theory.    *)
(***************************************************************************)
EXTENDS HeapGraph, SequenceTheorems, FiniteSetTheorems, WellFoundedInduction, TLAPS

\* The order of the natural numbers, of which every part below takes a least one.
NatLess == {p \in Nat \X Nat : p[1] < p[2]}

LEMMA NatLessDown == IsWellFoundedOn(NatLess, Nat)
BY NatLessThanWellFounded DEF OpToRel, NatLess

LEMMA LeastOf ==
    ASSUME NEW T \in SUBSET Nat, T # {} PROVE \E m \in T : \A k \in T : m <= k
<1>1. PICK m \in T : \A k \in T : ~(<<k, m>> \in NatLess)
  BY NatLessDown, WFMin
<1>2. \A k \in T : m \in Nat /\ k \in Nat /\ ~(k < m)
  <2> TAKE k \in T
  <2>1. <<k, m>> \in Nat \X Nat /\ <<k, m>> \notin NatLess
    BY <1>1
  <2> QED
    BY <2>1 DEF NatLess
<1> QED
  BY <1>2

-----------------------------------------------------------------------------
(***************************************************************************)
(* Dominators.  First the tree that a depth first search leaves: par[v] is *)
(* the parent of v, n the number of vertices.  The vertices above v are    *)
(* those in every set that holds v and goes up to the root.                *)
(***************************************************************************)
Upward(par, S) == \A x \in S : x # 0 => par[x] \in S

Above(par, u, v) ==
    /\ u \in DOMAIN par /\ v \in DOMAIN par
    /\ \A S \in SUBSET DOMAIN par : v \in S /\ Upward(par, S) => u \in S

IsTree(par, n) ==
    /\ n \in Nat \ {0} /\ par \in [0..(n - 1) -> 0..(n - 1)]
    /\ \A v \in 1..(n - 1) : par[v] < v

LEMMA AboveSelf ==
    ASSUME NEW par, NEW v \in DOMAIN par PROVE Above(par, v, v)
BY DEF Above

LEMMA AboveTrans ==
    ASSUME NEW par, NEW u, NEW v, NEW x, Above(par, u, v), Above(par, v, x)
    PROVE  Above(par, u, x)
BY DEF Above

LEMMA AboveRoot ==
    ASSUME NEW par, NEW u, Above(par, u, 0) PROVE u = 0
<1>1. Upward(par, {0}) /\ {0} \in SUBSET DOMAIN par
  BY DEF Upward, Above
<1> QED
  BY <1>1 DEF Above

\* Whatever is above v is v or above its parent.
LEMMA AboveStep ==
    ASSUME NEW par, NEW n, IsTree(par, n), NEW u, NEW v \in 1..(n - 1)
    PROVE  Above(par, u, v) <=> u = v \/ Above(par, u, par[v])
<1>1. DOMAIN par = 0..(n - 1) /\ v \in DOMAIN par /\ par[v] \in DOMAIN par /\ v # 0
  BY DEF IsTree
<1>2. ASSUME Above(par, u, par[v]) PROVE Above(par, u, v)
  <2>1. ASSUME NEW S \in SUBSET DOMAIN par, v \in S, Upward(par, S) PROVE u \in S
    BY <1>1, <1>2, <2>1 DEF Above, Upward
  <2> QED
    BY <1>1, <1>2, <2>1 DEF Above
<1>3. ASSUME Above(par, u, v), u # v PROVE Above(par, u, par[v])
  <2>1. ASSUME NEW S \in SUBSET DOMAIN par, par[v] \in S, Upward(par, S) PROVE u \in S
    <3>1. Upward(par, S \cup {v}) /\ S \cup {v} \in SUBSET DOMAIN par
      BY <1>1, <2>1 DEF Upward
    <3> QED
      BY <3>1, <1>3 DEF Above
  <2> QED
    BY <1>1, <1>3, <2>1 DEF Above
<1>4. Above(par, v, v)
  BY <1>1, AboveSelf
<1> QED
  BY <1>2, <1>3, <1>4

LEMMA AboveLeq ==
    ASSUME NEW par, NEW n, IsTree(par, n), NEW u, NEW v, Above(par, u, v)
    PROVE  u \in 0..(n - 1) /\ v \in 0..(n - 1) /\ u <= v
<1>1. DOMAIN par = 0..(n - 1) /\ n \in Nat \ {0} /\ u \in 0..(n - 1) /\ v \in 0..(n - 1)
  BY DEF IsTree, Above
<1> DEFINE S == 0..v
<1>2. Upward(par, S)
  <2> SUFFICES ASSUME NEW x \in S, x # 0 PROVE par[x] \in S
    BY DEF Upward
  <2>1. x \in 1..(n - 1) /\ par[x] < x /\ par[x] \in 0..(n - 1)
    BY <1>1 DEF IsTree
  <2> QED
    BY <1>1, <2>1
<1>3. u \in S
  BY <1>1, <1>2 DEF Above
<1> QED
  BY <1>1, <1>3

LEMMA RootAbove ==
    ASSUME NEW par, NEW n, IsTree(par, n), NEW v \in 0..(n - 1) PROVE Above(par, 0, v)
<1>1. DOMAIN par = 0..(n - 1) /\ n \in Nat \ {0}
  BY DEF IsTree
<1> SUFFICES ASSUME NEW S \in SUBSET DOMAIN par, v \in S, Upward(par, S) PROVE 0 \in S
  BY <1>1 DEF Above
<1>2. PICK m \in S : \A k \in S : m <= k
  <2>1. S \in SUBSET Nat /\ S # {}
    BY <1>1
  <2> QED
    BY <2>1, LeastOf
<1>3. m # 0 => par[m] \in S /\ par[m] < m /\ m \in Nat /\ par[m] \in Nat
  BY <1>1 DEF Upward, IsTree
<1> QED
  BY <1>2, <1>3

\* What is above one vertex is a line.
LEMMA AboveLine ==
    ASSUME NEW par, NEW n, IsTree(par, n), NEW a, NEW b, NEW v,
           Above(par, a, v), Above(par, b, v), a <= b
    PROVE  Above(par, a, b)
<1>1. n \in Nat /\ v \in 0..(n - 1) /\ a \in 0..(n - 1) /\ b \in 0..(n - 1)
  BY AboveLeq DEF IsTree
<1> DEFINE T == {x \in 0..(n - 1) : Above(par, a, x) /\ Above(par, b, x)}
<1>2. PICK m \in T : \A k \in T : m <= k
  <2>1. T \in SUBSET Nat /\ v \in T
    BY <1>1
  <2> HIDE DEF T
  <2> QED
    BY <2>1, LeastOf
<1>3. m \in 0..(n - 1) /\ Above(par, a, m) /\ Above(par, b, m)
  OBVIOUS
<1>4. CASE b = m
  BY <1>3, <1>4
<1>5. CASE b # m
  <2>1. m # 0
    BY <1>3, <1>5, AboveRoot
  <2>2. m \in 1..(n - 1) /\ par[m] < m /\ par[m] \in 0..(n - 1)
    BY <1>1, <1>3, <2>1 DEF IsTree
  <2>3. Above(par, b, par[m])
    BY <1>3, <1>5, <2>2, AboveStep
  <2>4. b <= par[m]
    BY <2>3, AboveLeq
  <2>5. a # m
    BY <1>1, <2>2, <2>4
  <2>6. Above(par, a, par[m])
    BY <1>3, <2>2, <2>5, AboveStep
  <2>7. par[m] \in T
    BY <2>2, <2>3, <2>6
  <2> QED
    BY <1>2, <2>2, <2>7
<1> QED
  BY <1>4, <1>5

\* Of two vertices one properly above the other, the upper one has a child above the other.
LEMMA ChildAbove ==
    ASSUME NEW par, NEW n, IsTree(par, n), NEW d, NEW v, Above(par, d, v), v # d
    PROVE  \E c \in 1..(n - 1) : par[c] = d /\ Above(par, c, v)
<1>0. n \in Nat \ {0} /\ DOMAIN par = 0..(n - 1) /\ d \in 0..(n - 1) /\ v \in 0..(n - 1)
  BY DEF IsTree, Above
<1> DEFINE T == {x \in 0..(n - 1) : Above(par, d, x) /\ Above(par, x, v) /\ x # d}
<1>1. PICK c \in T : \A x \in T : c <= x
  <2>1. T \in SUBSET Nat /\ v \in T
    BY <1>0, AboveSelf
  <2> HIDE DEF T
  <2> QED
    BY <2>1, LeastOf
<1>2. c \in 0..(n - 1) /\ Above(par, d, c) /\ Above(par, c, v) /\ c # d
  OBVIOUS
<1>3. c \in 1..(n - 1)
  BY <1>0, <1>2, AboveRoot
<1>4. par[c] \in 0..(n - 1) /\ par[c] < c /\ Above(par, d, par[c])
  BY <1>2, <1>3, AboveStep DEF IsTree
<1>5. Above(par, par[c], v)
  <2>1. Above(par, par[c], c)
    BY <1>0, <1>3, <1>4, AboveStep, AboveSelf
  <2> QED
    BY <1>2, <2>1, AboveTrans
<1>6. par[c] = d
  <2>1. par[c] \notin T
    BY <1>1, <1>3, <1>4
  <2> QED
    BY <2>1, <1>4, <1>5
<1> QED
  BY <1>2, <1>3, <1>6

\* A vertex hung under another one leaves the rest of the tree as it was.
Hung(par, n, t) == [x \in 0..n |-> IF x = n THEN t ELSE par[x]]

LEMMA HungIsTree ==
    ASSUME NEW par, NEW n, IsTree(par, n), NEW t \in 0..(n - 1)
    PROVE  /\ IsTree(Hung(par, n, t), n + 1)
           /\ \A u, v \in 0..(n - 1) : Above(Hung(par, n, t), u, v) <=> Above(par, u, v)
           /\ \A u \in 0..(n - 1) : Above(Hung(par, n, t), u, n) <=> Above(par, u, t)
           /\ Above(Hung(par, n, t), n, n)
           /\ \A v \in 0..(n - 1) : ~Above(Hung(par, n, t), n, v)
<1> DEFINE more == Hung(par, n, t)
<1>0. n \in Nat \ {0} /\ par \in [0..(n - 1) -> 0..(n - 1)] /\ \A v \in 1..(n - 1) : par[v] < v
  BY DEF IsTree
<1>1. /\ DOMAIN more = 0..n /\ more[n] = t /\ n \notin 0..(n - 1)
      /\ 0..(n - 1) \subseteq 0..n /\ 0..n = 0..(n - 1) \cup {n}
      /\ \A x \in 0..(n - 1) : more[x] = par[x]
  BY <1>0 DEF Hung
<1>2. IsTree(more, n + 1)
  <2>1. n + 1 \in Nat \ {0} /\ n + 1 - 1 = n
    BY <1>0
  <2>2. more \in [0..n -> 0..n]
    BY <1>0 DEF Hung
  <2>3. \A v \in 1..n : more[v] < v
    BY <1>0 DEF Hung
  <2> HIDE DEF more
  <2>4. PICK k : k = n + 1
    OBVIOUS
  <2>5. k \in Nat \ {0} /\ k - 1 = n
    BY <1>0, <2>4
  <2>6. IsTree(more, k)
    BY <2>2, <2>3, <2>5 DEF IsTree
  <2> QED
    BY <2>4, <2>6
<1> HIDE DEF more
<1>3. ASSUME NEW u \in 0..(n - 1), NEW v \in 0..(n - 1)
      PROVE  Above(more, u, v) <=> Above(par, u, v)
  <2>1. ASSUME Above(par, u, v), NEW S \in SUBSET (0..n), v \in S, Upward(more, S) PROVE u \in S
    <3> DEFINE S2 == S \cap 0..(n - 1)
    <3>1. S2 \in SUBSET DOMAIN par /\ v \in S2 /\ Upward(par, S2)
      BY <1>0, <1>1, <2>1 DEF Upward
    <3> QED
      BY <2>1, <3>1 DEF Above
  <2>2. ASSUME Above(more, u, v), NEW S \in SUBSET (0..(n - 1)), v \in S, Upward(par, S) PROVE u \in S
    <3>1. S \in SUBSET DOMAIN more /\ Upward(more, S)
      BY <1>1, <2>2 DEF Upward
    <3> QED
      BY <2>2, <3>1 DEF Above
  <2>3. DOMAIN par = 0..(n - 1)
    BY <1>0
  <2> QED
    BY <1>1, <2>1, <2>2, <2>3 DEF Above
<1>4. ASSUME NEW u \in 0..(n - 1) PROVE Above(more, u, n) <=> Above(par, u, t)
  <2>1. n \in 1..(n + 1 - 1)
    BY <1>0
  <2>2. Above(more, u, n) <=> u = n \/ Above(more, u, more[n])
    BY <1>2, <2>1, AboveStep
  <2> QED
    BY <1>1, <1>3, <2>2
<1>5. Above(more, n, n)
  BY <1>0, <1>1, AboveSelf
<1>6. ASSUME NEW v \in 0..(n - 1), Above(more, n, v) PROVE FALSE
  <2>1. n <= v
    BY <1>2, <1>6, AboveLeq
  <2> QED
    BY <1>0, <2>1
<1> QED
  BY <1>2, <1>3, <1>4, <1>5, <1>6 DEF more

LEMMA GreatestOf ==
    ASSUME NEW m \in Nat, NEW T \in SUBSET (0..m), T # {} PROVE \E x \in T : \A k \in T : k <= x
<1> DEFINE U == {l \in 0..m : m - l \in T}
<1>1. U \in SUBSET Nat /\ U # {}
  <2>1. PICK x \in T : TRUE
    OBVIOUS
  <2>2. m - x \in 0..m /\ m - (m - x) = x
    OBVIOUS
  <2> QED
    BY <2>1, <2>2
<1>2. PICK l \in U : \A k \in U : l <= k
  <2> HIDE DEF U
  <2> QED
    BY <1>1, LeastOf
<1>3. l \in 0..m /\ m - l \in T
  OBVIOUS
<1>4. ASSUME NEW k \in T PROVE k <= m - l
  <2>1. m - k \in 0..m /\ m - (m - k) = k
    OBVIOUS
  <2>2. m - k \in U
    BY <2>1
  <2>3. l <= m - k
    BY <1>2, <2>2
  <2> QED
    BY <2>3, <1>3
<1> QED
  BY <1>3, <1>4

-----------------------------------------------------------------------------
(***************************************************************************)
(* Dominators, without the algorithm: pre[v] are the vertices that refer   *)
(* to v.  In a depth first search a vertex found between another and one   *)
(* below it is below it too, and a reference to a vertex found later goes  *)
(* down the tree.                                                          *)
(***************************************************************************)
DepthFirst(par, pre, n) ==
    /\ IsTree(par, n)
    /\ pre \in [0..(n - 1) -> SUBSET (0..(n - 1))]
    /\ \A v \in 1..(n - 1) : par[v] \in pre[v]
    /\ \A a, x, y \in 0..(n - 1) : Above(par, a, x) /\ a <= y /\ y <= x => Above(par, a, y)
    /\ \A v \in 0..(n - 1) : \A u \in pre[v] : u < v => Above(par, u, v)

\* What makes sd[v] the semidominator of v: it is as low as any predecessor gives,
\* and a predecessor gives it.
SemiLow(par, pre, sd, v) ==
    \A u \in pre[v] :
        /\ u < v => sd[v] <= u
        /\ \A x : Above(par, x, u) /\ x > v => sd[v] <= sd[x]

SemiFrom(par, pre, sd, v, val) ==
    \/ val \in pre[v]
    \/ \E u \in pre[v] : \E x : Above(par, x, u) /\ x > v /\ val = sd[x]

SemiOk(par, pre, n, sd) ==
    /\ sd \in [0..(n - 1) -> 0..(n - 1)]
    /\ \A v \in 1..(n - 1) :
          /\ sd[v] < v /\ Above(par, sd[v], v)
          /\ SemiLow(par, pre, sd, v) /\ SemiFrom(par, pre, sd, v, sd[v])

\* A set in which one stays without d.
StaysIn(pre, n, d, S) ==
    /\ S \in SUBSET ((0..(n - 1)) \ {d})
    /\ {0} \ {d} \subseteq S
    /\ \A v \in (0..(n - 1)) \ {d} : pre[v] \cap S # {} => v \in S

\* The set that shows d to be a dominator of all vertices not in it: those found before
\* d, and those below a vertex that is entered from there.
Around(par, n, sd, d) ==
    {z \in 0..(n - 1) : z < d \/ \E y \in 0..(n - 1) : Above(par, y, z) /\ y > d /\ sd[y] < d}

LEMMA AroundStays ==
    ASSUME NEW par, NEW pre, NEW n, DepthFirst(par, pre, n), NEW sd, SemiOk(par, pre, n, sd),
           NEW d \in 0..(n - 1)
    PROVE  StaysIn(pre, n, d, Around(par, n, sd, d))
<1> DEFINE V == 0..(n - 1)
           R == Around(par, n, sd, d)
<1>0. n \in Nat \ {0} /\ IsTree(par, n) /\ DOMAIN par = V /\ sd \in [V -> V] /\ 0 \in V
  <2>1. n \in Nat \ {0} /\ IsTree(par, n) /\ DOMAIN par = V
    BY DEF DepthFirst, IsTree
  <2>2. sd \in [V -> V]
    BY DEF SemiOk
  <2> QED
    BY <2>1, <2>2
<1>1. R \in SUBSET V /\ d \notin R
  <2>1. ASSUME NEW y \in V, Above(par, y, d) PROVE ~(y > d)
    BY <1>0, <2>1, AboveLeq
  <2> QED
    BY <1>0, <2>1 DEF Around
<1>2. {0} \ {d} \subseteq R
  BY <1>0 DEF Around
<1>3. ASSUME NEW z \in V \ {d}, NEW v \in pre[z], v \in R PROVE z \in R
  <2>0. v \in V /\ v # d /\ pre[z] \in SUBSET V
    BY <1>1, <1>3 DEF DepthFirst
  <2>1. CASE z < d
    BY <1>3, <2>1 DEF Around
  <2>2. CASE z > d /\ v < d
    <3>1. z \in 1..(n - 1) /\ v < z
      BY <1>0, <2>0, <2>2
    <3>2. sd[z] <= v
      BY <3>1, <1>3 DEF SemiOk, SemiLow
    <3>3. sd[z] < d
      <4>1. sd[z] \in Nat /\ v \in Nat /\ d \in Nat
        BY <1>0, <2>0
      <4> QED
        BY <4>1, <2>2, <3>2
    <3>4. Above(par, z, z)
      BY <1>0, AboveSelf
    <3> QED
      BY <2>2, <3>3, <3>4 DEF Around
  <2>3. CASE z > d /\ v > d
    <3>1. PICK y \in V : Above(par, y, v) /\ y > d /\ sd[y] < d
      BY <1>0, <2>0, <2>3, <1>3 DEF Around
    <3>2. CASE v <= z
      <4>1. v < z => Above(par, v, z)
        BY <1>3 DEF DepthFirst
      <4>2. v = z \/ v < z
        BY <1>0, <2>0, <3>2
      <4>3. Above(par, y, z)
        BY <3>1, <4>1, <4>2, AboveTrans
      <4> QED
        BY <3>1, <4>3 DEF Around
    <3>3. CASE z < v /\ y > z
      <4>1. z \in 1..(n - 1)
        BY <1>0, <2>3
      <4>2. sd[z] <= sd[y]
        BY <1>0, <1>3, <3>1, <3>3, <4>1 DEF SemiOk, SemiLow
      <4>3. sd[z] < d /\ Above(par, z, z)
        BY <1>0, <3>1, <4>2, AboveSelf
      <4> QED
        BY <2>3, <4>3 DEF Around
    <3>4. CASE z < v /\ y <= z
      <4>1. Above(par, y, z)
        BY <2>0, <3>1, <3>4 DEF DepthFirst
      <4> QED
        BY <3>1, <4>1 DEF Around
    <3> QED
      BY <1>0, <2>0, <3>2, <3>3, <3>4
  <2> QED
    BY <1>0, <2>0, <1>3, <2>1, <2>2, <2>3
<1> QED
  BY <1>1, <1>2, <1>3 DEF StaysIn

\* Down the tree one stays, past vertices other than d.
LEMMA StaysDown ==
    ASSUME NEW par, NEW pre, NEW n, DepthFirst(par, pre, n), NEW d, NEW S, StaysIn(pre, n, d, S),
           NEW u \in S, NEW v, Above(par, u, v),
           \A x \in 0..(n - 1) : Above(par, u, x) /\ Above(par, x, v) => x # d
    PROVE  v \in S
<1>0. n \in Nat \ {0} /\ IsTree(par, n) /\ DOMAIN par = 0..(n - 1) /\ v \in 0..(n - 1)
  BY AboveLeq DEF DepthFirst, IsTree
<1> DEFINE T == {x \in 0..(n - 1) : Above(par, u, x) /\ Above(par, x, v) /\ x \notin S}
<1>1. SUFFICES ASSUME T # {} PROVE FALSE
  BY <1>0, AboveSelf
<1>2. PICK m \in T : \A k \in T : m <= k
  <2>1. T \in SUBSET Nat
    BY <1>0
  <2> HIDE DEF T
  <2> QED
    BY <1>1, <2>1, LeastOf
<1>3. m \in 0..(n - 1) /\ m # u /\ m # 0
  <2>1. m = 0 => u = 0
    BY <1>2, AboveRoot
  <2> QED
    BY <1>2, <2>1
<1>4. m \in 1..(n - 1) /\ par[m] \in 0..(n - 1) /\ par[m] < m /\ par[m] \in pre[m]
  BY <1>0, <1>3 DEF IsTree, DepthFirst
<1>5. Above(par, u, par[m]) /\ Above(par, par[m], v)
  <2>1. Above(par, par[m], m)
    BY <1>0, <1>4, AboveStep, AboveSelf
  <2> QED
    BY <1>0, <1>2, <1>3, <1>4, <2>1, AboveStep, AboveTrans
<1>6. par[m] \in S
  BY <1>2, <1>4, <1>5
<1>7. m # d
  BY <1>2
<1>8. m \in S
  BY <1>3, <1>4, <1>6, <1>7 DEF StaysIn
<1> QED
  BY <1>2, <1>8

\* From its semidominator a vertex is reached past higher ones.
LEMMA StaysFromSemi ==
    ASSUME NEW par, NEW pre, NEW n, DepthFirst(par, pre, n), NEW sd, SemiOk(par, pre, n, sd),
           NEW d \in 0..(n - 1), NEW S, StaysIn(pre, n, d, S),
           NEW v \in 1..(n - 1), d < v, sd[v] \in S
    PROVE  v \in S
<1>0. n \in Nat \ {0} /\ IsTree(par, n) /\ DOMAIN par = 0..(n - 1)
  BY DEF DepthFirst, IsTree
<1> DEFINE T == {x \in 1..(n - 1) : d < x /\ sd[x] \in S /\ x \notin S}
<1>1. SUFFICES ASSUME T # {} PROVE FALSE
  OBVIOUS
<1>2. PICK m \in T : \A k \in T : k <= m
  <2>1. n - 1 \in Nat /\ T \in SUBSET (0..(n - 1))
    BY <1>0
  <2> HIDE DEF T
  <2> QED
    BY <1>1, <2>1, GreatestOf
<1>3. m \in 1..(n - 1) /\ d < m /\ sd[m] \in S /\ m \notin S
  OBVIOUS
<1>4. pre[m] \cap S = {}
  BY <1>0, <1>3 DEF StaysIn
<1>5. SemiFrom(par, pre, sd, m, sd[m])
  BY <1>3 DEF SemiOk
<1>6. sd[m] \notin pre[m]
  BY <1>3, <1>4
<1>7. PICK u, x : u \in pre[m] /\ Above(par, x, u) /\ x > m /\ sd[m] = sd[x]
  BY <1>5, <1>6 DEF SemiFrom
<1>8. x \in 1..(n - 1) /\ d < x
  <2>1. x \in 0..(n - 1)
    BY <1>0, <1>7, AboveLeq
  <2> QED
    BY <2>1, <1>3, <1>7
<1>9. x \in S
  <2>1. x \notin T
    BY <1>2, <1>3, <1>7, <1>8
  <2> QED
    BY <2>1, <1>3, <1>7, <1>8
<1>10. \A y \in 0..(n - 1) : Above(par, x, y) /\ Above(par, y, u) => y # d
  BY <1>0, <1>8, AboveLeq
<1>11. u \in S
  BY <1>7, <1>9, <1>10, StaysDown
<1> QED
  BY <1>4, <1>7, <1>11

-----------------------------------------------------------------------------
(***************************************************************************)
(* The dominator.  Of the vertices above v and below its semidominator, y  *)
(* has the least semidominator: it is that of v, or v has y's dominator.   *)
(***************************************************************************)
LowestOn(par, sd, y, v) ==
    /\ Above(par, y, v) /\ y > sd[v]
    /\ \A z : Above(par, z, v) /\ z > sd[v] => sd[y] <= sd[z]

\* d is the immediate dominator of v: v cannot be reached without d, and what
\* v cannot be reached without, d cannot be reached without.
IsDom(par, pre, n, sd, d, v) ==
    /\ d \in 0..(n - 1) /\ d < v /\ d <= sd[v]
    /\ v \notin Around(par, n, sd, d)
    /\ \A e \in (0..(n - 1)) \ {v} : \A S : StaysIn(pre, n, e, S) /\ d \in S => v \in S

LEMMA StaysDownBefore ==
    ASSUME NEW par, NEW pre, NEW n, DepthFirst(par, pre, n), NEW d \in 0..(n - 1),
           NEW S, StaysIn(pre, n, d, S), NEW v \in 0..(n - 1), v < d
    PROVE  v \in S
<1>0. n \in Nat \ {0} /\ IsTree(par, n)
  BY DEF DepthFirst, IsTree
<1>1. 0 \in S /\ Above(par, 0, v)
  BY <1>0, RootAbove DEF StaysIn
<1>2. ASSUME NEW x \in 0..(n - 1), Above(par, x, v) PROVE x # d
  BY <1>0, <1>2, AboveLeq
<1> QED
  BY <1>1, <1>2, StaysDown

LEMMA SemiIsDom ==
    ASSUME NEW par, NEW pre, NEW n, DepthFirst(par, pre, n), NEW sd, SemiOk(par, pre, n, sd),
           NEW v \in 1..(n - 1), NEW y, LowestOn(par, sd, y, v), sd[y] = sd[v]
    PROVE  IsDom(par, pre, n, sd, sd[v], v)
<1>0. n \in Nat \ {0} /\ IsTree(par, n) /\ DOMAIN par = 0..(n - 1)
  BY DEF DepthFirst, IsTree
<1>1. sd[v] \in 0..(n - 1) /\ sd[v] < v /\ sd \in [0..(n - 1) -> 0..(n - 1)] /\ v \in 0..(n - 1)
  BY DEF SemiOk
<1>2. v \notin Around(par, n, sd, sd[v])
  <2>1. ASSUME NEW q \in 0..(n - 1), Above(par, q, v), q > sd[v] PROVE ~(sd[q] < sd[v])
    <3>1. sd[v] <= sd[q]
      BY <1>0, <2>1 DEF LowestOn
    <3> QED
      BY <3>1, <1>1
  <2> QED
    BY <2>1, <1>1 DEF Around
<1>3. ASSUME NEW e \in (0..(n - 1)) \ {v}, NEW S, StaysIn(pre, n, e, S), sd[v] \in S
      PROVE  v \in S
  <2>1. CASE e < v
    BY <1>3, <2>1, StaysFromSemi
  <2>2. CASE v < e
    BY <1>1, <1>3, <2>2, StaysDownBefore
  <2> QED
    BY <1>0, <2>1, <2>2
<1> QED
  BY <1>1, <1>2, <1>3 DEF IsDom

LEMMA LowestIsDom ==
    ASSUME NEW par, NEW pre, NEW n, DepthFirst(par, pre, n), NEW sd, SemiOk(par, pre, n, sd),
           NEW v \in 1..(n - 1), NEW y, LowestOn(par, sd, y, v), sd[y] # sd[v],
           NEW d, IsDom(par, pre, n, sd, d, y)
    PROVE  IsDom(par, pre, n, sd, d, v)
<1>0. n \in Nat \ {0} /\ IsTree(par, n) /\ DOMAIN par = 0..(n - 1)
  BY DEF DepthFirst, IsTree
<1>1. sd[v] \in 0..(n - 1) /\ sd[v] < v /\ sd \in [0..(n - 1) -> 0..(n - 1)] /\ v \in 0..(n - 1)
  BY DEF SemiOk
<1>2. Above(par, y, v) /\ y > sd[v] /\ y \in 0..(n - 1) /\ y <= v
  BY <1>0, AboveLeq DEF LowestOn
<1>3. sd[y] < sd[v] /\ sd[y] \in 0..(n - 1)
  <2>1. sd[y] <= sd[v]
    BY <1>0, <1>1, AboveSelf DEF LowestOn
  <2>2. sd[y] \in 0..(n - 1)
    BY <1>1, <1>2
  <2> QED
    BY <2>1, <2>2, <1>1
<1>4. d \in 0..(n - 1) /\ d < y /\ d <= sd[y] /\ y \notin Around(par, n, sd, d)
  BY DEF IsDom
<1>5. d < v /\ d <= sd[v]
  BY <1>1, <1>2, <1>3, <1>4
<1>6. v \notin Around(par, n, sd, d)
  <2>1. ASSUME NEW q \in 0..(n - 1), Above(par, q, v), q > d, sd[q] < d PROVE FALSE
    <3>1. CASE q > sd[v]
      <4>1. sd[y] <= sd[q]
        BY <1>0, <2>1, <3>1 DEF LowestOn
      <4>2. sd[q] \in 0..(n - 1)
        BY <1>1
      <4> QED
        BY <4>1, <4>2, <2>1, <1>3, <1>4
    <3>2. CASE q <= sd[v]
      <4>1. q <= y
        BY <1>1, <1>2, <3>2
      <4>2. Above(par, q, y)
        BY <1>0, <1>2, <2>1, <4>1, AboveLine
      <4> QED
        BY <4>2, <1>2, <1>4, <2>1 DEF Around
    <3> QED
      BY <1>1, <3>1, <3>2
  <2>2. ~(v < d)
    BY <1>1, <1>4, <1>5
  <2> QED
    BY <2>1, <2>2 DEF Around
<1>7. ASSUME NEW e \in (0..(n - 1)) \ {v}, NEW S, StaysIn(pre, n, e, S), d \in S
      PROVE  v \in S
  <2>1. CASE v < e
    BY <1>1, <1>7, <2>1, StaysDownBefore
  <2>2. CASE sd[v] < e /\ e < v
    <3>1. sd[v] \in S
      BY <1>1, <1>7, <2>2, StaysDownBefore
    <3> QED
      BY <1>7, <2>2, <3>1, StaysFromSemi
  <2>3. CASE e <= sd[v]
    <3>1. e # y /\ e < y
      <4>1. e \in Int /\ sd[v] \in Int /\ y \in Int /\ sd[v] < y
        BY <1>1, <1>2
      <4> QED
        BY <4>1, <2>3
    <3>2. y \in S
      BY <1>7, <3>1 DEF IsDom
    <3>3. ASSUME NEW x \in 0..(n - 1), Above(par, y, x) PROVE x # e
      BY <1>0, <1>2, <3>1, <3>3, AboveLeq
    <3> QED
      BY <1>2, <1>7, <3>2, <3>3, StaysDown
  <2> QED
    BY <1>0, <1>1, <2>1, <2>2, <2>3
<1> QED
  BY <1>4, <1>5, <1>6, <1>7 DEF IsDom

-----------------------------------------------------------------------------
(***************************************************************************)
(* Retained sizes: the dominators make a tree as well, and a vertex is      *)
(* dominated by those above it there.                                       *)
(***************************************************************************)
\* v cannot be reached without d.
Needs(pre, n, d, v) == \E S : StaysIn(pre, n, d, S) /\ v \notin S

DomTree(par, pre, n, sd, idm) ==
    /\ idm \in [0..(n - 1) -> 0..(n - 1)] /\ idm[0] = 0
    /\ \A v \in 1..(n - 1) : IsDom(par, pre, n, sd, idm[v], v)

LEMMA DomTreeIsTree ==
    ASSUME NEW par, NEW pre, NEW n, DepthFirst(par, pre, n), NEW sd, NEW idm,
           DomTree(par, pre, n, sd, idm)
    PROVE  IsTree(idm, n)
BY DEF DepthFirst, DomTree, IsDom, IsTree

LEMMA NeedsTrans ==
    ASSUME NEW pre, NEW n \in Nat \ {0}, NEW a \in 0..(n - 1), NEW b \in 0..(n - 1), NEW c,
           Needs(pre, n, a, b), Needs(pre, n, b, c)
    PROVE  Needs(pre, n, a, c)
<1>1. PICK A : StaysIn(pre, n, a, A) /\ b \notin A
  BY DEF Needs
<1>2. PICK B : StaysIn(pre, n, b, B) /\ c \notin B
  BY DEF Needs
<1>3. CASE b = 0
  <2>1. a = 0
    BY <1>1, <1>3 DEF StaysIn
  <2> QED
    BY <2>1, <1>3
<1>4. CASE b # 0
  <2>1. StaysIn(pre, n, a, A \cap B)
    <3>1. A \cap B \in SUBSET ((0..(n - 1)) \ {a})
      BY <1>1 DEF StaysIn
    <3>2. {0} \ {a} \subseteq A \cap B
      BY <1>1, <1>2, <1>4 DEF StaysIn
    <3>3. ASSUME NEW v \in (0..(n - 1)) \ {a}, pre[v] \cap (A \cap B) # {} PROVE v \in A \cap B
      <4>1. v \in A
        BY <1>1, <3>3 DEF StaysIn
      <4>2. v # b
        BY <1>1, <4>1
      <4>3. v \in B
        BY <1>2, <3>3, <4>2 DEF StaysIn
      <4> QED
        BY <4>1, <4>3
    <3> QED
      BY <3>1, <3>2, <3>3 DEF StaysIn
  <2> QED
    BY <2>1, <1>2 DEF Needs
<1> QED
  BY <1>3, <1>4

\* The dominator of a vertex does dominate it, and is dominated by the others.
LEMMA DomNeeded ==
    ASSUME NEW par, NEW pre, NEW n, DepthFirst(par, pre, n), NEW sd, SemiOk(par, pre, n, sd),
           NEW d, NEW v \in 1..(n - 1), IsDom(par, pre, n, sd, d, v)
    PROVE  /\ Needs(pre, n, d, v)
           /\ \A e \in (0..(n - 1)) \ {v} : Needs(pre, n, e, v) => Needs(pre, n, e, d)
<1>1. d \in 0..(n - 1) /\ v \notin Around(par, n, sd, d)
  BY DEF IsDom
<1>2. Needs(pre, n, d, v)
  BY <1>1, AroundStays DEF Needs
<1>3. ASSUME NEW e \in (0..(n - 1)) \ {v}, Needs(pre, n, e, v) PROVE Needs(pre, n, e, d)
  <2>1. PICK S : StaysIn(pre, n, e, S) /\ v \notin S
    BY <1>3 DEF Needs
  <2>2. d \notin S
    BY <2>1 DEF IsDom
  <2> QED
    BY <2>1, <2>2 DEF Needs
<1> QED
  BY <1>2, <1>3

LEMMA NeedsIsAbove ==
    ASSUME NEW par, NEW pre, NEW n, DepthFirst(par, pre, n), NEW sd, SemiOk(par, pre, n, sd),
           NEW idm, DomTree(par, pre, n, sd, idm),
           NEW d \in 0..(n - 1), NEW v \in 0..(n - 1)
    PROVE  Needs(pre, n, d, v) <=> Above(idm, d, v)
<1>0. n \in Nat \ {0} /\ IsTree(idm, n) /\ DOMAIN idm = 0..(n - 1)
  BY DomTreeIsTree DEF DepthFirst, IsTree
<1>1. \A x \in 1..(n - 1) : idm[x] \in 0..(n - 1) /\ idm[x] < x /\ IsDom(par, pre, n, sd, idm[x], x)
  BY <1>0 DEF IsTree, DomTree
<1>2. ASSUME NEW x \in 0..(n - 1), Above(idm, d, x), ~Needs(pre, n, d, x) PROVE FALSE
  <2> DEFINE T == {y \in 0..(n - 1) : Above(idm, d, y) /\ ~Needs(pre, n, d, y)}
  <2>1. PICK m \in T : \A k \in T : m <= k
    <3>1. T \in SUBSET Nat /\ x \in T
      BY <1>0, <1>2
    <3> HIDE DEF T
    <3> QED
      BY <3>1, LeastOf
  <2>2. m \in 0..(n - 1) /\ Above(idm, d, m) /\ ~Needs(pre, n, d, m)
    OBVIOUS
  <2>3. m # d
    <3>1. StaysIn(pre, n, d, Around(par, n, sd, d))
      BY AroundStays
    <3>2. d \notin Around(par, n, sd, d)
      BY <3>1 DEF StaysIn
    <3> QED
      BY <2>2, <3>1, <3>2 DEF Needs
  <2>4. m # 0
    BY <2>2, <2>3, AboveRoot
  <2>5. m \in 1..(n - 1)
    BY <1>0, <2>2, <2>4
  <2>6. Above(idm, d, idm[m])
    BY <1>0, <2>2, <2>3, <2>5, AboveStep
  <2>7. Needs(pre, n, d, idm[m])
    <3>1. ~(m <= idm[m])
      BY <1>1, <2>5
    <3> QED
      BY <1>1, <2>1, <2>5, <2>6, <3>1
  <2>8. Needs(pre, n, idm[m], m)
    BY <1>1, <2>5, DomNeeded
  <2>9. Needs(pre, n, d, m)
    BY <1>0, <1>1, <2>2, <2>5, <2>7, <2>8, NeedsTrans
  <2> QED
    BY <2>2, <2>9
<1>3. ASSUME NEW x \in 0..(n - 1), Needs(pre, n, d, x), ~Above(idm, d, x) PROVE FALSE
  <2> DEFINE T == {y \in 0..(n - 1) : Needs(pre, n, d, y) /\ ~Above(idm, d, y)}
  <2>1. PICK m \in T : \A k \in T : m <= k
    <3>1. T \in SUBSET Nat /\ x \in T
      BY <1>0, <1>3
    <3> HIDE DEF T
    <3> QED
      BY <3>1, LeastOf
  <2>2. m \in 0..(n - 1) /\ Needs(pre, n, d, m) /\ ~Above(idm, d, m)
    OBVIOUS
  <2>3. m # d
    BY <1>0, <2>2, AboveSelf
  <2>4. m # 0
    BY <2>2, <2>3 DEF Needs, StaysIn
  <2>5. m \in 1..(n - 1)
    BY <1>0, <2>2, <2>4
  <2>6. Needs(pre, n, d, idm[m])
    BY <1>1, <2>2, <2>3, <2>5, DomNeeded
  <2>7. Above(idm, d, idm[m])
    <3>1. ~(m <= idm[m])
      BY <1>1, <2>5
    <3> QED
      BY <1>1, <2>1, <2>5, <2>6, <3>1
  <2> QED
    BY <1>0, <2>2, <2>5, <2>7, AboveStep
<1> QED
  BY <1>2, <1>3

\* What d has gathered when the vertices after k were added to their dominators.
Gathered(par, n, k, d) ==
    {v \in 0..(n - 1) : v = d \/ \E c \in 1..(n - 1) : c > k /\ par[c] = d /\ Above(par, c, v)}

LEMMA GatheredNothing ==
    ASSUME NEW par, NEW n, IsTree(par, n), NEW d \in 0..(n - 1)
    PROVE  Gathered(par, n, n - 1, d) = {d}
BY DEF Gathered, IsTree

LEMMA GatheredAll ==
    ASSUME NEW par, NEW n, IsTree(par, n), NEW d \in 0..(n - 1), NEW k \in 0..d
    PROVE  Gathered(par, n, k, d) = {v \in 0..(n - 1) : Above(par, d, v)}
<1>0. n \in Nat \ {0} /\ DOMAIN par = 0..(n - 1)
  BY DEF IsTree
<1>1. ASSUME NEW v \in 0..(n - 1), NEW c \in 1..(n - 1), par[c] = d, Above(par, c, v)
      PROVE  Above(par, d, v)
  <2>1. Above(par, d, c)
    BY <1>0, <1>1, AboveStep, AboveSelf
  <2> QED
    BY <1>1, <2>1, AboveTrans
<1>2. ASSUME NEW v \in 0..(n - 1), Above(par, d, v), v # d
      PROVE  \E c \in 1..(n - 1) : c > k /\ par[c] = d /\ Above(par, c, v)
  <2>1. PICK c \in 1..(n - 1) : par[c] = d /\ Above(par, c, v)
    BY <1>2, ChildAbove
  <2>2. par[c] < c
    BY DEF IsTree
  <2>3. c > k
    BY <2>1, <2>2
  <2> QED
    BY <2>1, <2>3
<1>3. Above(par, d, d)
  BY <1>0, AboveSelf
<1> QED
  BY <1>1, <1>2, <1>3 DEF Gathered

\* Adding what k has gathered to its dominator adds what it had not.
LEMMA GatheredStep ==
    ASSUME NEW par, NEW n, IsTree(par, n), NEW d \in 0..(n - 1), NEW k \in 1..(n - 1)
    PROVE  /\ d # par[k] => Gathered(par, n, k - 1, d) = Gathered(par, n, k, d)
           /\ d = par[k] => /\ Gathered(par, n, k - 1, d) =
                                  Gathered(par, n, k, d) \cup Gathered(par, n, k, k)
                            /\ Gathered(par, n, k, d) \cap Gathered(par, n, k, k) = {}
<1>0. n \in Nat \ {0} /\ DOMAIN par = 0..(n - 1) /\ par[k] \in 0..(n - 1) /\ par[k] < k
  BY DEF IsTree
<1>1. Gathered(par, n, k, k) = {v \in 0..(n - 1) : Above(par, k, v)}
  BY <1>0, GatheredAll
<1>2. \A c \in 1..(n - 1) : c > k - 1 <=> c = k \/ c > k
  BY <1>0
<1>3. d # par[k] => Gathered(par, n, k - 1, d) = Gathered(par, n, k, d)
  BY <1>2 DEF Gathered
<1>4. d = par[k] => Gathered(par, n, k - 1, d) = Gathered(par, n, k, d) \cup Gathered(par, n, k, k)
  BY <1>1, <1>2 DEF Gathered
<1>5. ASSUME d = par[k], NEW v \in 0..(n - 1), v \in Gathered(par, n, k, d), Above(par, k, v)
      PROVE  FALSE
  <2>1. CASE v = d
    <3>1. k <= d
      BY <1>5, <2>1, AboveLeq
    <3> QED
      BY <1>0, <1>5, <3>1
  <2>2. CASE v # d
    <3>1. PICK c \in 1..(n - 1) : c > k /\ par[c] = d /\ Above(par, c, v)
      BY <1>5, <2>2 DEF Gathered
    <3>2. Above(par, k, c)
      <4>1. k <= c
        BY <3>1
      <4> QED
        BY <1>5, <3>1, <4>1, AboveLine
    <3>3. Above(par, k, d)
      <4>1. k # c
        BY <3>1
      <4> QED
        BY <3>1, <3>2, <4>1, AboveStep
    <3>4. k <= d
      BY <3>3, AboveLeq
    <3> QED
      BY <1>0, <1>5, <3>4
  <2> QED
    BY <2>1, <2>2
<1> QED
  BY <1>1, <1>3, <1>4, <1>5 DEF Gathered

\* The bytes of a set of vertices, and their number.
Bytes(size, vs) == UNION {{v} \X (1..size[v]) : v \in vs \ {0}}

LEMMA BytesFinite ==
    ASSUME NEW V, IsFiniteSet(V), NEW size \in [V -> Nat], NEW vs \in SUBSET V
    PROVE  IsFiniteSet(Bytes(size, vs))
<1> DEFINE of == [v \in vs \ {0} |-> {v} \X (1..size[v])]
           each == {{v} \X (1..size[v]) : v \in vs \ {0}}
<1>1. IsFiniteSet(vs \ {0})
  BY FS_Subset
<1>2. IsFiniteSet(each)
  <2>1. of \in Surjection(vs \ {0}, each)
    BY DEF Surjection
  <2> HIDE DEF of, each
  <2> QED
    BY <1>1, <2>1, FS_Surjection
<1>3. ASSUME NEW T \in each PROVE IsFiniteSet(T)
  <2>1. PICK v \in vs \ {0} : T = {v} \X (1..size[v])
    OBVIOUS
  <2>2. IsFiniteSet({v})
    BY FS_Singleton
  <2>3. size[v] \in Nat
    OBVIOUS
  <2>4. IsFiniteSet(1..size[v])
    BY <2>3, FS_Interval
  <2> HIDE DEF each
  <2> QED
    BY <2>1, <2>2, <2>4, FS_Product
<1>4. IsFiniteSet(UNION each)
  <2> HIDE DEF each
  <2> QED
    BY <1>2, <1>3, FS_UNION
<1> QED
  BY <1>4 DEF Bytes

LEMMA BytesOfOne ==
    ASSUME NEW v, NEW size, v # 0 => size[v] \in Nat
    PROVE  Cardinality(Bytes(size, {v})) = IF v = 0 THEN 0 ELSE size[v]
<1>1. CASE v = 0
  <2>1. Bytes(size, {v}) = {}
    BY <1>1 DEF Bytes
  <2> QED
    BY <1>1, <2>1, FS_EmptySet
<1>2. CASE v # 0
  <2>1. Bytes(size, {v}) = {v} \X (1..size[v])
    BY <1>2 DEF Bytes
  <2>2. IsFiniteSet({v}) /\ Cardinality({v}) = 1
    BY FS_Singleton
  <2>3. IsFiniteSet(1..size[v]) /\ Cardinality(1..size[v]) = size[v]
    BY <1>2, FS_Interval
  <2>4. Cardinality({v} \X (1..size[v])) = 1 * size[v]
    BY <2>2, <2>3, FS_Product
  <2>5. 1 * size[v] = size[v]
    BY <1>2
  <2> QED
    BY <1>2, <2>1, <2>4, <2>5
<1> QED
  BY <1>1, <1>2

LEMMA BytesAdd ==
    ASSUME NEW V, IsFiniteSet(V), NEW size \in [V -> Nat], NEW A \in SUBSET V, NEW B \in SUBSET V,
           A \cap B = {}
    PROVE  Cardinality(Bytes(size, A \cup B)) =
               Cardinality(Bytes(size, A)) + Cardinality(Bytes(size, B))
<1>1. IsFiniteSet(Bytes(size, A)) /\ IsFiniteSet(Bytes(size, B))
  BY BytesFinite
<1>2. Bytes(size, A \cup B) = Bytes(size, A) \cup Bytes(size, B)
  BY DEF Bytes
<1>3. Bytes(size, A) \cap Bytes(size, B) = {}
  BY DEF Bytes
<1>4. Cardinality({}) = 0
  BY FS_EmptySet
<1>5. Cardinality(Bytes(size, A) \cup Bytes(size, B)) =
          Cardinality(Bytes(size, A)) + Cardinality(Bytes(size, B))
  <2> DEFINE X == Bytes(size, A)
             Y == Bytes(size, B)
  <2>1. IsFiniteSet(X) /\ IsFiniteSet(Y) /\ X \cap Y = {}
    BY <1>1, <1>3
  <2> HIDE DEF X, Y
  <2>2. Cardinality(X \cup Y) = Cardinality(X) + Cardinality(Y) - Cardinality({})
    BY <2>1, FS_Union
  <2>3. Cardinality(X) \in Nat /\ Cardinality(Y) \in Nat
    BY <2>1, FS_CardinalityType
  <2>4. Cardinality(X \cup Y) = Cardinality(X) + Cardinality(Y)
    BY <1>4, <2>2, <2>3
  <2> QED
    BY <2>4 DEF X, Y
<1> QED
  BY <1>2, <1>5

-----------------------------------------------------------------------------
(***************************************************************************)
(* The forest of linked vertices, those greater than lo.  a is x's         *)
(* ancestor, further up than the parent when the path was compressed; b is *)
(* the best of the vertices it passes, all of which are linked.            *)
(***************************************************************************)
Passes(par, lo, sd, x, a, b) ==
    /\ Above(par, a, x) /\ a # x
    /\ Above(par, b, x) /\ b > a
    /\ \A y : Above(par, y, x) /\ y > a => y > lo /\ sd[b] <= sd[y]

PathsOk(par, n, lo, sd, anc, bst) ==
    \A x \in 0..(n - 1) :
        /\ x <= lo => anc[x] < 0 /\ bst[x] = x
        /\ x > lo => Passes(par, lo, sd, x, anc[x], bst[x])

SemisOk(par, pre, n, sd, lo) ==
    \A x \in 0..(n - 1) : x > lo =>
        /\ sd[x] < x /\ Above(par, sd[x], x)
        /\ SemiLow(par, pre, sd, x) /\ SemiFrom(par, pre, sd, x, sd[x])

\* l is the least semidominator for v that its predecessors outside rest give.
LeastOk(par, pre, sd, v, l, rest) ==
    /\ rest \subseteq pre[v] /\ l <= par[v]
    /\ SemiFrom(par, pre, sd, v, l)
    /\ \A u \in pre[v] \ rest :
          /\ u < v => l <= u
          /\ \A x : Above(par, x, u) /\ x > v => l <= sd[x]

\* What Settle leaves for v, with all that it depends on linked.
SettledAs(par, sd, dom, v, lo) ==
    \E y :
        /\ LowestOn(par, sd, y, v)
        /\ dom = IF sd[y] = sd[v] THEN sd[v] ELSE -y - 1
        /\ \A z : Above(par, z, v) /\ z > sd[v] => z > lo

\* A vertex waits under its semidominator until the loop leaves the child above it.
WaitsOk(par, n, sd, waiting, lo, k) ==
    \A p \in 0..(n - 1) : \A i \in DOMAIN waiting[p] :
        /\ waiting[p][i] > lo /\ sd[waiting[p][i]] = p
        /\ \E c \in 1..k : par[c] = p /\ Above(par, c, waiting[p][i])

SettledOk(par, n, sd, dom, waiting, lo) ==
    \A v \in 0..(n - 1) : v > lo =>
        (\E i \in DOMAIN waiting[sd[v]] : waiting[sd[v]][i] = v)
        \/ SettledAs(par, sd, dom[v], v, lo)

\* The vertices whose paths are compressed are linked, and so are their ancestors.
TrailOk(path, anc, lo) ==
    /\ \A i \in DOMAIN path : path[i] > lo /\ anc[path[i]] > lo
    /\ \A i, j \in DOMAIN path : i < j => path[j] < path[i]

\* Compression: the ancestor's path behind x's.
LEMMA PassesTwo ==
    ASSUME NEW par, NEW n \in Nat \ {0}, IsTree(par, n), NEW lo \in Int, NEW sd \in [0..(n - 1) -> 0..(n - 1)],
           NEW x, NEW a, NEW b, Passes(par, lo, sd, x, a, b),
           NEW c, NEW e, Passes(par, lo, sd, a, c, e)
    PROVE  Passes(par, lo, sd, x, c, IF sd[e] < sd[b] THEN e ELSE b)
<1>0. n \in Nat \ {0} /\ DOMAIN par = 0..(n - 1)
  BY DEF IsTree
<1>1. /\ Above(par, a, x) /\ a # x /\ Above(par, b, x) /\ b > a
      /\ Above(par, c, a) /\ c # a /\ Above(par, e, a) /\ e > c
  BY DEF Passes
<1>2. /\ a \in 0..(n - 1) /\ x \in 0..(n - 1) /\ b \in 0..(n - 1) /\ c \in 0..(n - 1)
      /\ e \in 0..(n - 1) /\ a <= x /\ c <= a
  BY <1>1, AboveLeq
<1>3. Above(par, c, x) /\ c # x /\ Above(par, e, x) /\ b > c
  <2>1. Above(par, c, x) /\ Above(par, e, x)
    BY <1>1, AboveTrans
  <2>2. c < a /\ c < x /\ c < b
    BY <1>1, <1>2
  <2> QED
    BY <2>1, <2>2, <1>2
<1> DEFINE q == IF sd[e] < sd[b] THEN e ELSE b
<1>4. Above(par, q, x) /\ q > c
  BY <1>1, <1>3
<1>5. sd[q] <= sd[e] /\ sd[q] <= sd[b] /\ sd[q] \in Nat /\ sd[e] \in Nat /\ sd[b] \in Nat
  <2>1. sd[e] \in 0..(n - 1) /\ sd[b] \in 0..(n - 1)
    BY <1>2
  <2> QED
    BY <1>0, <2>1
<1> HIDE DEF q
<1>6. ASSUME NEW y, Above(par, y, x), y > c PROVE y > lo /\ sd[q] <= sd[y]
  <2>0. y \in 0..(n - 1) /\ sd[y] \in Nat
    BY <1>0, <1>6, AboveLeq
  <2>1. CASE y > a
    <3>1. y > lo /\ sd[b] <= sd[y]
      BY <1>6, <2>1 DEF Passes
    <3> QED
      BY <1>5, <2>0, <3>1
  <2>2. CASE y <= a
    <3>1. Above(par, y, a)
      BY <1>1, <1>6, <2>2, AboveLine
    <3>2. y > lo /\ sd[e] <= sd[y]
      BY <1>6, <3>1 DEF Passes
    <3> QED
      BY <1>5, <2>0, <3>2
  <2> QED
    BY <1>2, <2>0, <2>1, <2>2
<1>7. Passes(par, lo, sd, x, c, q)
  BY <1>3, <1>4, <1>6 DEF Passes
<1> QED
  BY <1>7 DEF q

\* Unwind.
LEMMA PathsUnwound ==
    ASSUME NEW par, NEW n \in Nat \ {0}, IsTree(par, n), NEW lo \in Int, NEW sd \in [0..(n - 1) -> 0..(n - 1)],
           NEW anc \in [0..(n - 1) -> Int],
           NEW bst \in [0..(n - 1) -> 0..(n - 1)],
           PathsOk(par, n, lo, sd, anc, bst),
           NEW y \in 0..(n - 1), y > lo, anc[y] \in 0..(n - 1), anc[y] > lo
    PROVE  PathsOk(par, n, lo, sd, [anc EXCEPT ![y] = anc[anc[y]]],
                   [bst EXCEPT ![y] = IF sd[bst[anc[y]]] < sd[bst[y]] THEN bst[anc[y]] ELSE bst[y]])
<1>0. n \in Nat \ {0} /\ DOMAIN par = 0..(n - 1)
  BY DEF IsTree
<1> DEFINE a == anc[y]
           anc2 == [anc EXCEPT ![y] = anc[anc[y]]]
           bst2 == [bst EXCEPT ![y] = IF sd[bst[a]] < sd[bst[y]] THEN bst[a] ELSE bst[y]]
<1>1. Passes(par, lo, sd, y, a, bst[y]) /\ Passes(par, lo, sd, a, anc[a], bst[a])
  BY <1>0 DEF PathsOk
<1>2. Passes(par, lo, sd, y, anc[a], IF sd[bst[a]] < sd[bst[y]] THEN bst[a] ELSE bst[y])
  <2> HIDE DEF a
  <2> QED
    BY <1>1, PassesTwo
<1>3. ~(y <= lo)
  BY <1>0
<1>4. /\ anc2[y] = anc[a] /\ bst2[y] = IF sd[bst[a]] < sd[bst[y]] THEN bst[a] ELSE bst[y]
      /\ \A x \in 0..(n - 1) : x # y => anc2[x] = anc[x] /\ bst2[x] = bst[x]
  OBVIOUS
<1> HIDE DEF anc2, bst2, a
<1>5. PathsOk(par, n, lo, sd, anc2, bst2)
  <2> SUFFICES ASSUME NEW x \in 0..(n - 1)
               PROVE  /\ x <= lo => anc2[x] < 0 /\ bst2[x] = x
                      /\ x > lo => Passes(par, lo, sd, x, anc2[x], bst2[x])
    BY DEF PathsOk
  <2>1. CASE x = y
    BY <1>1, <1>2, <1>3, <1>4, <2>1
  <2>2. CASE x # y
    BY <1>0, <1>4, <2>2 DEF PathsOk
  <2> QED
    BY <2>1, <2>2
<1> QED
  BY <1>5 DEF anc2, bst2, a

\* What was found for linked vertices stays when the next one is linked.
LEMMA PassesStays ==
    ASSUME NEW par, NEW n \in Nat \ {0}, IsTree(par, n), NEW k \in Int, NEW x, NEW a, NEW b, NEW sd, NEW sd2,
           Passes(par, k, sd, x, a, b), \A y \in 0..(n - 1) : y > k => sd2[y] = sd[y]
    PROVE  Passes(par, k - 1, sd2, x, a, b)
<1>0. n \in Nat \ {0} /\ DOMAIN par = 0..(n - 1)
  BY DEF IsTree
<1>1. b \in 0..(n - 1) /\ b > k
  <2>1. Above(par, b, x) /\ b > a
    BY DEF Passes
  <2>2. b \in 0..(n - 1)
    BY <2>1, AboveLeq
  <2> QED
    BY <2>1, <2>2 DEF Passes
<1>2. ASSUME NEW y, Above(par, y, x), y > a PROVE y > k - 1 /\ sd2[b] <= sd2[y]
  <2>0. y \in 0..(n - 1)
    BY <1>2, AboveLeq
  <2>1. y > k /\ sd[b] <= sd[y]
    BY <1>2 DEF Passes
  <2> QED
    BY <1>0, <1>1, <2>0, <2>1
<1> QED
  BY <1>2 DEF Passes

LEMMA PathsLinked ==
    ASSUME NEW par, NEW n \in Nat \ {0}, IsTree(par, n), NEW k \in 1..(n - 1),
           NEW sd, NEW sd2, \A x \in 0..(n - 1) : x # k => sd2[x] = sd[x],
           sd2[k] \in Nat,
           NEW anc, NEW anc2, anc2[k] = par[k], \A x \in 0..(n - 1) : x # k => anc2[x] = anc[x],
           NEW bst, PathsOk(par, n, k, sd, anc, bst)
    PROVE  PathsOk(par, n, k - 1, sd2, anc2, bst)
<1>0. DOMAIN par = 0..(n - 1) /\ k \in 0..(n - 1)
  BY DEF IsTree
<1>2. par[k] \in 0..(n - 1) /\ par[k] < k /\ bst[k] = k
  <2>1. par[k] \in 0..(n - 1) /\ par[k] < k
    BY DEF IsTree
  <2>2. k <= k
    BY <1>0
  <2>3. bst[k] = k
    BY <1>0, <2>2 DEF PathsOk
  <2> QED
    BY <2>1, <2>3
<1>3. Passes(par, k - 1, sd2, k, par[k], k)
  <2>1. Above(par, k, k) /\ Above(par, par[k], k)
    BY <1>0, <1>2, AboveSelf, AboveStep
  <2>2. ASSUME NEW y, Above(par, y, k), y > par[k] PROVE y = k
    <3>1. SUFFICES ASSUME y # k PROVE FALSE
      OBVIOUS
    <3>2. y <= par[k] /\ y \in 0..(n - 1)
      BY <2>2, <3>1, AboveStep, AboveLeq
    <3> QED
      BY <1>0, <1>2, <2>2, <3>2
  <2>3. k > k - 1 /\ sd2[k] <= sd2[k]
    BY <1>0
  <2> QED
    BY <1>2, <2>1, <2>2, <2>3 DEF Passes
<1>4. PathsOk(par, n, k - 1, sd2, anc2, bst)
  <2> SUFFICES ASSUME NEW x \in 0..(n - 1)
               PROVE  /\ x <= k - 1 => anc2[x] < 0 /\ bst[x] = x
                      /\ x > k - 1 => Passes(par, k - 1, sd2, x, anc2[x], bst[x])
    BY DEF PathsOk
  <2>1. CASE x = k
    BY <1>0, <1>2, <1>3, <2>1
  <2>2. CASE x < k
    <3>1. anc[x] < 0 /\ bst[x] = x /\ ~(x > k - 1)
      BY <1>0, <2>2 DEF PathsOk
    <3> QED
      BY <1>0, <2>2, <3>1
  <2>3. CASE x > k
    <3>1. Passes(par, k, sd, x, anc[x], bst[x])
      BY <2>3 DEF PathsOk
    <3>2. \A y \in 0..(n - 1) : y > k => sd2[y] = sd[y]
      BY <1>0
    <3>3. Passes(par, k - 1, sd2, x, anc[x], bst[x])
      <4>1. k \in Int
        BY <1>0
      <4> QED
        BY <3>1, <3>2, <4>1, PassesStays
    <3> QED
      BY <1>0, <2>3, <3>1, <3>3
  <2> QED
    BY <1>0, <2>1, <2>2, <2>3
<1> QED
  BY <1>4

\* All predecessors looked at, the least is the semidominator.
LEMMA SemisLinked ==
    ASSUME NEW par, NEW pre, NEW n \in Nat \ {0}, DepthFirst(par, pre, n), NEW k \in 1..(n - 1),
           NEW l \in 0..(n - 1), NEW sd \in [0..(n - 1) -> 0..(n - 1)],
           SemisOk(par, pre, n, sd, k), LeastOk(par, pre, sd, k, l, {})
    PROVE  SemisOk(par, pre, n, [sd EXCEPT ![k] = l], k - 1) /\ l < k /\ Above(par, l, k)
<1>0. /\ n \in Nat \ {0} /\ IsTree(par, n) /\ DOMAIN par = 0..(n - 1) /\ k \in 0..(n - 1)
      /\ pre \in [0..(n - 1) -> SUBSET (0..(n - 1))]
  <2>1. IsTree(par, n) /\ pre \in [0..(n - 1) -> SUBSET (0..(n - 1))]
    BY DEF DepthFirst
  <2>2. n \in Nat \ {0} /\ DOMAIN par = 0..(n - 1)
    BY <2>1 DEF IsTree
  <2> QED
    BY <2>1, <2>2
<1> DEFINE sd2 == [sd EXCEPT ![k] = l]
<1>1. sd2[k] = l /\ \A x \in 0..(n - 1) : x # k => sd2[x] = sd[x]
  BY <1>0
<1> HIDE DEF sd2
<1>2. l < k
  <2>1. l <= par[k] /\ par[k] < k /\ par[k] \in 0..(n - 1)
    BY <1>0 DEF LeastOk, IsTree
  <2> QED
    BY <2>1, <1>0
<1>3. Above(par, l, k)
  <2>1. CASE l \in pre[k]
    BY <1>0, <1>2, <2>1 DEF DepthFirst
  <2>2. CASE l \notin pre[k]
    <3>1. PICK u, x : u \in pre[k] /\ Above(par, x, u) /\ x > k /\ l = sd[x]
      BY <2>2 DEF LeastOk, SemiFrom
    <3>0. x \in 0..(n - 1)
      BY <1>0, <3>1, AboveLeq
    <3>2. Above(par, l, x)
      BY <3>0, <3>1 DEF SemisOk
    <3>3. l <= k /\ k <= x
      BY <1>0, <1>2, <3>0, <3>1
    <3> QED
      BY <1>0, <3>0, <3>2, <3>3 DEF DepthFirst
  <2> QED
    BY <2>1, <2>2
<1>4. ASSUME NEW x \in 0..(n - 1), x >= k
      PROVE  /\ \A u, y : Above(par, y, u) /\ y > x => sd2[y] = sd[y]
             /\ \A val : SemiFrom(par, pre, sd, x, val) => SemiFrom(par, pre, sd2, x, val)
  <2>2. ASSUME NEW u, NEW y, Above(par, y, u), y > x PROVE sd2[y] = sd[y]
    <3>1. y \in 0..(n - 1)
      BY <1>0, <2>2, AboveLeq
    <3>2. y # k
      BY <1>0, <1>4, <2>2, <3>1
    <3> QED
      BY <1>1, <3>1, <3>2
  <2> QED
    BY <2>2 DEF SemiFrom
<1>5. ASSUME NEW x \in 0..(n - 1), x > k - 1
      PROVE  /\ sd2[x] < x /\ Above(par, sd2[x], x)
             /\ SemiLow(par, pre, sd2, x) /\ SemiFrom(par, pre, sd2, x, sd2[x])
  <2>1. CASE x = k
    <3>1. SemiFrom(par, pre, sd2, k, l)
      BY <1>0, <1>4 DEF LeastOk
    <3>2. SemiLow(par, pre, sd2, k)
      <4>1. \A u, y : Above(par, y, u) /\ y > k => sd2[y] = sd[y]
        BY <1>0, <1>4
      <4> QED
        BY <1>1, <4>1 DEF LeastOk, SemiLow
    <3> QED
      BY <1>1, <1>2, <1>3, <2>1, <3>1, <3>2
  <2>2. CASE x # k
    <3>1. x > k /\ x >= k /\ sd2[x] = sd[x]
      BY <1>0, <1>1, <1>5, <2>2
    <3>2. /\ sd[x] < x /\ Above(par, sd[x], x)
          /\ SemiLow(par, pre, sd, x) /\ SemiFrom(par, pre, sd, x, sd[x])
      BY <3>1 DEF SemisOk
    <3>3. SemiLow(par, pre, sd2, x)
      BY <1>4, <3>1, <3>2 DEF SemiLow
    <3> QED
      BY <1>4, <3>1, <3>2, <3>3
  <2> QED
    BY <2>1, <2>2
<1>6. SemisOk(par, pre, n, sd2, k - 1)
  BY <1>5 DEF SemisOk
<1> QED
  BY <1>2, <1>3, <1>6 DEF sd2

\* A vertex hangs directly under the root of its tree, or its ancestor is linked too.
LEMMA RootOfTree ==
    ASSUME NEW par, NEW n \in Nat \ {0}, IsTree(par, n), NEW lo \in Int, NEW sd, NEW bst,
           NEW anc, PathsOk(par, n, lo, sd, anc, bst), NEW u \in 0..(n - 1), u > lo
    PROVE  /\ anc[u] \in 0..(n - 1)
           /\ anc[anc[u]] < 0 => anc[u] <= lo
           /\ ~(anc[anc[u]] < 0) => anc[u] > lo
           /\ anc[u] < u
<1>1. Passes(par, lo, sd, u, anc[u], bst[u])
  BY DEF PathsOk
<1>2. anc[u] \in 0..(n - 1) /\ anc[u] <= u /\ anc[u] # u
  BY <1>1, AboveLeq DEF Passes
<1>3. ASSUME anc[u] > lo PROVE ~(anc[anc[u]] < 0)
  <2>1. Passes(par, lo, sd, anc[u], anc[anc[u]], bst[anc[u]])
    BY <1>2, <1>3 DEF PathsOk
  <2>2. anc[anc[u]] \in 0..(n - 1)
    BY <2>1, AboveLeq DEF Passes
  <2> QED
    BY <2>2
<1>4. ASSUME anc[u] <= lo PROVE anc[anc[u]] < 0
  BY <1>2, <1>4 DEF PathsOk
<1> QED
  BY <1>2, <1>3, <1>4

\* A predecessor with a lower number, or v itself, counts itself.
LEMMA LeastBelow ==
    ASSUME NEW par, NEW n \in Nat \ {0}, IsTree(par, n), NEW pre, NEW k \in 1..(n - 1),
           pre[k] \in SUBSET (0..(n - 1)),
           NEW sd, \A x \in 0..(n - 1) : sd[x] \in Nat,
           NEW l \in 0..(n - 1), NEW rest, LeastOk(par, pre, sd, k, l, rest),
           NEW u \in 0..(n - 1), u \in rest, u <= k, NEW low, low = IF l < u THEN l ELSE u
    PROVE  LeastOk(par, pre, sd, k, low, rest \ {u}) /\ low \in 0..(n - 1)
<1>1. par[k] \in 0..(n - 1) /\ par[k] < k
  BY DEF IsTree
<1>2. rest \subseteq pre[k] /\ l <= par[k] /\ SemiFrom(par, pre, sd, k, l) /\ u \in pre[k]
  BY DEF LeastOk
<1>3. low \in 0..(n - 1) /\ low <= l /\ low <= u /\ low <= par[k]
  BY <1>1, <1>2
<1>4. SemiFrom(par, pre, sd, k, low)
  BY <1>2 DEF SemiFrom
<1>5. ASSUME NEW x, Above(par, x, u), x > k PROVE FALSE
  <2>1. x <= u /\ x \in 0..(n - 1)
    BY <1>5, AboveLeq
  <2> QED
    BY <1>5, <2>1
<1>6. ASSUME NEW v \in pre[k] \ (rest \ {u})
      PROVE  /\ v < k => low <= v
             /\ \A x : Above(par, x, v) /\ x > k => low <= sd[x]
  <2>1. CASE v = u
    BY <1>3, <1>5, <2>1
  <2>2. CASE v # u
    <3>1. v < k => l <= v
      BY <1>6, <2>2 DEF LeastOk
    <3>2. v \in 0..(n - 1)
      BY <1>6
    <3>3. v < k => low <= v
      BY <1>3, <3>1, <3>2
    <3>4. ASSUME NEW x, Above(par, x, v), x > k PROVE low <= sd[x]
      <4>1. l <= sd[x]
        BY <1>6, <2>2, <3>4 DEF LeastOk
      <4>2. sd[x] \in Nat
        BY <3>4, AboveLeq
      <4> QED
        BY <1>3, <4>1, <4>2
    <3> QED
      BY <3>3, <3>4
  <2> QED
    BY <2>1, <2>2
<1>7. rest \ {u} \subseteq pre[k]
  BY <1>2
<1> QED
  BY <1>3, <1>4, <1>6, <1>7 DEF LeastOk

\* Of a predecessor with a higher number the best above it counts.
LEMMA LeastAbove ==
    ASSUME NEW par, NEW n \in Nat \ {0}, IsTree(par, n), NEW pre, NEW k \in 1..(n - 1),
           pre[k] \in SUBSET (0..(n - 1)),
           NEW sd, \A x \in 0..(n - 1) : sd[x] \in 0..(n - 1),
           NEW l \in 0..(n - 1), NEW rest, LeastOk(par, pre, sd, k, l, rest),
           NEW anc, NEW bst, PathsOk(par, n, k, sd, anc, bst),
           NEW u \in 0..(n - 1), u \in rest, u > k, anc[anc[u]] < 0,
           NEW low, low = IF l < sd[bst[u]] THEN l ELSE sd[bst[u]]
    PROVE  LeastOk(par, pre, sd, k, low, rest \ {u}) /\ low \in 0..(n - 1)
<1>1. par[k] \in 0..(n - 1) /\ par[k] < k
  BY DEF IsTree
<1>2. rest \subseteq pre[k] /\ l <= par[k] /\ SemiFrom(par, pre, sd, k, l) /\ u \in pre[k]
  BY DEF LeastOk
<1>3. k \in Int /\ anc[u] \in 0..(n - 1) /\ anc[u] <= k
  <2>1. k \in Int
    OBVIOUS
  <2> QED
    BY <2>1, RootOfTree
<1>4. Passes(par, k, sd, u, anc[u], bst[u])
  BY DEF PathsOk
<1>5. Above(par, bst[u], u) /\ bst[u] > k /\ bst[u] \in 0..(n - 1)
  BY <1>4, AboveLeq DEF Passes
<1>6. sd[bst[u]] \in 0..(n - 1)
  BY <1>5
<1>7. low \in 0..(n - 1) /\ low <= l /\ low <= sd[bst[u]] /\ low <= par[k]
  BY <1>1, <1>2, <1>6
<1>8. SemiFrom(par, pre, sd, k, low)
  BY <1>2, <1>5 DEF SemiFrom
<1>9. ASSUME NEW x, Above(par, x, u), x > k PROVE low <= sd[x]
  <2>1. x \in 0..(n - 1)
    BY <1>9, AboveLeq
  <2>2. x > anc[u]
    BY <1>3, <1>9, <2>1
  <2>3. sd[bst[u]] <= sd[x]
    BY <1>4, <1>9, <2>2 DEF Passes
  <2>4. sd[x] \in 0..(n - 1)
    BY <2>1
  <2> QED
    BY <1>6, <1>7, <2>3, <2>4
<1>10. ASSUME NEW v \in pre[k] \ (rest \ {u})
       PROVE  /\ v < k => low <= v
              /\ \A x : Above(par, x, v) /\ x > k => low <= sd[x]
  <2>1. CASE v = u
    <3>1. ~(v < k)
      BY <2>1
    <3> QED
      BY <1>9, <2>1, <3>1
  <2>2. CASE v # u
    <3>1. v < k => l <= v
      BY <1>10, <2>2 DEF LeastOk
    <3>2. v \in 0..(n - 1)
      BY <1>10
    <3>3. v < k => low <= v
      BY <1>7, <3>1, <3>2
    <3>4. ASSUME NEW x, Above(par, x, v), x > k PROVE low <= sd[x]
      <4>1. l <= sd[x]
        BY <1>10, <2>2, <3>4 DEF LeastOk
      <4>2. x \in 0..(n - 1)
        BY <3>4, AboveLeq
      <4>3. sd[x] \in 0..(n - 1)
        BY <4>2
      <4> QED
        BY <1>7, <4>1, <4>3
    <3> QED
      BY <3>3, <3>4
  <2> QED
    BY <2>1, <2>2
<1>11. rest \ {u} \subseteq pre[k]
  BY <1>2
<1> QED
  BY <1>7, <1>8, <1>10, <1>11 DEF LeastOk

\* When the loop is at the child k of v's semidominator above v, all of v's path down
\* from there is linked.
LEMMA SettleFirst ==
    ASSUME NEW par, NEW pre, NEW n \in Nat \ {0}, DepthFirst(par, pre, n), NEW k \in 1..(n - 1),
           NEW sd, NEW anc, NEW bst, PathsOk(par, n, k - 1, sd, anc, bst),
           NEW v \in 0..(n - 1), v > k - 1, sd[v] = par[k], anc[anc[v]] < 0,
           \E c \in 1..k : par[c] = par[k] /\ Above(par, c, v),
           NEW dom, dom = IF sd[bst[v]] = sd[v] THEN par[k] ELSE -bst[v] - 1
    PROVE  SettledAs(par, sd, dom, v, k - 1)
<1>0. IsTree(par, n)
  BY DEF DepthFirst
<1>1. par[k] \in 0..(n - 1) /\ par[k] < k /\ DOMAIN par = 0..(n - 1) /\ k \in 0..(n - 1)
  BY <1>0 DEF IsTree
<1>2. Above(par, k, v)
  <2>1. PICK c \in 1..k : par[c] = par[k] /\ Above(par, c, v)
    OBVIOUS
  <2>2. c \in 1..(n - 1) /\ c \in 0..(n - 1) /\ c <= k /\ k <= v
    OBVIOUS
  <2>3. Above(par, c, k)
    BY <1>1, <2>1, <2>2 DEF DepthFirst
  <2>4. ASSUME c # k PROVE FALSE
    <3>1. c <= par[k]
      BY <1>0, <2>3, <2>4, AboveStep, AboveLeq
    <3>2. par[c] < c
      BY <1>0, <2>2 DEF IsTree
    <3> QED
      BY <1>1, <2>1, <2>2, <3>1, <3>2
  <2> QED
    BY <2>1, <2>4
<1>3. ASSUME NEW y, Above(par, y, v), y < k PROVE y <= par[k]
  <2>1. y \in 0..(n - 1) /\ y <= k /\ y # k
    BY <1>0, <1>3, AboveLeq
  <2>2. Above(par, y, k)
    BY <1>0, <1>2, <1>3, <2>1, AboveLine
  <2> QED
    BY <1>0, <2>1, <2>2, AboveStep, AboveLeq
<1>4. anc[v] \in 0..(n - 1) /\ anc[v] <= k - 1
  <2>1. k - 1 \in Int
    OBVIOUS
  <2> QED
    BY <1>0, <2>1, RootOfTree
<1>5. Passes(par, k - 1, sd, v, anc[v], bst[v])
  BY DEF PathsOk
<1>6. anc[v] <= par[k]
  <2>1. Above(par, anc[v], v) /\ anc[v] < k
    BY <1>4, <1>5 DEF Passes
  <2> QED
    BY <1>3, <2>1
<1>7. Above(par, bst[v], v) /\ bst[v] > k - 1 /\ bst[v] \in 0..(n - 1)
  BY <1>0, <1>5, AboveLeq DEF Passes
<1>8. ASSUME NEW z, Above(par, z, v), z > sd[v] PROVE z > k - 1 /\ sd[bst[v]] <= sd[z]
  <2>1. z \in 0..(n - 1)
    BY <1>0, <1>8, AboveLeq
  <2>2. z > anc[v]
    BY <1>1, <1>4, <1>6, <1>8, <2>1
  <2> QED
    BY <1>5, <1>8, <2>2 DEF Passes
<1>9. LowestOn(par, sd, bst[v], v)
  <2>1. bst[v] > sd[v]
    BY <1>1, <1>7
  <2> QED
    BY <1>7, <1>8, <2>1 DEF LowestOn
<1> QED
  BY <1>8, <1>9 DEF SettledAs

LEMMA SettledStays ==
    ASSUME NEW par, NEW n \in Nat \ {0}, IsTree(par, n), NEW k \in Int,
           NEW v \in 0..(n - 1), v > k, NEW dom, NEW sd, NEW sd2,
           SettledAs(par, sd, dom, v, k), \A y \in 0..(n - 1) : y > k => sd2[y] = sd[y]
    PROVE  SettledAs(par, sd2, dom, v, k - 1)
<1>1. PICK y : /\ LowestOn(par, sd, y, v)
               /\ dom = IF sd[y] = sd[v] THEN sd[v] ELSE -y - 1
               /\ \A z : Above(par, z, v) /\ z > sd[v] => z > k
  BY DEF SettledAs
<1>2. sd2[v] = sd[v]
  OBVIOUS
<1>3. ASSUME NEW z, Above(par, z, v), z > sd[v] PROVE z > k - 1 /\ sd2[z] = sd[z]
  <2>1. z \in 0..(n - 1) /\ z > k
    BY <1>1, <1>3, AboveLeq
  <2> QED
    BY <2>1
<1>4. Above(par, y, v) /\ y > sd[v] /\ \A z : Above(par, z, v) /\ z > sd[v] => sd[y] <= sd[z]
  BY <1>1 DEF LowestOn
<1>5. sd2[y] = sd[y]
  BY <1>3, <1>4
<1>6. LowestOn(par, sd2, y, v)
  BY <1>2, <1>3, <1>4, <1>5 DEF LowestOn
<1> QED
  BY <1>1, <1>2, <1>3, <1>5, <1>6 DEF SettledAs

LEMMA PushedFront ==
    ASSUME NEW V, NEW s \in Seq(V), NEW x \in V
    PROVE  /\ <<x>> \o s \in Seq(V) /\ DOMAIN (<<x>> \o s) = 1..(Len(s) + 1)
           /\ \A i \in 1..(Len(s) + 1) : (<<x>> \o s)[i] = IF i = 1 THEN x ELSE s[i - 1]
<1>1. <<x>> \in Seq(V) /\ Len(<<x>>) = 1 /\ <<x>>[1] = x
  OBVIOUS
<1>2. Len(s) \in Nat
  BY LenProperties
<1>3. /\ <<x>> \o s \in Seq(V) /\ Len(<<x>> \o s) = 1 + Len(s)
      /\ \A i \in 1..(1 + Len(s)) : (<<x>> \o s)[i] = IF i <= 1 THEN <<x>>[i] ELSE s[i - 1]
  <2> HIDE <1>1
  <2> QED
    BY <1>1, ConcatProperties
<1>4. DOMAIN (<<x>> \o s) = 1..(Len(s) + 1)
  BY <1>2, <1>3, LenProperties
<1> QED
  BY <1>1, <1>2, <1>3, <1>4

\* Link: k waits under its semidominator.
LEMMA WaitsLinked ==
    ASSUME NEW par, NEW n \in Nat \ {0}, IsTree(par, n), NEW k \in 1..(n - 1),
           NEW l \in 0..(n - 1), l < k, Above(par, l, k),
           NEW sd, NEW sd2, sd2[k] = l, \A x \in 0..(n - 1) : x # k => sd2[x] = sd[x],
           NEW waiting, NEW waiting2, waiting[l] \in Seq(0..(n - 1)),
           waiting2[l] = <<k>> \o waiting[l],
           \A p \in 0..(n - 1) : p # l => waiting2[p] = waiting[p],
           WaitsOk(par, n, sd, waiting, k, k),
           \A p \in 0..(n - 1) : \A i \in DOMAIN waiting[p] : waiting[p][i] \in 0..(n - 1)
    PROVE  WaitsOk(par, n, sd2, waiting2, k - 1, k)
<1>1. /\ DOMAIN waiting2[l] = 1..(Len(waiting[l]) + 1)
      /\ \A i \in 1..(Len(waiting[l]) + 1) :
            waiting2[l][i] = IF i = 1 THEN k ELSE waiting[l][i - 1]
  <2>1. k \in 0..(n - 1)
    OBVIOUS
  <2> QED
    BY <2>1, PushedFront
<1>2. Len(waiting[l]) \in Nat /\ DOMAIN waiting[l] = 1..Len(waiting[l])
  BY LenProperties
<1>3. \E c \in 1..k : par[c] = l /\ Above(par, c, k)
  <2>1. PICK c \in 1..(n - 1) : par[c] = l /\ Above(par, c, k)
    BY ChildAbove
  <2>2. c \in 1..k
    BY <2>1, AboveLeq
  <2> QED
    BY <2>1, <2>2
<1>4. ASSUME NEW p \in 0..(n - 1), NEW i \in DOMAIN waiting[p]
      PROVE  /\ waiting[p][i] > k - 1 /\ sd2[waiting[p][i]] = p
             /\ \E c \in 1..k : par[c] = p /\ Above(par, c, waiting[p][i])
  <2>1. waiting[p][i] \in 0..(n - 1)
    OBVIOUS
  <2>2. /\ waiting[p][i] > k /\ sd[waiting[p][i]] = p
        /\ \E c \in 1..k : par[c] = p /\ Above(par, c, waiting[p][i])
    BY DEF WaitsOk
  <2> HIDE DEF WaitsOk
  <2>3. waiting[p][i] # k /\ waiting[p][i] > k - 1
    BY <2>1, <2>2
  <2> QED
    BY <2>1, <2>2, <2>3
<1>5. ASSUME NEW p \in 0..(n - 1), NEW i \in DOMAIN waiting2[p]
      PROVE  /\ waiting2[p][i] > k - 1 /\ sd2[waiting2[p][i]] = p
             /\ \E c \in 1..k : par[c] = p /\ Above(par, c, waiting2[p][i])
  <2>1. CASE p # l
    BY <1>4, <1>5, <2>1
  <2>2. CASE p = l /\ i = 1
    <3>1. waiting2[p][i] = k
      BY <1>1, <1>5, <2>2
    <3>2. k > k - 1
      OBVIOUS
    <3> QED
      BY <1>3, <2>2, <3>1, <3>2
  <2>3. CASE p = l /\ i # 1
    <3>1. i - 1 \in DOMAIN waiting[l] /\ waiting2[p][i] = waiting[l][i - 1]
      BY <1>1, <1>2, <1>5, <2>3
    <3> QED
      BY <1>4, <2>3, <3>1
  <2> QED
    BY <2>1, <2>2, <2>3
<1> QED
  BY <1>5 DEF WaitsOk

LEMMA SettledLinked ==
    ASSUME NEW par, NEW n \in Nat \ {0}, IsTree(par, n), NEW k \in 1..(n - 1),
           NEW l \in 0..(n - 1),
           NEW sd, NEW sd2, sd2[k] = l, \A x \in 0..(n - 1) : x # k => sd2[x] = sd[x],
           NEW waiting, NEW waiting2, waiting[l] \in Seq(0..(n - 1)),
           waiting2[l] = <<k>> \o waiting[l],
           \A p \in 0..(n - 1) : p # l => waiting2[p] = waiting[p],
           \A x \in 0..(n - 1) : sd[x] \in 0..(n - 1),
           NEW dom, SettledOk(par, n, sd, dom, waiting, k)
    PROVE  SettledOk(par, n, sd2, dom, waiting2, k - 1)
<1>1. /\ DOMAIN waiting2[l] = 1..(Len(waiting[l]) + 1)
      /\ \A i \in 1..(Len(waiting[l]) + 1) :
            waiting2[l][i] = IF i = 1 THEN k ELSE waiting[l][i - 1]
  <2>1. k \in 0..(n - 1)
    OBVIOUS
  <2> QED
    BY <2>1, PushedFront
<1>2. Len(waiting[l]) \in Nat /\ DOMAIN waiting[l] = 1..Len(waiting[l])
  BY LenProperties
<1>3. ASSUME NEW v \in 0..(n - 1), v > k - 1
      PROVE  \/ \E i \in DOMAIN waiting2[sd2[v]] : waiting2[sd2[v]][i] = v
             \/ SettledAs(par, sd2, dom[v], v, k - 1)
  <2>1. CASE v = k
    <3>1. 1 \in DOMAIN waiting2[l] /\ waiting2[l][1] = k
      BY <1>1, <1>2
    <3> QED
      BY <2>1, <3>1
  <2>2. CASE v # k
    <3>1. v > k /\ sd2[v] = sd[v] /\ sd[v] \in 0..(n - 1)
      BY <1>3, <2>2
    <3>2. CASE SettledAs(par, sd, dom[v], v, k)
      <4>1. k \in Int /\ \A y \in 0..(n - 1) : y > k => sd2[y] = sd[y]
        OBVIOUS
      <4> QED
        BY <3>1, <3>2, <4>1, SettledStays
    <3>3. CASE \E i \in DOMAIN waiting[sd[v]] : waiting[sd[v]][i] = v
      <4>1. PICK i \in DOMAIN waiting[sd[v]] : waiting[sd[v]][i] = v
        BY <3>3
      <4>2. CASE sd[v] # l
        BY <3>1, <4>1, <4>2
      <4>3. CASE sd[v] = l
        <5>1. i + 1 \in 1..(Len(waiting[l]) + 1) /\ i + 1 # 1 /\ i + 1 - 1 = i
          BY <1>2, <4>1, <4>3
        <5>2. i + 1 \in DOMAIN waiting2[l] /\ waiting2[l][i + 1] = v
          BY <1>1, <4>1, <4>3, <5>1
        <5> QED
          BY <3>1, <4>3, <5>2
      <4> QED
        BY <4>2, <4>3
    <3> QED
      BY <3>1, <3>2, <3>3 DEF SettledOk
  <2> QED
    BY <2>1, <2>2
<1> QED
  BY <1>3 DEF SettledOk

\* The first one waiting is settled.
LEMMA WaitsSettled ==
    ASSUME NEW par, NEW n \in Nat \ {0}, NEW lo, NEW k, NEW sd, NEW p \in 0..(n - 1),
           NEW waiting, NEW waiting2, waiting[p] \in Seq(0..(n - 1)), waiting[p] # <<>>,
           waiting2[p] = Tail(waiting[p]),
           \A q \in 0..(n - 1) : q # p => waiting2[q] = waiting[q],
           \A x \in 0..(n - 1) : sd[x] \in 0..(n - 1), WaitsOk(par, n, sd, waiting, lo, k),
           NEW dom, NEW dom2, \A x \in 0..(n - 1) : x # waiting[p][1] => dom2[x] = dom[x],
           SettledOk(par, n, sd, dom, waiting, lo),
           SettledAs(par, sd, dom2[waiting[p][1]], waiting[p][1], lo)
    PROVE  /\ WaitsOk(par, n, sd, waiting2, lo, k)
           /\ SettledOk(par, n, sd, dom2, waiting2, lo)
<1>1. Len(waiting[p]) \in Nat \ {0} /\ DOMAIN waiting[p] = 1..Len(waiting[p])
  BY LenProperties, EmptySeq
<1>2. /\ DOMAIN waiting2[p] = 1..(Len(waiting[p]) - 1)
      /\ \A i \in 1..(Len(waiting[p]) - 1) : waiting2[p][i] = waiting[p][i + 1]
  BY <1>1, HeadTailProperties
<1>3. \A i \in DOMAIN waiting2[p] : i + 1 \in DOMAIN waiting[p] /\ waiting2[p][i] = waiting[p][i + 1]
  BY <1>1, <1>2
<1>4. \A i \in DOMAIN waiting[p] : i # 1 =>
          i - 1 \in DOMAIN waiting2[p] /\ waiting2[p][i - 1] = waiting[p][i]
  BY <1>1, <1>2
<1>5. WaitsOk(par, n, sd, waiting2, lo, k)
  <2>1. ASSUME NEW q \in 0..(n - 1), NEW i \in DOMAIN waiting2[q]
        PROVE  \E j \in DOMAIN waiting[q] : waiting2[q][i] = waiting[q][j]
    <3>1. CASE q = p
      BY <1>3, <3>1
    <3>2. CASE q # p
      BY <3>2
    <3> QED
      BY <3>1, <3>2
  <2>2. ASSUME NEW q \in 0..(n - 1), NEW i \in DOMAIN waiting2[q]
        PROVE  /\ waiting2[q][i] > lo /\ sd[waiting2[q][i]] = q
               /\ \E c \in 1..k : par[c] = q /\ Above(par, c, waiting2[q][i])
    <3>1. PICK j \in DOMAIN waiting[q] : waiting2[q][i] = waiting[q][j]
      BY <2>1
    <3>2. /\ waiting[q][j] > lo /\ sd[waiting[q][j]] = q
          /\ \E c \in 1..k : par[c] = q /\ Above(par, c, waiting[q][j])
      BY DEF WaitsOk
    <3> QED
      BY <3>1, <3>2
  <2> QED
    BY <2>2 DEF WaitsOk
<1>6. ASSUME NEW v \in 0..(n - 1), v > lo
      PROVE  \/ \E i \in DOMAIN waiting2[sd[v]] : waiting2[sd[v]][i] = v
             \/ SettledAs(par, sd, dom2[v], v, lo)
  <2>1. CASE v = waiting[p][1]
    BY <2>1
  <2>2. CASE v # waiting[p][1]
    <3>1. CASE SettledAs(par, sd, dom[v], v, lo)
      BY <2>2, <3>1
    <3>2. CASE \E i \in DOMAIN waiting[sd[v]] : waiting[sd[v]][i] = v
      <4>1. PICK i \in DOMAIN waiting[sd[v]] : waiting[sd[v]][i] = v
        BY <3>2
      <4>2. CASE sd[v] = p
        <5>1. i \in DOMAIN waiting[p] /\ waiting[p][i] = v /\ i # 1
          BY <2>2, <4>1, <4>2
        <5>2. i - 1 \in DOMAIN waiting2[p] /\ waiting2[p][i - 1] = v
          BY <1>4, <5>1
        <5> QED
          BY <4>2, <5>2
      <4>3. CASE sd[v] # p
        BY <4>1, <4>3
      <4> QED
        BY <4>2, <4>3
    <3> QED
      BY <1>6, <3>1, <3>2 DEF SettledOk
  <2> QED
    BY <2>1, <2>2
<1> QED
  BY <1>5, <1>6 DEF SettledOk

\* Nothing waits at the parent of k: the loop goes on.
LEMMA WaitsNext ==
    ASSUME NEW par, NEW n \in Nat \ {0}, NEW lo, NEW k \in 1..(n - 1), NEW sd,
           NEW waiting, WaitsOk(par, n, sd, waiting, lo, k), waiting[par[k]] = <<>>
    PROVE  WaitsOk(par, n, sd, waiting, lo, k - 1)
<1>1. ASSUME NEW p \in 0..(n - 1), NEW i \in DOMAIN waiting[p]
      PROVE  /\ waiting[p][i] > lo /\ sd[waiting[p][i]] = p
             /\ \E c \in 1..(k - 1) : par[c] = p /\ Above(par, c, waiting[p][i])
  <2>1. /\ waiting[p][i] > lo /\ sd[waiting[p][i]] = p
        /\ \E c \in 1..k : par[c] = p /\ Above(par, c, waiting[p][i])
    BY DEF WaitsOk
  <2>2. PICK c \in 1..k : par[c] = p /\ Above(par, c, waiting[p][i])
    BY <2>1
  <2>3. c # k
    BY <1>1, <2>2
  <2>4. c \in 1..(k - 1)
    BY <2>3
  <2> QED
    BY <2>1, <2>2, <2>4
<1> QED
  BY <1>1 DEF WaitsOk

\* The second pass: the dominator of a vertex with a lower number is known by then.
LEMMA DomFinished ==
    ASSUME NEW par, NEW pre, NEW n \in Nat \ {0}, DepthFirst(par, pre, n),
           NEW sd, SemiOk(par, pre, n, sd), NEW k \in 1..(n - 1), NEW dom,
           SettledAs(par, sd, dom[k], k, 0),
           \A v \in 1..(n - 1) : v < k => IsDom(par, pre, n, sd, dom[v], v),
           NEW fin, fin = IF dom[k] < 0 THEN dom[-dom[k] - 1] ELSE dom[k]
    PROVE  IsDom(par, pre, n, sd, fin, k)
<1>0. IsTree(par, n)
  BY DEF DepthFirst
<1>1. PICK y : /\ LowestOn(par, sd, y, k)
               /\ dom[k] = IF sd[y] = sd[k] THEN sd[k] ELSE -y - 1
  BY DEF SettledAs
<1>2. y \in 0..(n - 1) /\ y <= k /\ y > sd[k]
  BY <1>0, <1>1, AboveLeq DEF LowestOn
<1>3. sd[k] \in 0..(n - 1)
  BY DEF SemiOk
<1>4. CASE sd[y] = sd[k]
  <2>1. fin = sd[k]
    BY <1>1, <1>3, <1>4
  <2> QED
    BY <1>1, <1>4, <2>1, SemiIsDom
<1>5. CASE sd[y] # sd[k]
  <2>1. y \in 1..(n - 1) /\ y < k
    BY <1>2, <1>3, <1>5
  <2>2. dom[k] = -y - 1 /\ -y - 1 < 0 /\ -(-y - 1) - 1 = y
    BY <1>1, <1>2, <1>5
  <2>3. fin = dom[y]
    BY <2>2
  <2>4. IsDom(par, pre, n, sd, dom[y], y)
    BY <2>1
  <2> QED
    BY <1>1, <1>5, <2>3, <2>4, LowestIsDom
<1> QED
  BY <1>4, <1>5

-----------------------------------------------------------------------------
(***************************************************************************)
(* Heap dumps.  The rows are the sub-records of a growing set of places,   *)
(* in the order of the file.  A row is added behind all others, and the    *)
(* one that is taken back is the last.                                     *)
(***************************************************************************)
Follows(p, spots) == \A q \in spots : q[1] < p[1] \/ (q[1] = p[1] /\ q[2] < p[2])

\* A place behind all others has the last rank and leaves the other ranks alone.
LEMMA RanksWithLast ==
    ASSUME NEW spots \in SUBSET (Nat \X Nat), IsFiniteSet(spots),
           NEW p \in Nat \X Nat, Follows(p, spots)
    PROVE  /\ p \notin spots /\ IsFiniteSet(spots \cup {p})
           /\ Cardinality(spots) \in Nat
           /\ Cardinality(spots \cup {p}) = Cardinality(spots) + 1
           /\ Cardinality(UpTo(spots \cup {p}, p)) = Cardinality(spots) + 1
           /\ \A q \in spots :
                 /\ Cardinality(UpTo(spots \cup {p}, q)) = Cardinality(UpTo(spots, q))
                 /\ Cardinality(UpTo(spots, q)) \in 1 .. Cardinality(spots)
<1>1. p \notin spots
  <2> SUFFICES ASSUME p \in spots PROVE FALSE
    OBVIOUS
  <2>1. p[1] < p[1] \/ (p[1] = p[1] /\ p[2] < p[2])
    BY DEF Follows
  <2>2. p[1] \in Nat /\ p[2] \in Nat
    OBVIOUS
  <2> QED
    BY <2>1, <2>2
<1>2. /\ IsFiniteSet(spots \cup {p}) /\ Cardinality(spots) \in Nat
      /\ Cardinality(spots \cup {p}) = Cardinality(spots) + 1
  BY <1>1, FS_AddElement, FS_CardinalityType
<1>3. UpTo(spots \cup {p}, p) = spots \cup {p}
  <2>1. p[2] <= p[2]
    OBVIOUS
  <2>2. \A q \in spots : q[1] < p[1] \/ (q[1] = p[1] /\ q[2] <= p[2])
    BY DEF Follows
  <2> QED
    BY <2>1, <2>2 DEF UpTo
<1>4. ASSUME NEW q \in spots
      PROVE  /\ UpTo(spots \cup {p}, q) = UpTo(spots, q)
             /\ Cardinality(UpTo(spots, q)) \in 1 .. Cardinality(spots)
  <2>1. q[1] \in Nat /\ q[2] \in Nat /\ p[1] \in Nat /\ p[2] \in Nat
    OBVIOUS
  <2>2. ~(p[1] < q[1] \/ (p[1] = q[1] /\ p[2] <= q[2]))
    BY <2>1 DEF Follows
  <2>3. UpTo(spots \cup {p}, q) = UpTo(spots, q)
    BY <2>2 DEF UpTo
  <2>4. q \in UpTo(spots, q) /\ UpTo(spots, q) \in SUBSET spots
    BY <2>1 DEF UpTo
  <2>5. /\ IsFiniteSet(UpTo(spots, q))
        /\ Cardinality(UpTo(spots, q)) <= Cardinality(spots)
    BY <2>4, FS_Subset
  <2>6. Cardinality(UpTo(spots, q)) \in Nat /\ Cardinality(UpTo(spots, q)) # 0
    BY <2>4, <2>5, FS_CardinalityType, FS_EmptySet
  <2> QED
    BY <1>2, <2>3, <2>5, <2>6
<1> QED
  BY <1>1, <1>2, <1>3, <1>4

LEMMA RowAppended ==
    ASSUME NEW R, NEW rows \in Seq(R), NEW spots \in SUBSET (Nat \X Nat), IsFiniteSet(spots),
           RowsOf(rows, spots),
           NEW p \in Nat \X Nat, RecordAt(p) \in R, Follows(p, spots)
    PROVE  /\ RowsOf(Append(rows, RecordAt(p)), spots \cup {p})
           /\ Append(rows, RecordAt(p)) \in Seq(R)
<1> DEFINE more == Append(rows, RecordAt(p))
           n == Cardinality(spots)
<1>1. /\ n \in Nat /\ Cardinality(spots \cup {p}) = n + 1
      /\ Cardinality(UpTo(spots \cup {p}, p)) = n + 1
      /\ \A q \in spots :
            /\ Cardinality(UpTo(spots \cup {p}, q)) = Cardinality(UpTo(spots, q))
            /\ Cardinality(UpTo(spots, q)) \in 1 .. n
  BY RanksWithLast
<1>2. Len(rows) = n /\ \A q \in spots : rows[Cardinality(UpTo(spots, q))] = RecordAt(q)
  BY DEF RowsOf
<1>3. /\ more \in Seq(R) /\ Len(more) = n + 1 /\ more[n + 1] = RecordAt(p)
      /\ \A i \in 1 .. n : more[i] = rows[i]
  BY <1>2, AppendProperties
<1> HIDE DEF more, n
<1>4. \A q \in spots \cup {p} : more[Cardinality(UpTo(spots \cup {p}, q))] = RecordAt(q)
  BY <1>1, <1>2, <1>3
<1> QED
  BY <1>1, <1>3, <1>4 DEF RowsOf, more

LEMMA RowTakenBack ==
    ASSUME NEW R, NEW rows \in Seq(R), NEW spots \in SUBSET (Nat \X Nat), IsFiniteSet(spots),
           NEW p \in Nat \X Nat, Follows(p, spots), RowsOf(rows, spots \cup {p})
    PROVE  /\ rows # <<>> /\ Front(rows) \in Seq(R)
           /\ RowsOf(Front(rows), spots)
<1> DEFINE less == Front(rows)
           n == Cardinality(spots)
<1>1. /\ n \in Nat /\ Cardinality(spots \cup {p}) = n + 1
      /\ \A q \in spots :
            /\ Cardinality(UpTo(spots \cup {p}, q)) = Cardinality(UpTo(spots, q))
            /\ Cardinality(UpTo(spots, q)) \in 1 .. n
  BY RanksWithLast
<1>2. /\ Len(rows) = n + 1
      /\ \A q \in spots : rows[Cardinality(UpTo(spots \cup {p}, q))] = RecordAt(q)
  BY <1>1 DEF RowsOf
<1>3. \A i \in 1 .. n : rows[i] \in R
  BY <1>1, <1>2, ElementOfSeq
<1>4. less = SubSeq(rows, 1, n)
  BY <1>1, <1>2 DEF Front
<1> HIDE DEF less, n
<1>5. /\ less \in Seq(R) /\ Len(less) = IF 1 <= n THEN n - 1 + 1 ELSE 0
      /\ \A i \in 1 .. n - 1 + 1 : less[i] = rows[1 + i - 1]
  BY <1>1, <1>3, <1>4, SubSeqProperties
<1>6. Len(less) = n /\ \A i \in 1 .. n : less[i] = rows[i]
  BY <1>1, <1>5
<1>7. \A q \in spots : less[Cardinality(UpTo(spots, q))] = RecordAt(q)
  BY <1>1, <1>2, <1>6
<1>8. rows # <<>>
  BY <1>1, <1>2
<1> QED
  BY <1>5, <1>6, <1>7, <1>8 DEF RowsOf, less, n

\* The places whose rows are there while a segment is read.
Seen ==
    {p \in RecordPlaces :
        /\ Legible(p) /\ RecordAt(p).tag \in ObjectTags \cup {"class"}
        /\ \/ p[1] < seg /\ ~(file.cut # "whole" /\ EndsTheFile(p))
           \/ p[1] = seg /\ p[2] < at}

\* The sub-records read of the segment are of known kinds, and the last one of a
\* file that is cut there is one that can be read without its end.
InSegment ==
    seg <= Len(file.segments) =>
        /\ at <= Len(file.segments[seg]) + 1
        /\ \A j \in DOMAIN file.segments[seg] :
              j < at => file.segments[seg][j].tag # "unknown"
        /\ seg = Len(file.segments) /\ 1 < at /\ at = Len(file.segments[seg]) + 1 =>
              /\ file.cut # "header"
              /\ file.cut = "data" =>
                    file.segments[seg][at - 1].tag \in ObjectTags \cup {"jni global"}

FileInv ==
    /\ file \in Files
    /\ phase \in {"segment", "resolve", "graph", "error"}
    /\ phase = "segment" =>
          /\ seg \in Nat \ {0} /\ at \in Nat \ {0}
          /\ table \in Seq(SubRecords(file))
          /\ IsFiniteSet(Seen) /\ RowsOf(table, Seen)
          /\ InSegment
    /\ phase \in {"resolve", "graph"} => RowsOf(table, Dumped)

\* Segments and their sub-records are sequences.
LEMMA SegmentsAreSeqs ==
    ASSUME file \in Files
    PROVE  /\ DOMAIN file.segments = 1 .. Len(file.segments) /\ Len(file.segments) \in Nat
           /\ \A s \in DOMAIN file.segments :
                 /\ file.segments[s] \in Seq(SubRecords(file))
                 /\ DOMAIN file.segments[s] = 1 .. Len(file.segments[s])
                 /\ Len(file.segments[s]) \in Nat
                 /\ \A i \in DOMAIN file.segments[s] : file.segments[s][i] \in SubRecords(file)
           /\ RecordPlaces \in SUBSET (Nat \X Nat)
           /\ \A p : p \in RecordPlaces <=>
                 /\ p = <<p[1], p[2]>>
                 /\ p[1] \in DOMAIN file.segments /\ p[2] \in DOMAIN file.segments[p[1]]
<1> DEFINE R == SubRecords(file)
<1>1. file.segments \in Seq(Seq(R))
  BY HeapFileAssumption
<1>2. DOMAIN file.segments = 1 .. Len(file.segments) /\ Len(file.segments) \in Nat
  BY <1>1, LenProperties
<1>3. ASSUME NEW s \in DOMAIN file.segments
      PROVE  /\ file.segments[s] \in Seq(R)
             /\ DOMAIN file.segments[s] = 1 .. Len(file.segments[s])
             /\ Len(file.segments[s]) \in Nat
             /\ \A i \in DOMAIN file.segments[s] : file.segments[s][i] \in R
  <2>1. file.segments[s] \in Seq(R)
    BY <1>1, <1>2, ElementOfSeq
  <2>2. DOMAIN file.segments[s] = 1 .. Len(file.segments[s]) /\ Len(file.segments[s]) \in Nat
    BY <2>1, LenProperties
  <2>3. \A i \in 1 .. Len(file.segments[s]) : file.segments[s][i] \in R
    BY <2>1, ElementOfSeq
  <2> QED
    BY <2>1, <2>2, <2>3
<1>4. \A p : p \in RecordPlaces <=>
                 /\ p = <<p[1], p[2]>>
                 /\ p[1] \in DOMAIN file.segments /\ p[2] \in DOMAIN file.segments[p[1]]
  BY DEF RecordPlaces
<1>5. \A s \in DOMAIN file.segments : \A i \in DOMAIN file.segments[s] : s \in Nat /\ i \in Nat
  BY <1>2, <1>3
<1>6. RecordPlaces \in SUBSET (Nat \X Nat)
  BY <1>5 DEF RecordPlaces
<1> QED
  BY <1>2, <1>3, <1>4, <1>6

\* The segment that is read.
LEMMA ThisSegment ==
    ASSUME file \in Files, NEW s \in Nat \ {0}, s <= Len(file.segments)
    PROVE  /\ s \in DOMAIN file.segments
           /\ DOMAIN file.segments[s] = 1 .. Len(file.segments[s])
           /\ Len(file.segments[s]) \in Nat
<1>1. DOMAIN file.segments = 1 .. Len(file.segments) /\ Len(file.segments) \in Nat
  BY SegmentsAreSeqs
<1>2. s \in DOMAIN file.segments
  BY <1>1
<1> QED
  BY <1>2, SegmentsAreSeqs

LEMMA InitFileInv == FileInit => FileInv
<1> SUFFICES ASSUME FileInit PROVE FileInv
  OBVIOUS
<1>1. /\ file \in Files /\ phase = "segment" /\ seg = 1 /\ at = 1 /\ table = <<>>
  BY DEF FileInit
<1>2. \A p \in RecordPlaces : ~(p[1] < 1) /\ ~(p[2] < 1)
  <2>1. \A p \in RecordPlaces : p[1] \in DOMAIN file.segments /\ p[2] \in DOMAIN file.segments[p[1]]
    BY <1>1, SegmentsAreSeqs
  <2>2. DOMAIN file.segments = 1 .. Len(file.segments) /\ Len(file.segments) \in Nat
    BY <1>1, SegmentsAreSeqs
  <2>3. \A s \in DOMAIN file.segments :
            DOMAIN file.segments[s] = 1 .. Len(file.segments[s]) /\ Len(file.segments[s]) \in Nat
    BY <1>1, SegmentsAreSeqs
  <2> QED
    BY <2>1, <2>2, <2>3
<1>3. Seen = {}
  BY <1>1, <1>2 DEF Seen
<1>4. RowsOf(table, Seen)
  BY <1>1, <1>3, FS_EmptySet DEF RowsOf
<1>5. IsFiniteSet(Seen)
  BY <1>3, FS_EmptySet
<1>6. InSegment
  <2> SUFFICES ASSUME seg <= Len(file.segments) PROVE InSegment
    BY DEF InSegment
  <2>1. seg \in DOMAIN file.segments
    BY <1>1, SegmentsAreSeqs
  <2>2. /\ DOMAIN file.segments[seg] = 1 .. Len(file.segments[seg])
        /\ Len(file.segments[seg]) \in Nat
    BY <1>1, <2>1, SegmentsAreSeqs
  <2> QED
    BY <1>1, <2>2 DEF InSegment
<1>7. table \in Seq(SubRecords(file))
  BY <1>1
<1> QED
  BY <1>1, <1>4, <1>5, <1>6, <1>7 DEF FileInv

\* What reading one sub-record does to the places that are there.
LEMMA SeenAfterOne ==
    ASSUME FileInv, phase = "segment", seg <= Len(file.segments), at <= Len(file.segments[seg]),
           Record.tag # "unknown", file' = file, seg' = seg, at' = at + 1
    PROVE  /\ <<seg, at>> \in RecordPlaces /\ RecordAt(<<seg, at>>) = Record
           /\ Follows(<<seg, at>>, Seen)
           /\ Seen' = IF Record.tag \in ObjectTags \cup {"class"} THEN Seen \cup {<<seg, at>>}
                      ELSE Seen
<1>1. file \in Files /\ seg \in Nat \ {0} /\ at \in Nat \ {0} /\ InSegment
  BY DEF FileInv
<1>2. /\ DOMAIN file.segments = 1 .. Len(file.segments) /\ Len(file.segments) \in Nat
      /\ seg \in DOMAIN file.segments
  BY <1>1, SegmentsAreSeqs
<1>3. /\ DOMAIN file.segments[seg] = 1 .. Len(file.segments[seg])
      /\ Len(file.segments[seg]) \in Nat /\ at \in DOMAIN file.segments[seg]
  BY <1>1, <1>2, SegmentsAreSeqs
<1> DEFINE here == <<seg, at>>
<1>4. here \in RecordPlaces
  BY <1>1, <1>2, <1>3, SegmentsAreSeqs
<1>5. RecordAt(here) = Record
  BY DEF RecordAt, Record
<1>6. Legible(here)
  <2>1. ASSUME NEW j \in 1 .. at PROVE file.segments[seg][j].tag # "unknown"
    <3>1. CASE j = at
      BY <3>1 DEF Record
    <3>2. CASE j # at
      <4>1. \A i \in DOMAIN file.segments[seg] : i < at => file.segments[seg][i].tag # "unknown"
        BY <1>1 DEF InSegment
      <4>2. j \in DOMAIN file.segments[seg] /\ j < at
        BY <1>1, <1>3, <3>2
      <4> QED
        BY <4>1, <4>2
    <3> QED
      BY <3>1, <3>2
  <2> QED
    BY <2>1 DEF Legible
<1>7. Follows(here, Seen)
  BY DEF Follows, Seen
<1>8. RecordPlaces' = RecordPlaces /\ \A p : Legible(p)' = Legible(p)
  BY DEF RecordPlaces, Legible
<1>9. \A p \in RecordPlaces : p[1] \in Nat /\ p[2] \in Nat /\ p = <<p[1], p[2]>>
  BY <1>1, SegmentsAreSeqs
<1>10. ASSUME NEW p \in RecordPlaces
       PROVE  p \in Seen' <=> \/ p \in Seen
                              \/ p = here /\ Record.tag \in ObjectTags \cup {"class"}
  <2>1. p \in Seen' <=>
          /\ Legible(p) /\ RecordAt(p).tag \in ObjectTags \cup {"class"}
          /\ \/ p[1] < seg /\ ~(file.cut # "whole" /\ EndsTheFile(p))
             \/ p[1] = seg /\ p[2] < at + 1
    BY <1>8 DEF Seen, RecordAt, EndsTheFile, Legible
  <2>2. p \in Seen <=>
          /\ Legible(p) /\ RecordAt(p).tag \in ObjectTags \cup {"class"}
          /\ \/ p[1] < seg /\ ~(file.cut # "whole" /\ EndsTheFile(p))
             \/ p[1] = seg /\ p[2] < at
    BY DEF Seen
  <2>3. p[2] < at + 1 <=> p[2] < at \/ p[2] = at
    BY <1>1, <1>9
  <2>4. CASE p = here
    BY <1>1, <1>5, <1>6, <2>1, <2>2, <2>4
  <2>5. CASE p # here
    <3>1. ~(p[1] = seg /\ p[2] = at)
      BY <1>9, <2>5
    <3> QED
      BY <2>1, <2>2, <2>3, <2>5, <3>1
  <2> QED
    BY <2>4, <2>5
<1>11. Seen' \subseteq RecordPlaces /\ Seen \subseteq RecordPlaces
  BY <1>8 DEF Seen
<1> HIDE DEF here
<1>12. Seen' = IF Record.tag \in ObjectTags \cup {"class"} THEN Seen \cup {here} ELSE Seen
  BY <1>4, <1>10, <1>11
<1> QED
  BY <1>4, <1>5, <1>7, <1>12 DEF here

\* A sub-record can be read although the file ends in it.
CanBeRead ==
    ~CutIn("header") /\ (CutIn("data") => Record.tag \in ObjectTags \cup {"jni global"})

\* Where reading goes on behind a sub-record that was readable.
LEMMA SegmentGoesOn ==
    ASSUME FileInv, phase = "segment", seg <= Len(file.segments), at <= Len(file.segments[seg]),
           Record.tag # "unknown", file' = file, seg' = seg, at' = at + 1,
           CanBeRead
    PROVE  InSegment'
<1>1. file \in Files /\ seg \in Nat \ {0} /\ at \in Nat \ {0} /\ InSegment
  BY DEF FileInv
<1> DEFINE records == file.segments[seg]
<1>2. DOMAIN records = 1 .. Len(records) /\ Len(records) \in Nat
  BY <1>1, ThisSegment
<1>3. PICK n \in Nat, i \in Nat : n = Len(records) /\ i = at
  BY <1>1, <1>2
<1>4. /\ i <= n /\ DOMAIN records = 1 .. n /\ records[i] = Record
      /\ \A j \in DOMAIN records : j < i => records[j].tag # "unknown"
  BY <1>1, <1>2, <1>3 DEF InSegment, Record
<1> HIDE DEF records
<1>5. ASSUME NEW j \in DOMAIN records, j < i + 1
      PROVE  records[j].tag # "unknown"
  <2>1. j \in Int /\ (j = i \/ j < i)
    BY <1>3, <1>4, <1>5
  <2> QED
    BY <1>4, <2>1
<1>6. ASSUME seg = Len(file.segments), i + 1 = n + 1
      PROVE  /\ file.cut # "header"
             /\ file.cut = "data" => records[i + 1 - 1].tag \in ObjectTags \cup {"jni global"}
  <2>1. i = n /\ i + 1 - 1 = i
    BY <1>3, <1>6
  <2>2. at = Len(file.segments[seg])
    BY <1>3, <2>1 DEF records
  <2>3. file.cut # "header" /\ (file.cut = "data" => Record.tag \in ObjectTags \cup {"jni global"})
    BY <1>6, <2>2 DEF CutIn, CanBeRead
  <2> QED
    BY <1>4, <2>1, <2>3
<1>7. i + 1 <= n + 1
  BY <1>3, <1>4
<1>8. at' = i + 1 /\ file'.segments[seg'] = records /\ n = Len(records)
  BY <1>3 DEF records
<1>9. /\ at' <= Len(file'.segments[seg']) + 1
      /\ \A j \in DOMAIN file'.segments[seg'] :
            j < at' => file'.segments[seg'][j].tag # "unknown"
  BY <1>5, <1>7, <1>8
<1>10. ASSUME seg' = Len(file'.segments), at' = Len(file'.segments[seg']) + 1
       PROVE  /\ file'.cut # "header"
              /\ file'.cut = "data" =>
                    file'.segments[seg'][at' - 1].tag \in ObjectTags \cup {"jni global"}
  <2>1. seg = Len(file.segments) /\ i + 1 = n + 1
    BY <1>8, <1>10
  <2>2. file'.segments[seg'][at' - 1] = records[i + 1 - 1]
    BY <1>8
  <2> QED
    BY <1>6, <2>1, <2>2
<1> QED
  BY <1>9, <1>10 DEF InSegment

LEMMA RowIsAdded ==
    ASSUME FileInv, phase = "segment", seg <= Len(file.segments), at <= Len(file.segments[seg]),
           Record.tag \in ObjectTags \cup {"class"}, UNCHANGED <<phase, file, seg>>, at' = at + 1,
           table' = Append(table, Record),
           CanBeRead
    PROVE  FileInv'
<1>1. /\ file \in Files /\ seg \in Nat \ {0} /\ at \in Nat \ {0}
      /\ table \in Seq(SubRecords(file)) /\ IsFiniteSet(Seen) /\ RowsOf(table, Seen)
  BY DEF FileInv
<1>2. Record.tag # "unknown"
  BY DEF ObjectTags
<1>3. /\ <<seg, at>> \in RecordPlaces /\ RecordAt(<<seg, at>>) = Record
      /\ Follows(<<seg, at>>, Seen) /\ Seen' = Seen \cup {<<seg, at>>}
  BY <1>2, SeenAfterOne
<1>4. Seen \in SUBSET (Nat \X Nat) /\ <<seg, at>> \in Nat \X Nat
  BY <1>1, SegmentsAreSeqs DEF Seen
<1>5. Record \in SubRecords(file)
  <2>1. seg \in DOMAIN file.segments /\ at \in DOMAIN file.segments[seg]
    BY <1>1, <1>3, SegmentsAreSeqs
  <2> QED
    BY <1>1, <2>1, SegmentsAreSeqs DEF Record
<1> DEFINE here == <<seg, at>>
<1>6. /\ RowsOf(Append(table, RecordAt(here)), Seen \cup {here})
      /\ Append(table, RecordAt(here)) \in Seq(SubRecords(file))
  <2> HIDE DEF here
  <2> QED
    BY <1>1, <1>3, <1>4, <1>5, RowAppended DEF here
<1>7. RowsOf(table, Seen)'
  <2>1. \A p : RecordAt(p)' = RecordAt(p)
    BY DEF RecordAt
  <2>2. table' = Append(table, RecordAt(here)) /\ Seen' = Seen \cup {here}
    BY <1>3
  <2> HIDE DEF here
  <2>3. RowsOf(table', Seen')
    BY <1>6, <2>2
  <2> QED
    BY <2>1, <2>3 DEF RowsOf
<1>8. IsFiniteSet(Seen')
  BY <1>1, <1>3, FS_AddElement
<1>9. InSegment'
  BY <1>2, SegmentGoesOn
<1>10. table' \in Seq(SubRecords(file)) /\ SubRecords(file') = SubRecords(file)
  BY <1>3, <1>6
<1> QED
  BY <1>1, <1>7, <1>8, <1>9, <1>10 DEF FileInv

LEMMA SegmentEnds ==
    ASSUME FileInv, EndSegment PROVE FileInv'
<1>1. /\ phase = "segment" /\ seg <= Len(file.segments) /\ at > Len(file.segments[seg])
      /\ table' = DropIncomplete(table) /\ seg' = seg + 1 /\ at' = 1
      /\ phase' = phase /\ file' = file
  BY DEF EndSegment
<1>2. /\ file \in Files /\ seg \in Nat \ {0} /\ at \in Nat \ {0} /\ InSegment
      /\ table \in Seq(SubRecords(file)) /\ IsFiniteSet(Seen) /\ RowsOf(table, Seen)
  BY <1>1 DEF FileInv
<1>3. seg \in DOMAIN file.segments
  BY <1>1, <1>2, ThisSegment
<1> DEFINE records == file.segments[seg]
<1>4. /\ DOMAIN records = 1 .. Len(records) /\ Len(records) \in Nat
      /\ records \in Seq(SubRecords(file))
  BY <1>2, <1>3, SegmentsAreSeqs
<1>5. /\ at = Len(records) + 1
      /\ \A j \in DOMAIN records : j < at => records[j].tag # "unknown"
  <2>1. /\ at <= Len(records) + 1
        /\ \A j \in DOMAIN records : j < at => records[j].tag # "unknown"
    BY <1>1, <1>2 DEF InSegment
  <2>2. at > Len(records)
    BY <1>1
  <2> HIDE DEF records
  <2> QED
    BY <1>2, <1>4, <2>1, <2>2
<1>6. \A p \in RecordPlaces : /\ p[1] \in DOMAIN file.segments /\ p[2] \in DOMAIN file.segments[p[1]]
                              /\ p[1] \in Nat /\ p[2] \in Nat /\ p = <<p[1], p[2]>>
  BY <1>2, SegmentsAreSeqs
<1>7. RecordPlaces' = RecordPlaces /\ (\A p : Legible(p)' = Legible(p))
      /\ (\A p : RecordAt(p)' = RecordAt(p)) /\ (\A p : EndsTheFile(p)' = EndsTheFile(p))
  BY <1>1 DEF RecordPlaces, Legible, RecordAt, EndsTheFile
<1>8. Seen' = {p \in Seen : ~(file.cut # "whole" /\ EndsTheFile(p))}
  <2>1. \A p \in RecordPlaces : p \in Seen' <=>
          /\ Legible(p) /\ RecordAt(p).tag \in ObjectTags \cup {"class"}
          /\ \/ p[1] < seg + 1 /\ ~(file.cut # "whole" /\ EndsTheFile(p))
             \/ p[1] = seg + 1 /\ p[2] < 1
    BY <1>1, <1>7 DEF Seen
  <2>2. \A p \in RecordPlaces : p \in Seen <=>
          /\ Legible(p) /\ RecordAt(p).tag \in ObjectTags \cup {"class"}
          /\ \/ p[1] < seg /\ ~(file.cut # "whole" /\ EndsTheFile(p))
             \/ p[1] = seg /\ p[2] < at
    BY DEF Seen
  <2>3. \A p \in RecordPlaces :
          ~(p[2] < 1) /\ (p[1] < seg + 1 <=> p[1] < seg \/ p[1] = seg)
    <3>1. \A s \in DOMAIN file.segments : DOMAIN file.segments[s] = 1 .. Len(file.segments[s])
      BY <1>2, SegmentsAreSeqs
    <3> QED
      BY <1>2, <1>6, <3>1
  <2>4. \A p \in RecordPlaces : p[1] = seg => p[2] < at
    BY <1>4, <1>5, <1>6
  <2>5. Seen' \subseteq RecordPlaces /\ Seen \subseteq RecordPlaces
    BY <1>7 DEF Seen
  <2> QED
    BY <2>1, <2>2, <2>3, <2>4, <2>5
<1>9. /\ IsFiniteSet(Seen') /\ table' \in Seq(SubRecords(file)) /\ RowsOf(table', Seen')
  <2> DEFINE last == <<seg, Len(records)>>
  <2>1. CASE file.cut # "whole" /\ last \in Seen /\ EndsTheFile(last)
    <3>1. last \in RecordPlaces /\ seg = Len(file.segments) /\ Len(records) >= 1
      <4>1. last \in RecordPlaces
        BY <2>1 DEF Seen
      <4> QED
        BY <1>4, <1>6, <2>1, <4>1 DEF EndsTheFile
    <3>2. file.cut = "data" /\ records[Len(records)].tag \in ObjectTags
      <4>1. 1 < at /\ at - 1 = Len(records)
        BY <1>4, <1>5, <3>1
      <4>2. /\ file.cut # "header"
            /\ file.cut = "data" => records[at - 1].tag \in ObjectTags \cup {"jni global"}
        BY <1>1, <1>2, <1>5, <3>1, <4>1 DEF InSegment
      <4>3. records[Len(records)].tag \in ObjectTags \cup {"class"}
        BY <2>1 DEF Seen, RecordAt
      <4>4. file.cut \in {"whole", "header", "data"}
        BY <1>2, HeapFileAssumption
      <4> QED
        BY <2>1, <4>1, <4>2, <4>3, <4>4 DEF ObjectTags
    <3>3. Seen' = Seen \ {last}
      <4>1. \A p \in Seen : EndsTheFile(p) => p = last
        BY <1>6, <3>1 DEF EndsTheFile, Seen
      <4> QED
        BY <1>8, <2>1, <4>1
    <3>4. Follows(last, Seen \ {last})
      <4> SUFFICES ASSUME NEW p \in Seen, p # last
                   PROVE  p[1] < seg \/ (p[1] = seg /\ p[2] < Len(records))
        BY DEF Follows
      <4>1. p \in RecordPlaces /\ (p[1] < seg \/ p[1] = seg)
        BY DEF Seen
      <4>2. p[1] = seg => p[2] # Len(records) /\ p[2] \in 1 .. Len(records)
        BY <1>4, <1>6, <4>1
      <4> QED
        BY <1>4, <4>1, <4>2
    <3>5. /\ Seen \ {last} \in SUBSET (Nat \X Nat) /\ last \in Nat \X Nat
          /\ IsFiniteSet(Seen \ {last}) /\ (Seen \ {last}) \cup {last} = Seen
      <4>1. Seen \subseteq RecordPlaces /\ RecordPlaces \in SUBSET (Nat \X Nat)
        BY <1>2, SegmentsAreSeqs DEF Seen
      <4>2. last \in Nat \X Nat /\ Seen \ {last} \in SUBSET (Nat \X Nat)
        BY <2>1, <4>1
      <4>3. (Seen \ {last}) \cup {last} = Seen
        BY <2>1
      <4>4. IsFiniteSet(Seen \ {last})
        BY <1>2, FS_RemoveElement
      <4> QED
        BY <4>2, <4>3, <4>4
    <3> HIDE DEF last
    <3>6. /\ table # <<>> /\ Front(table) \in Seq(SubRecords(file))
          /\ RowsOf(Front(table), Seen \ {last})
      BY <1>2, <3>4, <3>5, RowTakenBack
    <3>7. table' = Front(table)
      <4>1. records # <<>> /\ Last(records) = records[Len(records)]
        BY <1>4, <3>1 DEF Last
      <4> QED
        BY <1>1, <3>1, <3>2, <3>6, <4>1 DEF DropIncomplete
    <3> QED
      BY <3>3, <3>5, <3>6, <3>7
  <2>2. CASE ~(file.cut # "whole" /\ last \in Seen /\ EndsTheFile(last))
    <3>1. Seen' = Seen
      <4>1. \A p \in Seen : EndsTheFile(p) => p = last
        <5>1. \A p \in Seen : p \in RecordPlaces /\ (p[1] < seg \/ p[1] = seg)
          BY DEF Seen
        <5>2. Len(file.segments) \in Nat /\ \A p \in Seen : EndsTheFile(p) => p[1] = seg
          BY <1>1, <1>2, <1>6, <5>1, SegmentsAreSeqs DEF EndsTheFile
        <5> QED
          BY <1>6, <5>1, <5>2 DEF EndsTheFile
      <4> QED
        BY <1>8, <2>2, <4>1
    <3>2. table' = table
      <4> SUFFICES ASSUME file.cut = "data", seg = Len(file.segments), records # <<>>,
                          Last(records).tag \in ObjectTags
                   PROVE  FALSE
        BY <1>1 DEF DropIncomplete
      <4>1. Len(records) \in DOMAIN records /\ Last(records) = records[Len(records)]
        BY <1>4 DEF Last
      <4>2. last \in RecordPlaces /\ RecordAt(last) = Last(records) /\ EndsTheFile(last)
        BY <1>2, <1>3, <4>1, SegmentsAreSeqs DEF RecordAt, EndsTheFile
      <4>3. Legible(last)
        <5>1. \A j \in 1 .. Len(records) : j < at /\ j \in DOMAIN records
          BY <1>4, <1>5
        <5> QED
          BY <1>5, <5>1 DEF Legible
      <4>4. last \in Seen
        BY <1>4, <1>5, <4>2, <4>3 DEF Seen
      <4> QED
        BY <2>2, <4>2, <4>4
    <3> QED
      BY <1>2, <3>1, <3>2
  <2> QED
    BY <2>1, <2>2
<1>10. RowsOf(table, Seen)'
  BY <1>7, <1>9 DEF RowsOf
<1>11. InSegment'
  <2> SUFFICES ASSUME seg + 1 <= Len(file.segments) PROVE InSegment'
    BY <1>1 DEF InSegment
  <2>1. seg + 1 \in DOMAIN file.segments
    BY <1>2, SegmentsAreSeqs
  <2>2. /\ DOMAIN file.segments[seg + 1] = 1 .. Len(file.segments[seg + 1])
        /\ Len(file.segments[seg + 1]) \in Nat
    BY <1>2, <2>1, SegmentsAreSeqs
  <2> QED
    BY <1>1, <2>2 DEF InSegment
<1> QED
  BY <1>1, <1>2, <1>9, <1>10, <1>11 DEF FileInv

LEMMA SegmentSkipped ==
    ASSUME FileInv, SkipUnknown PROVE FileInv'
<1>1. /\ phase = "segment" /\ seg <= Len(file.segments) /\ at <= Len(file.segments[seg])
      /\ Record.tag = "unknown" /\ seg' = seg + 1 /\ at' = 1
      /\ phase' = phase /\ file' = file /\ table' = table
  BY DEF SkipUnknown, Reading
<1>2. /\ file \in Files /\ seg \in Nat \ {0} /\ at \in Nat \ {0}
      /\ table \in Seq(SubRecords(file)) /\ IsFiniteSet(Seen) /\ RowsOf(table, Seen)
  BY <1>1 DEF FileInv
<1>3. seg \in DOMAIN file.segments
  BY <1>1, <1>2, SegmentsAreSeqs
<1>4. Len(file.segments[seg]) \in Nat /\ Len(file.segments) \in Nat
  BY <1>2, <1>3, SegmentsAreSeqs
<1>5. \A p \in RecordPlaces : /\ p[1] \in DOMAIN file.segments /\ p[2] \in DOMAIN file.segments[p[1]]
                              /\ p[1] \in Nat /\ p[2] \in Nat /\ ~(p[2] < 1)
  <2>1. \A s \in DOMAIN file.segments : DOMAIN file.segments[s] = 1 .. Len(file.segments[s])
    BY <1>2, SegmentsAreSeqs
  <2>2. \A p \in RecordPlaces : /\ p[1] \in DOMAIN file.segments /\ p[2] \in DOMAIN file.segments[p[1]]
                                /\ p[1] \in Nat /\ p[2] \in Nat
    BY <1>2, SegmentsAreSeqs
  <2> QED
    BY <2>1, <2>2
<1>6. RecordPlaces' = RecordPlaces /\ (\A p : Legible(p)' = Legible(p))
      /\ (\A p : RecordAt(p)' = RecordAt(p)) /\ (\A p : EndsTheFile(p)' = EndsTheFile(p))
  BY <1>1 DEF RecordPlaces, Legible, RecordAt, EndsTheFile
<1>7. ASSUME NEW p \in RecordPlaces
      PROVE  p \in Seen' <=> p \in Seen
  <2>1. p \in Seen' <=>
          /\ Legible(p) /\ RecordAt(p).tag \in ObjectTags \cup {"class"}
          /\ \/ p[1] < seg + 1 /\ ~(file.cut # "whole" /\ EndsTheFile(p))
             \/ p[1] = seg + 1 /\ p[2] < 1
    BY <1>1, <1>6 DEF Seen
  <2>2. p \in Seen <=>
          /\ Legible(p) /\ RecordAt(p).tag \in ObjectTags \cup {"class"}
          /\ \/ p[1] < seg /\ ~(file.cut # "whole" /\ EndsTheFile(p))
             \/ p[1] = seg /\ p[2] < at
    BY DEF Seen
  <2>3. CASE p[1] = seg /\ p[2] < at
    <3>1. p[2] # Len(file.segments[seg])
      BY <1>1, <1>2, <1>4, <1>5, <2>3
    <3>2. ~EndsTheFile(p)
      BY <2>3, <3>1 DEF EndsTheFile
    <3>3. p[1] < seg + 1
      BY <1>2, <2>3
    <3> QED
      BY <2>1, <2>2, <2>3, <3>2, <3>3
  <2>4. CASE p[1] = seg /\ ~(p[2] < at)
    <3>1. at \in 1 .. p[2]
      BY <1>2, <1>5, <2>4
    <3>2. ~Legible(p)
      BY <1>1, <2>4, <3>1 DEF Legible, Record
    <3> QED
      BY <2>1, <2>2, <3>2
  <2>5. CASE p[1] # seg
    <3>1. p[1] < seg + 1 <=> p[1] < seg
      BY <1>2, <1>5, <2>5
    <3> QED
      BY <1>5, <2>1, <2>2, <2>5, <3>1
  <2> QED
    BY <2>3, <2>4, <2>5
<1>8. Seen' = Seen
  <2>1. Seen' \subseteq RecordPlaces /\ Seen \subseteq RecordPlaces
    BY <1>6 DEF Seen
  <2> QED
    BY <1>7, <2>1
<1>9. RowsOf(table, Seen)'
  BY <1>1, <1>2, <1>6, <1>8 DEF RowsOf
<1>10. InSegment'
  <2> SUFFICES ASSUME seg + 1 <= Len(file.segments) PROVE InSegment'
    BY <1>1 DEF InSegment
  <2>1. seg + 1 \in DOMAIN file.segments
    BY <1>2, SegmentsAreSeqs
  <2>2. /\ DOMAIN file.segments[seg + 1] = 1 .. Len(file.segments[seg + 1])
        /\ Len(file.segments[seg + 1]) \in Nat
    BY <1>2, <2>1, SegmentsAreSeqs
  <2> QED
    BY <1>1, <2>2 DEF InSegment
<1> QED
  BY <1>1, <1>2, <1>8, <1>9, <1>10 DEF FileInv

LEMMA SameRows ==
    ASSUME file' = file, table' = table
    PROVE  RowsOf(table, Dumped)' = RowsOf(table, Dumped)
<1>1. Dumped' = Dumped
  BY DEF Dumped, RecordPlaces, Legible, RecordAt, EndsTheFile
<1> QED
  BY <1>1 DEF RowsOf, RecordAt

\* Behind the last segment everything that was dumped has its row.
LEMMA FileEnds ==
    ASSUME FileInv, EndFile PROVE FileInv'
<1>1. /\ phase = "segment" /\ seg > Len(file.segments) /\ phase' \in {"error", "resolve"}
      /\ file' = file /\ table' = table
  BY DEF EndFile
<1>2. file \in Files /\ seg \in Nat \ {0} /\ RowsOf(table, Seen)
  BY <1>1 DEF FileInv
<1>3. \A p \in RecordPlaces : p[1] < seg
  <2>1. /\ DOMAIN file.segments = 1 .. Len(file.segments) /\ Len(file.segments) \in Nat
        /\ \A p \in RecordPlaces : p[1] \in DOMAIN file.segments
    BY <1>2, SegmentsAreSeqs
  <2> QED
    BY <1>1, <1>2, <2>1
<1>4. Seen = Dumped
  BY <1>2, <1>3 DEF Seen, Dumped
<1>5. RowsOf(table, Dumped)'
  BY <1>1, <1>2, <1>4, SameRows
<1> QED
  BY <1>1, <1>2, <1>5 DEF FileInv

LEMMA NextFileInv == FileInv /\ [FileNext]_fileVars => FileInv'
<1> SUFFICES ASSUME FileInv, [FileNext]_fileVars PROVE FileInv'
  OBVIOUS
<1>1. CASE ReadObject
  <2>1. CASE Unreadable
    BY <1>1, <2>1 DEF Unreadable, FileInv, ReadObject, Reading
  <2>2. CASE ~CutIn("header") /\ table' = Append(table, Record) /\ at' = at + 1
             /\ UNCHANGED <<phase, file, seg, roots, layout>>
    BY <1>1, <2>2, RowIsAdded DEF ReadObject, Reading, CanBeRead
  <2> QED
    BY <1>1, <2>1, <2>2 DEF ReadObject
<1>2. CASE ReadClass
  <2>1. CASE Unreadable
    BY <1>2, <2>1 DEF Unreadable, FileInv, ReadClass, Reading
  <2>2. CASE ~CutIn("header") /\ ~CutIn("data") /\ table' = Append(table, Record)
             /\ at' = at + 1 /\ UNCHANGED <<phase, file, seg, roots, layout>>
    BY <1>2, <2>2, RowIsAdded DEF ReadClass, Reading, CanBeRead
  <2> QED
    BY <1>2, <2>1, <2>2 DEF ReadClass
<1>3. CASE ReadRoot
  <2>1. CASE Unreadable
    BY <1>3, <2>1 DEF Unreadable, FileInv, ReadRoot, Reading
  <2>2. CASE ~CutIn("header") /\ ~(CutIn("data") /\ Record.tag = "root")
             /\ at' = at + 1 /\ UNCHANGED <<phase, file, seg, table, layout>>
    <3>1. /\ phase = "segment" /\ seg <= Len(file.segments) /\ at <= Len(file.segments[seg])
          /\ Record.tag \in RootTags
      BY <1>3 DEF ReadRoot, Reading
    <3>2. Record.tag # "unknown" /\ Record.tag \notin ObjectTags \cup {"class"}
      BY <3>1 DEF RootTags, ObjectTags
    <3>3. Seen' = Seen
      BY <2>2, <3>1, <3>2, SeenAfterOne
    <3>4. InSegment'
      BY <2>2, <3>1, <3>2, SegmentGoesOn DEF RootTags, CanBeRead
    <3>5. RowsOf(table, Seen)'
      BY <2>2, <3>1, <3>3 DEF FileInv, RowsOf, RecordAt
    <3> QED
      BY <2>2, <3>1, <3>3, <3>4, <3>5 DEF FileInv
  <2> QED
    BY <1>3, <2>1, <2>2 DEF ReadRoot
<1>4. CASE SkipUnknown
  BY <1>4, SegmentSkipped
<1>5. CASE EndSegment
  BY <1>5, SegmentEnds
<1>6. CASE EndFile
  BY <1>6, FileEnds
<1>7. CASE Resolve
  <2>1. phase = "resolve" /\ phase' = "graph" /\ file' = file /\ table' = table
    BY <1>7 DEF Resolve
  <2> QED
    BY <2>1, SameRows DEF FileInv
<1>8. CASE UNCHANGED fileVars
  <2>1. UNCHANGED <<phase, file, seg, at, table>>
    BY <1>8 DEF fileVars
  <2>2. Seen' = Seen /\ InSegment' = InSegment
    BY <2>1 DEF Seen, InSegment, RecordPlaces, Legible, RecordAt, EndsTheFile
  <2>3. RowsOf(table, Seen)' = RowsOf(table, Seen)
    BY <2>1, <2>2 DEF RowsOf, RecordAt
  <2> QED
    BY <2>1, <2>2, <2>3, SameRows DEF FileInv
<1> QED
  BY <1>1, <1>2, <1>3, <1>4, <1>5, <1>6, <1>7, <1>8 DEF FileNext

\* Whatever segments a dump has and wherever it ends, if it is read at all the
\* table holds each of its complete objects once, in the order of the file, and
\* nothing else: hprof_report.py, HeapDump._parse_heap with its warning, its
\* exceptions and the last object that is taken back.
THEOREM EveryObjectOnce == FileSpec => []CompleteObjectsOnly
<1>1. FileInv => CompleteObjectsOnly
  BY DEF FileInv, CompleteObjectsOnly
<1> QED
  BY <1>1, InitFileInv, NextFileInv, PTL DEF FileSpec

-----------------------------------------------------------------------------
(***************************************************************************)
(* Paths from the roots.  A vertex come to has a distance to the goal; the *)
(* search comes to all of one distance before it looks at any of them.     *)
(***************************************************************************)
Come == DOMAIN nxtOf

\* The ways found lead to the goal, one step nearer with each link.
Links(dist) ==
    /\ dist \in [Come -> Nat]
    /\ Come \subseteq Found \ {0} /\ goal \in Come /\ dist[goal] = 0
    /\ \A x \in Come \ {goal} :
          /\ nxtOf[x] \in Come /\ x \in preds[nxtOf[x]] /\ Passable(x, nxtOf[x], strict)
          /\ dist[x] = dist[nxtOf[x]] + 1

\* No root is a neighbour of x, and every neighbour that may be passed was come to.
Expanded(x, dist) ==
    /\ 0 \notin preds[x]
    /\ \A u \in preds[x] : Passable(u, x, strict) => u \in Come /\ dist[u] <= dist[x] + 1

\* The next layer is that of distance n.
Layered(dist, n) ==
    /\ Links(dist) /\ n \in Nat
    /\ frontier \subseteq Come /\ fresh \subseteq Come
    /\ \A x \in frontier : dist[x] + 1 = n
    /\ \A x \in fresh : dist[x] = n
    /\ \A x \in Come : dist[x] <= n
    /\ \A x \in Come : x \notin frontier /\ x \notin fresh => Expanded(x, dist)

\* What was built of the path, and that everything nearer to the goal was looked at.
Traced(dist) ==
    /\ Links(dist)
    /\ chain \in Seq(Come) /\ chain # <<>> /\ 0 \in preds[chain[1]]
    /\ \A i \in 1..Len(chain) : dist[chain[i]] + i = dist[chain[1]] + 1
    /\ \A i \in 1..(Len(chain) - 1) :
          chain[i] \in preds[chain[i + 1]] /\ Passable(chain[i], chain[i + 1], strict)
    /\ \A x \in Come : dist[x] < dist[chain[1]] => Expanded(x, dist)

PathTypes ==
    /\ IsFiniteSet(Found) /\ preds \in [Found -> SUBSET Found] /\ strict \in BOOLEAN
    /\ hunt \in {"idle", "look", "trace", "shown"}
    /\ hunt # "idle" => goal \in Found \ {0}

NoStrictPath ==
    hunt # "idle" /\ ~strict /\ TRUE \notin gaveUp =>
        \A n \in Nat \ {0} : NoPath(n, goal, TRUE)

PathsInv ==
    /\ PathTypes
    /\ hunt = "look" => chain = <<>> /\ \E dist, n : Layered(dist, n)
    /\ hunt = "trace" => \E dist : Traced(dist)
    /\ NoStrictPath
    /\ hunt = "shown" =>
          /\ chain # <<>> => /\ Len(chain) \in Nat /\ IsPath(chain, Len(chain), goal, strict)
                             /\ \A n \in 1..(Len(chain) - 1) : NoPath(n, goal, strict)
          /\ chain = <<>> /\ FALSE \notin gaveUp =>
                ~strict /\ \A n \in Nat \ {0} : NoPath(n, goal, FALSE)

\* Follow a path back from the goal: as long as the search came to its vertices and
\* looked at them, it came to the one before, and at the first to a root.
LEMMA NoWayPast ==
    ASSUME NEW dist, Links(dist), NEW n \in Nat \ {0},
           \A x \in Come : dist[x] < n => Expanded(x, dist)
    PROVE  NoPath(n, goal, strict)
<1> SUFFICES ASSUME NEW q \in [1..n -> Found \ {0}], IsPath(q, n, goal, strict)
             PROVE  FALSE
  BY DEF NoPath
<1> DEFINE T == {i \in 1..n : q[i] \in Come /\ dist[q[i]] <= n - i}
<1>1. n \in T
  BY DEF Links, IsPath
<1>2. PICK m \in T : \A k \in T : m <= k
  <2>1. T \in SUBSET Nat /\ T # {}
    BY <1>1
  <2> HIDE DEF T
  <2> QED
    BY <2>1, LeastOf
<1>3. m \in 1..n /\ q[m] \in Come /\ dist[q[m]] \in Nat /\ dist[q[m]] <= n - m
  BY <1>2 DEF Links
<1>4. Expanded(q[m], dist)
  BY <1>3
<1>5. CASE m = 1
  BY <1>4, <1>5 DEF Expanded, IsPath
<1>6. CASE m # 1
  <2>1. m - 1 \in 1..(n - 1) /\ (m - 1) + 1 = m
    BY <1>3, <1>6
  <2>2. q[m - 1] \in preds[q[m]] /\ Passable(q[m - 1], q[m], strict)
    BY <2>1 DEF IsPath, Passable
  <2>3. q[m - 1] \in Come /\ dist[q[m - 1]] <= dist[q[m]] + 1
    BY <1>4, <2>2 DEF Expanded
  <2>4. dist[q[m - 1]] \in Nat
    BY <2>3 DEF Links
  <2>5. m - 1 \in T
    BY <1>3, <2>1, <2>3, <2>4
  <2> QED
    BY <1>2, <1>3, <2>5
<1> QED
  BY <1>5, <1>6

\* Which links are weak stays as it is.
LEMMA SameLinks ==
    ASSUME UNCHANGED <<fileVars, vertex, preds>>
    PROVE  /\ \A u, v, only : Passable(u, v, only)' <=> Passable(u, v, only)
           /\ \A n, d, only : NoPath(n, d, only)' <=> NoPath(n, d, only)
           /\ \A q, n, d, only : IsPath(q, n, d, only)' <=> IsPath(q, n, d, only)
<1>1. table' = table /\ vertex' = vertex /\ preds' = preds
  BY DEF fileVars
<1>2. \A u, v : StrongEdge(u, v)' <=> StrongEdge(u, v)
  BY <1>1 DEF StrongEdge, RefFields, IsReference, Ancestry, ClassOfId, LastRow, Nodes
<1>3. \A q, n, d, only : IsPath(q, n, d, only)' <=> IsPath(q, n, d, only)
  BY <1>1, <1>2 DEF IsPath
<1>4. \A n, d, only : NoPath(n, d, only)' <=> NoPath(n, d, only)
  BY <1>1, <1>3 DEF NoPath, Found
<1> QED
  BY <1>1, <1>2, <1>3, <1>4 DEF Passable

LEMMA InitPathsInv == PathsInit => PathsInv
BY DEF PathsInit, PathsIdle, PathsInv, PathTypes, NoStrictPath

\* A search begins at the goal, which is the layer of distance 0.
LEMMA SearchBegins ==
    ASSUME NEW d \in Found \ {0}, NEW only, StartFrom(d, only), goal' = d, vertex' = vertex
    PROVE  \E dist, n : Layered(dist, n)'
<1> DEFINE dist == [x \in {d} |-> 0]
<1>1. /\ nxtOf' = [x \in {d} |-> -1] /\ frontier' = {} /\ fresh' = {d} /\ Come' = {d}
      /\ Found' = Found
  BY DEF StartFrom, Come, Found
<1>2. dist \in [{d} -> Nat] /\ dist[d] = 0
  OBVIOUS
<1> HIDE DEF dist
<1>3. Links(dist)'
  BY <1>1, <1>2 DEF Links
<1>4. Layered(dist, 0)'
  BY <1>1, <1>2, <1>3 DEF Layered
<1> QED
  BY <1>4

\* The next layer is taken up when this one was looked at.
LEMMA LayerIsTaken ==
    ASSUME NEW dist, NEW n, Layered(dist, n), NextLayer, UNCHANGED <<fileVars, vertex, preds>>
    PROVE  Layered(dist, n + 1)'
<1>1. /\ frontier = {} /\ frontier' = fresh /\ fresh' = {}
      /\ UNCHANGED <<goal, strict, nxtOf, vertex, preds>>
  BY DEF NextLayer
<1>2. Links(dist)'
  BY <1>1, SameLinks DEF Layered, Links, Come, Found
<1>3. \A x : Expanded(x, dist) => Expanded(x, dist)'
  BY <1>1, SameLinks DEF Expanded, Come
<1>4. /\ n \in Nat /\ frontier' \subseteq Come' /\ fresh' \subseteq Come'
      /\ \A x \in frontier' : dist[x] = n
      /\ \A x \in Come' : dist[x] \in Nat /\ dist[x] <= n
  BY <1>1 DEF Layered, Links, Come
<1>5. \A x \in Come' : dist[x] <= n + 1
  BY <1>4
<1>6. \A x \in Come' : x \notin frontier' /\ x \notin fresh' => Expanded(x, dist)'
  BY <1>1, <1>3 DEF Layered, Come
<1> QED
  BY <1>1, <1>2, <1>4, <1>5, <1>6 DEF Layered

\* A vertex no root refers to is looked at.
LEMMA VertexIsLookedAt ==
    ASSUME PathTypes, NEW dist, NEW n, Layered(dist, n), NEW v \in frontier, LookAt(v),
           0 \notin preds[v], UNCHANGED <<fileVars, vertex, preds>>
    PROVE  \E more : Layered(more, n)'
<1> DEFINE new == {u \in preds[v] : u \notin Come /\ Passable(u, v, strict)}
           longer == [u \in Come \cup new |-> IF u \in new THEN n ELSE dist[u]]
<1>1. /\ nxtOf' = [u \in Come \cup new |-> IF u \in new THEN v ELSE nxtOf[u]]
      /\ frontier' = frontier \ {v} /\ fresh' = fresh \cup new
      /\ UNCHANGED <<goal, strict, vertex, preds>>
  BY DEF LookAt, Come
<1>2. Come' = Come \cup new /\ Found' = Found
  BY <1>1 DEF Come, Found
<1>3. /\ v \in Come /\ dist[v] + 1 = n /\ n \in Nat /\ dist \in [Come -> Nat]
      /\ new \cap Come = {} /\ goal \in Come /\ goal \notin new
  BY DEF Layered, Links
<1>4. new \subseteq Found \ {0}
  <2>1. preds[v] \subseteq Found
    BY <1>3 DEF PathTypes, Layered, Links
  <2> QED
    BY <2>1
<1>5. PICK more :
      /\ more \in [Come' -> Nat]
      /\ \A x \in Come : more[x] = dist[x] /\ nxtOf'[x] = nxtOf[x] /\ x \notin new
      /\ \A x \in new : more[x] = n /\ nxtOf'[x] = v
  <2>1. /\ longer \in [Come' -> Nat]
        /\ \A x \in Come : longer[x] = dist[x] /\ nxtOf'[x] = nxtOf[x] /\ x \notin new
        /\ \A x \in new : longer[x] = n /\ nxtOf'[x] = v
    BY <1>1, <1>2, <1>3
  <2> HIDE DEF longer, new
  <2> QED
    BY <2>1
<1>6. \A x \in new : x \in preds[v] /\ Passable(x, v, strict) /\ x \notin Come
  OBVIOUS
<1>7. \A u \in preds[v] : Passable(u, v, strict) => u \in Come \cup new
  OBVIOUS
<1> HIDE DEF new, longer
<1>8. Links(more)'
  <2>1. \A x \in Come' \ {goal} :
          /\ nxtOf'[x] \in Come' /\ x \in preds[nxtOf'[x]] /\ Passable(x, nxtOf'[x], strict)
          /\ more[x] = more[nxtOf'[x]] + 1
    <3> SUFFICES ASSUME NEW x \in Come' \ {goal}
                 PROVE  /\ nxtOf'[x] \in Come' /\ x \in preds[nxtOf'[x]]
                        /\ Passable(x, nxtOf'[x], strict) /\ more[x] = more[nxtOf'[x]] + 1
      OBVIOUS
    <3>1. CASE x \in new
      BY <1>2, <1>3, <1>5, <1>6, <3>1
    <3>2. CASE x \in Come
      <4>1. /\ nxtOf[x] \in Come /\ x \in preds[nxtOf[x]] /\ Passable(x, nxtOf[x], strict)
            /\ dist[x] = dist[nxtOf[x]] + 1
        BY <3>2 DEF Layered, Links
      <4> QED
        BY <1>2, <1>5, <3>2, <4>1
    <3> QED
      BY <1>2, <3>1, <3>2
  <2>2. Come' \subseteq Found' \ {0} /\ goal \in Come' /\ more[goal] = 0
    BY <1>2, <1>3, <1>4, <1>5 DEF Layered, Links
  <2> QED
    BY <1>1, <1>5, <2>1, <2>2, SameLinks DEF Links
<1>9. \A x \in Come : Expanded(x, dist) => Expanded(x, more)'
  <2> SUFFICES ASSUME NEW x \in Come, Expanded(x, dist), NEW u \in preds[x], Passable(u, x, strict)
               PROVE  u \in Come' /\ more[u] <= more[x] + 1
    BY <1>1, SameLinks DEF Expanded
  <2> QED
    BY <1>2, <1>5 DEF Expanded
<1>10. Expanded(v, more)'
  <2> SUFFICES ASSUME NEW u \in preds[v], Passable(u, v, strict)
               PROVE  u \in Come' /\ more[u] <= more[v] + 1
    BY <1>1, SameLinks DEF Expanded
  <2>1. more[v] = dist[v] /\ more[v] + 1 = n
    BY <1>3, <1>5
  <2>2. u \in Come \/ u \in new
    BY <1>7
  <2>3. CASE u \in Come
    <3>1. dist[u] <= n
      BY <2>3 DEF Layered
    <3> QED
      BY <1>2, <1>5, <2>1, <2>3, <3>1
  <2>4. CASE u \in new
    <3>1. more[u] = n /\ n <= n
      BY <1>3, <1>5, <2>4
    <3> QED
      BY <1>2, <2>1, <2>4, <3>1
  <2> QED
    BY <2>2, <2>3, <2>4
<1>11. /\ frontier' \subseteq Come' /\ fresh' \subseteq Come'
       /\ \A x \in frontier' : more[x] + 1 = n
       /\ \A x \in fresh' : more[x] = n
  BY <1>1, <1>2, <1>5 DEF Layered
<1>12. \A x \in Come' : more[x] <= n
  BY <1>2, <1>3, <1>5 DEF Layered
<1>13. \A x \in Come' : x \notin frontier' /\ x \notin fresh' => Expanded(x, more)'
  <2> TAKE x \in Come'
  <2> HAVE x \notin frontier' /\ x \notin fresh'
  <2>1. x \in Come /\ x \notin fresh /\ (x = v \/ x \notin frontier)
    BY <1>1, <1>2
  <2> QED
    BY <1>9, <1>10, <2>1 DEF Layered
<1> QED
  BY <1>3, <1>8, <1>11, <1>12, <1>13 DEF Layered

\* A vertex a root refers to is the first of the path; what is nearer was looked at.
LEMMA TraceBegins ==
    ASSUME NEW dist, NEW n, Layered(dist, n), NEW v \in frontier, LookAt(v),
           0 \in preds[v], UNCHANGED <<fileVars, vertex, preds>>
    PROVE  Traced(dist)'
<1>1. chain' = <<v>> /\ UNCHANGED <<goal, strict, nxtOf, vertex, preds>>
  BY DEF LookAt
<1>2. Links(dist)'
  BY <1>1, SameLinks DEF Layered, Links, Come, Found
<1>3. v \in Come /\ dist[v] + 1 = n /\ n \in Nat /\ dist \in [Come -> Nat] /\ Come' = Come
  BY <1>1 DEF Layered, Links, Come
<1>4. chain' \in Seq(Come') /\ chain' # <<>> /\ Len(chain') = 1 /\ chain'[1] = v
  BY <1>1, <1>3
<1>5. \A x \in Come : dist[x] < dist[v] => Expanded(x, dist)'
  <2> TAKE x \in Come
  <2> HAVE dist[x] < dist[v]
  <2>1. x \notin frontier /\ x \notin fresh
    BY <1>3 DEF Layered
  <2>2. Expanded(x, dist)
    BY <2>1 DEF Layered
  <2> QED
    BY <1>1, <2>2, SameLinks DEF Expanded, Come
<1>6. /\ \A i \in 1..Len(chain') : i = 1
      /\ 1..(Len(chain') - 1) = {}
  BY <1>4
<1> QED
  BY <1>1, <1>2, <1>3, <1>4, <1>5, <1>6 DEF Traced

\* The path grows by one vertex, one nearer to the goal.
LEMMA TraceGoesOn ==
    ASSUME NEW dist, Traced(dist), Trace, chain[Len(chain)] # goal,
           UNCHANGED <<fileVars, vertex, preds>>
    PROVE  Traced(dist)'
<1> DEFINE x == chain[Len(chain)]
           y == nxtOf[x]
           k == Len(chain)
<1>1. chain' = Append(chain, y) /\ UNCHANGED <<goal, strict, nxtOf, vertex, preds>>
  BY DEF Trace
<1>2. Links(dist)' /\ Come' = Come
  BY <1>1, SameLinks DEF Traced, Links, Come, Found
<1>3. chain \in Seq(Come) /\ k \in Nat \ {0} /\ x \in Come
  BY LenProperties, ElementOfSeq, EmptySeq DEF Traced
<1>4. y \in Come /\ x \in preds[y] /\ Passable(x, y, strict) /\ dist[x] = dist[y] + 1
  BY <1>3 DEF Traced, Links
<1>5. /\ chain' \in Seq(Come) /\ Len(chain') = k + 1 /\ chain'[k + 1] = y
      /\ \A i \in 1..k : chain'[i] = chain[i] /\ chain[i] \in Come
  BY <1>1, <1>3, <1>4, AppendProperties, ElementOfSeq
<1>6. \A z \in Come : dist[z] \in Nat
  BY DEF Traced, Links
<1>7. chain'[1] = chain[1] /\ chain[1] \in Come
  BY <1>3, <1>5
<1>8. \A i \in 1..(k + 1) : dist[chain'[i]] + i = dist[chain'[1]] + 1
  <2> TAKE i \in 1..(k + 1)
  <2>1. CASE i \in 1..k
    BY <1>5, <1>7, <2>1 DEF Traced
  <2>2. CASE i = k + 1
    <3>1. dist[x] + k = dist[chain[1]] + 1
      BY <1>3 DEF Traced
    <3>2. dist[x] \in Nat /\ dist[y] \in Nat /\ dist[chain[1]] \in Nat
      BY <1>3, <1>4, <1>6, <1>7
    <3>3. dist[y] + (k + 1) = dist[chain[1]] + 1
      <4> HIDE DEF x, y, k
      <4>1. k \in Nat /\ dist[x] = dist[y] + 1
        BY <1>3, <1>4
      <4> QED
        BY <4>1, <3>1, <3>2
    <3> QED
      BY <1>5, <1>7, <2>2, <3>3
  <2> QED
    BY <1>3, <2>1, <2>2
<1>9. \A i \in 1..k :
        chain'[i] \in preds[chain'[i + 1]] /\ Passable(chain'[i], chain'[i + 1], strict)
  <2> TAKE i \in 1..k
  <2>1. CASE i \in 1..(k - 1)
    <3>1. i + 1 \in 1..k
      BY <1>3, <2>1
    <3> QED
      BY <1>5, <2>1, <3>1 DEF Traced
  <2>2. CASE i = k
    BY <1>3, <1>4, <1>5, <2>2
  <2> QED
    BY <1>3, <2>1, <2>2
<1>10. \A z \in Come : dist[z] < dist[chain[1]] => Expanded(z, dist)'
  BY <1>1, SameLinks DEF Traced, Expanded, Come
<1>11. (k + 1) - 1 = k /\ chain' # <<>>
  BY <1>3, <1>5, EmptySeq
<1> HIDE DEF x, y, k
<1>12. 0 \in preds[chain'[1]]
  BY <1>7 DEF Traced
<1> QED
  BY <1>1, <1>2, <1>5, <1>7, <1>8, <1>9, <1>10, <1>11, <1>12, SameLinks DEF Traced

\* A search that ended because there was nothing more to look at had found no path
\* since there is none.
LEMMA SearchEnds ==
    ASSUME NEW dist, NEW n, Layered(dist, n), frontier = {}, fresh = {}, NEW m \in Nat \ {0}
    PROVE  NoPath(m, goal, strict)
<1>1. \A x \in Come : Expanded(x, dist)
  BY DEF Layered
<1> QED
  BY <1>1, NoWayPast DEF Layered

\* The path that is done.
LEMMA PathIsShown ==
    ASSUME NEW dist, Traced(dist), chain[Len(chain)] = goal
    PROVE  /\ Len(chain) \in Nat /\ IsPath(chain, Len(chain), goal, strict)
           /\ \A n \in 1..(Len(chain) - 1) : NoPath(n, goal, strict)
<1> DEFINE k == Len(chain)
           far == dist[chain[1]]
<1>1. k \in Nat \ {0} /\ \A i \in 1..k : chain[i] \in Come
  BY LenProperties, ElementOfSeq, EmptySeq DEF Traced
<1>2. far \in Nat /\ dist[chain[k]] = 0 /\ dist[chain[k]] + k = far + 1
  BY <1>1 DEF Traced, Links
<1>3. IsPath(chain, k, goal, strict)
  BY DEF Traced, IsPath, Passable
<1>4. \A x \in Come : dist[x] < far => Expanded(x, dist)
  BY DEF Traced
<1>5. \A x \in Come : dist[x] \in Nat
  BY DEF Traced, Links
<1> HIDE DEF k, far
<1>6. k = far + 1
  BY <1>1, <1>2
<1>7. ASSUME NEW n \in 1..(k - 1) PROVE NoPath(n, goal, strict)
  <2>1. n \in Nat \ {0} /\ n <= far
    BY <1>1, <1>2, <1>6
  <2>2. \A x \in Come : dist[x] < n => Expanded(x, dist)
    BY <1>2, <1>4, <1>5, <2>1
  <2> QED
    BY <2>1, <2>2, NoWayPast DEF Traced
<1> QED
  BY <1>1, <1>3, <1>7 DEF k

LEMMA NextPathsInv == PathsInv /\ [PathsNext]_pathsAll => PathsInv'
<1> SUFFICES ASSUME PathsInv, [PathsNext]_pathsAll PROVE PathsInv'
  OBVIOUS
<1>t. PathTypes /\ NoStrictPath
  BY DEF PathsInv
<1>0. ASSUME UNCHANGED <<vertex, preds>>, strict' \in BOOLEAN, hunt' \in {"look", "trace", "shown"},
             goal' \in Found \ {0}
      PROVE  PathTypes'
  BY <1>0, <1>t DEF PathTypes, Found
<1>1. ASSUME NEW d \in Found \ {0}, AskPath(d), UNCHANGED <<fileVars, vertex, preds>>
      PROVE  PathsInv'
  <2>1. /\ StartFrom(d, TRUE) /\ goal' = d /\ hunt' = "look" /\ chain' = <<>> /\ gaveUp' = {}
        /\ strict' = TRUE
    BY <1>1 DEF AskPath, StartFrom
  <2>2. \E dist, n : Layered(dist, n)'
    BY <1>1, <2>1, SearchBegins
  <2>3. PathTypes'
    BY <1>0, <1>1, <2>1
  <2> QED
    BY <2>1, <2>2, <2>3 DEF PathsInv, NoStrictPath
<1>2. ASSUME NextLayer, UNCHANGED <<fileVars, vertex, preds>> PROVE PathsInv'
  <2>1. /\ hunt = "look" /\ UNCHANGED <<hunt, goal, strict, nxtOf, chain, gaveUp>>
    BY <1>2 DEF NextLayer
  <2>2. chain = <<>> /\ \E dist, n : Layered(dist, n)
    BY <2>1 DEF PathsInv
  <2>3. \E dist, n : Layered(dist, n)'
    BY <1>2, <2>2, LayerIsTaken
  <2>4. PathTypes'
    BY <1>0, <1>2, <1>t, <2>1 DEF PathTypes
  <2>5. NoStrictPath'
    BY <1>2, <1>t, <2>1, SameLinks DEF NoStrictPath
  <2> QED
    BY <2>1, <2>2, <2>3, <2>4, <2>5 DEF PathsInv
<1>3. ASSUME NEW v \in frontier, LookAt(v), UNCHANGED <<fileVars, vertex, preds>> PROVE PathsInv'
  <2>1. hunt = "look" /\ UNCHANGED <<goal, strict, gaveUp>> /\ hunt' \in {"look", "trace"}
    BY <1>3 DEF LookAt
  <2>2. PICK dist, n : Layered(dist, n)
    BY <2>1 DEF PathsInv
  <2>3. chain = <<>>
    BY <2>1 DEF PathsInv
  <2>4. PathTypes'
    BY <1>0, <1>3, <1>t, <2>1 DEF PathTypes
  <2>5. NoStrictPath'
    BY <1>3, <1>t, <2>1, SameLinks DEF NoStrictPath
  <2>6. CASE 0 \in preds[v]
    <3>1. hunt' = "trace"
      BY <1>3, <2>6 DEF LookAt
    <3>2. Traced(dist)'
      BY <1>3, <2>2, <2>6, TraceBegins
    <3> QED
      BY <3>1, <3>2, <2>4, <2>5 DEF PathsInv
  <2>7. CASE 0 \notin preds[v]
    <3>1. hunt' = "look" /\ chain' = <<>>
      BY <1>3, <2>1, <2>3, <2>7 DEF LookAt
    <3>2. \E more : Layered(more, n)'
      BY <1>3, <1>t, <2>2, <2>7, VertexIsLookedAt
    <3> QED
      BY <3>1, <3>2, <2>4, <2>5 DEF PathsInv
  <2> QED
    BY <2>6, <2>7
<1>4. ASSUME EndLook, UNCHANGED <<fileVars, vertex, preds>> PROVE PathsInv'
  <2>1. /\ hunt = "look" /\ frontier = {} /\ goal' = goal /\ chain' = chain
        /\ gaveUp' = IF fresh = {} THEN gaveUp ELSE gaveUp \cup {strict}
    BY <1>4 DEF EndLook
  <2>2. PICK dist, n : Layered(dist, n)
    BY <2>1 DEF PathsInv
  <2>3. chain = <<>> /\ strict \in BOOLEAN /\ goal \in Found \ {0}
    BY <1>t, <2>1 DEF PathsInv, PathTypes
  <2>4. strict \notin gaveUp' => \A m \in Nat \ {0} : NoPath(m, goal, strict)
    BY <2>1, <2>2, SearchEnds
  <2>5. CASE strict
    <3>1. StartFrom(goal, FALSE) /\ hunt' = "look" /\ strict' = FALSE
      BY <1>4, <2>1, <2>5 DEF EndLook, StartFrom
    <3>2. \E far, m : Layered(far, m)'
      BY <1>4, <2>1, <2>3, <3>1, SearchBegins
    <3>3. strict = TRUE
      BY <2>5, <2>3
    <3>4. NoStrictPath'
      BY <1>4, <2>1, <2>4, <3>3, SameLinks DEF NoStrictPath
    <3>5. PathTypes'
      BY <1>0, <1>4, <2>1, <2>3, <3>1
    <3> QED
      BY <2>1, <2>3, <3>1, <3>2, <3>4, <3>5 DEF PathsInv
  <2>6. CASE ~strict
    <3>1. hunt' = "shown" /\ strict' = strict
      BY <1>4, <2>6 DEF EndLook
    <3>2. strict = FALSE
      BY <2>6, <2>3
    <3>3. TRUE \notin gaveUp' => TRUE \notin gaveUp
      BY <2>1
    <3>4. NoStrictPath'
      BY <1>4, <1>t, <2>1, <2>6, <3>1, <3>3, SameLinks DEF NoStrictPath
    <3>5. PathTypes'
      BY <1>0, <1>4, <2>1, <2>3, <3>1
    <3>6. FALSE \notin gaveUp' => \A m \in Nat \ {0} : NoPath(m, goal, FALSE)'
      BY <1>4, <2>1, <2>4, <3>2, SameLinks
    <3> QED
      BY <2>1, <2>3, <3>1, <3>2, <3>4, <3>5, <3>6 DEF PathsInv
  <2> QED
    BY <2>5, <2>6
<1>5. ASSUME Trace, UNCHANGED <<fileVars, vertex, preds>> PROVE PathsInv'
  <2>1. hunt = "trace" /\ UNCHANGED <<goal, strict, gaveUp>> /\ hunt' \in {"trace", "shown"}
    BY <1>5 DEF Trace
  <2>2. PICK dist : Traced(dist)
    BY <2>1 DEF PathsInv
  <2>3. PathTypes'
    BY <1>0, <1>5, <1>t, <2>1 DEF PathTypes
  <2>4. NoStrictPath'
    BY <1>5, <1>t, <2>1, SameLinks DEF NoStrictPath
  <2>5. CASE chain[Len(chain)] = goal
    <3>1. hunt' = "shown" /\ chain' = chain
      BY <1>5, <2>5 DEF Trace
    <3>2. /\ Len(chain) \in Nat /\ IsPath(chain, Len(chain), goal, strict)
          /\ \A n \in 1..(Len(chain) - 1) : NoPath(n, goal, strict)
      BY <2>2, <2>5, PathIsShown
    <3>3. chain # <<>>
      BY <2>2 DEF Traced
    <3>4. /\ IsPath(chain, Len(chain), goal, strict)'
          /\ \A n \in 1..(Len(chain) - 1) : NoPath(n, goal, strict)'
      BY <1>5, <2>1, <3>1, <3>2, SameLinks
    <3> QED
      BY <2>1, <2>3, <2>4, <3>1, <3>2, <3>3, <3>4 DEF PathsInv
  <2>6. CASE chain[Len(chain)] # goal
    <3>1. hunt' = "trace"
      BY <1>5, <2>1, <2>6 DEF Trace
    <3>2. Traced(dist)'
      BY <1>5, <2>2, <2>6, TraceGoesOn
    <3> QED
      BY <3>1, <3>2, <2>3, <2>4 DEF PathsInv
  <2> QED
    BY <2>5, <2>6
<1>6. CASE UNCHANGED pathsAll
  <2>1. /\ UNCHANGED <<fileVars, vertex, preds>>
        /\ UNCHANGED <<hunt, goal, strict, nxtOf, frontier, fresh, chain, gaveUp>>
    BY <1>6 DEF pathsAll, pathVars
  <2>2. \A dist, n : Layered(dist, n) => Layered(dist, n)'
    BY <2>1, SameLinks DEF Layered, Links, Expanded, Come, Found
  <2>3. \A dist : Traced(dist) => Traced(dist)'
    BY <2>1, SameLinks DEF Traced, Links, Expanded, Come, Found
  <2> QED
    BY <2>1, <2>2, <2>3, SameLinks DEF PathsInv, PathTypes, NoStrictPath, Found
<1> QED
  BY <1>1, <1>2, <1>3, <1>4, <1>5, <1>6 DEF PathsNext

\* What PathsInv says when the answer is shown.
LEMMA ShownIsShortest == PathsInv => PathsAreShortest
<1>1. ASSUME PathsInv, hunt = "shown" PROVE PathsAreShortest
  <2>1. \A n \in 1..Cardinality(Found) : n \in Nat \ {0}
    BY <1>1, FS_CardinalityType DEF PathsInv, PathTypes
  <2>2. chain # <<>> => /\ IsPath(chain, Len(chain), goal, strict)
                        /\ \A n \in 1..(Len(chain) - 1) : NoPath(n, goal, strict)
    BY <1>1 DEF PathsInv
  <2>3. ~strict /\ TRUE \notin gaveUp => \A n \in Nat \ {0} : NoPath(n, goal, TRUE)
    BY <1>1 DEF PathsInv, NoStrictPath
  <2>4. chain = <<>> /\ FALSE \notin gaveUp => \A n \in Nat \ {0} : NoPath(n, goal, FALSE)
    BY <1>1 DEF PathsInv
  <2> QED
    BY <2>1, <2>2, <2>3, <2>4, Zenon DEF PathsAreShortest
<1> QED
  BY <1>1 DEF PathsAreShortest

\* The path shown for an object, in any dump and among any references, is a path
\* from a GC root to it, no other of its kind is shorter, weak links are passed only
\* if there is no way without, and none is shown only if there is none
\* (hprof_report.py, path_to_root), unless max_visit ended a search.
THEOREM PathsAreRight == PathsSpec => []PathsAreShortest
BY ShownIsShortest, InitPathsInv, NextPathsInv, PTL DEF PathsSpec

-----------------------------------------------------------------------------
(***************************************************************************)
(* The invariant of compute_dominators, phase by phase.                    *)
(***************************************************************************)
N == Cardinality(Found)

Numbered == N \in Nat \ {0} /\ Found = 0..(N - 1)

\* References lead to rows, and rows have sizes.
GraphOk ==
    /\ Len(table) \in Nat /\ DOMAIN adj = 0..Len(table)
    /\ \A x \in DOMAIN adj : Range(adj[x]) \subseteq Nodes
    /\ shallow \in [Nodes -> Nat]

\* While searching: the vertices on the stack are a path from the root to the last of
\* them; whatever was found after one of them is below it.  The others have had all
\* their references followed.
SearchOk ==
    /\ Numbered /\ IsTree(parent, N)
    /\ \A v \in Found : vertex[v] \in 0..Len(table)
    /\ vertex[0] = 0 /\ \A u, v \in Found : vertex[u] = vertex[v] => u = v
    /\ \A v \in 1..(N - 1) : vertex[v] \in Nodes /\ vertex[v] \in Range(adj[vertex[parent[v]]])
    /\ \A a, x, y \in Found : Above(parent, a, x) /\ a <= y /\ y <= x => Above(parent, a, y)
    /\ \A u, v \in Found : u < v /\ vertex[v] \in Range(adj[vertex[u]]) => Above(parent, u, v)
    /\ stack \in Seq(Found)
    /\ \A v \in Found : v \in Range(stack) \/ Range(adj[vertex[v]]) \subseteq Range(vertex)
    /\ \A i, j \in DOMAIN stack : i <= j => Above(parent, stack[i], stack[j])
    /\ \A i \in DOMAIN stack : \A a, y \in Found :
          Above(parent, a, stack[i]) /\ a <= y => Above(parent, a, y)

Searched ==
    /\ Numbered /\ DepthFirst(parent, preds, N)
    /\ \A v \in 1..(N - 1) : shallow[vertex[v]] \in Nat

\* The vertices up to here are not linked.
Lo == IF phase = "semi" THEN w ELSE w - 1

LinkTypes ==
    /\ w \in 1..(N - 1) /\ least \in Found /\ todo \in SUBSET Found
    /\ semi \in [Found -> Found] /\ best \in [Found -> Found]
    /\ ancestor \in [Found -> Int]
    /\ idom \in [Found -> Int] /\ idom[0] = 0
    /\ bucket \in [Found -> Seq(Found)]
    /\ trail \in Seq(Found)

LinkOk ==
    /\ LinkTypes
    /\ SemisOk(parent, preds, N, semi, Lo)
    /\ PathsOk(parent, N, Lo, semi, ancestor, best)
    /\ TrailOk(trail, ancestor, Lo)
    /\ WaitsOk(parent, N, semi, bucket, Lo, w)
    /\ SettledOk(parent, N, semi, idom, bucket, Lo)
    /\ phase = "semi" => LeastOk(parent, preds, semi, w, least, todo)

\* In the second pass the dominators of the vertices before w are known.
FinishOk ==
    /\ w \in 1..N /\ SemiOk(parent, preds, N, semi)
    /\ idom \in [Found -> Int] /\ idom[0] = 0
    /\ \A v \in 1..(N - 1) :
          /\ v < w => IsDom(parent, preds, N, semi, idom[v], v)
          /\ ~(v < w) => SettledAs(parent, semi, idom[v], v, 0)

Dominated == SemiOk(parent, preds, N, semi) /\ DomTree(parent, preds, N, semi, idom)

Size == [v \in Found |-> IF v = 0 THEN 0 ELSE shallow[vertex[v]]]

\* Each vertex has what the vertices after w below it have.
RetainOk ==
    /\ w \in 0..(N - 1)
    /\ rs \in [Found -> Nat]
    /\ \A d \in Found : rs[d] = Cardinality(Bytes(Size, Gathered(idom, N, w, d)))

ToGraph == {"segment", "resolve", "graph", "error"}
WithGraph == {"built", "search", "semi", "settle", "finish", "retained", "done"}

TreeInv ==
    /\ phase \in ToGraph \cup WithGraph
    /\ phase \in ToGraph \cup {"built", "search"} => trail = <<>>
    /\ phase \in {"built", "search"} => GraphOk
    /\ phase = "search" => SearchOk
    /\ phase \in {"semi", "settle", "finish", "retained", "done"} => Searched
    /\ phase \in {"semi", "settle"} => LinkOk
    /\ phase = "finish" => FinishOk
    /\ phase \in {"retained", "done"} => Dominated /\ RetainOk
    /\ phase = "done" => w = 0
    /\ FoundIsReached

-----------------------------------------------------------------------------
(* The search                                                               *)

LEMMA FrontOf ==
    ASSUME NEW V, NEW s \in Seq(V), s # <<>>
    PROVE  /\ Front(s) \in Seq(V) /\ Len(s) \in Nat \ {0}
           /\ DOMAIN Front(s) = 1..(Len(s) - 1) /\ DOMAIN s = 1..Len(s)
           /\ \A i \in 1..(Len(s) - 1) : Front(s)[i] = s[i]
BY DEF Front

LEMMA UpToOne == 0..0 = {0} /\ 1..0 = {} /\ Cardinality({0}) = 1
<1>1. 0..0 = {0}
  OBVIOUS
<1>2. 1..0 = {}
  OBVIOUS
<1> QED
  BY <1>1, <1>2, FS_Singleton

LEMMA StartSearchInv == ASSUME TreeInv, StartSearch, UNCHANGED table PROVE TreeInv'
<1>1. /\ phase = "built" /\ phase' = "search" /\ trail' = trail /\ GraphOk /\ trail = <<>>
      /\ adj' = adj /\ shallow' = shallow /\ vertex' = [d \in {0} |-> 0]
      /\ parent' = [d \in {0} |-> 0] /\ stack' = <<0>> /\ table' = table
  BY DEF TreeInv, StartSearch
<1>2. Found' = {0} /\ N' = 1 /\ Found' = 0..0 /\ 1..(N' - 1) = {} /\ 0..(N' - 1) = {0}
  BY <1>1, UpToOne DEF Found, N
<1>3. GraphOk'
  BY <1>1 DEF GraphOk, Nodes
<1>4. Numbered' /\ IsTree(parent', N')
  BY <1>1, <1>2 DEF Numbered, IsTree
<1>5. \A a \in {0}, y \in {0} : Above(parent', a, y)
  BY <1>1, AboveSelf
<1>6. vertex'[0] = 0 /\ 0 \in 0..Len(table')
  BY <1>1 DEF GraphOk
<1>7. stack' \in Seq(Found') /\ DOMAIN stack' = {1} /\ stack'[1] = 0 /\ Range(stack') = {0}
  <2>1. DOMAIN stack' = {1} /\ stack'[1] = 0 /\ stack' \in Seq({0})
    BY <1>1
  <2> QED
    BY <2>1, <1>2 DEF Range
<1>8. SearchOk'
  BY <1>2, <1>4, <1>5, <1>6, <1>7 DEF SearchOk
<1> QED
  BY <1>1, <1>3, <1>8 DEF TreeInv, FoundIsReached, ToGraph, WithGraph

LEMMA RetreatInv == ASSUME TreeInv, Retreat, UNCHANGED table PROVE TreeInv'
<1>1. /\ phase = "search" /\ phase' = "search" /\ trail' = trail /\ GraphOk /\ trail = <<>> /\ SearchOk
      /\ adj' = adj /\ shallow' = shallow /\ vertex' = vertex /\ parent' = parent
      /\ stack # <<>> /\ Unfound = {} /\ stack' = Front(stack) /\ table' = table
  BY DEF TreeInv, Retreat
<1>2. Found' = Found /\ N' = N /\ Range(vertex)' = Range(vertex)
  BY <1>1 DEF Found, N, Range
<1>3. GraphOk'
  BY <1>1 DEF GraphOk, Nodes
<1>4. stack \in Seq(Found) /\ Len(stack) \in Nat \ {0}
  BY <1>1 DEF SearchOk
<1>5. /\ stack' \in Seq(Found) /\ DOMAIN stack' = 1..(Len(stack) - 1) /\ DOMAIN stack = 1..Len(stack)
      /\ \A i \in DOMAIN stack' : i \in DOMAIN stack /\ stack'[i] = stack[i]
  BY <1>1, <1>4, FrontOf
<1>6. Range(adj[vertex[Last(stack)]]) \subseteq Range(vertex)
  BY <1>1 DEF Unfound, Range
<1>7. \A v \in Found : v \in Range(stack') \/ Range(adj[vertex[v]]) \subseteq Range(vertex)
  <2> SUFFICES ASSUME NEW v \in Found, v \in Range(stack), v # Last(stack) PROVE v \in Range(stack')
    BY <1>1, <1>6 DEF SearchOk
  <2>1. PICK i \in DOMAIN stack : v = stack[i]
    BY DEF Range
  <2>2. i # Len(stack)
    BY <2>1 DEF Last
  <2>3. i \in DOMAIN stack' /\ stack'[i] = v
    BY <1>4, <1>5, <2>1, <2>2
  <2> QED
    BY <2>3 DEF Range
<1>8. SearchOk'
  BY <1>1, <1>2, <1>5, <1>7 DEF SearchOk, Numbered, Nodes
<1> QED
  BY <1>1, <1>3, <1>8 DEF TreeInv, FoundIsReached, ToGraph, WithGraph

LEMMA DescendInv == ASSUME TreeInv, Descend, UNCHANGED table PROVE TreeInv'
<1>1. /\ phase = "search" /\ phase' = "search" /\ trail' = trail /\ GraphOk /\ trail = <<>> /\ SearchOk
      /\ adj' = adj /\ shallow' = shallow /\ table' = table /\ stack # <<>>
  BY DEF TreeInv, Descend
<1>2. PICK i \in Unfound :
        /\ vertex' = [x \in Found \cup {N} |-> IF x = N THEN adj[vertex[Last(stack)]][i] ELSE vertex[x]]
        /\ parent' = [x \in Found \cup {N} |-> IF x = N THEN Last(stack) ELSE parent[x]]
        /\ stack' = Append(stack, N)
  BY DEF Descend, N
<1> DEFINE top == Last(stack)
           goes == adj[vertex[top]][i]
           len == Len(stack)
<1>3. N \in Nat \ {0} /\ Found = 0..(N - 1) /\ IsTree(parent, N)
  BY <1>1 DEF SearchOk, Numbered
<1>4. /\ stack \in Seq(Found) /\ len \in Nat \ {0} /\ DOMAIN stack = 1..len
      /\ top = stack[len] /\ top \in Found
  BY <1>1 DEF SearchOk, Last
<1>5. Found \cup {N} = 0..N
  BY <1>3
<1>6. /\ DOMAIN vertex' = 0..N /\ Found' = 0..N
      /\ vertex'[N] = goes /\ \A x \in Found : vertex'[x] = vertex[x]
  <2>1. N \notin Found /\ N \in Found \cup {N}
    BY <1>3
  <2> QED
    BY <1>2, <1>5, <2>1 DEF Found
<1>7. N' = N + 1 /\ N' \in Nat \ {0} /\ N' - 1 = N
  <2>1. Cardinality(0..N) = N + 1
    BY <1>3, FS_Interval
  <2> QED
    BY <1>3, <1>6, <2>1 DEF N
<1>8. parent' = Hung(parent, N, top)
  BY <1>2, <1>5 DEF Hung
<1>9. /\ IsTree(parent', N')
      /\ \A u, v \in Found : Above(parent', u, v) <=> Above(parent, u, v)
      /\ \A u \in Found : Above(parent', u, N) <=> Above(parent, u, top)
      /\ Above(parent', N, N)
      /\ \A v \in Found : ~Above(parent', N, v)
  BY <1>3, <1>4, <1>7, <1>8, HungIsTree
<1>10. /\ goes \in Range(adj[vertex[top]]) /\ goes \notin Range(vertex) /\ goes \in Nodes
       /\ vertex[top] \in 0..Len(table)
  <2>1. goes \in Range(adj[vertex[top]]) /\ goes \notin Range(vertex)
    BY DEF Unfound, Range
  <2>2. vertex[top] \in 0..Len(table) /\ 0..Len(table) = DOMAIN adj
    BY <1>1, <1>4 DEF SearchOk, GraphOk
  <2>3. Range(adj[vertex[top]]) \subseteq Nodes
    BY <1>1, <2>2 DEF GraphOk
  <2> QED
    BY <2>1, <2>2, <2>3
<1>11. parent'[N] = top /\ \A v \in Found : parent'[v] = parent[v]
  <2>1. N \notin Found /\ N \in Found \cup {N}
    BY <1>3
  <2> QED
    BY <1>2, <2>1
<1>12. \A v \in 1..(N - 1) : v \in Found /\ parent[v] \in Found
  <2>1. \A v \in 1..(N - 1) : v \in 0..(N - 1)
    BY <1>3
  <2> QED
    BY <1>3, <2>1 DEF IsTree
<1> HIDE DEF top, goes, len
<1>13. GraphOk' /\ Nodes' = Nodes
  BY <1>1 DEF GraphOk, Nodes
<1>14. Numbered'
  BY <1>6, <1>7 DEF Numbered
<1>15. \A v \in Found' : vertex'[v] \in 0..Len(table')
  <2>1. goes \in 0..Len(table)
    BY <1>10, <1>1 DEF Nodes, GraphOk
  <2>2. \A v \in Found : vertex[v] \in 0..Len(table)
    BY <1>1 DEF SearchOk
  <2> QED
    BY <1>1, <1>5, <1>6, <2>1, <2>2
<1>16. \A v \in 1..(N' - 1) : vertex'[v] \in Nodes' /\ vertex'[v] \in Range(adj'[vertex'[parent'[v]]])
  <2> TAKE v \in 1..(N' - 1)
  <2>1. CASE v = N
    <3>1. vertex'[parent'[v]] = vertex[top] /\ vertex'[v] = goes
      BY <2>1, <1>4, <1>6, <1>11
    <3> QED
      BY <3>1, <1>1, <1>10, <1>13
  <2>2. CASE v # N
    <3>1. v \in 1..(N - 1)
      BY <2>2, <1>3, <1>7
    <3>2. vertex'[v] = vertex[v] /\ vertex'[parent'[v]] = vertex[parent[v]]
      BY <3>1, <1>6, <1>11, <1>12
    <3> QED
      BY <3>1, <3>2, <1>1, <1>13 DEF SearchOk
  <2> QED
    BY <2>1, <2>2
<1>17. \A a, x, y \in Found' : Above(parent', a, x) /\ a <= y /\ y <= x => Above(parent', a, y)
  <2> SUFFICES ASSUME NEW a \in 0..N, NEW x \in 0..N, NEW y \in 0..N,
                      Above(parent', a, x), a <= y, y <= x
               PROVE  Above(parent', a, y)
    BY <1>6
  <2>1. CASE y = N
    <3>1. x = N
      BY <2>1, <1>3
    <3> QED
      BY <2>1, <3>1
  <2>2. CASE y # N
    <3>1. y \in Found /\ a \in Found
      BY <2>2, <1>3
    <3>2. CASE x = N
      <4>1. Above(parent, a, stack[len])
        BY <1>9, <1>4, <3>1, <3>2
      <4>2. Above(parent, a, y)
        BY <4>1, <1>1, <1>4, <3>1 DEF SearchOk
      <4> QED
        BY <4>2, <1>9, <3>1
    <3>3. CASE x # N
      <4>1. x \in Found
        BY <3>3, <1>3
      <4>2. Above(parent, a, y)
        BY <4>1, <3>1, <1>1, <1>9 DEF SearchOk
      <4> QED
        BY <4>2, <1>9, <3>1
    <3> QED
      BY <3>2, <3>3
  <2> QED
    BY <2>1, <2>2
<1>18. \A u, v \in Found' : u < v /\ vertex'[v] \in Range(adj'[vertex'[u]]) => Above(parent', u, v)
  <2> SUFFICES ASSUME NEW u \in 0..N, NEW v \in 0..N, u < v, vertex'[v] \in Range(adj[vertex'[u]])
               PROVE  Above(parent', u, v)
    BY <1>1, <1>6
  <2>1. u \in Found /\ vertex'[u] = vertex[u]
    BY <1>3, <1>6
  <2>2. CASE v = N
    <3>1. goes \in Range(adj[vertex[u]])
      BY <2>1, <2>2, <1>6
    <3>2. u \in Range(stack)
      BY <3>1, <2>1, <1>1, <1>10 DEF SearchOk
    <3>3. PICK j \in DOMAIN stack : u = stack[j]
      BY <3>2 DEF Range
    <3>4. j <= len /\ len \in DOMAIN stack
      BY <1>4
    <3>5. Above(parent, u, top)
      BY <3>3, <3>4, <1>1, <1>4 DEF SearchOk
    <3> QED
      BY <3>5, <2>1, <2>2, <1>9
  <2>3. CASE v # N
    <3>1. v \in Found /\ vertex'[v] = vertex[v]
      BY <2>3, <1>3, <1>6
    <3> QED
      BY <3>1, <2>1, <1>1, <1>9 DEF SearchOk
  <2> QED
    BY <2>2, <2>3
<1>19. /\ stack' \in Seq(Found') /\ DOMAIN stack' = 1..(len + 1) /\ stack'[len + 1] = N
       /\ \A j \in 1..len : stack'[j] = stack[j] /\ stack[j] \in Found
  <2>1. stack \in Seq(Found') /\ N \in Found'
    BY <1>3, <1>4, <1>5, <1>6
  <2> QED
    BY <2>1, <1>2, <1>4 DEF len
<1>20. \A v \in Found' : v \in Range(stack') \/ Range(adj'[vertex'[v]]) \subseteq Range(vertex')
  <2>1. N \in Range(stack')
    <3>1. len + 1 \in DOMAIN stack'
      BY <1>4, <1>19
    <3> QED
      BY <3>1, <1>19 DEF Range
  <2>2. Range(stack) \subseteq Range(stack')
    <3>1. \A j \in 1..len : j \in 1..(len + 1)
      BY <1>4
    <3> QED
      BY <3>1, <1>4, <1>19 DEF Range
  <2>3. Range(vertex) \subseteq Range(vertex')
    BY <1>5, <1>6 DEF Range, Found
  <2>4. \A v \in Found : vertex'[v] = vertex[v]
    BY <1>6
  <2> QED
    BY <2>1, <2>2, <2>3, <2>4, <1>1, <1>5, <1>6 DEF SearchOk
<1>21. \A j \in 1..len : Above(parent, stack[j], top)
  <2>1. len \in DOMAIN stack /\ \A j \in 1..len : j <= len
    BY <1>4
  <2> QED
    BY <2>1, <1>1, <1>4 DEF SearchOk
<1>22. \A j, k \in DOMAIN stack' : j <= k => Above(parent', stack'[j], stack'[k])
  <2> SUFFICES ASSUME NEW j \in 1..(len + 1), NEW k \in 1..(len + 1), j <= k
               PROVE  Above(parent', stack'[j], stack'[k])
    BY <1>19
  <2>1. CASE k \in 1..len
    <3>1. j \in 1..len
      BY <2>1, <1>4
    <3>2. Above(parent, stack[j], stack[k])
      BY <2>1, <3>1, <1>1, <1>4 DEF SearchOk
    <3> QED
      BY <2>1, <3>1, <3>2, <1>9, <1>19
  <2>2. CASE k = len + 1 /\ j \in 1..len
    BY <2>2, <1>9, <1>19, <1>21
  <2>3. CASE k = len + 1 /\ j = len + 1
    BY <2>3, <1>9, <1>19
  <2> QED
    BY <2>1, <2>2, <2>3, <1>4
<1>23. \A j \in DOMAIN stack' : \A a, y \in Found' :
          Above(parent', a, stack'[j]) /\ a <= y => Above(parent', a, y)
  <2> SUFFICES ASSUME NEW j \in 1..(len + 1), NEW a \in 0..N, NEW y \in 0..N,
                      Above(parent', a, stack'[j]), a <= y
               PROVE  Above(parent', a, y)
    BY <1>6, <1>19
  <2>1. CASE a = N
    <3>1. y = N
      BY <2>1, <1>3
    <3> QED
      BY <2>1, <3>1, <1>9
  <2>2. CASE a # N
    <3>1. a \in Found
      BY <2>2, <1>3
    <3>2. j \in 1..len \/ j = len + 1
      BY <1>4
    <3>3. PICK k \in 1..len : Above(parent, a, stack[k])
      <4>1. CASE j \in 1..len
        BY <4>1, <3>1, <1>9, <1>19
      <4>2. CASE j = len + 1
        <5>1. Above(parent, a, stack[len]) /\ len \in 1..len
          BY <4>2, <3>1, <1>9, <1>19, <1>4
        <5> QED
          BY <5>1
      <4> QED
        BY <3>2, <4>1, <4>2
    <3>4. CASE y = N
      <4>1. Above(parent, a, top)
        BY <3>3, <1>21, AboveTrans
      <4> QED
        BY <4>1, <3>1, <3>4, <1>9
    <3>5. CASE y # N
      <4>1. y \in Found
        BY <3>5, <1>3
      <4>2. Above(parent, a, y)
        BY <4>1, <3>1, <3>3, <1>1, <1>4 DEF SearchOk
      <4> QED
        BY <4>1, <4>2, <3>1, <1>9
    <3> QED
      BY <3>4, <3>5
  <2> QED
    BY <2>1, <2>2
<1>24. vertex'[0] = 0 /\ \A u, v \in Found' : vertex'[u] = vertex'[v] => u = v
  <2>1. 0 \in Found /\ \A v \in Found : vertex[v] # goes
    BY <1>3, <1>10 DEF Range, Found
  <2>2. vertex[0] = 0 /\ \A u, v \in Found : vertex[u] = vertex[v] => u = v
    BY <1>1 DEF SearchOk
  <2> QED
    BY <2>1, <2>2, <1>5, <1>6
<1>25. SearchOk'
  BY <1>24, <1>9, <1>14, <1>15, <1>16, <1>17, <1>18, <1>19, <1>20, <1>22, <1>23 DEF SearchOk
<1> QED
  BY <1>1, <1>13, <1>25 DEF TreeInv, FoundIsReached, ToGraph, WithGraph

\* When the stack is empty all references of all vertices were followed.
LEMMA SearchEnded ==
    ASSUME GraphOk, SearchOk, stack = <<>>
    PROVE  /\ Range(vertex) = Reached
           /\ \A u, v \in Found : vertex[u] = vertex[v] => u = v
<1>1. /\ N \in Nat \ {0} /\ Found = 0..(N - 1) /\ vertex[0] = 0 /\ IsTree(parent, N)
      /\ \A u, v \in Found : vertex[u] = vertex[v] => u = v
  BY DEF SearchOk, Numbered
<1>2. /\ \A v \in Found : vertex[v] \in 0..Len(table)
      /\ \A v \in 1..(N - 1) : vertex[v] \in Range(adj[vertex[parent[v]]])
  BY DEF SearchOk
<1>3. \A v \in Found : Range(adj[vertex[v]]) \subseteq Range(vertex)
  <2>1. Range(stack) = {}
    BY DEF Range
  <2> QED
    BY <2>1 DEF SearchOk
<1>4. /\ Range(vertex) \in SUBSET (0..Len(table)) /\ 0 \in Range(vertex)
      /\ \A x \in Range(vertex) : Range(adj[x]) \subseteq Range(vertex)
  <2>1. 0 \in Found
    BY <1>1
  <2>2. Range(vertex) = {vertex[v] : v \in Found}
    BY DEF Range, Found
  <2>3. Range(vertex) \in SUBSET (0..Len(table))
    BY <2>2, <1>2
  <2>4. 0 \in Range(vertex)
    BY <2>1, <2>2, <1>1
  <2>5. \A x \in Range(vertex) : Range(adj[x]) \subseteq Range(vertex)
    BY <2>2, <1>3
  <2> QED
    BY <2>3, <2>4, <2>5
<1>5. Reached \subseteq Range(vertex)
  BY <1>4 DEF Reached
<1>6. ASSUME NEW closed \in SUBSET (0..Len(table)), 0 \in closed,
             \A x \in closed : Range(adj[x]) \subseteq closed
      PROVE  \A v \in Found : vertex[v] \in closed
  <2> DEFINE T == {v \in Found : vertex[v] \notin closed}
  <2> SUFFICES ASSUME T # {} PROVE FALSE
    OBVIOUS
  <2>1. PICK m \in T : \A k \in T : m <= k
    <3>1. T \in SUBSET Nat
      BY <1>1
    <3> HIDE DEF T
    <3> QED
      BY <3>1, LeastOf
  <2>2. m \in 1..(N - 1)
    BY <1>1, <1>6
  <2>3. m \in 0..(N - 1) /\ parent[m] \in 0..(N - 1) /\ parent[m] < m
    BY <2>2, <1>1 DEF IsTree
  <2>4. parent[m] \notin T
    BY <2>1, <2>3
  <2>5. vertex[parent[m]] \in closed
    BY <2>3, <2>4, <1>1
  <2> QED
    BY <2>1, <2>2, <2>5, <1>2, <1>6
<1>7. Range(vertex) \subseteq Reached
  BY <1>4, <1>6 DEF Reached, Range, Found
<1> QED
  BY <1>1, <1>5, <1>7

LEMMA EndSearchInv == ASSUME TreeInv, EndSearch, UNCHANGED table PROVE TreeInv'
<1>1. /\ phase = "search" /\ trail' = trail /\ GraphOk /\ trail = <<>> /\ SearchOk
      /\ shallow' = shallow /\ vertex' = vertex /\ parent' = parent
      /\ preds' = [d \in Found |-> PredsOf(d)]
      /\ semi' = [d \in Found |-> d] /\ best' = [d \in Found |-> d]
      /\ ancestor' = [d \in Found |-> -1] /\ idom' = [d \in Found |-> 0]
      /\ bucket' = [d \in Found |-> <<>>]
      /\ IF Found = {0} THEN phase' = "finish" /\ w' = 1
         ELSE /\ phase' = "semi" /\ w' = N - 1 /\ least' = parent[N - 1]
              /\ todo' = PredsOf(N - 1)
  BY DEF TreeInv, EndSearch, Turn, N
<1>2. Found' = Found /\ N' = N
  BY <1>1 DEF Found, N
<1>3. N \in Nat \ {0} /\ Found = 0..(N - 1) /\ IsTree(parent, N)
  BY <1>1 DEF SearchOk, Numbered
<1>4. \A v \in 1..(N - 1) : v \in Found /\ parent[v] \in Found /\ parent[v] < v
  <2>1. \A v \in 1..(N - 1) : v \in 0..(N - 1)
    BY <1>3
  <2> QED
    BY <1>3, <2>1 DEF IsTree
<1>5. \A d \in Found : PredsOf(d) \subseteq Found
  BY DEF PredsOf
<1>6. \A v \in 1..(N - 1) : parent[v] \in PredsOf(v)
  BY <1>1, <1>4 DEF SearchOk, PredsOf
<1>7. DepthFirst(parent, preds', N)
  <2>1. preds' \in [Found -> SUBSET Found]
    BY <1>1, <1>5
  <2>2. \A v \in 1..(N - 1) : parent[v] \in preds'[v]
    BY <1>1, <1>4, <1>6
  <2>3. \A v \in Found : \A u \in preds'[v] : u < v => Above(parent, u, v)
    <3> TAKE v \in Found
    <3> TAKE u \in preds'[v]
    <3>1. u \in Found /\ vertex[v] \in Range(adj[vertex[u]])
      BY <1>1 DEF PredsOf
    <3> QED
      BY <3>1, <1>1 DEF SearchOk
  <2>4. \A a, x, y \in Found : Above(parent, a, x) /\ a <= y /\ y <= x => Above(parent, a, y)
    BY <1>1 DEF SearchOk
  <2> QED
    BY <1>3, <2>1, <2>2, <2>3, <2>4 DEF DepthFirst
<1>8. Searched'
  <2>1. \A v \in 1..(N - 1) : shallow[vertex[v]] \in Nat
    BY <1>1 DEF SearchOk, GraphOk
  <2> QED
    BY <1>1, <1>2, <1>3, <1>7, <2>1 DEF Searched, Numbered
<1>r. FoundIsReached'
  <2>1. stack = <<>> /\ adj' = adj
    BY DEF EndSearch
  <2>2. Reached' = Reached
    BY <1>1, <2>1 DEF Reached
  <2> QED
    BY <1>1, <1>2, <2>1, <2>2, SearchEnded DEF FoundIsReached, Range
<1>9. idom' \in [Found -> Int] /\ idom'[0] = 0
  BY <1>1, <1>3
<1>10. CASE Found = {0}
  <2>1. N = 1
    BY <1>3, <1>10
  <2>2. 1..(N - 1) = {} /\ w' \in 1..N
    BY <1>1, <1>10, <2>1
  <2>3. FinishOk'
    BY <1>1, <1>2, <1>3, <1>9, <2>2 DEF FinishOk, SemiOk
  <2> QED
    BY <1>1, <1>8, <1>r, <1>10, <2>3 DEF TreeInv, ToGraph, WithGraph
<1>11. CASE Found # {0}
  <2>1. N # 1
    BY <1>3, <1>11, UpToOne
  <2>2. N - 1 \in 1..(N - 1)
    BY <1>3, <2>1
  <2>3. w' = N - 1 /\ Lo' = N - 1 /\ phase' = "semi" /\ \A x \in Found : ~(x > N - 1)
    BY <1>1, <1>3, <1>11 DEF Lo
  <2>4. LinkTypes'
    <3>1. least' \in Found /\ todo' \in SUBSET Found
      BY <1>1, <1>4, <1>5, <1>11, <2>2
    <3>2. /\ semi' \in [Found -> Found] /\ best' \in [Found -> Found]
          /\ ancestor' \in [Found -> Int]
      BY <1>1
    <3>3. bucket' \in [Found -> Seq(Found)] /\ trail' \in Seq(Found)
      BY <1>1
    <3> QED
      BY <1>2, <1>9, <2>2, <2>3, <3>1, <3>2, <3>3 DEF LinkTypes
  <2>5. SemisOk(parent', preds', N', semi', Lo')
    BY <1>2, <1>3, <2>3 DEF SemisOk
  <2>6. PathsOk(parent', N', Lo', semi', ancestor', best')
    <3>1. \A x \in Found : ancestor'[x] < 0 /\ best'[x] = x
      BY <1>1
    <3> QED
      BY <1>2, <1>3, <2>3, <3>1 DEF PathsOk
  <2>7. TrailOk(trail', ancestor', Lo')
    BY <1>1 DEF TrailOk
  <2>8. WaitsOk(parent', N', semi', bucket', Lo', w')
    <3>1. \A p \in 0..(N' - 1) : DOMAIN bucket'[p] = {}
      BY <1>1, <1>2, <1>3
    <3> QED
      BY <3>1 DEF WaitsOk
  <2>9. SettledOk(parent', N', semi', idom', bucket', Lo')
    BY <1>2, <1>3, <2>3 DEF SettledOk
  <2>10. LeastOk(parent', preds', semi', w', least', todo')
    <3>1. preds'[N - 1] = PredsOf(N - 1)
      BY <1>1, <1>4, <2>2
    <3>2. parent[N - 1] <= parent[N - 1]
      BY <1>3, <1>4, <2>2
    <3>3. SemiFrom(parent, preds', semi', N - 1, parent[N - 1])
      BY <1>6, <2>2, <3>1 DEF SemiFrom
    <3> QED
      BY <1>1, <1>11, <3>1, <3>2, <3>3 DEF LeastOk
  <2>11. LinkOk'
    BY <2>4, <2>5, <2>6, <2>7, <2>8, <2>9, <2>10 DEF LinkOk
  <2> QED
    BY <1>1, <1>8, <1>r, <2>3, <2>11 DEF TreeInv, ToGraph, WithGraph
<1> QED
  BY <1>10, <1>11

-----------------------------------------------------------------------------
(* The forest                                                               *)

\* What the vertices in a loop are.
LEMMA LinkFacts ==
    ASSUME Searched, LinkOk
    PROVE  /\ N \in Nat \ {0} /\ Found = 0..(N - 1) /\ w \in 1..(N - 1)
           /\ IsTree(parent, N) /\ DepthFirst(parent, preds, N) /\ Lo \in Int
           /\ semi \in [0..(N - 1) -> 0..(N - 1)] /\ best \in [0..(N - 1) -> 0..(N - 1)]
           /\ ancestor \in [0..(N - 1) -> Int]
           /\ PathsOk(parent, N, Lo, semi, ancestor, best)
           /\ (phase = "semi" => Lo = w) /\ (phase = "settle" => Lo = w - 1)
           /\ parent[w] \in 0..(N - 1) /\ parent[w] < w
           /\ preds[w] \in SUBSET (0..(N - 1))
<1>1. N \in Nat \ {0} /\ Found = 0..(N - 1) /\ DepthFirst(parent, preds, N)
  BY DEF Searched, Numbered
<1>2. IsTree(parent, N) /\ preds \in [0..(N - 1) -> SUBSET (0..(N - 1))]
  BY <1>1 DEF DepthFirst
<1>3. w \in 1..(N - 1)
  BY DEF LinkOk, LinkTypes
<1>4. w \in 0..(N - 1) /\ w \in Int
  BY <1>1, <1>3
<1>5. parent[w] \in 0..(N - 1) /\ parent[w] < w /\ preds[w] \in SUBSET (0..(N - 1))
  BY <1>2, <1>3, <1>4 DEF IsTree
<1>6. Lo \in Int /\ (phase = "semi" => Lo = w) /\ (phase = "settle" => Lo = w - 1)
  BY <1>4 DEF Lo
<1> QED
  BY <1>1, <1>2, <1>3, <1>5, <1>6 DEF LinkOk, LinkTypes

\* A step that changes neither the search nor the dominators found.
SearchKept == UNCHANGED <<vertex, parent, preds, shallow>>

LEMMA SearchedStays == ASSUME Searched, SearchKept PROVE Searched' /\ Found' = Found /\ N' = N
<1>1. Found' = Found /\ N' = N
  BY DEF SearchKept, Found, N
<1> QED
  BY <1>1 DEF Searched, SearchKept, Numbered

Later == {"semi", "settle", "finish", "retained"}

LEMMA ReachedStays ==
    ASSUME TreeInv, phase \in Later, UNCHANGED <<vertex, adj, table>> PROVE FoundIsReached'
<1>1. Reached' = Reached /\ Found' = Found /\ Range(vertex)' = Range(vertex)
  BY DEF Reached, Found, Range
<1> QED
  BY <1>1 DEF TreeInv, FoundIsReached, Later

\* Climb: the next one on the trail has a lower number, and its ancestor is linked.
LEMMA ClimbInv ==
    ASSUME Searched, LinkOk, phase \in {"semi", "settle"}, SearchKept, NEW v \in Found, v > Lo, Climb(v)
    PROVE  LinkOk'
<1>1. /\ UNCHANGED <<phase, w, least, todo, semi, best, ancestor, idom, bucket, parent, preds>>
      /\ IF trail = <<>> THEN ~Hangs(v) /\ trail' = <<v>>
         ELSE ~Hangs(ancestor[Last(trail)]) /\ trail' = Append(trail, ancestor[Last(trail)])
  BY DEF Climb, linkVars, SearchKept
<1>2. Found' = Found /\ N' = N /\ Lo' = Lo
  BY <1>1, SearchedStays DEF Lo
<1>3. /\ N \in Nat \ {0} /\ Found = 0..(N - 1) /\ IsTree(parent, N) /\ Lo \in Int
      /\ PathsOk(parent, N, Lo, semi, ancestor, best) /\ ancestor \in [0..(N - 1) -> Int]
  BY LinkFacts
<1>4. ASSUME NEW u \in Found, u > Lo, ~Hangs(u) PROVE ancestor[u] > Lo
  BY <1>3, <1>4, RootOfTree DEF Hangs
<1>5. trail \in Seq(Found) /\ TrailOk(trail, ancestor, Lo)
  BY DEF LinkOk, LinkTypes
<1>6. trail' \in Seq(Found) /\ TrailOk(trail', ancestor, Lo)
  <2>1. CASE trail = <<>>
    <3>1. trail' = <<v>> /\ ancestor[v] > Lo
      BY <1>1, <1>4, <2>1
    <3>2. DOMAIN trail' = {1} /\ trail'[1] = v /\ trail' \in Seq(Found)
      BY <3>1
    <3> QED
      BY <3>1, <3>2 DEF TrailOk
  <2>2. CASE trail # <<>>
    <3> DEFINE len == Len(trail)
               a == ancestor[Last(trail)]
    <3>1. /\ len \in Nat \ {0} /\ DOMAIN trail = 1..len /\ Last(trail) = trail[len]
          /\ len \in DOMAIN trail /\ trail[len] \in Found
      BY <1>5, <2>2 DEF Last
    <3>2. trail[len] > Lo /\ a > Lo
      BY <1>5, <3>1 DEF TrailOk
    <3>3. a \in Found /\ a < trail[len]
      BY <1>3, <3>1, <3>2, RootOfTree
    <3>4. ancestor[a] > Lo
      BY <1>1, <1>4, <2>2, <3>2, <3>3
    <3>5. trail' = Append(trail, a)
      BY <1>1, <2>2
    <3> HIDE DEF a, len
    <3>6. /\ trail' \in Seq(Found) /\ DOMAIN trail' = 1..(len + 1) /\ trail'[len + 1] = a
          /\ \A i \in 1..len : trail'[i] = trail[i] /\ trail[i] \in Found
      BY <1>5, <3>1, <3>3, <3>5 DEF len
    <3>7. ASSUME NEW i \in DOMAIN trail' PROVE trail'[i] > Lo /\ ancestor[trail'[i]] > Lo
      <4>1. i \in 1..len \/ i = len + 1
        BY <3>1, <3>6
      <4>2. CASE i \in 1..len
        BY <4>2, <1>5, <3>1, <3>6 DEF TrailOk
      <4>3. CASE i = len + 1
        BY <4>3, <3>2, <3>4, <3>6
      <4> QED
        BY <4>1, <4>2, <4>3
    <3>8. ASSUME NEW i \in DOMAIN trail', NEW j \in DOMAIN trail', i < j PROVE trail'[j] < trail'[i]
      <4>1. i \in 1..len
        BY <3>1, <3>6, <3>8
      <4>2. CASE j \in 1..len
        BY <4>1, <4>2, <1>5, <3>1, <3>6, <3>8 DEF TrailOk
      <4>3. CASE j = len + 1
        <5>1. i = len \/ (i < len /\ trail[len] < trail[i])
          BY <4>1, <1>5, <3>1 DEF TrailOk
        <5>2. a \in Int /\ trail[len] \in Int /\ trail[i] \in Int
          BY <1>3, <3>1, <3>3, <3>6, <4>1
        <5>3. a < trail[i]
          BY <5>1, <5>2, <3>3
        <5> QED
          BY <5>3, <4>1, <4>3, <3>6
      <4> QED
        BY <4>2, <4>3, <3>1, <3>6
    <3> QED
      BY <3>6, <3>7, <3>8 DEF TrailOk
  <2> QED
    BY <2>1, <2>2
<1> QED
  BY <1>1, <1>2, <1>6 DEF LinkOk, LinkTypes

LEMMA ElementOf == ASSUME NEW V, NEW s \in Seq(V), NEW i \in DOMAIN s PROVE s[i] \in V
OBVIOUS

LEMMA TailOf ==
    ASSUME NEW V, NEW s \in Seq(V), s # <<>> PROVE 1 \in DOMAIN s /\ s[1] \in V /\ Tail(s) \in Seq(V)
OBVIOUS

LEMMA IntOf == ASSUME NEW n \in Nat, NEW k \in 0..(n - 1) PROVE k \in Int
OBVIOUS

LEMMA UnwindInv ==
    ASSUME Searched, LinkOk, phase \in {"semi", "settle"}, SearchKept, Unwind
    PROVE  LinkOk'
<1> DEFINE y == Last(trail)
           a == ancestor[y]
           len == Len(trail)
<1>1. /\ UNCHANGED <<phase, w, least, todo, semi, idom, bucket, parent, preds>>
      /\ trail # <<>> /\ trail' = Front(trail)
      /\ best' = [best EXCEPT ![y] = IF semi[best[a]] < semi[best[y]] THEN best[a] ELSE best[y]]
      /\ ancestor' = [ancestor EXCEPT ![y] = ancestor[a]]
  BY DEF Unwind, SearchKept
<1>2. Found' = Found /\ N' = N /\ Lo' = Lo
  BY <1>1, SearchedStays DEF Lo
<1>3. /\ N \in Nat \ {0} /\ Found = 0..(N - 1) /\ IsTree(parent, N) /\ Lo \in Int
      /\ PathsOk(parent, N, Lo, semi, ancestor, best) /\ ancestor \in [0..(N - 1) -> Int]
      /\ semi \in [0..(N - 1) -> 0..(N - 1)] /\ best \in [0..(N - 1) -> 0..(N - 1)]
  BY LinkFacts
<1>4. trail \in Seq(Found) /\ TrailOk(trail, ancestor, Lo)
  BY DEF LinkOk, LinkTypes
<1>5. /\ len \in Nat \ {0} /\ DOMAIN trail = 1..len /\ y = trail[len]
      /\ trail' \in Seq(Found) /\ DOMAIN trail' = 1..(len - 1)
      /\ \A i \in 1..(len - 1) : trail'[i] = trail[i]
  BY <1>1, <1>4, FrontOf DEF Last
<1>6. len \in DOMAIN trail /\ y \in 0..(N - 1)
  <2>1. len \in DOMAIN trail
    BY <1>5
  <2> QED
    BY <2>1, <1>3, <1>4, <1>5, ElementOf
<1>7. y > Lo /\ a > Lo
  BY <1>4, <1>5, <1>6 DEF TrailOk
<1>8. a \in 0..(N - 1)
  BY <1>3, <1>6, <1>7, RootOfTree
<1>9. PathsOk(parent, N, Lo, semi, ancestor', best')
  BY <1>1, <1>3, <1>6, <1>7, <1>8, PathsUnwound
<1>10. ancestor' \in [Found -> Int] /\ best' \in [Found -> Found]
  <2>1. ancestor[a] \in Int /\ best[a] \in Found /\ best[y] \in Found
    BY <1>3, <1>6, <1>8
  <2> HIDE DEF a, y
  <2> QED
    BY <2>1, <1>1, <1>3
<1> HIDE DEF a, y, len
<1>11. TrailOk(trail', ancestor', Lo)
  <2>1. ASSUME NEW i \in DOMAIN trail' PROVE trail'[i] > Lo /\ ancestor'[trail'[i]] > Lo
    <3>1. i \in DOMAIN trail /\ i < len /\ trail'[i] = trail[i]
      BY <1>5
    <3>2. y < trail[i] /\ trail[i] > Lo /\ ancestor[trail[i]] > Lo /\ trail[i] \in 0..(N - 1)
      <4>1. trail[i] \in 0..(N - 1)
        BY <3>1, <1>3, <1>4, ElementOf
      <4> QED
        BY <4>1, <3>1, <1>4, <1>5, <1>6 DEF TrailOk
    <3>3. trail[i] # y
      BY <3>2, <1>6
    <3> QED
      BY <3>1, <3>2, <3>3, <1>1, <1>3
  <2>2. ASSUME NEW i \in DOMAIN trail', NEW j \in DOMAIN trail', i < j PROVE trail'[j] < trail'[i]
    <3>1. i \in DOMAIN trail /\ j \in DOMAIN trail /\ trail'[i] = trail[i] /\ trail'[j] = trail[j]
      BY <1>5
    <3> QED
      BY <3>1, <2>2, <1>4 DEF TrailOk
  <2> QED
    BY <2>1, <2>2 DEF TrailOk
<1>12. LinkTypes'
  BY <1>1, <1>2, <1>5, <1>10 DEF LinkOk, LinkTypes
<1> QED
  BY <1>1, <1>2, <1>9, <1>11, <1>12 DEF LinkOk

\* LookBelow, LookAbove: the least stays right for the predecessors looked at.
LEMMA LookInv ==
    ASSUME Searched, LinkOk, phase = "semi", SearchKept, NEW v \in Found, NextPred(v),
           LookBelow(v) \/ LookAbove(v)
    PROVE  LinkOk'
<1>1. /\ UNCHANGED <<phase, w, trail, semi, best, ancestor, idom, bucket, parent, preds>>
      /\ todo' = todo \ {v} /\ v \in todo
  BY DEF LookBelow, LookAbove, linkVars, SearchKept, NextPred
<1>2. Found' = Found /\ N' = N /\ Lo' = Lo
  BY <1>1, SearchedStays DEF Lo
<1>3. /\ N \in Nat \ {0} /\ Found = 0..(N - 1) /\ IsTree(parent, N) /\ Lo = w /\ w \in 1..(N - 1)
      /\ PathsOk(parent, N, w, semi, ancestor, best)
      /\ semi \in [0..(N - 1) -> 0..(N - 1)] /\ preds[w] \in SUBSET (0..(N - 1))
  BY LinkFacts
<1>4. \A x \in 0..(N - 1) : semi[x] \in 0..(N - 1)
  BY <1>3
<1>5. least \in 0..(N - 1) /\ LeastOk(parent, preds, semi, w, least, todo)
  BY <1>3 DEF LinkOk, LinkTypes
<1>6. LeastOk(parent, preds, semi, w, least', todo') /\ least' \in 0..(N - 1)
  <2>1. CASE LookBelow(v)
    <3>1. v <= w /\ least' = IF least < v THEN least ELSE v
      BY <2>1 DEF LookBelow, Min2
    <3>2. \A x \in 0..(N - 1) : semi[x] \in Nat
      BY <1>4, <1>3
    <3> QED
      BY <3>1, <3>2, <1>1, <1>3, <1>5, LeastBelow
  <2>2. CASE LookAbove(v)
    <3>1. /\ v > w /\ ancestor[ancestor[v]] < 0
          /\ least' = IF least < semi[best[v]] THEN least ELSE semi[best[v]]
      BY <2>2 DEF LookAbove, Min2, Evaluated, Hangs
    <3> QED
      BY <3>1, <1>1, <1>3, <1>4, <1>5, LeastAbove
  <2> QED
    BY <2>1, <2>2
<1>7. LinkTypes'
  BY <1>1, <1>2, <1>3, <1>6 DEF LinkOk, LinkTypes
<1> QED
  BY <1>1, <1>2, <1>6, <1>7 DEF LinkOk

LEMMA LinkInv ==
    ASSUME Searched, LinkOk, Link, SearchKept
    PROVE  LinkOk' /\ phase' = "settle"
<1>1. /\ UNCHANGED <<w, least, trail, best, idom, parent, preds>>
      /\ phase = "semi" /\ phase' = "settle" /\ todo = {} /\ todo' = todo
      /\ semi' = [semi EXCEPT ![w] = least]
      /\ bucket' = [bucket EXCEPT ![least] = <<w>> \o bucket[least]]
      /\ ancestor' = [ancestor EXCEPT ![w] = parent[w]]
  BY DEF Link, SearchKept
<1>2. /\ N \in Nat \ {0} /\ Found = 0..(N - 1) /\ IsTree(parent, N) /\ Lo = w /\ w \in 1..(N - 1)
      /\ DepthFirst(parent, preds, N)
      /\ PathsOk(parent, N, w, semi, ancestor, best) /\ ancestor \in [0..(N - 1) -> Int]
      /\ semi \in [0..(N - 1) -> 0..(N - 1)] /\ parent[w] \in 0..(N - 1)
  BY <1>1, LinkFacts
<1>3. Found' = Found /\ N' = N /\ Lo' = w - 1
  BY <1>1, SearchedStays DEF Lo
<1>4. /\ least \in 0..(N - 1) /\ LeastOk(parent, preds, semi, w, least, {})
      /\ SemisOk(parent, preds, N, semi, w)
      /\ WaitsOk(parent, N, semi, bucket, w, w) /\ SettledOk(parent, N, semi, idom, bucket, w)
      /\ bucket \in [0..(N - 1) -> Seq(0..(N - 1))]
      /\ trail \in Seq(0..(N - 1)) /\ TrailOk(trail, ancestor, w)
  BY <1>1, <1>2 DEF LinkOk, LinkTypes
<1>5. w \in 0..(N - 1)
  BY <1>2
<1>6. SemisOk(parent, preds, N, semi', w - 1) /\ least < w /\ Above(parent, least, w)
  BY <1>1, <1>2, <1>4, SemisLinked
<1>7. semi'[w] = least /\ \A x \in 0..(N - 1) : x # w => semi'[x] = semi[x]
  BY <1>1, <1>2, <1>5
<1>8. ancestor'[w] = parent[w] /\ \A x \in 0..(N - 1) : x # w => ancestor'[x] = ancestor[x]
  BY <1>1, <1>2, <1>5
<1>9. /\ bucket'[least] = <<w>> \o bucket[least]
      /\ \A p \in 0..(N - 1) : p # least => bucket'[p] = bucket[p]
  BY <1>1, <1>4
<1>10. PathsOk(parent, N, w - 1, semi', ancestor', best)
  <2>1. semi'[w] \in Nat
    BY <1>2, <1>4, <1>7
  <2> QED
    BY <2>1, <1>2, <1>7, <1>8, PathsLinked
<1>11. bucket[least] \in Seq(0..(N - 1))
  BY <1>4
<1>12. \A p \in 0..(N - 1) : \A i \in DOMAIN bucket[p] : bucket[p][i] \in 0..(N - 1)
  <2> TAKE p \in 0..(N - 1)
  <2> TAKE i \in DOMAIN bucket[p]
  <2>1. bucket[p] \in Seq(0..(N - 1))
    BY <1>4
  <2> QED
    BY <2>1, ElementOf
<1>13. WaitsOk(parent, N, semi', bucket', w - 1, w)
  BY <1>2, <1>4, <1>6, <1>7, <1>9, <1>11, <1>12, WaitsLinked
<1>14. SettledOk(parent, N, semi', idom, bucket', w - 1)
  <2>1. \A x \in 0..(N - 1) : semi[x] \in 0..(N - 1)
    BY <1>2
  <2> QED
    BY <2>1, <1>2, <1>4, <1>7, <1>9, <1>11, SettledLinked
<1>15. TrailOk(trail, ancestor', w - 1)
  <2>1. ASSUME NEW i \in DOMAIN trail PROVE trail[i] > w - 1 /\ ancestor'[trail[i]] > w - 1
    <3>1. trail[i] > w /\ ancestor[trail[i]] > w /\ trail[i] \in 0..(N - 1)
      BY <1>4, ElementOf DEF TrailOk
    <3>2. trail[i] # w /\ trail[i] > w - 1
      BY <3>1, <1>5
    <3>3. ancestor'[trail[i]] = ancestor[trail[i]] /\ ancestor[trail[i]] \in Int
      BY <3>1, <3>2, <1>2, <1>8
    <3> QED
      BY <3>1, <3>2, <3>3, <1>5
  <2> QED
    BY <2>1, <1>4 DEF TrailOk
<1>16. LinkTypes'
  <2>1. semi' \in [Found -> Found] /\ ancestor' \in [Found -> Int]
    <3>1. parent[w] \in Int
      BY <1>2, IntOf
    <3> QED
      BY <3>1, <1>1, <1>2, <1>4
  <2>2. <<w>> \o bucket[least] \in Seq(0..(N - 1))
    BY <1>5, <1>11
  <2>3. bucket' \in [Found -> Seq(Found)]
    BY <2>2, <1>1, <1>2, <1>4
  <2> QED
    BY <2>1, <2>3, <1>1, <1>3 DEF LinkOk, LinkTypes
<1> QED
  BY <1>1, <1>3, <1>6, <1>10, <1>13, <1>14, <1>15, <1>16 DEF LinkOk

LEMMA SettleInv ==
    ASSUME Searched, LinkOk, phase = "settle", SearchKept,
           bucket[parent[w]] # <<>>, Settle(parent[w], Head(bucket[parent[w]]))
    PROVE  LinkOk'
<1>a. PICK p : p = parent[w]
  OBVIOUS
<1>b. PICK v : v = bucket[p][1]
  OBVIOUS
<1>1. /\ UNCHANGED <<phase, w, least, todo, trail, semi, best, ancestor, parent, preds>>
      /\ ancestor[ancestor[v]] < 0
      /\ idom' = [idom EXCEPT ![v] = IF semi[best[v]] = semi[v] THEN p ELSE -best[v] - 1]
      /\ bucket' = [bucket EXCEPT ![p] = Tail(bucket[p])]
  BY <1>a, <1>b DEF Settle, SearchKept, Evaluated, Hangs
<1>2. Found' = Found /\ N' = N /\ Lo' = Lo
  BY <1>1, SearchedStays DEF Lo
<1>3. /\ N \in Nat \ {0} /\ Found = 0..(N - 1) /\ IsTree(parent, N) /\ Lo = w - 1 /\ w \in 1..(N - 1)
      /\ DepthFirst(parent, preds, N)
      /\ PathsOk(parent, N, w - 1, semi, ancestor, best)
      /\ semi \in [0..(N - 1) -> 0..(N - 1)] /\ best \in [0..(N - 1) -> 0..(N - 1)]
      /\ p \in 0..(N - 1)
  BY <1>a, LinkFacts
<1>4. /\ WaitsOk(parent, N, semi, bucket, w - 1, w) /\ SettledOk(parent, N, semi, idom, bucket, w - 1)
      /\ bucket \in [0..(N - 1) -> Seq(0..(N - 1))]
      /\ idom \in [0..(N - 1) -> Int] /\ idom[0] = 0
  BY <1>3 DEF LinkOk, LinkTypes
<1>5. bucket[p] \in Seq(0..(N - 1)) /\ bucket[p] # <<>>
  BY <1>a, <1>3, <1>4
<1>6. 1 \in DOMAIN bucket[p] /\ v \in 0..(N - 1) /\ Tail(bucket[p]) \in Seq(0..(N - 1))
  BY <1>b, <1>5, TailOf
<1>7. /\ v > w - 1 /\ semi[v] = p
      /\ \E c \in 1..w : parent[c] = p /\ Above(parent, c, v)
  <2>1. v = bucket[p][1] /\ \E c \in 1..w : parent[c] = p /\ Above(parent, c, bucket[p][1])
    BY <1>b, <1>3, <1>4, <1>6 DEF WaitsOk
  <2> QED
    BY <2>1, <1>b, <1>3, <1>4, <1>6 DEF WaitsOk
<1>8. idom'[v] = (IF semi[best[v]] = semi[v] THEN p ELSE -best[v] - 1)
      /\ \A x \in 0..(N - 1) : x # v => idom'[x] = idom[x]
  BY <1>1, <1>4, <1>6
<1>9. SettledAs(parent, semi, idom'[v], v, w - 1)
  <2>1. semi[v] = parent[w] /\ \E c \in 1..w : parent[c] = parent[w] /\ Above(parent, c, v)
    BY <1>a, <1>7
  <2>2. idom'[v] = IF semi[best[v]] = semi[v] THEN parent[w] ELSE -best[v] - 1
    BY <1>a, <1>8
  <2>3. v \in 0..(N - 1) /\ v > w - 1 /\ ancestor[ancestor[v]] < 0
    BY <1>1, <1>6, <1>7
  <2> QED
    BY <2>1, <2>2, <2>3, <1>3, SettleFirst
<1>10. /\ bucket'[p] = Tail(bucket[p])
       /\ \A q \in 0..(N - 1) : q # p => bucket'[q] = bucket[q]
  BY <1>1, <1>3, <1>4
<1>11. WaitsOk(parent, N, semi, bucket', w - 1, w) /\ SettledOk(parent, N, semi, idom', bucket', w - 1)
  <2>1. \A x \in 0..(N - 1) : semi[x] \in 0..(N - 1)
    BY <1>3
  <2>2. \A x \in 0..(N - 1) : x # bucket[p][1] => idom'[x] = idom[x]
    BY <1>b, <1>8
  <2>3. SettledAs(parent, semi, idom'[bucket[p][1]], bucket[p][1], w - 1)
    BY <1>b, <1>9
  <2>4. N \in Nat \ {0} /\ p \in 0..(N - 1)
    BY <1>3
  <2>5. PICK low : low = w - 1
    OBVIOUS
  <2>6. /\ WaitsOk(parent, N, semi, bucket, low, w) /\ SettledOk(parent, N, semi, idom, bucket, low)
        /\ SettledAs(parent, semi, idom'[bucket[p][1]], bucket[p][1], low)
    BY <2>3, <2>5, <1>4
  <2>7. WaitsOk(parent, N, semi, bucket', low, w) /\ SettledOk(parent, N, semi, idom', bucket', low)
    BY <2>1, <2>2, <2>4, <2>6, <1>5, <1>10, WaitsSettled
  <2> QED
    BY <2>5, <2>7
<1>12. LinkTypes'
  <2>1. bucket' \in [Found -> Seq(Found)]
    BY <1>1, <1>3, <1>4, <1>6
  <2>2. v # 0
    BY <1>3, <1>6, <1>7
  <2>3. (IF semi[best[v]] = semi[v] THEN p ELSE -best[v] - 1) \in Int
    <3>1. best[v] \in Int /\ p \in Int
      BY <1>3, <1>6
    <3> QED
      BY <3>1
  <2>4. idom' \in [Found -> Int] /\ idom'[0] = 0
    <3>1. idom' \in [Found -> Int]
      BY <2>3, <1>1, <1>3, <1>4
    <3>2. 0 \in 0..(N - 1)
      BY <1>3
    <3> QED
      BY <3>1, <3>2, <2>2, <1>4, <1>8
  <2> QED
    BY <2>1, <2>4, <1>1, <1>2 DEF LinkOk, LinkTypes
<1> QED
  BY <1>1, <1>2, <1>3, <1>11, <1>12 DEF LinkOk

\* The loop goes on, or the second pass begins.
LEMMA NextVertexInv ==
    ASSUME TreeInv, NextVertex, SearchKept, UNCHANGED <<adj, table>> PROVE TreeInv'
<1>1. /\ UNCHANGED <<trail, semi, best, ancestor, idom, bucket, parent, preds>>
      /\ phase = "settle" /\ bucket[parent[w]] = <<>> /\ Searched /\ LinkOk
      /\ IF w = 1 THEN phase' = "finish" /\ w' = w
         ELSE phase' = "semi" /\ w' = w - 1 /\ least' = parent[w - 1] /\ todo' = preds[w - 1]
  BY DEF NextVertex, TreeInv, Turn, linkVars, SearchKept
<1>2. Found' = Found /\ N' = N /\ Searched'
  BY <1>1, SearchedStays
<1>r. FoundIsReached'
  BY <1>1, ReachedStays DEF Later, SearchKept
<1>3. /\ N \in Nat \ {0} /\ Found = 0..(N - 1) /\ IsTree(parent, N) /\ Lo = w - 1 /\ w \in 1..(N - 1)
      /\ DepthFirst(parent, preds, N)
      /\ semi \in [0..(N - 1) -> 0..(N - 1)]
  BY <1>1, LinkFacts
<1>4. /\ SemisOk(parent, preds, N, semi, w - 1)
      /\ PathsOk(parent, N, w - 1, semi, ancestor, best)
      /\ TrailOk(trail, ancestor, w - 1)
      /\ WaitsOk(parent, N, semi, bucket, w - 1, w)
      /\ SettledOk(parent, N, semi, idom, bucket, w - 1)
      /\ idom \in [Found -> Int] /\ idom[0] = 0
  BY <1>1, <1>3 DEF LinkOk, LinkTypes
<1>5. WaitsOk(parent, N, semi, bucket, w - 1, w - 1)
  <2>1. PICK low : low = w - 1
    OBVIOUS
  <2>2. WaitsOk(parent, N, semi, bucket, low, w)
    BY <2>1, <1>4
  <2>3. WaitsOk(parent, N, semi, bucket, low, w - 1)
    BY <2>2, <1>1, <1>3, WaitsNext
  <2> QED
    BY <2>1, <2>3
<1>6. CASE w = 1
  <2>1. \A p \in 0..(N - 1) : DOMAIN bucket[p] = {}
    <3>1. 1..(w - 1) = {}
      BY <1>6
    <3> QED
      BY <3>1, <1>5 DEF WaitsOk
  <2>2. \A v \in 1..(N - 1) : SettledAs(parent, semi, idom[v], v, 0)
    <3> TAKE v \in 1..(N - 1)
    <3>1. v \in 0..(N - 1) /\ v > w - 1 /\ w - 1 = 0
      BY <1>3, <1>6
    <3>2. semi[v] \in 0..(N - 1)
      BY <1>3, <3>1
    <3>3. SettledAs(parent, semi, idom[v], v, w - 1)
      BY <3>1, <3>2, <2>1, <1>4 DEF SettledOk
    <3> QED
      BY <3>1, <3>3
  <2>3. SemiOk(parent, preds, N, semi)
    <3>1. \A v \in 1..(N - 1) : v \in 0..(N - 1) /\ v > w - 1
      BY <1>3, <1>6
    <3> QED
      BY <3>1, <1>3, <1>4 DEF SemiOk, SemisOk
  <2>4. w' = 1 /\ w' \in 1..N /\ \A v \in 1..(N - 1) : ~(v < 1)
    BY <1>1, <1>3, <1>6
  <2>5. FinishOk'
    BY <2>2, <2>3, <2>4, <1>1, <1>2, <1>4 DEF FinishOk
  <2> QED
    BY <2>5, <1>1, <1>2, <1>r, <1>6 DEF TreeInv, ToGraph, WithGraph
<1>7. CASE w # 1
  <2>1. /\ phase' = "semi" /\ w' = w - 1 /\ Lo' = w - 1 /\ w - 1 \in 1..(N - 1)
        /\ least' = parent[w - 1] /\ todo' = preds[w - 1]
    BY <1>1, <1>3, <1>7 DEF Lo
  <2>2. PICK k : k = w - 1
    OBVIOUS
  <2>3. /\ k \in 1..(N - 1) /\ k \in 0..(N - 1) /\ parent[k] \in preds[k] /\ parent[k] \in 0..(N - 1)
        /\ preds[k] \in SUBSET (0..(N - 1))
    <3>1. k \in 1..(N - 1) /\ k \in 0..(N - 1)
      BY <2>1, <2>2, <1>3
    <3> QED
      BY <3>1, <1>3 DEF DepthFirst, IsTree
  <2>4. LinkTypes'
    BY <1>1, <1>2, <1>3, <2>1, <2>2, <2>3 DEF LinkOk, LinkTypes
  <2>5. LeastOk(parent, preds, semi, k, parent[k], preds[k])
    <3>1. parent[k] <= parent[k]
      BY <2>3, <1>3
    <3> QED
      BY <3>1, <2>3 DEF LeastOk, SemiFrom
  <2>6. LinkOk'
    BY <1>1, <1>2, <1>4, <1>5, <2>1, <2>2, <2>4, <2>5 DEF LinkOk
  <2> QED
    BY <2>1, <2>6, <1>1, <1>2, <1>r DEF TreeInv, ToGraph, WithGraph
<1> QED
  BY <1>6, <1>7

LEMMA LinkStepInv == ASSUME TreeInv, LinkStep, UNCHANGED table PROVE TreeInv'
<1>1. SearchKept /\ (Searched => Searched')
  BY SearchedStays DEF LinkStep, SearchKept
<1>2. ASSUME phase \in {"semi", "settle"}, phase' \in {"semi", "settle"}, LinkOk' PROVE TreeInv'
  <2>1. FoundIsReached'
    BY <1>2, ReachedStays DEF LinkStep, Later
  <2> QED
    BY <2>1, <1>1, <1>2 DEF TreeInv, ToGraph, WithGraph
<1>3. CASE \E v \in todo : LookBack(v)
  <2>1. PICK v \in todo : LookBack(v)
    BY <1>3
  <2>2. phase = "semi" /\ phase' = "semi" /\ Searched /\ LinkOk /\ NextPred(v) /\ Lo = w
    BY <2>1, LinkFacts DEF LookBack, LookBelow, LookAbove, Climb, Unwind, TreeInv
  <2>3. v \in Found
    BY <2>1, <2>2 DEF LinkOk, LinkTypes
  <2>4. LinkOk'
    <3>1. CASE LookBelow(v) \/ LookAbove(v)
      BY <3>1, <2>2, <2>3, <1>1, LookInv
    <3>2. CASE v > w /\ Climb(v)
      BY <3>2, <2>2, <2>3, <1>1, ClimbInv
    <3>3. CASE Unwind
      BY <3>3, <2>2, <1>1, UnwindInv
    <3> QED
      BY <3>1, <3>2, <3>3, <2>1 DEF LookBack
  <2> QED
    BY <2>2, <2>4, <1>2
<1>4. CASE Link
  <2>1. phase = "semi" /\ Searched /\ LinkOk
    BY <1>4 DEF Link, TreeInv
  <2>2. LinkOk' /\ phase' = "settle"
    BY <2>1, <1>1, <1>4, LinkInv
  <2> QED
    BY <2>1, <2>2, <1>2
<1>5. CASE SettleNext
  <2>1. /\ phase = "settle" /\ phase' = "settle" /\ Searched /\ LinkOk /\ bucket[parent[w]] # <<>>
        /\ \/ Settle(parent[w], Head(bucket[parent[w]])) \/ Climb(Head(bucket[parent[w]])) \/ Unwind
    BY <1>5 DEF SettleNext, Settle, Climb, Unwind, TreeInv
  <2>2. LinkOk'
    <3>1. CASE Settle(parent[w], Head(bucket[parent[w]]))
      BY <3>1, <2>1, <1>1, SettleInv
    <3>2. CASE Climb(Head(bucket[parent[w]]))
      <4>1. /\ Found = 0..(N - 1) /\ parent[w] \in 0..(N - 1)
            /\ WaitsOk(parent, N, semi, bucket, Lo, w) /\ bucket \in [Found -> Seq(Found)]
        BY <2>1, LinkFacts DEF LinkOk, LinkTypes
      <4>2. PICK v : v = Head(bucket[parent[w]])
        OBVIOUS
      <4>3. v = bucket[parent[w]][1]
        BY <4>2, <2>1, <4>1
      <4>4. bucket[parent[w]] \in Seq(Found)
        BY <4>1
      <4>5. 1 \in DOMAIN bucket[parent[w]] /\ v \in Found
        BY <4>3, <4>4, <2>1, TailOf
      <4>6. v > Lo
        BY <4>1, <4>3, <4>5 DEF WaitsOk
      <4> QED
        BY <4>2, <4>5, <4>6, <3>2, <2>1, <1>1, ClimbInv
    <3>3. CASE Unwind
      BY <3>3, <2>1, <1>1, UnwindInv
    <3> QED
      BY <3>1, <3>2, <3>3, <2>1
  <2> QED
    BY <2>1, <2>2, <1>2
<1>6. CASE NextVertex
  BY <1>1, <1>6, NextVertexInv DEF LinkStep
<1> QED
  BY <1>3, <1>4, <1>5, <1>6 DEF LinkStep

-----------------------------------------------------------------------------
(* Dominators and retained sizes                                            *)

LEMMA FinishInv == ASSUME TreeInv, Finish, UNCHANGED table PROVE TreeInv'
<1>1. /\ phase = "finish" /\ phase' = "finish" /\ w \in Found /\ Searched /\ FinishOk
      /\ w' = w + 1 /\ UNCHANGED <<vertex, parent, preds, shallow, semi>>
      /\ idom' = [idom EXCEPT ![w] = FinishOf(w)]
  BY DEF Finish, TreeInv
<1>2. Found' = Found /\ N' = N /\ Searched'
  BY <1>1, SearchedStays DEF SearchKept
<1>3. N \in Nat \ {0} /\ Found = 0..(N - 1) /\ DepthFirst(parent, preds, N)
  BY <1>1 DEF Searched, Numbered
<1>4. w \in 1..(N - 1) /\ w' \in 1..N /\ 0 \in 0..(N - 1) /\ w # 0
  BY <1>1, <1>3 DEF FinishOk
<1>5. SemiOk(parent, preds, N, semi) /\ idom \in [0..(N - 1) -> Int] /\ idom[0] = 0
  BY <1>1, <1>3 DEF FinishOk
<1>6. IsDom(parent, preds, N, semi, FinishOf(w), w)
  <2>1. FinishOf(w) = IF idom[w] < 0 THEN idom[-idom[w] - 1] ELSE idom[w]
    BY DEF FinishOf
  <2>2. ~(w < w)
    BY <1>4
  <2>3. SettledAs(parent, semi, idom[w], w, 0)
    BY <2>2, <1>1, <1>4 DEF FinishOk
  <2>4. \A v \in 1..(N - 1) : v < w => IsDom(parent, preds, N, semi, idom[v], v)
    BY <1>1 DEF FinishOk
  <2> QED
    BY <2>1, <2>3, <2>4, <1>3, <1>4, <1>5, DomFinished
<1>7. FinishOf(w) \in 0..(N - 1)
  BY <1>6 DEF IsDom
<1>8. /\ idom' \in [Found -> Int] /\ idom'[0] = 0 /\ idom'[w] = FinishOf(w)
      /\ \A v \in 1..(N - 1) : v # w => idom'[v] = idom[v]
  <2>1. w \in 0..(N - 1) /\ \A v \in 1..(N - 1) : v \in 0..(N - 1)
    BY <1>1, <1>3
  <2>2. FinishOf(w) \in Int
    BY <1>3, <1>7
  <2> QED
    BY <2>1, <2>2, <1>1, <1>3, <1>4, <1>5
<1>9. ASSUME NEW v \in 1..(N - 1)
      PROVE  /\ v < w + 1 => IsDom(parent, preds, N, semi, idom'[v], v)
             /\ ~(v < w + 1) => SettledAs(parent, semi, idom'[v], v, 0)
  <2>1. CASE v = w
    <3>1. v < w + 1
      BY <2>1, <1>4
    <3> QED
      BY <3>1, <2>1, <1>6, <1>8
  <2>2. CASE v # w
    <3>1. (v < w + 1) <=> (v < w)
      BY <2>2, <1>4
    <3> QED
      BY <3>1, <2>2, <1>1, <1>8 DEF FinishOk
  <2> QED
    BY <2>1, <2>2
<1>10. FinishOk'
  BY <1>1, <1>2, <1>4, <1>5, <1>8, <1>9 DEF FinishOk
<1>11. FoundIsReached'
  BY <1>1, ReachedStays DEF Finish, Later
<1> QED
  BY <1>1, <1>2, <1>10, <1>11 DEF TreeInv, ToGraph, WithGraph

LEMMA SizeType == ASSUME Searched PROVE Size \in [0..(N - 1) -> Nat] /\ Size[0] = 0
<1>1. N \in Nat \ {0} /\ Found = 0..(N - 1) /\ \A v \in 1..(N - 1) : shallow[vertex[v]] \in Nat
  BY DEF Searched, Numbered
<1>2. \A v \in 0..(N - 1) : v # 0 => v \in 1..(N - 1)
  BY <1>1
<1>3. 0 \in 0..(N - 1)
  BY <1>1
<1> QED
  BY <1>1, <1>2, <1>3 DEF Size

LEMMA EndFinishInv == ASSUME TreeInv, EndFinish, UNCHANGED table PROVE TreeInv'
<1>1. /\ phase = "finish" /\ phase' = "retained" /\ w \notin Found /\ Searched /\ FinishOk
      /\ w' = N - 1 /\ UNCHANGED <<vertex, parent, preds, shallow, semi, idom>>
      /\ rs' = Size
  BY DEF EndFinish, TreeInv, linkVars, StartRetained, N, Size
<1>2. Found' = Found /\ N' = N /\ Searched' /\ Size' = Size
  BY <1>1, SearchedStays DEF SearchKept, Size
<1>3. N \in Nat \ {0} /\ Found = 0..(N - 1) /\ DepthFirst(parent, preds, N)
  BY <1>1 DEF Searched, Numbered
<1>4. SemiOk(parent, preds, N, semi) /\ idom \in [Found -> Int] /\ idom[0] = 0 /\ w \in 1..N
  BY <1>1 DEF FinishOk
<1>5. \A v \in 1..(N - 1) : IsDom(parent, preds, N, semi, idom[v], v)
  <2>1. \A v \in 1..(N - 1) : v < w
    BY <1>1, <1>3, <1>4
  <2> QED
    BY <2>1, <1>1 DEF FinishOk
<1>6. DomTree(parent, preds, N, semi, idom)
  <2>1. \A v \in 0..(N - 1) : v = 0 \/ v \in 1..(N - 1)
    BY <1>3
  <2>2. 0 \in 0..(N - 1)
    BY <1>3
  <2>3. \A v \in 1..(N - 1) : idom[v] \in 0..(N - 1)
    BY <1>5 DEF IsDom
  <2>4. idom \in [0..(N - 1) -> 0..(N - 1)]
    BY <2>1, <2>2, <2>3, <1>3, <1>4
  <2> QED
    BY <2>4, <1>4, <1>5 DEF DomTree
<1>7. Dominated'
  BY <1>1, <1>2, <1>4, <1>6 DEF Dominated
<1>8. \A d \in Found : rs'[d] = Cardinality(Bytes(Size, Gathered(idom, N, N - 1, d)))
  <2> TAKE d \in Found
  <2>1. Gathered(idom, N, N - 1, d) = {d}
    BY <1>3, <1>6, DomTreeIsTree, GatheredNothing
  <2>2. Size \in [0..(N - 1) -> Nat] /\ Size[0] = 0
    BY <1>1, SizeType
  <2>3. Cardinality(Bytes(Size, {d})) = IF d = 0 THEN 0 ELSE Size[d]
    <3>1. d # 0 => Size[d] \in Nat
      BY <2>2, <1>3
    <3> QED
      BY <3>1, BytesOfOne
  <2> QED
    BY <2>1, <2>2, <2>3, <1>1
<1>9. rs' \in [Found -> Nat] /\ w' \in 0..(N - 1)
  BY <1>1, <1>3, SizeType
<1>10. RetainOk'
  BY <1>1, <1>2, <1>8, <1>9 DEF RetainOk
<1>11. FoundIsReached'
  BY <1>1, ReachedStays DEF EndFinish, Later
<1> QED
  BY <1>1, <1>2, <1>7, <1>10, <1>11 DEF TreeInv, ToGraph, WithGraph

LEMMA RetainInv == ASSUME TreeInv, Retain, UNCHANGED table PROVE TreeInv'
<1>1. /\ phase = "retained" /\ phase' = "retained" /\ w > 0 /\ Searched /\ Dominated /\ RetainOk
      /\ w' = w - 1 /\ UNCHANGED <<vertex, parent, preds, shallow, semi, idom>>
      /\ rs' = [rs EXCEPT ![idom[w]] = rs[idom[w]] + rs[w]]
  BY DEF Retain, TreeInv, linkVars
<1>2. Found' = Found /\ N' = N /\ Searched' /\ Size' = Size
  BY <1>1, SearchedStays DEF SearchKept, Size
<1>3. N \in Nat \ {0} /\ Found = 0..(N - 1) /\ DepthFirst(parent, preds, N)
  BY <1>1 DEF Searched, Numbered
<1>4. w \in 1..(N - 1) /\ w \in 0..(N - 1) /\ w' \in 0..(N - 1) /\ rs \in [0..(N - 1) -> Nat]
  BY <1>1, <1>3 DEF RetainOk
<1>5. IsTree(idom, N) /\ idom[w] \in 0..(N - 1) /\ idom[w] < w
  <2>1. IsTree(idom, N)
    BY <1>1, <1>3, DomTreeIsTree DEF Dominated
  <2> QED
    BY <2>1, <1>3, <1>4 DEF IsTree
<1>6. Dominated'
  BY <1>1, <1>2 DEF Dominated
<1>7. /\ rs'[idom[w]] = rs[idom[w]] + rs[w]
      /\ \A d \in 0..(N - 1) : d # idom[w] => rs'[d] = rs[d]
  BY <1>1, <1>4, <1>5
<1>8. \A d \in 0..(N - 1) : rs'[d] = Cardinality(Bytes(Size, Gathered(idom, N, w - 1, d)))
  <2> TAKE d \in 0..(N - 1)
  <2>1. \A e \in 0..(N - 1) : rs[e] = Cardinality(Bytes(Size, Gathered(idom, N, w, e)))
    BY <1>1, <1>3 DEF RetainOk
  <2>2. CASE d # idom[w]
    <3>1. Gathered(idom, N, w - 1, d) = Gathered(idom, N, w, d)
      BY <2>2, <1>4, <1>5, GatheredStep
    <3> QED
      BY <3>1, <2>1, <2>2, <1>7
  <2>3. CASE d = idom[w]
    <3> DEFINE own == Gathered(idom, N, w, d)
               more == Gathered(idom, N, w, w)
    <3>1. Gathered(idom, N, w - 1, d) = own \cup more /\ own \cap more = {}
      BY <2>3, <1>4, <1>5, GatheredStep
    <3>2. own \in SUBSET (0..(N - 1)) /\ more \in SUBSET (0..(N - 1)) /\ IsFiniteSet(0..(N - 1))
      <4>1. IsFiniteSet(0..(N - 1))
        BY <1>3, FS_Interval
      <4> QED
        BY <4>1 DEF Gathered
    <3>3. Size \in [0..(N - 1) -> Nat]
      BY <1>1, SizeType
    <3> HIDE DEF own, more
    <3>4. Cardinality(Bytes(Size, own \cup more)) =
             Cardinality(Bytes(Size, own)) + Cardinality(Bytes(Size, more))
      <4>1. PICK V : V = 0..(N - 1)
        OBVIOUS
      <4>2. /\ IsFiniteSet(V) /\ Size \in [V -> Nat] /\ own \in SUBSET V /\ more \in SUBSET V
            /\ own \cap more = {}
        BY <4>1, <3>1, <3>2, <3>3
      <4> QED
        BY <4>2, BytesAdd
    <3>5. rs[d] = Cardinality(Bytes(Size, own)) /\ rs[w] = Cardinality(Bytes(Size, more))
      BY <2>1, <1>4 DEF own, more
    <3> QED
      BY <3>1, <3>4, <3>5, <2>3, <1>7
  <2> QED
    BY <2>2, <2>3
<1>9. rs' \in [Found -> Nat]
  <2>1. rs[idom[w]] + rs[w] \in Nat
    <3>1. rs[idom[w]] \in Nat /\ rs[w] \in Nat
      BY <1>4, <1>5
    <3> QED
      BY <3>1
  <2> QED
    BY <2>1, <1>1, <1>3, <1>4
<1>10. RetainOk'
  BY <1>1, <1>2, <1>3, <1>4, <1>8, <1>9 DEF RetainOk
<1>11. FoundIsReached'
  BY <1>1, ReachedStays DEF Retain, Later
<1> QED
  BY <1>1, <1>2, <1>6, <1>10, <1>11 DEF TreeInv, ToGraph, WithGraph

LEMMA EndRetainedInv == ASSUME TreeInv, EndRetained, UNCHANGED table PROVE TreeInv'
<1>1. /\ phase = "retained" /\ phase' = "done" /\ w = 0 /\ Searched /\ Dominated /\ RetainOk
      /\ UNCHANGED <<w, vertex, parent, preds, shallow, semi, idom, rs>>
  BY DEF EndRetained, TreeInv, linkVars
<1>2. Found' = Found /\ N' = N /\ Searched' /\ Size' = Size
  BY <1>1, SearchedStays DEF SearchKept, Size
<1>3. Dominated' /\ RetainOk'
  BY <1>1, <1>2 DEF Dominated, RetainOk
<1> QED
  BY <1>1, <1>2, <1>3 DEF TreeInv, FoundIsReached, ToGraph, WithGraph

LEMMA TreeNextInv == ASSUME TreeInv, TreeNext PROVE TreeInv'
<1>1. UNCHANGED table
  BY DEF TreeNext
<1> QED
  BY <1>1, StartSearchInv, DescendInv, RetreatInv, EndSearchInv, LinkStepInv, FinishInv, EndFinishInv,
     RetainInv, EndRetainedInv DEF TreeNext

\* Once the graph is built nothing else changes what the invariant is about.
LEMMA TreeStays ==
    ASSUME TreeInv, UNCHANGED <<phase, searchVars, vertex, preds>>, UNCHANGED table
    PROVE  TreeInv'
<1>1. /\ UNCHANGED <<phase, adj, shallow, stack, parent, w, least, todo, trail, semi, best, ancestor,
                     idom, bucket, rs, vertex, preds, table>>
  BY DEF searchVars, linkVars
<1>2. Found' = Found /\ N' = N /\ Lo' = Lo /\ Nodes' = Nodes /\ Size' = Size
  BY <1>1 DEF Found, N, Lo, Nodes, Size
<1>3. GraphOk => GraphOk'
  BY <1>1, <1>2 DEF GraphOk
<1>4. SearchOk => SearchOk'
  BY <1>1, <1>2 DEF SearchOk, Numbered
<1>5. Searched => Searched'
  BY <1>1, <1>2 DEF Searched, Numbered
<1>6. LinkOk => LinkOk'
  BY <1>1, <1>2 DEF LinkOk, LinkTypes
<1>7. FinishOk => FinishOk'
  BY <1>1, <1>2 DEF FinishOk
<1>8. Dominated /\ RetainOk => Dominated' /\ RetainOk'
  BY <1>1, <1>2 DEF Dominated, RetainOk
<1>9. FoundIsReached => FoundIsReached'
  <2>1. Reached' = Reached /\ Range(vertex)' = Range(vertex)
    BY <1>1 DEF Reached, Range
  <2> QED
    BY <2>1, <1>1, <1>2 DEF FoundIsReached
<1> QED
  BY <1>1, <1>3, <1>4, <1>5, <1>6, <1>7, <1>8, <1>9 DEF TreeInv

-----------------------------------------------------------------------------
(* What the dominators are                                                  *)

LEMMA WithoutIsNotNeeding ==
    ASSUME Searched, NEW d \in Found, NEW v \in Found \ {d}
    PROVE  v \notin Without(d) <=> Needs(preds, N, d, v)
<1>1. Found = 0..(N - 1)
  BY DEF Searched, Numbered
<1>2. \A S : S \in SUBSET (Found \ {d}) /\ ClosedWithout(d, S) <=> StaysIn(preds, N, d, S)
  BY <1>1 DEF ClosedWithout, StaysIn
<1> QED
  BY <1>2 DEF Without, Needs

LEMMA TreeIsCorrect == TreeInv => DominatorsCorrect
<1> SUFFICES ASSUME Searched, Dominated, NEW v \in Found \ {0}
             PROVE  /\ idom[v] \in Found \ {v} /\ v \notin Without(idom[v])
                    /\ \A d \in Found \ {v} : v \notin Without(d) => idom[v] \notin Without(d)
  <2> SUFFICES ASSUME TreeInv, phase \in {"retained", "done"}, NEW v \in Found \ {0},
                      NEW left, left = [d \in Found |-> Without(d)]
               PROVE  /\ idom[v] \in Found \ {v} /\ v \notin left[idom[v]]
                      /\ \A d \in Found \ {v} : v \notin left[d] => idom[v] \notin left[d]
    BY DEF DominatorsCorrect
  <2>1. Searched /\ Dominated
    BY DEF TreeInv
  <2> QED
    BY <2>1
<1>1. N \in Nat \ {0} /\ Found = 0..(N - 1) /\ DepthFirst(parent, preds, N)
  BY DEF Searched, Numbered
<1>2. v \in 1..(N - 1)
  BY <1>1
<1>3. SemiOk(parent, preds, N, semi) /\ IsDom(parent, preds, N, semi, idom[v], v)
  BY <1>2 DEF Dominated, DomTree
<1>4. idom[v] \in Found \ {v}
  BY <1>1, <1>2, <1>3 DEF IsDom
<1>5. /\ Needs(preds, N, idom[v], v)
      /\ \A d \in Found \ {v} : Needs(preds, N, d, v) => Needs(preds, N, d, idom[v])
  BY <1>1, <1>2, <1>3, DomNeeded
<1>6. v \notin Without(idom[v])
  BY <1>4, <1>5, WithoutIsNotNeeding
<1>7. ASSUME NEW d \in Found \ {v}, v \notin Without(d) PROVE idom[v] \notin Without(d)
  <2>1. CASE idom[v] = d
    BY <2>1 DEF Without
  <2>2. CASE idom[v] # d
    <3>1. Needs(preds, N, d, v)
      BY <1>7, WithoutIsNotNeeding
    <3>2. Needs(preds, N, d, idom[v])
      BY <3>1, <1>5
    <3> QED
      BY <3>2, <2>2, <1>4, WithoutIsNotNeeding
  <2> QED
    BY <2>1, <2>2
<1> QED
  BY <1>4, <1>6, <1>7

LEMMA TreeIsFreed == TreeInv => RetainedIsFreed
<1> SUFFICES ASSUME Searched, Dominated, RetainOk, w = 0, NEW d \in Found
             PROVE  rs[d] = Cardinality(BytesOf(Found \ Without(d)))
  BY DEF TreeInv, RetainedIsFreed
<1>1. N \in Nat \ {0} /\ Found = 0..(N - 1) /\ DepthFirst(parent, preds, N)
  BY DEF Searched, Numbered
<1>2. rs[d] = Cardinality(Bytes(Size, Gathered(idom, N, 0, d)))
  BY DEF RetainOk
<1>3. Gathered(idom, N, 0, d) = {v \in 0..(N - 1) : Above(idom, d, v)}
  <2>1. IsTree(idom, N)
    BY <1>1, DomTreeIsTree DEF Dominated
  <2>2. 0 \in 0..d
    BY <1>1
  <2> QED
    BY <2>1, <2>2, <1>1, GatheredAll
<1>4. \A v \in 0..(N - 1) : Needs(preds, N, d, v) <=> Above(idom, d, v)
  BY <1>1, NeedsIsAbove DEF Dominated
<1>5. \A v \in Found : v \notin Without(d) <=> Above(idom, d, v)
  <2> TAKE v \in Found
  <2>1. CASE v = d
    <3>1. d \in DOMAIN idom
      BY <1>1 DEF Dominated, DomTree
    <3>2. Above(idom, d, d)
      BY <3>1, AboveSelf
    <3> QED
      BY <3>2, <2>1 DEF Without
  <2>2. CASE v # d
    BY <2>2, <1>1, <1>4, WithoutIsNotNeeding
  <2> QED
    BY <2>1, <2>2
<1>6. Gathered(idom, N, 0, d) = Found \ Without(d)
  BY <1>1, <1>3, <1>5
<1>7. BytesOf(Found \ Without(d)) = Bytes(Size, Found \ Without(d))
  <2>1. \A v \in (Found \ Without(d)) \ {0} : Size[v] = shallow[vertex[v]]
    BY DEF Size
  <2> QED
    BY <2>1 DEF BytesOf, Bytes
<1> QED
  BY <1>2, <1>6, <1>7

-----------------------------------------------------------------------------
(***************************************************************************)
(* The whole way of a dump: rows, then the graph between them, then the    *)
(* dominators, then paths.                                                 *)
(***************************************************************************)
\* The rows are sub-records of objects and classes.
ObjectRows == {row \in SubRecords(file) : row.tag \in ObjectTags \cup {"class"}}

TableOk == file \in Files /\ table \in Seq(ObjectRows)

LEMMA InitTableOk == FileInit => TableOk
BY DEF FileInit, TableOk

LEMMA NextTableOk == ASSUME FileInv, TableOk, FileNext PROVE TableOk'
<1>1. file' = file /\ ObjectRows' = ObjectRows
  BY DEF FileNext, ReadObject, ReadClass, ReadRoot, SkipUnknown, EndSegment, EndFile, Resolve, Unreadable,
         ObjectRows
<1>2. ASSUME Reading(ObjectTags \cup {"class"}), table' = Append(table, Record) PROVE TableOk'
  <2>1. /\ phase = "segment" /\ seg <= Len(file.segments) /\ at <= Len(file.segments[seg])
        /\ Record.tag \in ObjectTags \cup {"class"}
    BY <1>2 DEF Reading
  <2>2. seg \in Nat \ {0} /\ at \in Nat \ {0} /\ file \in Files
    BY <2>1 DEF FileInv
  <2>3. /\ seg \in DOMAIN file.segments /\ DOMAIN file.segments[seg] = 1..Len(file.segments[seg])
        /\ Len(file.segments[seg]) \in Nat
    BY <2>1, <2>2, ThisSegment
  <2>4. at \in DOMAIN file.segments[seg]
    BY <2>1, <2>2, <2>3
  <2>5. Record \in SubRecords(file)
    BY <2>2, <2>3, <2>4, SegmentsAreSeqs DEF Record
  <2>6. Record \in ObjectRows
    BY <2>1, <2>5 DEF ObjectRows
  <2> QED
    BY <1>1, <1>2, <2>6 DEF TableOk
<1>3. ASSUME table' = table PROVE TableOk'
  BY <1>1, <1>3 DEF TableOk
<1>4. CASE ReadObject
  BY <1>2, <1>3, <1>4 DEF ReadObject, Reading, Unreadable
<1>5. CASE ReadClass
  BY <1>2, <1>3, <1>5 DEF ReadClass, Reading, Unreadable
<1>6. CASE ReadRoot
  BY <1>3, <1>6 DEF ReadRoot, Unreadable
<1>7. CASE EndSegment
  <2>1. table' = table \/ (table # <<>> /\ table' = Front(table))
    BY <1>7 DEF EndSegment, DropIncomplete
  <2>2. CASE table # <<>> /\ table' = Front(table)
    BY <2>2, <1>1, FrontOf DEF TableOk
  <2> QED
    BY <2>1, <2>2, <1>3
<1>8. CASE SkipUnknown \/ EndFile \/ Resolve
  BY <1>3, <1>8 DEF SkipUnknown, EndFile, Resolve
<1> QED
  BY <1>4, <1>5, <1>6, <1>7, <1>8 DEF FileNext

\* Ids lead to rows.
LEMMA RowKept ==
    ASSUME Len(table) \in Nat, NEW rows \in SUBSET Nodes PROVE LastRow(rows) \in Nodes \cup {0}
<1>1. CASE rows = {}
  BY <1>1 DEF LastRow
<1>2. CASE rows # {}
  <2>1. rows \in SUBSET (0..Len(table))
    BY DEF Nodes
  <2>2. \E x \in rows : \A k \in rows : k <= x
    BY <2>1, <1>2, GreatestOf
  <2>3. LastRow(rows) \in rows
    BY <2>2, <1>2 DEF LastRow
  <2> QED
    BY <2>3
<1> QED
  BY <1>1, <1>2

LEMMA RefsLead ==
    ASSUME Len(table) \in Nat, NEW row, NEW i \in DOMAIN RefsOf(row)
    PROVE  RefsOf(row)[i] \in Nodes \cup {0}
<1>1. \A id : IndexOf(id) \in Nodes \cup {0}
  <2> TAKE id
  <2>1. {j \in Nodes : table[j].id = id} \in SUBSET Nodes
    OBVIOUS
  <2> QED
    BY <2>1, RowKept DEF IndexOf
<1>2. \A cid : ClassNode(cid) \in Nodes \cup {0}
  BY <1>1 DEF ClassNode
<1>3. \A j \in DOMAIN row.refs : NodesNamed(row, row.refs)[j] \in Nodes \cup {0}
  BY <1>1 DEF NodesNamed
<1>4. DOMAIN NodesNamed(row, row.refs) = DOMAIN row.refs
  BY DEF NodesNamed
<1>5. CASE row.tag \in {"instance", "objarray"}
  BY <1>2, <1>3, <1>4, <1>5 DEF RefsOf
<1>6. CASE row.tag = "class"
  BY <1>1, <1>3, <1>4, <1>6 DEF RefsOf
<1>7. CASE row.tag \notin {"instance", "objarray", "class"}
  <2>1. RefsOf(row) = <<>>
    BY <1>7 DEF RefsOf
  <2> QED
    BY <2>1
<1> QED
  BY <1>5, <1>6, <1>7

\* Sizes are numbers.
LEMMA CountedByClass ==
    ASSUME NEW D \in SUBSET (1..MaxDepth), NEW size \in [1..MaxDepth -> Nat]
    PROVE  Cardinality(UNION {{i} \X (1..size[i]) : i \in D}) \in Nat
<1>1. IsFiniteSet(1..MaxDepth)
  BY HeapFileAssumption, FS_Interval
<1>2. D \ {0} = D
  OBVIOUS
<1>3. IsFiniteSet(Bytes(size, D))
  BY <1>1, BytesFinite
<1>4. Bytes(size, D) = UNION {{i} \X (1..size[i]) : i \in D}
  BY <1>2 DEF Bytes
<1> QED
  BY <1>3, <1>4, FS_CardinalityType

LEMMA ClassesAreRows ==
    ASSUME TableOk, NEW cid
    PROVE  /\ DOMAIN Ancestry(cid) \in SUBSET (1..MaxDepth)
           /\ \A i \in DOMAIN Ancestry(cid) :
                 /\ Ancestry(cid)[i].prim \in Nat
                 /\ Len(Ancestry(cid)[i].fields) \in Nat
                 /\ DOMAIN Ancestry(cid)[i].fields = 1..Len(Ancestry(cid)[i].fields)
<1>1. \A row \in ObjectRows :
         /\ row.prim \in Nat /\ Len(row.fields) \in Nat /\ DOMAIN row.fields = 1..Len(row.fields)
         /\ Len(row.refs) \in Nat
  <2> TAKE row \in ObjectRows
  <2>1. row.prim \in Nat /\ row.fields \in Seq(ToSet(row.fields)) /\ row.refs \in Seq(ToSet(row.refs))
    BY HeapFileAssumption DEF ObjectRows, TableOk
  <2> QED
    BY <2>1, LenProperties
<1>2. \A v \in Nodes : table[v] \in ObjectRows
  BY DEF TableOk, Nodes
<1>3. \E rank : Ancestry(cid) = [n \in {m \in 1..MaxDepth : rank[m] \in Nodes} |-> table[rank[n]]]
  <2> DEFINE up[n \in 1..MaxDepth] ==
                ClassOfId(IF n = 1 THEN cid ELSE IF up[n - 1] = 0 THEN 0 ELSE table[up[n - 1]].super)
  <2>1. Ancestry(cid) = [n \in {m \in 1..MaxDepth : up[m] \in Nodes} |-> table[up[n]]]
    BY Zenon DEF Ancestry
  <2> HIDE DEF up
  <2> QED
    BY <2>1
<1> QED
  BY <1>1, <1>2, <1>3

LEMMA FieldsCounted == ASSUME TableOk, NEW cid PROVE FieldCount(cid) \in Nat /\ PrimBytes(cid) \in Nat
<1> DEFINE up == Ancestry(cid)
           D == DOMAIN up
<1>1. /\ D \in SUBSET (1..MaxDepth)
      /\ \A i \in D : /\ up[i].prim \in Nat /\ Len(up[i].fields) \in Nat
                      /\ DOMAIN up[i].fields = 1..Len(up[i].fields)
  BY ClassesAreRows
<1> DEFINE counts == [i \in 1..MaxDepth |-> IF i \in D THEN Len(up[i].fields) ELSE 0]
           prims == [i \in 1..MaxDepth |-> IF i \in D THEN up[i].prim ELSE 0]
<1>2. counts \in [1..MaxDepth -> Nat] /\ prims \in [1..MaxDepth -> Nat]
  BY <1>1
<1>3. \A i \in D : 1..counts[i] = DOMAIN up[i].fields /\ 1..prims[i] = 1..up[i].prim
  BY <1>1
<1> HIDE DEF counts, prims, D
<1>4. /\ Cardinality(UNION {{i} \X (1..counts[i]) : i \in D}) \in Nat
      /\ Cardinality(UNION {{i} \X (1..prims[i]) : i \in D}) \in Nat
  BY <1>1, <1>2, CountedByClass
<1>5. /\ UNION {{i} \X (1..counts[i]) : i \in D} = UNION {{i} \X DOMAIN up[i].fields : i \in D}
      /\ UNION {{i} \X (1..prims[i]) : i \in D} = UNION {{i} \X (1..up[i].prim) : i \in D}
  BY <1>3
<1> QED
  BY <1>4, <1>5 DEF FieldCount, PrimBytes, D

LEMMA AlignedIsNat == ASSUME NEW n \in Nat PROVE Align8(n) \in Nat
BY DEF Align8

LEMMA RowsHaveSizes ==
    ASSUME TableOk, NEW mode \in DOMAIN Modes, NEW v \in Nodes
    PROVE  SizeUnder(table[v], mode) \in Nat
<1> DEFINE row == table[v]
           lay == Modes[mode]
<1>1. lay.hdr \in Nat /\ lay.ref \in Nat /\ lay.arr \in Nat
  BY DEF Modes
<1>2. row \in ObjectRows
  BY DEF TableOk, Nodes
<1>3. row.prim \in Nat /\ Len(row.refs) \in Nat /\ row.tag \in ObjectTags \cup {"class"}
  <2>1. row.prim \in Nat /\ row.refs \in Seq(ToSet(row.refs)) /\ row.tag \in ObjectTags \cup {"class"}
    BY <1>2, HeapFileAssumption DEF ObjectRows, TableOk
  <2> QED
    BY <2>1, LenProperties
<1>4. FieldCount(row.cls) \in Nat /\ PrimBytes(row.cls) \in Nat
  BY FieldsCounted
<1> HIDE DEF row, lay
<1>5. /\ lay.hdr + FieldCount(row.cls) * lay.ref + PrimBytes(row.cls) \in Nat
      /\ lay.arr + Len(row.refs) * lay.ref \in Nat /\ lay.arr + row.prim \in Nat
      /\ lay.hdr + Len(row.refs) * lay.ref \in Nat
  <2>1. \A a, b, c, d \in Nat : a + b * c + d \in Nat /\ a + b * c \in Nat /\ a + d \in Nat
    OBVIOUS
  <2> QED
    BY <2>1, <1>1, <1>3, <1>4
<1>6. SizeUnder(row, mode) \in Nat
  <2>1. CASE row.tag = "instance"
    BY <2>1, <1>5, AlignedIsNat DEF SizeUnder, lay
  <2>2. CASE row.tag = "objarray"
    BY <2>2, <1>5, AlignedIsNat DEF SizeUnder, lay
  <2>3. CASE row.tag = "primarray"
    BY <2>3, <1>5, AlignedIsNat DEF SizeUnder, lay
  <2>4. CASE row.tag = "class"
    BY <2>4, <1>5, AlignedIsNat DEF SizeUnder, lay
  <2> QED
    BY <2>1, <2>2, <2>3, <2>4, <1>3 DEF ObjectTags
<1> QED
  BY <1>6 DEF row

\* BuildGraph: references lead to rows, rows have sizes.
LEMMA BuildGraphInv ==
    ASSUME TreeInv, TableOk, layout \in DOMAIN Modes, BuildGraph PROVE TreeInv'
<1>1. /\ phase = "graph" /\ phase' = "built" /\ table' = table /\ trail' = trail /\ trail = <<>>
      /\ adj' = [v \in 0..Len(table) |-> IF v = 0 THEN [i \in RootNodes |-> i]
                                         ELSE Dropped(RefsOf(table[v]))]
      /\ shallow' = [v \in Nodes |-> SizeUnder(table[v], layout)]
  BY DEF BuildGraph, TreeInv, ToGraph
<1>2. Len(table) \in Nat
  BY DEF TableOk
<1>3. RootNodes \subseteq Nodes
  <2>1. \A id : IndexOf(id) \in Nodes \cup {0}
    <3> TAKE id
    <3>1. {j \in Nodes : table[j].id = id} \in SUBSET Nodes
      OBVIOUS
    <3> QED
      BY <3>1, <1>2, RowKept DEF IndexOf
  <2> QED
    BY <2>1 DEF RootNodes
<1>4. \A v \in Nodes : Range(Dropped(RefsOf(table[v]))) \subseteq Nodes
  <2> TAKE v \in Nodes
  <2> DEFINE refs == RefsOf(table[v])
  <2>1. \A i \in DOMAIN refs : refs[i] \in Nodes \cup {0}
    BY <1>2, RefsLead
  <2> HIDE DEF refs
  <2>2. Range(Dropped(refs)) \subseteq Nodes
    BY <2>1 DEF Dropped, Restrict, Range
  <2> QED
    BY <2>2 DEF refs
<1>5. \A v \in 0..Len(table) : Range(adj'[v]) \subseteq Nodes
  <2> TAKE v \in 0..Len(table)
  <2>1. CASE v = 0
    <3>1. adj'[v] = [i \in RootNodes |-> i]
      BY <1>1, <2>1
    <3> QED
      BY <3>1, <1>3 DEF Range
  <2>2. CASE v # 0
    <3>1. v \in Nodes /\ adj'[v] = Dropped(RefsOf(table[v]))
      BY <1>1, <1>2, <2>2 DEF Nodes
    <3> QED
      BY <3>1, <1>4
  <2> QED
    BY <2>1, <2>2
<1>6. shallow' \in [Nodes -> Nat]
  BY <1>1, RowsHaveSizes
<1>7. GraphOk'
  <2>1. DOMAIN adj' = 0..Len(table') /\ Nodes' = Nodes
    BY <1>1 DEF Nodes
  <2> QED
    BY <2>1, <1>1, <1>2, <1>5, <1>6 DEF GraphOk
<1> QED
  BY <1>1, <1>7 DEF TreeInv, FoundIsReached, ToGraph, WithGraph

-----------------------------------------------------------------------------
HeapInv ==
    /\ TableOk /\ TreeInv
    /\ phase \in ToGraph => FileInv
    /\ phase = "graph" => layout \in DOMAIN Modes
    /\ phase \in WithGraph => RowsOf(table, Dumped)
    /\ IF phase = "done" THEN PathsInv ELSE PathsIdle

LEMMA InitHeapInv == HeapInit => HeapInv
<1> SUFFICES ASSUME HeapInit PROVE HeapInv
  OBVIOUS
<1>1. FileInit /\ TreeInit /\ PathsIdle /\ phase = "segment"
  BY DEF HeapInit, FileInit
<1>2. TableOk /\ FileInv
  BY <1>1, InitTableOk, InitFileInv
<1>3. TreeInv
  BY <1>1 DEF TreeInit, TreeInv, FoundIsReached, ToGraph, WithGraph
<1> QED
  BY <1>1, <1>2, <1>3 DEF HeapInv, ToGraph, WithGraph

\* While a dump is read there are no paths to look for.
LEMMA NoPathsYet == ASSUME PathsIdle, phase # "done" PROVE ~PathsNext
BY DEF PathsIdle, PathsNext, AskPath, NextLayer, EndLook, Trace, LookAt

LEMMA NextHeapInv == HeapInv /\ [HeapNext]_heapVars => HeapInv'
<1> SUFFICES ASSUME HeapInv, [HeapNext]_heapVars PROVE HeapInv'
  OBVIOUS
<1>1. CASE FileNext /\ UNCHANGED <<graphVars, pathVars>>
  <2>1. phase \in ToGraph \ {"graph"} /\ phase' \in ToGraph
    BY <1>1 DEF FileNext, ReadObject, ReadClass, ReadRoot, SkipUnknown, EndSegment, EndFile, Resolve,
                Reading, Unreadable, ToGraph
  <2>2. FileInv' /\ TableOk'
    BY <1>1, <2>1, NextFileInv, NextTableOk DEF HeapInv, ToGraph
  <2>3. TreeInv'
    <3>1. trail' = trail /\ trail = <<>>
      BY <1>1, <2>1 DEF graphVars, searchVars, HeapInv, TreeInv, ToGraph, WithGraph
    <3> QED
      BY <2>1, <3>1 DEF TreeInv, FoundIsReached, ToGraph, WithGraph
  <2>4. phase' = "graph" => layout' \in DOMAIN Modes'
    <3>1. ASSUME phase' = "graph" PROVE Resolve
      BY <1>1, <2>1, <3>1 DEF FileNext, ReadObject, ReadClass, ReadRoot, SkipUnknown, EndSegment, EndFile,
                Reading, Unreadable, ToGraph
    <3>2. DetectLayout \in {"bits32", "compressed", "uncompressed"}
      BY DEF DetectLayout
    <3>3. DOMAIN Modes = {"bits32", "compressed", "uncompressed"}
      BY DEF Modes
    <3> QED
      BY <3>1, <3>2, <3>3 DEF Resolve, Modes
  <2>5. PathsIdle'
    BY <1>1, <2>1 DEF HeapInv, ToGraph, PathsIdle, pathVars
  <2> QED
    BY <2>1, <2>2, <2>3, <2>4, <2>5 DEF HeapInv, ToGraph, WithGraph
<1>2. CASE BuildGraph
  <2>1. /\ phase = "graph" /\ phase' = "built" /\ UNCHANGED <<file, table>> /\ UNCHANGED pathVars
        /\ UNCHANGED linkVars
    BY <1>2 DEF BuildGraph
  <2>2. TreeInv'
    BY <1>2, <2>1, BuildGraphInv DEF HeapInv
  <2>3. RowsOf(table, Dumped)'
    BY <2>1, SameRows DEF HeapInv, FileInv, ToGraph
  <2>4. TableOk'
    BY <2>1 DEF HeapInv, TableOk, ObjectRows
  <2>5. PathsIdle'
    BY <2>1 DEF HeapInv, PathsIdle, pathVars
  <2> QED
    BY <2>1, <2>2, <2>3, <2>4, <2>5 DEF HeapInv, ToGraph, WithGraph
<1>3. CASE TreeNext
  <2>1. /\ UNCHANGED <<file, table, pathVars>> /\ phase \in WithGraph \ {"done"} /\ phase' \in WithGraph
        /\ phase' = "done" => EndRetained
    <3>1. UNCHANGED <<file, table, pathVars>>
      BY <1>3 DEF TreeNext
    <3>2. ASSUME LinkStep PROVE phase \in {"semi", "settle"} /\ phase' \in {"semi", "settle", "finish"}
      BY <3>2 DEF LinkStep, LookBack, LookBelow, LookAbove, Climb, Unwind, Link, SettleNext, Settle, NextVertex
    <3>3. ASSUME ~LinkStep
          PROVE  /\ phase \in WithGraph \ {"done"} /\ phase' \in WithGraph
                 /\ phase' = "done" => EndRetained
      BY <1>3, <3>3 DEF TreeNext, StartSearch, Descend, Retreat, EndSearch, Finish, EndFinish, Retain,
                        EndRetained, WithGraph
    <3> QED
      BY <3>1, <3>2, <3>3 DEF WithGraph
  <2>2. TreeInv'
    BY <1>3, TreeNextInv DEF HeapInv
  <2>3. RowsOf(table, Dumped)' /\ TableOk'
    BY <2>1, SameRows DEF HeapInv, TableOk, ObjectRows
  <2>4. PathsIdle'
    BY <2>1 DEF HeapInv, PathsIdle, pathVars
  <2>5. phase' = "done" => PathsInv'
    <3> SUFFICES ASSUME phase' = "done" PROVE PathsInv'
      OBVIOUS
    <3>1. Searched'
      BY <2>2 DEF TreeInv
    <3>2. IsFiniteSet(Found') /\ preds' \in [Found' -> SUBSET Found']
      <4>1. N' \in Nat \ {0} /\ Found' = 0..(N' - 1) /\ DepthFirst(parent', preds', N')
        BY <3>1 DEF Searched, Numbered
      <4>2. 0 \in Int /\ N' - 1 \in Int
        BY <4>1
      <4>3. IsFiniteSet(0..(N' - 1))
        BY <4>2, FS_Interval
      <4>4. preds' \in [0..(N' - 1) -> SUBSET (0..(N' - 1))]
        BY <4>1 DEF DepthFirst
      <4> QED
        BY <4>1, <4>3, <4>4
    <3>3. hunt' = "idle" /\ strict' = FALSE
      BY <2>4 DEF PathsIdle
    <3>4. PathTypes' /\ NoStrictPath'
      BY <3>2, <3>3 DEF PathTypes, NoStrictPath
    <3> QED
      BY <3>3, <3>4 DEF PathsInv
  <2> QED
    BY <2>1, <2>2, <2>3, <2>4, <2>5 DEF HeapInv, ToGraph, WithGraph
<1>4. CASE (PathsNext /\ UNCHANGED searchVars) \/ UNCHANGED heapVars
  <2>1. /\ [PathsNext]_pathsAll /\ UNCHANGED <<fileVars, vertex, preds>> /\ UNCHANGED searchVars
        /\ UNCHANGED <<phase, file, table, layout, at, seg, roots>>
    BY <1>4 DEF heapVars, graphVars, pathsAll, PathsNext, fileVars
  <2>2. TreeInv'
    BY <2>1, TreeStays DEF HeapInv
  <2>3. TableOk' /\ (RowsOf(table, Dumped) => RowsOf(table, Dumped)')
    BY <2>1, SameRows DEF HeapInv, TableOk, ObjectRows
  <2>4. FileInv => FileInv'
    BY <2>1, NextFileInv
  <2>5. CASE phase = "done"
    <3>1. PathsInv'
      BY <2>1, <2>5, NextPathsInv DEF HeapInv
    <3> QED
      BY <2>1, <2>2, <2>3, <2>5, <3>1 DEF HeapInv, ToGraph, WithGraph
  <2>6. CASE phase # "done"
    <3>1. UNCHANGED pathVars
      BY <1>4, <2>6, NoPathsYet DEF heapVars, HeapInv
    <3>2. PathsIdle'
      BY <3>1, <2>6 DEF HeapInv, PathsIdle, pathVars
    <3> QED
      BY <2>1, <2>2, <2>3, <2>4, <2>6, <3>2 DEF HeapInv, Modes
  <2> QED
    BY <2>5, <2>6
<1> QED
  BY <1>1, <1>2, <1>3, <1>4 DEF HeapNext

LEMMA HeapInvariant == HeapSpec => []HeapInv
BY InitHeapInv, NextHeapInv, PTL DEF HeapSpec

\* The search over references (hprof_report.py:697-764) gives a number to every row
\* one comes to from a GC root, to no other, and to none of them two: nothing is
\* counted twice or left out, whatever cycles and dangling references a dump has.
THEOREM EveryReachedOnce == HeapSpec => []FoundIsReached
<1>1. HeapInv => FoundIsReached
  BY DEF HeapInv, TreeInv
<1> QED
  BY <1>1, HeapInvariant, PTL

\* Lengauer and Tarjan's algorithm as compute_dominators has it, with the paths of its
\* forest compressed in place and its two passes (hprof_report.py:766-826), is right:
\* for any dump, a vertex is in the dominator tree below just those without which
\* it is not reached.
THEOREM DominatorsAreRight == HeapSpec => []DominatorsCorrect
<1>1. HeapInv => DominatorsCorrect
  BY TreeIsCorrect DEF HeapInv
<1> QED
  BY <1>1, HeapInvariant, PTL

\* The retained size that the report gives for an object (hprof_report.py:828-849) is the
\* sum of the shallow sizes of all that would be freed with it, for any dump.
THEOREM FreedIsRetained == HeapSpec => []RetainedIsFreed
<1>1. HeapInv => RetainedIsFreed
  BY TreeIsFreed DEF HeapInv
<1> QED
  BY <1>1, HeapInvariant, PTL

\* EveryObjectOnce for the whole report: what comes after the reading of a dump
\* (build_graph, compute_dominators, path_to_root) leaves its table as it was.
THEOREM ObjectsAllTheWay == HeapSpec => []CompleteObjectsOnly
<1>1. HeapInv => CompleteObjectsOnly
  BY DEF HeapInv, TreeInv, FileInv, CompleteObjectsOnly, ToGraph, WithGraph
<1> QED
  BY <1>1, HeapInvariant, PTL

\* PathsAreRight for the graph that compute_dominators leaves: every path that the report
\* of a dump shows is a shortest one among the references of that dump.
THEOREM ReportedPathsAreRight == HeapSpec => []PathsAreShortest
<1>1. HeapInv => PathsAreShortest
  BY ShownIsShortest DEF HeapInv, PathsIdle, PathsAreShortest
<1> QED
  BY <1>1, HeapInvariant, PTL
=============================================================================
