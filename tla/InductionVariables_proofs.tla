----------------------- MODULE InductionVariables_proofs -----------------------
(***************************************************************************)
(* InductionVariables: every node is counted exactly, and the nodes        *)
(* implement the chains of InductionChains.  Whatever goes from parent to  *)
(* parent (unreferencing, the search for the place to cut, a read) is      *)
(* defined by recursion over the nodes, so the proofs need that parents    *)
(* never form a circle, which the invariant says in Tree.                  *)
(***************************************************************************)
EXTENDS InductionVariables, FiniteSetTheorems, SequenceTheorems, TLAPS

\* Of sets that are subsets of a finite one, some have no other among their subsets.
LEMMA SmallestSet ==
    ASSUME NEW D, IsFiniteSet(D), NEW F, F \subseteq SUBSET D, F # {}
    PROVE  \E T \in F : \A U \in F : U \subseteq T => U = T
<1>1. IsWellFoundedOn(StrictSubsetOrdering(D), FiniteSubsetsOf(D))
  BY FS_StrictSubsetOrderingWellFounded
<1>2. \A U \in SUBSET D : IsFiniteSet(U)
  BY FS_Subset
<1>3. F \subseteq FiniteSubsetsOf(D)
  BY <1>2 DEF FiniteSubsetsOf
<1>4. PICK T \in F : \A U \in F : ~ (<<U, T>> \in StrictSubsetOrdering(D))
  BY <1>1, <1>3, WFMin
<1>5. ASSUME NEW U \in F, U \subseteq T, U # T PROVE FALSE
  BY <1>4, <1>5 DEF StrictSubsetOrdering
<1> QED
  BY <1>5

----------------------------------------------------------------------------
(***************************************************************************)
(* The nodes form trees: every set of nodes has one whose parent is not in *)
(* it, so that nothing that goes from parent to parent can go in a circle. *)
(***************************************************************************)
IsHeap(h) == DOMAIN h \subseteq Nodes /\ h \in [DOMAIN h -> IVENode]

NoCircle(h) == \A S \in SUBSET DOMAIN h : S # {} => \E n \in S : h[n].parent \notin S

Tree(h) ==
    /\ IsHeap(h)
    /\ \A n \in DOMAIN h : h[n].parent \in DOMAIN h \cup {NULL}
    /\ NoCircle(h)

LEMMA NodesFact == IsFiniteSet(Nodes) /\ NULL \notin Nodes /\ Nodes \subseteq Nat
<1>1. NodeBound \in Int /\ 1 \in Int
  BY VariablesAssumption
<1> QED
  BY <1>1, FS_Interval DEF Nodes, NULL

LEMMA HeapFact ==
    ASSUME NEW h, IsHeap(h)
    PROVE  /\ IsFiniteSet(DOMAIN h) /\ NULL \notin DOMAIN h
           /\ \A n \in DOMAIN h : /\ n \in Nodes /\ h[n] \in IVENode
                                  /\ h[n].ref_count \in Nat /\ h[n].info \in Infos \cup {Start}
                                  /\ h[n].parent \in Nodes \cup {NULL}
                                  /\ h[n] = [parent |-> h[n].parent,
                                             ref_count |-> h[n].ref_count, info |-> h[n].info]
<1>1. DOMAIN h \subseteq Nodes /\ \A n \in DOMAIN h : h[n] \in IVENode
  BY DEF IsHeap
<1>2. IsFiniteSet(DOMAIN h)
  BY <1>1, NodesFact, FS_Subset
<1> QED
  BY <1>1, <1>2, NodesFact DEF IVENode

(***************************************************************************)
(* The same for any set D: up leads from each of its elements to another   *)
(* one or to the root, and never in a circle.                              *)
(***************************************************************************)
Forest(D, up, root) ==
    /\ IsFiniteSet(D) /\ root \notin D
    /\ up \in [D -> D \cup {root}]
    /\ \A S \in SUBSET D : S # {} => \E n \in S : up[n] \notin S

\* f goes up the forest: v0 at the root, step[n] of the value above at n; it stays in W.
GoesUp(D, up, root, W, v0, step, f) ==
    /\ f = [n \in D \cup {root} |-> f[n]] /\ f[root] = v0
    /\ \A n \in D : f[n] \in W[n] /\ f[n] = step[n][f[up[n]]]

Steps(D, up, root, W, v0, step) ==
    /\ v0 \in W[root]
    /\ \A n \in D : \A v \in W[up[n]] : step[n][v] \in W[n]

(***************************************************************************)
(* There is such a function: of the sets of elements that are left to      *)
(* define it on, the smallest is empty.                                    *)
(***************************************************************************)
LEMMA ForestRecursion ==
    ASSUME NEW D, NEW up, NEW root, Forest(D, up, root),
           NEW W, NEW v0, NEW step, Steps(D, up, root, W, v0, step)
    PROVE  \E f : GoesUp(D, up, root, W, v0, step, f)
<1> DEFINE Up(T, f) == /\ f = [x \in T \cup {root} |-> f[x]] /\ f[root] = v0
                       /\ \A n \in T : /\ up[n] \in T \cup {root} /\ f[n] \in W[n]
                                       /\ f[n] = step[n][f[up[n]]]
           Left == {D \ T : T \in {T \in SUBSET D : \E f : Up(T, f)}}
<1>1. root \notin D /\ IsFiniteSet(D) /\ v0 \in W[root]
  BY DEF Forest, Steps
<1>2. \A L : L \in Left <=> \E T \in SUBSET D : L = D \ T /\ \E f : Up(T, f)
  OBVIOUS
<1>3. Left # {}
  <2>1. Up({}, [x \in {root} |-> v0])
    OBVIOUS
  <2> QED
    BY <1>2, <2>1
<1>4. PICK L \in Left : \A U \in Left : U \subseteq L => U = L
  <2> HIDE DEF Left, Up
  <2>1. Left \subseteq SUBSET D
    BY <1>2
  <2> QED
    BY <1>1, <1>3, <2>1, SmallestSet
<1>5. PICK T \in SUBSET D : L = D \ T /\ \E f : Up(T, f)
  <2> HIDE DEF Left, Up
  <2> QED
    BY <1>2
<1>f. PICK f : Up(T, f)
  BY <1>5
<1>6. ASSUME L # {} PROVE FALSE
  <2>1. PICK n \in L : up[n] \notin L
    BY <1>5, <1>f, <1>6 DEF Forest
  <2>2. n \in D /\ n \notin T /\ n # root /\ up[n] \in T \cup {root} /\ up[n] # n
    BY <1>1, <1>5, <1>f, <2>1 DEF Forest
  <2> DEFINE v == step[n][f[up[n]]]
             g == [x \in (T \cup {n}) \cup {root} |-> IF x = n THEN v ELSE f[x]]
  <2>3. v \in W[n]
    <3>1. f[up[n]] \in W[up[n]]
      BY <1>1, <1>f, <2>2
    <3> QED
      BY <2>2, <3>1 DEF Steps
  <2>4. g = [x \in (T \cup {n}) \cup {root} |-> g[x]] /\ g[root] = v0
    BY <1>5, <1>f, <2>2
  <2>5. g[n] = v /\ \A x \in T \cup {root} : g[x] = f[x]
    BY <2>2, <1>1
  <2> HIDE DEF g
  <2>6. \A m \in T \cup {n} : /\ up[m] \in T \cup {root} /\ g[m] \in W[m]
                              /\ g[m] = step[m][g[up[m]]]
    <3>1. ASSUME NEW m \in T
          PROVE  up[m] \in T \cup {root} /\ g[m] \in W[m] /\ g[m] = step[m][g[up[m]]]
      <4>1. up[m] \in T \cup {root} /\ f[m] \in W[m] /\ f[m] = step[m][f[up[m]]]
        BY <1>f
      <4>2. g[m] = f[m] /\ g[up[m]] = f[up[m]]
        BY <2>5, <4>1
      <4> QED
        BY <4>1, <4>2
    <3>2. g[n] \in W[n] /\ g[n] = step[n][g[up[n]]]
      BY <2>2, <2>3, <2>5
    <3> QED
      BY <2>2, <3>1, <3>2
  <2>7. Up(T \cup {n}, g)
    BY <2>4, <2>6
  <2>8. T \cup {n} \in SUBSET D /\ D \ (T \cup {n}) \subseteq L /\ D \ (T \cup {n}) # L
    BY <1>5, <1>f, <2>2
  <2> HIDE DEF Up
  <2>9. D \ (T \cup {n}) \in Left
    BY <1>2, <2>7, <2>8
  <2> QED
    BY <1>4, <2>8, <2>9
<1>7. T = D
  BY <1>5, <1>f, <1>6
<1> QED
  BY <1>f, <1>7 DEF GoesUp

\* Two functions that go up the forest in the same way are the same.
LEMMA ForestUnique ==
    ASSUME NEW D, NEW up, NEW root, Forest(D, up, root), NEW f, NEW g, f[root] = g[root],
           \A n \in D : f[up[n]] = g[up[n]] => f[n] = g[n]
    PROVE  \A n \in D \cup {root} : f[n] = g[n]
<1> DEFINE S == {n \in D : f[n] # g[n]}
<1>1. ASSUME S # {} PROVE FALSE
  <2>1. PICK n \in S : up[n] \notin S
    BY <1>1 DEF Forest
  <2> QED
    BY <2>1 DEF Forest
<1> QED
  BY <1>1

LEMMA TreeForest ==
    ASSUME NEW h, Tree(h)
    PROVE  Forest(DOMAIN h, [n \in DOMAIN h |-> h[n].parent], NULL)
<1>1. IsFiniteSet(DOMAIN h) /\ NULL \notin DOMAIN h
  BY HeapFact DEF Tree
<1> QED
  BY <1>1 DEF Tree, NoCircle, Forest

\* The same for the nodes of a tree, with values of one set.
Climbs(h, V, v0, step, f) ==
    /\ f \in [DOMAIN h \cup {NULL} -> V] /\ f[NULL] = v0
    /\ \A n \in DOMAIN h : f[n] = step[n][f[h[n].parent]]

LEMMA TreeRecursion ==
    ASSUME NEW h, Tree(h), NEW V, NEW v0 \in V, NEW step, step \in [DOMAIN h -> [V -> V]]
    PROVE  \E f : Climbs(h, V, v0, step, f)
<1> DEFINE D == DOMAIN h
           up == [n \in D |-> h[n].parent]
           W == [n \in D \cup {NULL} |-> V]
<1>1. Forest(D, up, NULL) /\ \A n \in D : up[n] = h[n].parent /\ up[n] \in D \cup {NULL}
  BY TreeForest DEF Tree
<1>2. Steps(D, up, NULL, W, v0, step)
  BY <1>1 DEF Steps
<1>3. W[NULL] = V /\ \A n \in D : W[n] = V
  OBVIOUS
<1> HIDE DEF D, up, W
<1>4. PICK f : GoesUp(D, up, NULL, W, v0, step, f)
  BY <1>1, <1>2, ForestRecursion
<1>5. f \in [D \cup {NULL} -> V]
  <2>1. f = [n \in D \cup {NULL} |-> f[n]] /\ \A n \in D \cup {NULL} : f[n] \in V
    BY <1>3, <1>4 DEF GoesUp
  <2> QED
    BY <2>1
<1>6. f[NULL] = v0 /\ \A n \in D : f[n] = step[n][f[h[n].parent]]
  BY <1>1, <1>4 DEF GoesUp
<1> QED
  BY <1>5, <1>6 DEF Climbs, D

\* Two functions that go up the tree in the same way are the same.
LEMMA TreeUnique ==
    ASSUME NEW h, Tree(h), NEW f, NEW g, f[NULL] = g[NULL],
           \A n \in DOMAIN h : f[h[n].parent] = g[h[n].parent] => f[n] = g[n]
    PROVE  \A n \in DOMAIN h \cup {NULL} : f[n] = g[n]
<1> DEFINE S == {n \in DOMAIN h : f[n] # g[n]}
<1>1. ASSUME S # {} PROVE FALSE
  <2>1. PICK n \in S : h[n].parent \notin S
    BY <1>1 DEF Tree, NoCircle
  <2> QED
    BY <2>1 DEF Tree
<1> QED
  BY <1>1

\* The equation Stays is the solution of, and so for Freed.
LEMMA StaysFact ==
    ASSUME NEW h, Tree(h)
    PROVE  /\ Stays(h)[NULL] = NULL
           /\ \A n \in DOMAIN h :
                 Stays(h)[n] = IF h[n].ref_count > 1 THEN n ELSE Stays(h)[h[n].parent]
           /\ \A n \in DOMAIN h \cup {NULL} : Stays(h)[n] \in DOMAIN h \cup {NULL}
<1> DEFINE V == DOMAIN h \cup {NULL}
           step == [n \in DOMAIN h |-> [v \in V |-> IF h[n].ref_count > 1 THEN n ELSE v]]
           R(g) == g = [n \in DOMAIN h \cup {NULL} |->
                          IF n = NULL \/ h[n].ref_count > 1 THEN n ELSE g[h[n].parent]]
<1>1. NULL \notin DOMAIN h /\ \A n \in DOMAIN h : h[n].parent \in V
  BY HeapFact DEF Tree
<1>2. PICK f \in [V -> V] : f[NULL] = NULL /\ \A n \in DOMAIN h : f[n] = step[n][f[h[n].parent]]
  <2>1. step \in [DOMAIN h -> [V -> V]] /\ NULL \in V
    OBVIOUS
  <2>2. \E f : Climbs(h, V, NULL, step, f)
    <3> HIDE DEF step, V
    <3> QED
      BY <2>1, TreeRecursion
  <2> QED
    BY <2>2 DEF Climbs
<1>3. R(f)
  BY <1>1, <1>2
<1>4. Stays(h) = CHOOSE g : R(g)
  BY DEF Stays
<1>5. R(Stays(h))
  <2> HIDE DEF R
  <2> QED
    BY <1>3, <1>4
<1> DEFINE g == Stays(h)
<1> HIDE DEF g
<1>6. R(g)
  BY <1>5 DEF g
<1>7. g[NULL] = NULL /\ \A n \in DOMAIN h :
          g[n] = IF h[n].ref_count > 1 THEN n ELSE g[h[n].parent]
  BY <1>1, <1>6
<1>8. \A n \in DOMAIN h \cup {NULL} : g[n] = f[n]
  <2>1. \A n \in DOMAIN h : f[n] = IF h[n].ref_count > 1 THEN n ELSE f[h[n].parent]
    BY <1>1, <1>2
  <2> QED
    BY <1>2, <1>7, <2>1, TreeUnique
<1> QED
  BY <1>2, <1>7, <1>8 DEF g

LEMMA FreedFact ==
    ASSUME NEW h, Tree(h)
    PROVE  /\ Freed(h)[NULL] = {}
           /\ \A n \in DOMAIN h :
                 Freed(h)[n] = IF h[n].ref_count > 1 THEN {} ELSE {n} \cup Freed(h)[h[n].parent]
           /\ \A n \in DOMAIN h \cup {NULL} : Freed(h)[n] \subseteq DOMAIN h
<1> DEFINE V == SUBSET DOMAIN h
           step == [n \in DOMAIN h |->
                      [v \in V |-> IF h[n].ref_count > 1 THEN {} ELSE {n} \cup v]]
           R(g) == g = [n \in DOMAIN h \cup {NULL} |->
                          IF n = NULL \/ h[n].ref_count > 1 THEN {} ELSE {n} \cup g[h[n].parent]]
<1>1. NULL \notin DOMAIN h /\ \A n \in DOMAIN h : h[n].parent \in DOMAIN h \cup {NULL}
  BY HeapFact DEF Tree
<1>2. PICK f \in [DOMAIN h \cup {NULL} -> V] :
         f[NULL] = {} /\ \A n \in DOMAIN h : f[n] = step[n][f[h[n].parent]]
  <2>1. \A n \in DOMAIN h : \A v \in V : (IF h[n].ref_count > 1 THEN {} ELSE {n} \cup v) \in V
    OBVIOUS
  <2>2. step \in [DOMAIN h -> [V -> V]] /\ {} \in V
    BY <2>1
  <2>3. \E f : Climbs(h, V, {}, step, f)
    <3> HIDE DEF step, V
    <3> QED
      BY <2>2, TreeRecursion
  <2> QED
    BY <2>3 DEF Climbs
<1>3. \A n \in DOMAIN h : f[n] = IF h[n].ref_count > 1 THEN {} ELSE {n} \cup f[h[n].parent]
  <2> TAKE n \in DOMAIN h
  <2>1. f[h[n].parent] \in V
    BY <1>1, <1>2
  <2> QED
    BY <1>2, <2>1
<1>4. R(f)
  BY <1>1, <1>2, <1>3
<1>5. Freed(h) = CHOOSE g : R(g)
  BY DEF Freed
<1>6. R(Freed(h))
  <2> HIDE DEF R
  <2> QED
    BY <1>4, <1>5
<1> DEFINE g == Freed(h)
<1> HIDE DEF g
<1>7. R(g)
  BY <1>6 DEF g
<1>8. g[NULL] = {} /\ \A n \in DOMAIN h :
          g[n] = IF h[n].ref_count > 1 THEN {} ELSE {n} \cup g[h[n].parent]
  BY <1>1, <1>7
<1>9. \A n \in DOMAIN h \cup {NULL} : g[n] = f[n]
  <2>1. \A n \in DOMAIN h : g[h[n].parent] = f[h[n].parent] => g[n] = f[n]
    BY <1>3, <1>8
  <2>2. g[NULL] = f[NULL]
    BY <1>2, <1>8
  <2> QED
    BY <2>1, <2>2, TreeUnique
<1>10. \A n \in DOMAIN h \cup {NULL} : g[n] \subseteq DOMAIN h
  BY <1>2, <1>9
<1> QED
  BY <1>8, <1>10 DEF g

----------------------------------------------------------------------------
\* A heap without one of its nodes.
Without(h, n) == [m \in DOMAIN h \ {n} |-> h[m]]

\* A node without children can be taken out.
LEMMA TreeWithout ==
    ASSUME NEW h, Tree(h), NEW n \in DOMAIN h, \A m \in DOMAIN h : h[m].parent # n
    PROVE  Tree(Without(h, n))
<1> DEFINE g == Without(h, n)
<1>1. DOMAIN g = DOMAIN h \ {n} /\ \A m \in DOMAIN g : g[m] = h[m]
  BY DEF Without
<1>2. g = [m \in DOMAIN g |-> g[m]]
  BY DEF Without
<1> HIDE DEF g
<1>3. IsHeap(g)
  BY <1>1, <1>2 DEF Tree, IsHeap
<1>4. \A m \in DOMAIN g : g[m].parent \in DOMAIN g \cup {NULL}
  BY <1>1 DEF Tree
<1>5. NoCircle(g)
  BY <1>1 DEF Tree, NoCircle
<1> QED
  BY <1>3, <1>4, <1>5 DEF Tree, g

\* And it makes no difference to what is unreferenced elsewhere.
LEMMA UpWithout ==
    ASSUME NEW h, Tree(h), NEW n \in DOMAIN h, \A m \in DOMAIN h : h[m].parent # n,
           NEW p \in (DOMAIN h \ {n}) \cup {NULL}
    PROVE  Stays(Without(h, n))[p] = Stays(h)[p] /\ Freed(Without(h, n))[p] = Freed(h)[p]
<1> DEFINE g == Without(h, n)
<1>1. DOMAIN g = DOMAIN h \ {n} /\ \A m \in DOMAIN g : g[m] = h[m]
  BY DEF Without
<1>2. Tree(g)
  BY TreeWithout
<1> HIDE DEF g
<1>3. \A m \in DOMAIN g \cup {NULL} : Stays(g)[m] = Stays(h)[m]
  <2>1. PICK a, b : a = Stays(g) /\ b = Stays(h)
    OBVIOUS
  <2>2. a[NULL] = b[NULL]
    BY <1>2, <2>1, StaysFact
  <2>3. \A m \in DOMAIN g : a[g[m].parent] = b[g[m].parent] => a[m] = b[m]
    BY <1>1, <1>2, <2>1, StaysFact
  <2>4. \A m \in DOMAIN g \cup {NULL} : a[m] = b[m]
    BY <1>2, <2>2, <2>3, TreeUnique
  <2> QED
    BY <2>1, <2>4
<1>4. \A m \in DOMAIN g \cup {NULL} : Freed(g)[m] = Freed(h)[m]
  <2>1. PICK a, b : a = Freed(g) /\ b = Freed(h)
    OBVIOUS
  <2>2. a[NULL] = b[NULL]
    BY <1>2, <2>1, FreedFact
  <2>3. \A m \in DOMAIN g : a[g[m].parent] = b[g[m].parent] => a[m] = b[m]
    <3>1. \A m \in DOMAIN g : a[m] = IF g[m].ref_count > 1 THEN {} ELSE {m} \cup a[g[m].parent]
      BY <1>2, <2>1, FreedFact
    <3>2. \A m \in DOMAIN h : b[m] = IF h[m].ref_count > 1 THEN {} ELSE {m} \cup b[h[m].parent]
      BY <2>1, FreedFact
    <3>3. ASSUME NEW m \in DOMAIN g, a[g[m].parent] = b[g[m].parent]
          PROVE  a[m] = b[m]
      <4>1. g[m] = h[m] /\ m \in DOMAIN h
        BY <1>1
      <4>2. a[m] = IF h[m].ref_count > 1 THEN {} ELSE {m} \cup b[h[m].parent]
        BY <3>1, <3>3, <4>1
      <4> QED
        BY <3>2, <4>1, <4>2
    <3> QED
      BY <3>3
  <2>4. \A m \in DOMAIN g \cup {NULL} : a[m] = b[m]
    BY <1>2, <2>2, <2>3, TreeUnique
  <2> QED
    BY <2>1, <2>4
<1> QED
  BY <1>1, <1>3, <1>4 DEF g

\* Nor to the result.
SameBut(g, h, n) ==
    DOMAIN h = DOMAIN g \cup {n} /\ n \notin DOMAIN g /\ \A m \in DOMAIN g : h[m] = g[m]

LEMMA UnrefWithout ==
    ASSUME NEW h, Tree(h), NEW n \in DOMAIN h, \A m \in DOMAIN h : h[m].parent # n,
           NEW p \in (DOMAIN h \ {n}) \cup {NULL}
    PROVE  SameBut(Unref(Without(h, n), p), Unref(h, p), n)
<1> DEFINE g == Without(h, n)
<1>1. DOMAIN g = DOMAIN h \ {n} /\ \A m \in DOMAIN g : g[m] = h[m]
  BY DEF Without
<1>2. Stays(g)[p] = Stays(h)[p] /\ Freed(g)[p] = Freed(h)[p]
  BY UpWithout
<1>3. Freed(g)[p] \subseteq DOMAIN g
  BY <1>1, TreeWithout, FreedFact
<1> HIDE DEF g
<1> QED
  BY <1>1, <1>2, <1>3 DEF Unref, SameBut, g

\* The last pointer to a node: it goes, and with it its pointer to its parent.
LEMMA UnrefLast ==
    ASSUME NEW h, Tree(h), NEW n \in DOMAIN h, \A m \in DOMAIN h : h[m].parent # n,
           h[n].ref_count = 1
    PROVE  Unref(h, n) = Unref(Without(h, n), h[n].parent)
<1> DEFINE g == Without(h, n)
           p == h[n].parent
<1>1. DOMAIN g = DOMAIN h \ {n} /\ \A m \in DOMAIN g : g[m] = h[m]
  BY DEF Without
<1>2. p \in (DOMAIN h \ {n}) \cup {NULL}
  BY DEF Tree
<1>3. Stays(g)[p] = Stays(h)[p] /\ Freed(g)[p] = Freed(h)[p]
  BY <1>2, UpWithout
<1>4. Stays(h)[n] = Stays(h)[p] /\ Freed(h)[n] = {n} \cup Freed(h)[p]
  <2>1. ~ (h[n].ref_count > 1)
    OBVIOUS
  <2>2. Stays(h)[n] = Stays(h)[p]
    BY <2>1, StaysFact
  <2>3. Freed(h)[n] = {n} \cup Freed(h)[p]
    BY <2>1, FreedFact
  <2> QED
    BY <2>2, <2>3
<1> HIDE DEF g, p
<1> QED
  BY <1>1, <1>3, <1>4 DEF Unref, g, p

----------------------------------------------------------------------------
(***************************************************************************)
(* A sound heap: a node is counted once for each child and as often as it  *)
(* is pointed to from outside, which ext says.                             *)
(***************************************************************************)
Children(h, n) == {m \in DOMAIN h : h[m].parent = n}

Sound(h, ext) ==
    /\ Tree(h)
    /\ ext \in [Nodes -> Nat]
    /\ \A n \in DOMAIN h : /\ h[n].ref_count > 0
                           /\ h[n].ref_count = ext[n] + Cardinality(Children(h, n))
    /\ \A n \in Nodes \ DOMAIN h : ext[n] = 0

\* k more pointers to node n, which may be NULL.
Plus(ext, n, k) == [m \in Nodes |-> IF m = n THEN ext[m] + k ELSE ext[m]]

LEMMA ChildrenFact ==
    ASSUME NEW h, IsHeap(h), NEW n
    PROVE  IsFiniteSet(Children(h, n)) /\ Cardinality(Children(h, n)) \in Nat
<1>1. Children(h, n) \subseteq DOMAIN h
  BY DEF Children
<1> QED
  BY <1>1, HeapFact, FS_Subset, FS_CardinalityType

\* The pointer of the last child to its parent becomes one from outside.
LEMMA SoundWithout ==
    ASSUME NEW h, NEW ext, Sound(h, ext), NEW n \in DOMAIN h, h[n].ref_count = 1, ext[n] >= 1
    PROVE  /\ \A m \in DOMAIN h : h[m].parent # n
           /\ Sound(Without(h, n), Plus(Plus(ext, n, -1), h[n].parent, 1))
<1> DEFINE g == Without(h, n)
           p == h[n].parent
           more == Plus(Plus(ext, n, -1), p, 1)
<1>1. /\ Tree(h) /\ IsHeap(h) /\ n \in Nodes /\ ext[n] \in Nat /\ ext \in [Nodes -> Nat]
      /\ DOMAIN h \subseteq Nodes
  BY DEF Sound, Tree, IsHeap
<1>2. Children(h, n) = {} /\ ext[n] = 1
  <2>1. 1 = ext[n] + Cardinality(Children(h, n))
    BY DEF Sound
  <2>2. IsFiniteSet(Children(h, n)) /\ Cardinality(Children(h, n)) \in Nat
    BY <1>1, ChildrenFact
  <2>3. Cardinality(Children(h, n)) = 0 /\ ext[n] = 1
    BY <1>1, <2>1, <2>2
  <2> QED
    BY <2>2, <2>3, FS_EmptySet
<1>3. \A m \in DOMAIN h : h[m].parent # n
  BY <1>2 DEF Children
<1>4. DOMAIN g = DOMAIN h \ {n} /\ \A m \in DOMAIN g : g[m] = h[m]
  BY DEF Without
<1>5. Tree(g)
  BY <1>1, <1>3, TreeWithout
<1>6. p # n
  BY <1>3
<1> HIDE DEF g, p
<1>7. /\ more \in [Nodes -> Nat] /\ more[n] = 0
      /\ \A m \in Nodes \ {n} : more[m] = ext[m] + (IF m = p THEN 1 ELSE 0)
  BY <1>1, <1>2, <1>6 DEF Plus
<1>8. ASSUME NEW m \in DOMAIN g
      PROVE  /\ g[m].ref_count > 0
             /\ g[m].ref_count = more[m] + Cardinality(Children(g, m))
  <2>1. m \in DOMAIN h /\ m # n /\ m \in Nodes /\ g[m] = h[m] /\ ext[m] \in Nat
    BY <1>1, <1>4
  <2>2. Children(g, m) = Children(h, m) \ {n}
    BY <1>4 DEF Children
  <2>3. n \in Children(h, m) <=> m = p
    BY DEF Children, p
  <2>4. /\ IsFiniteSet(Children(h, m))
        /\ Cardinality(Children(h, m)) \in Nat
    BY <1>1, ChildrenFact
  <2>5. Cardinality(Children(g, m)) = Cardinality(Children(h, m)) - (IF m = p THEN 1 ELSE 0)
    <3>1. Cardinality(Children(h, m) \ {n}) =
            IF n \in Children(h, m) THEN Cardinality(Children(h, m)) - 1
            ELSE Cardinality(Children(h, m))
      BY <2>4, FS_RemoveElement
    <3> QED
      BY <2>2, <2>3, <2>4, <3>1
  <2>6. h[m].ref_count > 0 /\ h[m].ref_count = ext[m] + Cardinality(Children(h, m))
    BY <2>1 DEF Sound
  <2>7. more[m] = ext[m] + (IF m = p THEN 1 ELSE 0)
    BY <1>7, <2>1
  <2> QED
    BY <2>1, <2>4, <2>5, <2>6, <2>7
<1>9. ASSUME NEW m \in Nodes \ DOMAIN g PROVE more[m] = 0
  <2>1. CASE m = n
    BY <1>7, <2>1
  <2>2. CASE m # n
    <3>1. m \notin DOMAIN h /\ m # NULL
      BY <1>4, <2>2, NodesFact
    <3>2. m # p
      BY <1>1, <3>1 DEF Tree, p
    <3>3. ext[m] = 0
      BY <3>1 DEF Sound
    <3> QED
      BY <1>7, <2>2, <3>2, <3>3
  <2> QED
    BY <2>1, <2>2
<1>10. Sound(g, more)
  <2> HIDE DEF more
  <2> QED
    BY <1>5, <1>7, <1>8, <1>9 DEF Sound
<1> QED
  BY <1>3, <1>10 DEF g, p

\* A heap in which only counts differ.
LEMMA TreeCounts ==
    ASSUME NEW h, Tree(h), NEW g, IsHeap(g), DOMAIN g = DOMAIN h,
           \A m \in DOMAIN h : g[m].parent = h[m].parent
    PROVE  Tree(g) /\ \A m : Children(g, m) = Children(h, m)
<1>1. Tree(g)
  BY DEF Tree, NoCircle
<1>2. \A m : Children(g, m) = Children(h, m)
  BY DEF Children
<1> QED
  BY <1>1, <1>2

\* Any number of pointers more or less to a node that is still pointed to afterwards.
LEMMA SoundCounts ==
    ASSUME NEW h, NEW ext, Sound(h, ext), NEW n \in DOMAIN h, NEW k \in Int,
           ext[n] + k >= 0, h[n].ref_count + k > 0
    PROVE  Sound([h EXCEPT ![n].ref_count = @ + k], Plus(ext, n, k))
<1> DEFINE g == [h EXCEPT ![n].ref_count = @ + k]
           more == Plus(ext, n, k)
<1>1. /\ Tree(h) /\ IsHeap(h) /\ n \in Nodes /\ ext[n] \in Nat /\ ext \in [Nodes -> Nat]
      /\ DOMAIN h \subseteq Nodes /\ h[n] \in IVENode /\ h[n].ref_count \in Nat
  BY HeapFact DEF Sound, Tree, IsHeap
<1>2. /\ DOMAIN g = DOMAIN h
      /\ g[n] = [h[n] EXCEPT !.ref_count = @ + k]
      /\ \A m \in DOMAIN h : m # n => g[m] = h[m]
      /\ g = [m \in DOMAIN h |-> g[m]]
  OBVIOUS
<1>3. /\ g[n] \in IVENode /\ g[n].parent = h[n].parent
      /\ g[n].ref_count = h[n].ref_count + k
  <2>1. h[n].ref_count + k \in Nat
    BY <1>1
  <2> HIDE DEF g
  <2> QED
    BY <1>1, <1>2, <2>1 DEF IVENode
<1> HIDE DEF g
<1>4. IsHeap(g)
  BY <1>1, <1>2, <1>3 DEF IsHeap
<1>5. Tree(g) /\ \A m : Children(g, m) = Children(h, m)
  BY <1>1, <1>2, <1>3, <1>4, TreeCounts
<1>6. /\ more \in [Nodes -> Nat] /\ more[n] = ext[n] + k
      /\ \A m \in Nodes : m # n => more[m] = ext[m]
  BY <1>1 DEF Plus
<1> HIDE DEF more
<1>7. ASSUME NEW m \in DOMAIN g
      PROVE  /\ g[m].ref_count > 0
             /\ g[m].ref_count = more[m] + Cardinality(Children(g, m))
  <2>1. /\ m \in DOMAIN h /\ m \in Nodes /\ h[m].ref_count > 0
        /\ h[m].ref_count = ext[m] + Cardinality(Children(h, m))
    BY <1>1, <1>2 DEF Sound
  <2>2. Children(g, m) = Children(h, m) /\ Cardinality(Children(h, m)) \in Nat
    BY <1>1, <1>5, ChildrenFact
  <2>3. CASE m = n
    BY <1>1, <1>3, <1>6, <2>1, <2>2, <2>3
  <2>4. CASE m # n
    BY <1>2, <1>6, <2>1, <2>2, <2>4
  <2> QED
    BY <2>3, <2>4
<1>8. \A m \in Nodes \ DOMAIN g : more[m] = 0
  BY <1>2, <1>6 DEF Sound
<1> QED
  BY <1>5, <1>6, <1>7, <1>8 DEF Sound, g, more

(***************************************************************************)
(* A pointer less: a node with others stays, the last one takes the node   *)
(* with it and releases its parent.  Of the domains of heaps for which     *)
(* this is wrong none is the smallest.                                     *)
(***************************************************************************)
Pointed(h, ext, n) == n \in DOMAIN h \cup {NULL} /\ (n # NULL => ext[n] >= 1)

Released(h, ext, n) ==
    /\ Sound(Unref(h, n), Plus(ext, n, -1))
    /\ DOMAIN Unref(h, n) \subseteq DOMAIN h

LEMMA UnrefNull ==
    ASSUME NEW h, NEW ext, Sound(h, ext)
    PROVE  Unref(h, NULL) = h /\ Plus(ext, NULL, -1) = ext
<1>1. Tree(h) /\ IsHeap(h) /\ ext \in [Nodes -> Nat] /\ NULL \notin DOMAIN h
  BY HeapFact DEF Sound, Tree
<1>2. Stays(h)[NULL] = NULL /\ Freed(h)[NULL] = {}
  BY <1>1, StaysFact, FreedFact
<1>3. h = [n \in DOMAIN h |-> h[n]]
  BY <1>1 DEF IsHeap
<1>4. Unref(h, NULL) = h
  BY <1>1, <1>2, <1>3 DEF Unref
<1>5. Plus(ext, NULL, -1) = ext
  BY <1>1, NodesFact DEF Plus
<1> QED
  BY <1>4, <1>5

LEMMA UnrefOther ==
    ASSUME NEW h, NEW ext, Sound(h, ext), NEW n \in DOMAIN h, h[n].ref_count > 1, ext[n] >= 1
    PROVE  Released(h, ext, n)
<1>1. Tree(h) /\ IsHeap(h) /\ ext \in [Nodes -> Nat] /\ n \in Nodes /\ ext[n] \in Nat
      /\ h[n].ref_count \in Nat
  BY HeapFact DEF Sound, Tree
<1>2. Stays(h)[n] = n /\ Freed(h)[n] = {}
  BY <1>1, StaysFact, FreedFact
<1>3. Unref(h, n) = [h EXCEPT ![n].ref_count = @ - 1]
  <2>1. h = [m \in DOMAIN h |-> h[m]]
    BY <1>1 DEF IsHeap
  <2>2. Unref(h, n) = [m \in DOMAIN h |-> IF m = n THEN [h[m] EXCEPT !.ref_count = @ - 1] ELSE h[m]]
    BY <1>2 DEF Unref
  <2>3. ASSUME NEW g, g = [h EXCEPT ![n].ref_count = @ - 1]
        PROVE  g = [m \in DOMAIN h |-> IF m = n THEN [h[m] EXCEPT !.ref_count = @ - 1] ELSE h[m]]
    BY <2>1, <2>3
  <2> QED
    BY <2>2, <2>3
<1>4. [h EXCEPT ![n].ref_count = @ - 1] = [h EXCEPT ![n].ref_count = @ + -1]
  BY <1>1
<1>5. ext[n] + -1 >= 0 /\ h[n].ref_count + -1 > 0 /\ -1 \in Int
  BY <1>1
<1>6. Sound([h EXCEPT ![n].ref_count = @ + -1], Plus(ext, n, -1))
  BY <1>5, SoundCounts
<1>7. DOMAIN Unref(h, n) = DOMAIN h
  BY <1>3
<1> QED
  BY <1>3, <1>4, <1>6, <1>7 DEF Released

LEMMA UnrefSound ==
    ASSUME NEW h, NEW ext, Sound(h, ext), NEW n, Pointed(h, ext, n)
    PROVE  Released(h, ext, n)
<1> DEFINE Wrong(g, x, m) == Sound(g, x) /\ Pointed(g, x, m) /\ ~ Released(g, x, m)
           Bad == {S \in SUBSET Nodes : \E g, x, m : DOMAIN g = S /\ Wrong(g, x, m)}
<1>1. ASSUME Bad # {} PROVE FALSE
  <2>1. PICK S \in Bad : \A U \in Bad : U \subseteq S => U = S
    <3>1. PICK F : F = Bad
      OBVIOUS
    <3>2. F \subseteq SUBSET Nodes
      BY <3>1
    <3> HIDE DEF Bad
    <3>3. F # {}
      BY <1>1, <3>1
    <3>4. \E S \in F : \A U \in F : U \subseteq S => U = S
      <4>1. IsFiniteSet(Nodes)
        BY NodesFact
      <4> QED
        BY <3>2, <3>3, <4>1, SmallestSet
    <3> QED
      BY <3>1, <3>4
  <2>2. PICK g, x, m : DOMAIN g = S /\ Wrong(g, x, m)
    OBVIOUS
  <2>3. Tree(g) /\ IsHeap(g) /\ x \in [Nodes -> Nat] /\ DOMAIN g \subseteq Nodes
        /\ NULL \notin DOMAIN g
    BY <2>2, HeapFact DEF Sound, Tree, IsHeap
  <2>4. CASE m = NULL
    BY <2>2, <2>4, UnrefNull DEF Released
  <2>5. CASE m # NULL /\ g[m].ref_count > 1
    BY <2>2, <2>5, UnrefOther DEF Pointed
  <2>6. CASE m # NULL /\ ~ (g[m].ref_count > 1)
    <3> DEFINE f == Without(g, m)
               p == g[m].parent
               y == Plus(Plus(x, m, -1), p, 1)
    <3>1. m \in DOMAIN g /\ x[m] >= 1 /\ g[m].ref_count = 1 /\ m \in Nodes
      <4>1. m \in DOMAIN g /\ x[m] >= 1
        BY <2>2, <2>6 DEF Pointed
      <4>2. g[m].ref_count \in Nat /\ g[m].ref_count > 0
        BY <2>2, <2>3, <4>1, HeapFact DEF Sound
      <4> QED
        BY <2>3, <2>6, <4>1, <4>2
    <3>2. (\A k \in DOMAIN g : g[k].parent # m) /\ Sound(f, y)
      BY <2>2, <3>1, SoundWithout
    <3>3. p \in (DOMAIN g \ {m}) \cup {NULL}
      BY <2>3, <3>1, <3>2 DEF Tree
    <3>4. DOMAIN f = DOMAIN g \ {m}
      BY DEF Without
    <3>5. Pointed(f, y, p)
      <4>1. p # NULL => y[p] >= 1
        BY <2>3, <3>1, <3>3 DEF Plus
      <4> QED
        BY <3>3, <3>4, <4>1 DEF Pointed
    <3>6. Released(f, y, p)
      <4>1. DOMAIN f \notin Bad
        BY <2>1, <2>2, <3>1, <3>4
      <4>2. DOMAIN f \in SUBSET Nodes
        BY <2>3, <3>4
      <4> HIDE DEF f, y, p
      <4> QED
        BY <3>2, <3>5, <4>1, <4>2
    <3>7. Unref(g, m) = Unref(f, p)
      BY <2>3, <3>1, <3>2, UnrefLast
    <3>8. Plus(y, p, -1) = Plus(x, m, -1)
      BY <2>3, <3>1 DEF Plus
    <3>9. Released(g, x, m)
      BY <3>4, <3>6, <3>7, <3>8 DEF Released
    <3> QED
      BY <2>2, <3>9
  <2> QED
    BY <2>4, <2>5, <2>6
<1>2. ASSUME ~ Released(h, ext, n) PROVE FALSE
  <2>1. DOMAIN h \in SUBSET Nodes
    BY DEF Sound, Tree, IsHeap
  <2>2. Wrong(h, ext, n)
    BY <1>2
  <2> HIDE DEF Wrong
  <2>3. DOMAIN h \in Bad
    BY <2>1, <2>2
  <2> QED
    BY <1>1, <2>3
<1> QED
  BY <1>2

----------------------------------------------------------------------------
\* The other operations on single nodes.

LEMMA RefSound ==
    ASSUME NEW h, NEW ext, Sound(h, ext), NEW n \in DOMAIN h \cup {NULL}, NEW k \in Nat
    PROVE  Sound(Ref(h, n, k), Plus(ext, n, k)) /\ DOMAIN Ref(h, n, k) = DOMAIN h
<1>1. IsHeap(h) /\ ext \in [Nodes -> Nat] /\ NULL \notin DOMAIN h /\ DOMAIN h \subseteq Nodes
  BY HeapFact DEF Sound, Tree, IsHeap
<1>2. CASE n = NULL
  <2>1. Plus(ext, n, k) = ext
    BY <1>1, <1>2, NodesFact DEF Plus
  <2> QED
    BY <1>2, <2>1 DEF Ref
<1>3. CASE n # NULL
  <2>1. n \in DOMAIN h /\ ext[n] \in Nat /\ h[n].ref_count \in Nat /\ h[n].ref_count > 0
    BY <1>1, <1>3, HeapFact DEF Sound
  <2>2. ext[n] + k >= 0 /\ h[n].ref_count + k > 0 /\ k \in Int
    BY <2>1
  <2>3. Ref(h, n, k) = [h EXCEPT ![n].ref_count = @ + k]
    BY <1>3 DEF Ref
  <2>4. Sound([h EXCEPT ![n].ref_count = @ + k], Plus(ext, n, k))
    BY <2>1, <2>2, SoundCounts
  <2> QED
    BY <2>3, <2>4
<1> QED
  BY <1>2, <1>3

\* A new node, pointed to from outside, has one more child of its parent.
LEMMA AllocateSound ==
    ASSUME NEW h, NEW ext, Sound(h, ext), NEW node \in Nodes, node \notin DOMAIN h,
           NEW parent \in DOMAIN h \cup {NULL}, NEW info \in Infos \cup {Start}
    PROVE  LET g == Ref(Allocate(h, node, parent, info), parent, 1)
           IN  Sound(g, Plus(ext, node, 1)) /\ DOMAIN g = DOMAIN h \cup {node}
<1> DEFINE a == Allocate(h, node, parent, info)
           g == Ref(a, parent, 1)
           D == DOMAIN h
           more == Plus(ext, node, 1)
<1>1. /\ Tree(h) /\ IsHeap(h) /\ ext \in [Nodes -> Nat] /\ D \subseteq Nodes /\ NULL \notin D
      /\ NULL # node /\ parent # node
  BY HeapFact, NodesFact DEF Sound, Tree, IsHeap
<1>2. /\ DOMAIN a = D \cup {node} /\ a = [m \in DOMAIN a |-> a[m]]
      /\ a[node] = [parent |-> parent, ref_count |-> 1, info |-> info]
      /\ \A m \in D : a[m] = h[m]
  BY DEF Allocate
<1> HIDE DEF a
<1>3. /\ DOMAIN g = D \cup {node} /\ g = [m \in D \cup {node} |-> g[m]]
      /\ g[node] = [parent |-> parent, ref_count |-> 1, info |-> info]
      /\ \A m \in D : g[m] = IF m = parent THEN [h[m] EXCEPT !.ref_count = @ + 1] ELSE h[m]
  <2>1. CASE parent = NULL
    BY <1>1, <1>2, <2>1 DEF Ref
  <2>2. CASE parent # NULL
    <3>1. parent \in D
      BY <2>2
    <3>2. g = [a EXCEPT ![parent].ref_count = @ + 1]
      BY <2>2 DEF Ref
    <3> HIDE DEF g
    <3> QED
      BY <1>1, <1>2, <3>1, <3>2
  <2> QED
    BY <2>1, <2>2
<1> HIDE DEF g
<1>4. \A m \in D : /\ g[m] \in IVENode /\ g[m].parent = h[m].parent
                   /\ g[m].ref_count = h[m].ref_count + (IF m = parent THEN 1 ELSE 0)
                   /\ h[m].ref_count \in Nat
  <2> TAKE m \in D
  <2>1. h[m] \in IVENode /\ h[m].ref_count \in Nat
    BY <1>1, HeapFact
  <2>2. CASE m = parent
    <3>1. g[m] = [h[m] EXCEPT !.ref_count = @ + 1]
      BY <1>3, <2>2
    <3> QED
      BY <2>1, <2>2, <3>1 DEF IVENode
  <2>3. CASE m # parent
    <3>1. g[m] = h[m]
      BY <1>3, <2>3
    <3> QED
      BY <2>1, <2>3, <3>1
  <2> QED
    BY <2>2, <2>3
<1>5. IsHeap(g)
  <2>1. g[node] \in IVENode
    <3>1. parent \in Nodes \cup {NULL} /\ 1 \in Nat
      BY <1>1
    <3> QED
      BY <1>3, <3>1 DEF IVENode
  <2>2. DOMAIN g \subseteq Nodes /\ \A m \in DOMAIN g : g[m] \in IVENode
    BY <1>1, <1>3, <1>4, <2>1
  <2> QED
    BY <1>3, <2>2 DEF IsHeap
<1>6. \A m \in DOMAIN g : /\ g[m].parent \in D \cup {NULL} /\ g[m].parent # node
  BY <1>1, <1>3, <1>4 DEF Tree
<1>7. NoCircle(g)
  <2> SUFFICES ASSUME NEW S \in SUBSET DOMAIN g, S # {} PROVE \E n \in S : g[n].parent \notin S
    BY DEF NoCircle
  <2>1. CASE S = {node}
    BY <1>3, <1>6, <2>1
  <2>2. CASE S # {node}
    <3>1. S \ {node} \in SUBSET D /\ S \ {node} # {}
      BY <1>3, <2>2
    <3>2. PICK n \in S \ {node} : h[n].parent \notin S \ {node}
      BY <1>1, <3>1 DEF Tree, NoCircle
    <3>3. n \in D /\ n \in S /\ n \in DOMAIN g /\ g[n].parent = h[n].parent
      BY <1>3, <1>4, <3>1, <3>2
    <3> QED
      BY <1>6, <3>2, <3>3
  <2> QED
    BY <2>1, <2>2
<1>8. Tree(g)
  BY <1>3, <1>5, <1>6, <1>7 DEF Tree
<1>9. /\ more \in [Nodes -> Nat] /\ more[node] = 1
      /\ \A m \in Nodes : m # node => more[m] = ext[m]
  <2>1. ext[node] = 0
    BY DEF Sound
  <2> QED
    BY <1>1, <2>1 DEF Plus
<1> HIDE DEF more
<1>10. ASSUME NEW m \in DOMAIN g
       PROVE  /\ g[m].ref_count > 0
              /\ g[m].ref_count = more[m] + Cardinality(Children(g, m))
  <2>1. CASE m = node
    <3>1. Children(g, node) = {}
      BY <1>6 DEF Children
    <3>2. Cardinality(Children(g, m)) = 0
      BY <2>1, <3>1, FS_EmptySet
    <3>3. g[m].ref_count = 1 /\ more[m] = 1
      BY <1>3, <1>9, <2>1
    <3> QED
      BY <3>2, <3>3
  <2>2. CASE m # node
    <3>1. /\ m \in D /\ m \in Nodes /\ h[m].ref_count > 0 /\ ext[m] \in Nat
          /\ h[m].ref_count = ext[m] + Cardinality(Children(h, m))
          /\ more[m] = ext[m]
      BY <1>1, <1>3, <1>9, <2>2 DEF Sound
    <3>2. IsFiniteSet(Children(h, m)) /\ Cardinality(Children(h, m)) \in Nat
      BY <1>1, ChildrenFact
    <3>3. Children(g, m) = Children(h, m) \cup (IF m = parent THEN {node} ELSE {})
      BY <1>3, <1>4 DEF Children
    <3>4. node \notin Children(h, m)
      BY DEF Children
    <3>5. Cardinality(Children(g, m)) =
             Cardinality(Children(h, m)) + (IF m = parent THEN 1 ELSE 0)
      <4>1. CASE m = parent
        <5>1. Children(g, m) = Children(h, m) \cup {node}
          BY <3>3, <4>1
        <5>2. Cardinality(Children(h, m) \cup {node}) = Cardinality(Children(h, m)) + 1
          BY <3>2, <3>4, FS_AddElement
        <5> QED
          BY <4>1, <5>1, <5>2
      <4>2. CASE m # parent
        <5>1. Children(g, m) = Children(h, m)
          BY <3>3, <4>2
        <5> QED
          BY <3>2, <4>2, <5>1
      <4> QED
        BY <4>1, <4>2
    <3> QED
      BY <1>4, <3>1, <3>2, <3>5
  <2> QED
    BY <2>1, <2>2
<1>11. \A m \in Nodes \ DOMAIN g : more[m] = 0
  BY <1>3, <1>9 DEF Sound
<1>12. Sound(g, more)
  BY <1>8, <1>9, <1>10, <1>11 DEF Sound
<1> QED
  BY <1>3, <1>12 DEF g, a, more

\* A node that is cut off from its parent leaves it a pointer from outside.
LEMMA CutSound ==
    ASSUME NEW h, NEW ext, Sound(h, ext), NEW c \in DOMAIN h
    PROVE  /\ Sound([h EXCEPT ![c].parent = NULL], Plus(ext, h[c].parent, 1))
           /\ Pointed([h EXCEPT ![c].parent = NULL], Plus(ext, h[c].parent, 1), h[c].parent)
<1> DEFINE g == [h EXCEPT ![c].parent = NULL]
           p == h[c].parent
           more == Plus(ext, p, 1)
           D == DOMAIN h
<1>1. /\ Tree(h) /\ IsHeap(h) /\ ext \in [Nodes -> Nat] /\ D \subseteq Nodes /\ NULL \notin D
      /\ p \in D \cup {NULL}
  BY HeapFact DEF Sound, Tree, IsHeap
<1>2. /\ DOMAIN g = D /\ g = [m \in D |-> g[m]]
      /\ g[c] = [h[c] EXCEPT !.parent = NULL]
      /\ \A m \in D : m # c => g[m] = h[m]
  BY <1>1 DEF IsHeap
<1> HIDE DEF g
<1>3. \A m \in D : /\ g[m] \in IVENode /\ g[m].ref_count = h[m].ref_count
                   /\ g[m].parent = IF m = c THEN NULL ELSE h[m].parent
  <2> TAKE m \in D
  <2>1. h[m] \in IVENode
    BY <1>1, HeapFact
  <2>2. CASE m = c
    BY <1>2, <2>1, <2>2 DEF IVENode
  <2>3. CASE m # c
    BY <1>2, <2>1, <2>3
  <2> QED
    BY <2>2, <2>3
<1>4. IsHeap(g)
  BY <1>1, <1>2, <1>3 DEF IsHeap
<1>5. NoCircle(g)
  <2> SUFFICES ASSUME NEW S \in SUBSET D, S # {} PROVE \E n \in S : g[n].parent \notin S
    BY <1>2 DEF NoCircle
  <2>1. NULL \notin S
    BY <1>1
  <2>2. PICK n \in S : h[n].parent \notin S
    BY <1>1 DEF Tree, NoCircle
  <2> QED
    BY <1>3, <2>1, <2>2
<1>6. Tree(g)
  BY <1>1, <1>2, <1>3, <1>4, <1>5 DEF Tree
<1>7. /\ more \in [Nodes -> Nat]
      /\ \A m \in Nodes : more[m] = ext[m] + (IF m = p THEN 1 ELSE 0)
  BY <1>1 DEF Plus
<1>8. ASSUME NEW m \in DOMAIN g
      PROVE  /\ g[m].ref_count > 0
             /\ g[m].ref_count = more[m] + Cardinality(Children(g, m))
  <2>1. /\ m \in D /\ m \in Nodes /\ m # NULL /\ h[m].ref_count > 0 /\ ext[m] \in Nat
        /\ h[m].ref_count = ext[m] + Cardinality(Children(h, m))
    BY <1>1, <1>2 DEF Sound
  <2>2. IsFiniteSet(Children(h, m)) /\ Cardinality(Children(h, m)) \in Nat
    BY <1>1, ChildrenFact
  <2>3. Children(g, m) = Children(h, m) \ {c}
    BY <1>2, <1>3, <2>1 DEF Children
  <2>4. c \in Children(h, m) <=> m = p
    BY DEF Children
  <2>5. Cardinality(Children(h, m) \ {c}) =
           IF c \in Children(h, m) THEN Cardinality(Children(h, m)) - 1
           ELSE Cardinality(Children(h, m))
    BY <2>2, FS_RemoveElement
  <2>6. more[m] = ext[m] + (IF m = p THEN 1 ELSE 0) /\ g[m].ref_count = h[m].ref_count
    BY <1>3, <1>7, <2>1
  <2> HIDE DEF more, p
  <2> QED
    BY <2>1, <2>2, <2>3, <2>4, <2>5, <2>6
<1>9. \A m \in Nodes \ DOMAIN g : more[m] = 0
  <2> TAKE m \in Nodes \ DOMAIN g
  <2>1. m # p /\ ext[m] = 0
    BY <1>1, <1>2, NodesFact DEF Sound
  <2> QED
    BY <1>7, <2>1
<1>10. Sound(g, more)
  <2> HIDE DEF more
  <2> QED
    BY <1>6, <1>7, <1>8, <1>9 DEF Sound
<1>11. Pointed(g, more, p)
  <2>1. p # NULL => more[p] >= 1
    BY <1>1, <1>7
  <2> QED
    BY <1>1, <1>2, <2>1 DEF Pointed
<1> QED
  BY <1>10, <1>11 DEF g, p, more

\* The nodes since the last side entrance, n included.
ChainLength(h, n, length) == IF h[n].ref_count # 1 THEN 1 ELSE length + 1

\* A chain is cut at one of its nodes.
LEMMA CutPointFact ==
    ASSUME NEW h, Tree(h)
    PROVE  /\ \A n \in DOMAIN h \cup {NULL} : CutPoint(h)[n][0] \in DOMAIN h \cup {NULL}
           /\ \A length \in Nat : CutPoint(h)[NULL][length] = NULL
           /\ \A n \in DOMAIN h, length \in Nat :
                 CutPoint(h)[n][length] =
                    IF ChainLength(h, n, length) = unroll_factor THEN n
                    ELSE CutPoint(h)[h[n].parent][ChainLength(h, n, length)]
<1> DEFINE D == DOMAIN h
           V == [Nat -> D \cup {NULL}]
           chain_length(n, length) == ChainLength(h, n, length)
           step == [n \in D |-> [v \in V |-> [length \in Nat |->
                      IF chain_length(n, length) = unroll_factor THEN n
                      ELSE v[chain_length(n, length)]]]]
           R(g) == g = [n \in D \cup {NULL} |-> [length \in Nat |->
                      IF n = NULL THEN NULL
                      ELSE IF chain_length(n, length) = unroll_factor THEN n
                      ELSE g[h[n].parent][chain_length(n, length)]]]
<1>1. NULL \notin D /\ \A n \in D : h[n].parent \in D \cup {NULL}
  BY HeapFact DEF Tree
<1>2. \A n \in D, length \in Nat : chain_length(n, length) \in Nat
  BY DEF ChainLength
<1> HIDE DEF chain_length
<1>3. PICK f : f \in [D \cup {NULL} -> V] /\ f[NULL] = [length \in Nat |-> NULL]
               /\ \A n \in D : f[n] = step[n][f[h[n].parent]]
  <2>1. \A n \in D : \A v \in V : [length \in Nat |->
                      IF chain_length(n, length) = unroll_factor THEN n
                      ELSE v[chain_length(n, length)]] \in V
    BY <1>2
  <2>2. step \in [D -> [V -> V]] /\ [length \in Nat |-> NULL] \in V
    BY <2>1
  <2>3. \E f : Climbs(h, V, [length \in Nat |-> NULL], step, f)
    <3> HIDE DEF step, V
    <3> QED
      BY <2>2, TreeRecursion
  <2> QED
    BY <2>3 DEF Climbs
<1>4. \A n \in D : f[n] = [length \in Nat |->
                      IF chain_length(n, length) = unroll_factor THEN n
                      ELSE f[h[n].parent][chain_length(n, length)]]
  <2> TAKE n \in D
  <2>1. f[h[n].parent] \in V
    BY <1>1, <1>3
  <2> QED
    BY <1>3, <2>1
<1>5. R(f)
  <2>1. f = [n \in D \cup {NULL} |-> f[n]]
    BY <1>3
  <2>2. \A n \in D \cup {NULL} : f[n] = [length \in Nat |->
                      IF n = NULL THEN NULL
                      ELSE IF chain_length(n, length) = unroll_factor THEN n
                      ELSE f[h[n].parent][chain_length(n, length)]]
    <3> TAKE n \in D \cup {NULL}
    <3>1. CASE n = NULL
      BY <1>3, <3>1
    <3>2. CASE n # NULL
      BY <1>4, <3>2
    <3> QED
      BY <3>1, <3>2
  <2> QED
    BY <2>1, <2>2
<1>6. CutPoint(h) = CHOOSE g : R(g)
  BY DEF CutPoint, chain_length, ChainLength
<1>7. R(CutPoint(h))
  <2> HIDE DEF R
  <2> QED
    BY <1>5, <1>6
<1> DEFINE g == CutPoint(h)
<1> HIDE DEF g
<1>8. R(g)
  BY <1>7 DEF g
<1>9. g[NULL] = [length \in Nat |-> NULL]
      /\ \A n \in D : g[n] = [length \in Nat |->
                      IF chain_length(n, length) = unroll_factor THEN n
                      ELSE g[h[n].parent][chain_length(n, length)]]
  <2>1. g[NULL] = [length \in Nat |-> NULL]
    BY <1>8
  <2>2. \A n \in D : g[n] = [length \in Nat |->
                      IF chain_length(n, length) = unroll_factor THEN n
                      ELSE g[h[n].parent][chain_length(n, length)]]
    BY <1>1, <1>8
  <2> QED
    BY <2>1, <2>2
<1>10. \A n \in D \cup {NULL} : g[n] = f[n]
  <2>1. g[NULL] = f[NULL]
    BY <1>3, <1>9
  <2>2. \A n \in D : g[h[n].parent] = f[h[n].parent] => g[n] = f[n]
    <3> SUFFICES ASSUME NEW n \in D, g[h[n].parent] = f[h[n].parent] PROVE g[n] = f[n]
      OBVIOUS
    <3>1. PICK v : v = g[h[n].parent] /\ v = f[h[n].parent]
      OBVIOUS
    <3>2. g[n] = [length \in Nat |->
                      IF chain_length(n, length) = unroll_factor THEN n
                      ELSE v[chain_length(n, length)]]
      BY <1>9, <3>1
    <3>3. f[n] = [length \in Nat |->
                      IF chain_length(n, length) = unroll_factor THEN n
                      ELSE v[chain_length(n, length)]]
      BY <1>4, <3>1
    <3> QED
      BY <3>2, <3>3
  <2> QED
    BY <2>1, <2>2, TreeUnique
<1>11. \A n \in D \cup {NULL} : g[n][0] \in D \cup {NULL}
  BY <1>3, <1>10
<1>12. \A length \in Nat : g[NULL][length] = NULL
  BY <1>9
<1>13. ASSUME NEW n \in D, NEW length \in Nat
       PROVE  g[n][length] = IF ChainLength(h, n, length) = unroll_factor THEN n
                             ELSE g[h[n].parent][ChainLength(h, n, length)]
  <2>1. g[n][length] = IF chain_length(n, length) = unroll_factor THEN n
                       ELSE g[h[n].parent][chain_length(n, length)]
    <3>1. PICK v, w : v = g[h[n].parent] /\ w = g[n]
      OBVIOUS
    <3>2. w = [l \in Nat |-> IF chain_length(n, l) = unroll_factor THEN n
                             ELSE v[chain_length(n, l)]]
      BY <1>9, <3>1
    <3>3. w[length] = IF chain_length(n, length) = unroll_factor THEN n
                      ELSE v[chain_length(n, length)]
      BY <3>2
    <3> QED
      BY <3>1, <3>3
  <2> QED
    BY <2>1 DEF chain_length
<1> QED
  BY <1>11, <1>12, <1>13 DEF g

\* What a collection does to one chain.
LEMMA CollectChainSound ==
    ASSUME NEW h, NEW ext, Sound(h, ext), NEW node \in DOMAIN h \cup {NULL}
    PROVE  Sound(CollectChain(h, node), ext) /\ DOMAIN CollectChain(h, node) \subseteq DOMAIN h
<1> DEFINE cut == CutPoint(h)[node][0]
           g == [h EXCEPT ![cut].parent = NULL]
           p == h[cut].parent
           more == Plus(ext, p, 1)
<1>1. Tree(h) /\ cut \in DOMAIN h \cup {NULL}
  BY CutPointFact DEF Sound
<1> HIDE DEF cut
<1>2. CASE cut = NULL
  BY <1>2 DEF CollectChain, cut
<1>3. CASE cut # NULL
  <2>1. Sound(g, more) /\ Pointed(g, more, p)
    BY <1>1, <1>3, CutSound
  <2>2. Released(g, more, p)
    <3> HIDE DEF g, more, p
    <3> QED
      BY <2>1, UnrefSound
  <2>3. Plus(more, p, -1) = ext
    <3>1. ext \in [Nodes -> Nat]
      BY DEF Sound
    <3> QED
      BY <3>1 DEF Plus
  <2>4. CollectChain(h, node) = Unref(g, p)
    BY <1>3 DEF CollectChain, cut
  <2>5. DOMAIN g = DOMAIN h
    OBVIOUS
  <2> HIDE DEF g, more, p
  <2> QED
    BY <2>2, <2>3, <2>4, <2>5 DEF Released
<1> QED
  BY <1>2, <1>3

----------------------------------------------------------------------------
(***************************************************************************)
(* The pointers from outside: the entries of the two tables.               *)
(***************************************************************************)
At(t, n) == {x \in DOMAIN t : t[x] = n}

Ext(iv, mv) == [n \in Nodes |-> Cardinality(At(iv, n)) + Cardinality(At(mv, n))]

IsTable(t, S) == t \in [S -> Nodes \cup {NULL}]

LEMMA AtFact ==
    ASSUME NEW S, IsFiniteSet(S), NEW t, IsTable(t, S), NEW n
    PROVE  IsFiniteSet(At(t, n)) /\ Cardinality(At(t, n)) \in Nat
<1>1. At(t, n) \subseteq S
  BY DEF At, IsTable
<1> QED
  BY <1>1, FS_Subset, FS_CardinalityType

\* An entry that is there is counted.
LEMMA AtOne ==
    ASSUME NEW S, IsFiniteSet(S), NEW t, IsTable(t, S), NEW x \in S
    PROVE  Cardinality(At(t, t[x])) >= 1
<1>1. IsFiniteSet(At(t, t[x])) /\ Cardinality(At(t, t[x])) \in Nat
  BY AtFact
<1>2. x \in At(t, t[x])
  BY DEF At, IsTable
<1>3. Cardinality(At(t, t[x])) # 0
  BY <1>1, <1>2, FS_EmptySet
<1> QED
  BY <1>1, <1>3

\* One entry changed, from old to new.
Moved(t, u, old, new, n) ==
    Cardinality(At(u, n)) =
        Cardinality(At(t, n)) + (IF n = new THEN 1 ELSE 0) - (IF n = old THEN 1 ELSE 0)

LEMMA AtExcept ==
    ASSUME NEW S, IsFiniteSet(S), NEW t, IsTable(t, S), NEW x \in S, NEW m, NEW n,
           NEW u, u = [t EXCEPT ![x] = m]
    PROVE  Moved(t, u, t[x], m, n)
<1> DEFINE A == At(t, n) \ {x}
<1>1. DOMAIN t = S /\ DOMAIN u = S /\ u[x] = m /\ \A y \in S : y # x => u[y] = t[y]
  BY DEF IsTable
<1>2. IsFiniteSet(At(t, n)) /\ Cardinality(At(t, n)) \in Nat
  BY AtFact
<1>3. x \in At(t, n) <=> n = t[x]
  BY <1>1 DEF At
<1>4. IsFiniteSet(A) /\ Cardinality(A) = Cardinality(At(t, n)) - (IF n = t[x] THEN 1 ELSE 0)
  <2>1. IsFiniteSet(A) /\ Cardinality(A) = IF x \in At(t, n) THEN Cardinality(At(t, n)) - 1
                                           ELSE Cardinality(At(t, n))
    BY <1>2, FS_RemoveElement
  <2> HIDE DEF A
  <2> QED
    BY <1>2, <1>3, <2>1
<1>5. At(u, n) = IF n = m THEN A \cup {x} ELSE A
  BY <1>1 DEF At
<1>6. x \notin A
  OBVIOUS
<1>7. Cardinality(A) \in Nat
  BY <1>4, FS_CardinalityType
<1> HIDE DEF A
<1>8. Cardinality(At(u, n)) = Cardinality(A) + (IF n = m THEN 1 ELSE 0)
  <2>1. CASE n = m
    <3>1. Cardinality(A \cup {x}) = Cardinality(A) + 1
      BY <1>4, <1>6, FS_AddElement
    <3> QED
      BY <1>5, <2>1, <3>1
  <2>2. CASE n # m
    BY <1>5, <1>7, <2>2
  <2> QED
    BY <2>1, <2>2
<1>9. Cardinality(At(u, n)) =
        Cardinality(At(t, n)) - (IF n = t[x] THEN 1 ELSE 0) + (IF n = m THEN 1 ELSE 0)
  BY <1>4, <1>8
<1>10. \A c \in Nat : c - (IF n = t[x] THEN 1 ELSE 0) + (IF n = m THEN 1 ELSE 0)
                    = c + (IF n = m THEN 1 ELSE 0) - (IF n = t[x] THEN 1 ELSE 0)
  OBVIOUS
<1> QED
  BY <1>2, <1>9, <1>10 DEF Moved

LEMMA ExtType ==
    ASSUME NEW S, NEW T, IsFiniteSet(S), IsFiniteSet(T),
           NEW iv, NEW mv, IsTable(iv, S), IsTable(mv, T)
    PROVE  Ext(iv, mv) \in [Nodes -> Nat]
<1>1. \A n : Cardinality(At(iv, n)) \in Nat /\ Cardinality(At(mv, n)) \in Nat
  BY AtFact
<1>2. \A n \in Nodes : Cardinality(At(iv, n)) + Cardinality(At(mv, n)) \in Nat
  BY <1>1
<1> QED
  BY <1>2 DEF Ext

\* An entry of the first table is given another node.
EntryMoved(iv, mv, r, node, jv) ==
    /\ Ext(jv, mv) = Plus(Plus(Ext(iv, mv), node, 1), iv[r], -1)
    /\ iv[r] # NULL => Ext(iv, mv)[iv[r]] >= 1
    /\ iv[r] \in Nodes \cup {NULL}

LEMMA ExtEntry ==
    ASSUME NEW S, NEW T, IsFiniteSet(S), IsFiniteSet(T),
           NEW iv, NEW mv, IsTable(iv, S), IsTable(mv, T), NEW r \in S,
           NEW node \in Nodes \cup {NULL}, NEW jv, jv = [iv EXCEPT ![r] = node]
    PROVE  EntryMoved(iv, mv, r, node, jv)
<1>1. IsTable(jv, S) /\ iv[r] \in Nodes \cup {NULL}
  BY DEF IsTable
<1>2. ASSUME NEW n \in Nodes
      PROVE  Ext(jv, mv)[n] = Plus(Plus(Ext(iv, mv), node, 1), iv[r], -1)[n]
  <2>1. Cardinality(At(jv, n)) =
              Cardinality(At(iv, n)) + (IF n = node THEN 1 ELSE 0) - (IF n = iv[r] THEN 1 ELSE 0)
    <3>1. Moved(iv, jv, iv[r], node, n)
      BY AtExcept
    <3> QED
      BY <3>1 DEF Moved
  <2>2. Cardinality(At(iv, n)) \in Nat /\ Cardinality(At(mv, n)) \in Nat
    BY AtFact
  <2> DEFINE a == Cardinality(At(iv, n))
             b == Cardinality(At(mv, n))
  <2>3. Ext(iv, mv)[n] = a + b /\ Ext(jv, mv)[n] = Cardinality(At(jv, n)) + b
    BY DEF Ext
  <2>4. Plus(Plus(Ext(iv, mv), node, 1), iv[r], -1)[n] =
          IF n = iv[r] THEN (IF n = node THEN Ext(iv, mv)[n] + 1 ELSE Ext(iv, mv)[n]) + -1
          ELSE IF n = node THEN Ext(iv, mv)[n] + 1 ELSE Ext(iv, mv)[n]
    BY DEF Plus
  <2> HIDE DEF a, b
  <2>5. a \in Nat /\ b \in Nat /\
        Cardinality(At(jv, n)) = a + (IF n = node THEN 1 ELSE 0) - (IF n = iv[r] THEN 1 ELSE 0)
    BY <2>1, <2>2 DEF a, b
  <2> QED
    BY <2>3, <2>4, <2>5
<1>3. Ext(jv, mv) = Plus(Plus(Ext(iv, mv), node, 1), iv[r], -1)
  <2>1. Ext(jv, mv) = [n \in Nodes |-> Ext(jv, mv)[n]]
    BY DEF Ext
  <2>2. Plus(Plus(Ext(iv, mv), node, 1), iv[r], -1)
          = [n \in Nodes |-> Plus(Plus(Ext(iv, mv), node, 1), iv[r], -1)[n]]
    BY DEF Plus
  <2> QED
    BY <1>2, <2>1, <2>2
<1>4. ASSUME iv[r] # NULL PROVE Ext(iv, mv)[iv[r]] >= 1
  <2>1. Cardinality(At(iv, iv[r])) >= 1
    BY AtOne
  <2>2. Cardinality(At(iv, iv[r])) \in Nat /\ Cardinality(At(mv, iv[r])) \in Nat
    BY AtFact
  <2>3. Ext(iv, mv)[iv[r]] = Cardinality(At(iv, iv[r])) + Cardinality(At(mv, iv[r]))
    BY <1>1, <1>4 DEF Ext
  <2> QED
    BY <2>1, <2>2, <2>3
<1> QED
  BY <1>1, <1>3, <1>4 DEF EntryMoved

\* The two tables are counted alike.
LEMMA ExtSwap ==
    ASSUME NEW S, NEW T, IsFiniteSet(S), IsFiniteSet(T),
           NEW iv, NEW mv, IsTable(iv, S), IsTable(mv, T)
    PROVE  Ext(iv, mv) = Ext(mv, iv)
<1>1. \A n : Cardinality(At(iv, n)) \in Nat /\ Cardinality(At(mv, n)) \in Nat
  BY AtFact
<1>2. \A n : Cardinality(At(iv, n)) + Cardinality(At(mv, n))
             = Cardinality(At(mv, n)) + Cardinality(At(iv, n))
  BY <1>1
<1> QED
  BY <1>2 DEF Ext

LEMMA TablesFinite == IsFiniteSet(Regs) /\ IsFiniteSet(Bytes)
BY VariablesAssumption

\* A register is given another node.
LEMMA ExtReg ==
    ASSUME NEW iv, NEW mv, IsTable(iv, Regs), IsTable(mv, Bytes), NEW r \in Regs,
           NEW node \in Nodes \cup {NULL}
    PROVE  /\ IsTable([iv EXCEPT ![r] = node], Regs)
           /\ Ext([iv EXCEPT ![r] = node], mv) = Plus(Plus(Ext(iv, mv), node, 1), iv[r], -1)
           /\ iv[r] # NULL => Ext(iv, mv)[iv[r]] >= 1
           /\ iv[r] \in Nodes \cup {NULL}
<1>1. PICK jv : jv = [iv EXCEPT ![r] = node]
  OBVIOUS
<1>2. IsTable(jv, Regs)
  BY <1>1 DEF IsTable
<1>3. EntryMoved(iv, mv, r, node, jv)
  BY <1>1, ExtEntry, TablesFinite
<1> QED
  BY <1>1, <1>2, <1>3 DEF EntryMoved

\* A byte is.
LEMMA ExtMem ==
    ASSUME NEW iv, NEW mv, IsTable(iv, Regs), IsTable(mv, Bytes), NEW b \in Bytes,
           NEW node \in Nodes \cup {NULL}
    PROVE  /\ IsTable([mv EXCEPT ![b] = node], Bytes)
           /\ Ext(iv, [mv EXCEPT ![b] = node]) = Plus(Plus(Ext(iv, mv), node, 1), mv[b], -1)
           /\ mv[b] # NULL => Ext(iv, mv)[mv[b]] >= 1
           /\ mv[b] \in Nodes \cup {NULL}
<1>1. PICK nv : nv = [mv EXCEPT ![b] = node]
  OBVIOUS
<1>2. IsTable(nv, Bytes)
  BY <1>1 DEF IsTable
<1>3. EntryMoved(mv, iv, b, node, nv)
  BY <1>1, ExtEntry, TablesFinite
<1>4. Ext(iv, mv) = Ext(mv, iv) /\ Ext(iv, nv) = Ext(nv, iv)
  BY <1>2, ExtSwap, TablesFinite
<1> QED
  BY <1>1, <1>2, <1>3, <1>4 DEF EntryMoved

----------------------------------------------------------------------------
(***************************************************************************)
(* runtime->opti: the tables, and the heap counted by what they point to.  *)
(***************************************************************************)
IsOpti(o) ==
    /\ o \in [heap : {o.heap}, induction_vars : {o.induction_vars}, len : Nat,
              memory_induction_vars : {o.memory_induction_vars},
              IVE_gc_interval : 0..GCInterval]
    /\ IsTable(o.induction_vars, Regs)
    /\ IsTable(o.memory_induction_vars, Bytes)
    /\ \A r \in Regs : r >= o.len => o.induction_vars[r] = NULL

OptiExt(o) == Ext(o.induction_vars, o.memory_induction_vars)

SoundOpti(o) == IsOpti(o) /\ Sound(o.heap, OptiExt(o))

Room(o, k) == Cardinality(DOMAIN o.heap) + k <= NodeBound

LEMMA PointedFact ==
    ASSUME NEW h, NEW ext, Sound(h, ext), NEW n \in Nodes \cup {NULL}, n # NULL => ext[n] >= 1
    PROVE  Pointed(h, ext, n)
<1>1. n # NULL => ext[n] # 0
  OBVIOUS
<1> QED
  BY <1>1 DEF Pointed, Sound

LEMMA EntryFact ==
    ASSUME NEW o, IsOpti(o), NEW reg \in Regs
    PROVE  /\ Entry(o, reg) = o.induction_vars[reg]
           /\ Entry(o, reg) \in Nodes \cup {NULL}
           /\ o.induction_vars[reg] # NULL => OptiExt(o)[o.induction_vars[reg]] >= 1
<1>1. Entry(o, reg) = o.induction_vars[reg]
  BY DEF Entry, IsOpti
<1>2. /\ o.induction_vars[reg] \in Nodes \cup {NULL}
      /\ o.induction_vars[reg] # NULL => OptiExt(o)[o.induction_vars[reg]] >= 1
  <2>1. IsTable(o.induction_vars, Regs) /\ IsTable(o.memory_induction_vars, Bytes)
    BY DEF IsOpti
  <2> QED
    BY <2>1, ExtReg DEF OptiExt
<1> QED
  BY <1>1, <1>2

\* The nodes of the tables are in the heap.
LEMMA TablesFact ==
    ASSUME NEW o, SoundOpti(o)
    PROVE  /\ \A r \in Regs : o.induction_vars[r] \in DOMAIN o.heap \cup {NULL}
           /\ \A r \in Regs : Entry(o, r) \in DOMAIN o.heap \cup {NULL}
           /\ \A b \in Bytes : o.memory_induction_vars[b] \in DOMAIN o.heap \cup {NULL}
<1>1. IsTable(o.induction_vars, Regs) /\ IsTable(o.memory_induction_vars, Bytes)
  BY DEF SoundOpti, IsOpti
<1>2. ASSUME NEW r \in Regs
      PROVE  o.induction_vars[r] \in DOMAIN o.heap \cup {NULL} /\ Entry(o, r) = o.induction_vars[r]
  <2>1. /\ Entry(o, r) = o.induction_vars[r]
        /\ o.induction_vars[r] \in Nodes \cup {NULL}
        /\ o.induction_vars[r] # NULL => OptiExt(o)[o.induction_vars[r]] >= 1
    BY EntryFact DEF SoundOpti
  <2>2. Sound(o.heap, OptiExt(o))
    BY DEF SoundOpti
  <2> QED
    BY <2>1, <2>2, PointedFact DEF Pointed
<1>3. ASSUME NEW b \in Bytes
      PROVE  o.memory_induction_vars[b] \in DOMAIN o.heap \cup {NULL}
  <2>1. /\ o.memory_induction_vars[b] \in Nodes \cup {NULL}
        /\ o.memory_induction_vars[b] # NULL => OptiExt(o)[o.memory_induction_vars[b]] >= 1
    BY <1>1, ExtMem DEF OptiExt
  <2>2. Sound(o.heap, OptiExt(o))
    BY DEF SoundOpti
  <2> QED
    BY <2>1, <2>2, PointedFact DEF Pointed
<1> QED
  BY <1>2, <1>3

LEMMA GrownFact ==
    ASSUME NEW o, o.len \in Nat, NEW reg \in Regs
    PROVE  Grown(o, reg) \in Nat /\ Grown(o, reg) >= o.len /\ Grown(o, reg) > reg
<1>1. reg \in Nat
  BY VariablesAssumption
<1> DEFINE S == {o.len, reg + 1}
<1>2. \E x \in S : \A y \in S : x >= y
  BY <1>1
<1>3. Grown(o, reg) \in S /\ \A y \in S : Grown(o, reg) >= y
  BY <1>2 DEF Grown, Max
<1> QED
  BY <1>1, <1>3

\* The tables after a register is given a node.
OptiReg(o, reg, node, heap, new) ==
    /\ IsOpti(new) /\ new.heap = heap /\ new.induction_vars[reg] = node /\ new.len > reg
    /\ new.induction_vars = [o.induction_vars EXCEPT ![reg] = node]
    /\ new.memory_induction_vars = o.memory_induction_vars
    /\ OptiExt(new) = Plus(Plus(OptiExt(o), node, 1), o.induction_vars[reg], -1)

LEMMA IsOptiReg ==
    ASSUME NEW o, IsOpti(o), NEW reg \in Regs, NEW node \in Nodes \cup {NULL}, NEW heap,
           NEW new, new = [o EXCEPT !.heap = heap, !.len = Grown(o, reg),
                                    !.induction_vars[reg] = node]
    PROVE  OptiReg(o, reg, node, heap, new)
<1> DEFINE iv == [o.induction_vars EXCEPT ![reg] = node]
           mv == o.memory_induction_vars
<1>1. Grown(o, reg) \in Nat /\ Grown(o, reg) >= o.len /\ Grown(o, reg) > reg
  BY GrownFact DEF IsOpti
<1>2. /\ new \in [heap : {heap}, induction_vars : {iv}, len : Nat,
                  memory_induction_vars : {mv}, IVE_gc_interval : 0..GCInterval]
      /\ new.heap = heap /\ new.induction_vars = iv /\ new.len = Grown(o, reg)
      /\ new.memory_induction_vars = mv
  BY <1>1 DEF IsOpti
<1>3. IsTable(o.induction_vars, Regs) /\ IsTable(mv, Bytes)
  BY DEF IsOpti
<1>4. /\ IsTable(iv, Regs)
      /\ Ext(iv, mv) = Plus(Plus(OptiExt(o), node, 1), o.induction_vars[reg], -1)
  BY <1>3, ExtReg DEF OptiExt
<1>5. iv[reg] = node /\ \A r \in Regs : r # reg => iv[r] = o.induction_vars[r]
  BY <1>3 DEF IsTable
<1> HIDE DEF iv, mv
<1>6. \A r \in Regs : r >= Grown(o, reg) => iv[r] = NULL
  <2> SUFFICES ASSUME NEW r \in Regs, r >= Grown(o, reg) PROVE iv[r] = NULL
    OBVIOUS
  <2>1. r \in Nat /\ reg \in Nat /\ o.len \in Nat
    BY VariablesAssumption DEF IsOpti
  <2>2. r # reg /\ r >= o.len
    BY <1>1, <2>1
  <2> QED
    BY <1>5, <2>2 DEF IsOpti
<1>7. IsOpti(new)
  BY <1>2, <1>3, <1>4, <1>6 DEF IsOpti
<1>8. OptiExt(new) = Ext(iv, mv)
  BY <1>2 DEF OptiExt
<1>9. new.induction_vars = [o.induction_vars EXCEPT ![reg] = node]
  BY <1>2 DEF iv
<1> QED
  BY <1>2, <1>4, <1>1, <1>5, <1>7, <1>8, <1>9 DEF OptiReg, mv

\* A counted pointer is put into the table and the old one is released.
LEMMA PointSound ==
    ASSUME NEW o, IsOpti(o), NEW reg \in Regs, NEW heap, NEW node \in Nodes \cup {NULL},
           Sound(heap, Plus(OptiExt(o), node, 1))
    PROVE  LET new == Point(o, heap, reg, node)
           IN  SoundOpti(new) /\ DOMAIN new.heap \subseteq DOMAIN heap
<1> DEFINE old == o.induction_vars[reg]
           ext == Plus(OptiExt(o), node, 1)
           new == Point(o, heap, reg, node)
<1>1. Entry(o, reg) = old /\ old \in Nodes \cup {NULL} /\ (old # NULL => OptiExt(o)[old] >= 1)
  BY EntryFact
<1>2. OptiExt(o) \in [Nodes -> Nat]
  BY ExtType, TablesFinite DEF IsOpti, OptiExt
<1>3. old # NULL => ext[old] >= 1
  BY <1>1, <1>2 DEF Plus
<1>4. /\ IsOpti(new) /\ new.heap = Unref(heap, old) /\ OptiExt(new) = Plus(ext, old, -1)
  <2>1. new = [o EXCEPT !.heap = Unref(heap, old), !.len = Grown(o, reg),
                        !.induction_vars[reg] = node]
    BY <1>1 DEF Point
  <2> HIDE DEF new
  <2>2. OptiReg(o, reg, node, Unref(heap, old), new)
    BY <2>1, IsOptiReg
  <2> QED
    BY <2>2 DEF OptiReg
<1> HIDE DEF ext, old, new
<1>5. Sound(heap, ext)
  BY DEF ext
<1>6. Released(heap, ext, old)
  BY <1>1, <1>3, <1>5, PointedFact, UnrefSound
<1> QED
  BY <1>4, <1>6 DEF Released, SoundOpti, new

----------------------------------------------------------------------------
\* There are enough nodes.
Larger(g, h, k) == Cardinality(DOMAIN g) <= Cardinality(DOMAIN h) + k

LEMMA LargerFact ==
    ASSUME NEW h, IsHeap(h), NEW g, NEW x
    PROVE  /\ Cardinality(DOMAIN h) \in Nat
           /\ DOMAIN g \subseteq DOMAIN h => Larger(g, h, 0) /\ Cardinality(DOMAIN g) \in Nat
           /\ DOMAIN g \subseteq DOMAIN h \cup {x} =>
                 Larger(g, h, 1) /\ Cardinality(DOMAIN g) \in Nat
<1>1. IsFiniteSet(DOMAIN h) /\ Cardinality(DOMAIN h) \in Nat
  BY HeapFact, FS_CardinalityType
<1>2. ASSUME DOMAIN g \subseteq DOMAIN h PROVE Larger(g, h, 0) /\ Cardinality(DOMAIN g) \in Nat
  <2>1. IsFiniteSet(DOMAIN g) /\ Cardinality(DOMAIN g) <= Cardinality(DOMAIN h)
    BY <1>1, <1>2, FS_Subset
  <2>2. Cardinality(DOMAIN g) \in Nat
    BY <2>1, FS_CardinalityType
  <2> QED
    BY <1>1, <2>1, <2>2 DEF Larger
<1>3. ASSUME DOMAIN g \subseteq DOMAIN h \cup {x}
      PROVE  Larger(g, h, 1) /\ Cardinality(DOMAIN g) \in Nat
  <2>1. /\ IsFiniteSet(DOMAIN h \cup {x})
        /\ Cardinality(DOMAIN h \cup {x}) <= Cardinality(DOMAIN h) + 1
    <3>1. CASE x \in DOMAIN h
      <4>1. DOMAIN h \cup {x} = DOMAIN h
        BY <3>1
      <4> QED
        BY <1>1, <4>1
    <3>2. CASE x \notin DOMAIN h
      <4>1. /\ IsFiniteSet(DOMAIN h \cup {x})
            /\ Cardinality(DOMAIN h \cup {x}) = Cardinality(DOMAIN h) + 1
        BY <1>1, <3>2, FS_AddElement
      <4> QED
        BY <1>1, <4>1
    <3> QED
      BY <3>1, <3>2
  <2>2. IsFiniteSet(DOMAIN g) /\ Cardinality(DOMAIN g) <= Cardinality(DOMAIN h \cup {x})
    BY <1>3, <2>1, FS_Subset
  <2>3. Cardinality(DOMAIN g) \in Nat /\ Cardinality(DOMAIN h \cup {x}) \in Nat
    BY <2>1, <2>2, FS_CardinalityType
  <2> QED
    BY <1>1, <2>1, <2>2, <2>3 DEF Larger
<1> QED
  BY <1>1, <1>2, <1>3

LEMMA FreshFact ==
    ASSUME NEW h, IsHeap(h), Cardinality(DOMAIN h) + 1 <= NodeBound
    PROVE  Fresh(h) \in Nodes /\ Fresh(h) \notin DOMAIN h
<1>1. Cardinality(Nodes) = NodeBound
  <2>1. NodeBound \in Nat /\ NodeBound \in Int /\ 1 \in Int
    BY VariablesAssumption
  <2>2. Cardinality(1..NodeBound) = IF 1 > NodeBound THEN 0 ELSE NodeBound - 1 + 1
    BY <2>1, FS_Interval
  <2> QED
    BY <2>1, <2>2 DEF Nodes
<1>2. DOMAIN h \subseteq Nodes /\ Cardinality(DOMAIN h) \in Nat
  BY LargerFact DEF IsHeap
<1>3. DOMAIN h # Nodes
  <2>1. Cardinality(DOMAIN h) # NodeBound
    BY <1>2, VariablesAssumption
  <2> QED
    BY <1>1, <2>1
<1> QED
  BY <1>2, <1>3 DEF Fresh

----------------------------------------------------------------------------
\* A register is given a new node.
ResetTo(o, reg, new) ==
    /\ SoundOpti(new)
    /\ Larger(new.heap, o.heap, 1)
    /\ new.induction_vars[reg] \in DOMAIN new.heap
    /\ new.len > reg

\* A node of its own is reused.
LEMMA ResetKept ==
    ASSUME NEW o, SoundOpti(o), NEW reg \in Regs, NEW info \in Infos \cup {Start},
           NEW node, node = Entry(o, reg), node # NULL, o.heap[node].ref_count = 1
    PROVE  ResetTo(o, reg, Reset(o, reg, info))
<1> DEFINE h == o.heap
           p == h[node].parent
           ext == OptiExt(o)
           less == Plus(Plus(ext, node, -1), p, 1)
           w == Without(h, node)
           u == Unref(w, p)
           heap == Allocate(Unref(h, p), node, NULL, info)
           new == Reset(o, reg, info)
<1>1. /\ IsOpti(o) /\ Sound(h, ext) /\ Tree(h) /\ IsHeap(h) /\ ext \in [Nodes -> Nat]
      /\ DOMAIN h \subseteq Nodes /\ NULL \notin DOMAIN h
  BY HeapFact DEF SoundOpti, Sound, Tree, IsHeap
<1>2. node = o.induction_vars[reg] /\ node \in DOMAIN h /\ ext[node] >= 1 /\ node \in Nodes
  BY <1>1, EntryFact, TablesFact
<1>3. (\A m \in DOMAIN h : h[m].parent # node) /\ Sound(w, less)
  BY <1>1, <1>2, SoundWithout
<1>4. p \in (DOMAIN h \ {node}) \cup {NULL} /\ DOMAIN w = DOMAIN h \ {node}
  BY <1>1, <1>2, <1>3 DEF Tree, Without
<1>5. Pointed(w, less, p)
  <2>1. p \in DOMAIN w \cup {NULL}
    BY <1>4
  <2>2. p # NULL => p \in Nodes /\ p # node
    BY <1>1, <1>4
  <2>3. ASSUME p # NULL PROVE less[p] >= 1
    <3> HIDE DEF p, ext
    <3>1. less[p] = ext[p] + 1 /\ ext[p] \in Nat
      BY <1>1, <2>2, <2>3 DEF Plus
    <3> QED
      BY <3>1
  <2> HIDE DEF w, less, p
  <2> QED
    BY <2>1, <2>3 DEF Pointed
<1>6. Released(w, less, p)
  <2> HIDE DEF w, less, p
  <2> QED
    BY <1>3, <1>5, UnrefSound
<1>7. Plus(less, p, -1) = Plus(ext, node, -1)
  BY <1>1, <1>2 DEF Plus
<1>8. Sound(u, Plus(ext, node, -1)) /\ DOMAIN u \subseteq DOMAIN h \ {node}
  BY <1>4, <1>6, <1>7 DEF Released
<1>9. heap = Allocate(u, node, NULL, info)
  <2>1. SameBut(u, Unref(h, p), node)
    BY <1>1, <1>2, <1>3, <1>4, UnrefWithout
  <2> HIDE DEF u
  <2> QED
    BY <2>1 DEF Allocate, SameBut
<1>10. Sound(heap, Plus(Plus(ext, node, -1), node, 1)) /\ DOMAIN heap = DOMAIN u \cup {node}
  <2> HIDE DEF u, ext
  <2>1. PICK v, e, g : /\ v = u /\ e = Plus(ext, node, -1)
                       /\ g = Ref(Allocate(v, node, NULL, info), NULL, 1)
    OBVIOUS
  <2>2. Sound(v, e) /\ node \in Nodes /\ node \notin DOMAIN v /\ NULL \in DOMAIN v \cup {NULL}
    BY <1>2, <1>8, <2>1
  <2>3. Sound(g, Plus(e, node, 1)) /\ DOMAIN g = DOMAIN v \cup {node}
    BY <2>1, <2>2, AllocateSound
  <2>4. Sound(g, Plus(Plus(ext, node, -1), node, 1)) /\ DOMAIN g = DOMAIN u \cup {node}
    BY <2>1, <2>3
  <2>5. g = heap
    BY <1>9, <2>1 DEF Ref
  <2> HIDE DEF heap
  <2> QED
    BY <2>4, <2>5
<1>11. Plus(Plus(ext, node, -1), node, 1) = ext
  BY <1>1 DEF Plus
<1>12. new = [o EXCEPT !.heap = heap, !.len = Grown(o, reg), !.induction_vars[reg] = node]
  BY DEF Reset
<1> HIDE DEF new, heap, ext, u
<1>13. OptiReg(o, reg, node, heap, new)
  BY <1>1, <1>2, <1>12, IsOptiReg
<1>14. OptiExt(new) = ext
  <2>1. OptiExt(new) = Plus(Plus(ext, node, 1), node, -1)
    BY <1>2, <1>13 DEF OptiReg, ext
  <2>2. Plus(Plus(ext, node, 1), node, -1) = ext
    BY <1>1 DEF Plus
  <2> QED
    BY <2>1, <2>2
<1>15. Larger(heap, h, 1)
  <2>1. DOMAIN heap \subseteq DOMAIN h \cup {node}
    BY <1>8, <1>10
  <2> QED
    BY <1>1, <2>1, LargerFact
<1> QED
  BY <1>10, <1>11, <1>13, <1>14, <1>15 DEF OptiReg, ResetTo, SoundOpti, new

LEMMA ResetFresh ==
    ASSUME NEW o, SoundOpti(o), NEW reg \in Regs, NEW info \in Infos \cup {Start}, Room(o, 1),
           NEW node, node = Entry(o, reg), ~ (node # NULL /\ o.heap[node].ref_count = 1)
    PROVE  ResetTo(o, reg, Reset(o, reg, info))
<1> DEFINE h == o.heap
           ext == OptiExt(o)
           less == Plus(ext, node, -1)
           u == Unref(h, node)
           n == Fresh(u)
           heap == Allocate(u, n, NULL, info)
           new == Reset(o, reg, info)
<1>1. /\ IsOpti(o) /\ Sound(h, ext) /\ IsHeap(h) /\ ext \in [Nodes -> Nat]
  BY DEF SoundOpti, Sound, Tree
<1>2. /\ node = o.induction_vars[reg] /\ node \in Nodes \cup {NULL}
      /\ node # NULL => ext[node] >= 1
  BY <1>1, EntryFact
<1>3. Released(h, ext, node)
  <2> HIDE DEF h, ext
  <2> QED
    BY <1>1, <1>2, PointedFact, UnrefSound
<1>4. Sound(u, less) /\ DOMAIN u \subseteq DOMAIN h
  BY <1>3 DEF Released
<1>5. IsHeap(u)
  BY <1>4 DEF Sound, Tree
<1> HIDE DEF u
<1>6. Cardinality(DOMAIN u) + 1 <= NodeBound
  <2>1. Cardinality(DOMAIN u) <= Cardinality(DOMAIN h) + 0 /\ Cardinality(DOMAIN u) \in Nat
        /\ Cardinality(DOMAIN h) \in Nat
    BY <1>1, <1>4, LargerFact DEF Larger
  <2> QED
    BY <2>1, VariablesAssumption DEF Room
<1>7. n \in Nodes /\ n \notin DOMAIN u
  BY <1>5, <1>6, FreshFact
<1> HIDE DEF n, less, ext
<1>8. Sound(heap, Plus(less, n, 1)) /\ DOMAIN heap = DOMAIN u \cup {n}
  <2>1. NULL \in DOMAIN u \cup {NULL}
    OBVIOUS
  <2>2. PICK g : g = Ref(Allocate(u, n, NULL, info), NULL, 1)
    OBVIOUS
  <2>3. Sound(g, Plus(less, n, 1)) /\ DOMAIN g = DOMAIN u \cup {n}
    BY <1>4, <1>7, <2>1, <2>2, AllocateSound
  <2>4. g = heap
    BY <2>2 DEF Ref
  <2> HIDE DEF heap
  <2> QED
    BY <2>3, <2>4
<1>9. new = [o EXCEPT !.heap = heap, !.len = Grown(o, reg), !.induction_vars[reg] = n]
  BY DEF Reset, u, n
<1> HIDE DEF new, heap
<1>10. OptiReg(o, reg, n, heap, new)
  BY <1>1, <1>7, <1>9, IsOptiReg
<1>11. OptiExt(new) = Plus(less, n, 1)
  <2>1. OptiExt(new) = Plus(Plus(ext, n, 1), node, -1)
    BY <1>2, <1>10 DEF OptiReg, ext
  <2>2. Plus(Plus(ext, n, 1), node, -1) = Plus(less, n, 1)
    BY <1>1 DEF Plus, less
  <2> QED
    BY <2>1, <2>2
<1>12. Larger(heap, h, 1)
  <2>1. DOMAIN heap \subseteq DOMAIN h \cup {n}
    BY <1>4, <1>8
  <2> QED
    BY <1>1, <2>1, LargerFact
<1> QED
  BY <1>8, <1>10, <1>11, <1>12 DEF OptiReg, ResetTo, SoundOpti, new

LEMMA ResetSound ==
    ASSUME NEW o, SoundOpti(o), NEW reg \in Regs, NEW info \in Infos \cup {Start}, Room(o, 1)
    PROVE  ResetTo(o, reg, Reset(o, reg, info))
<1>1. PICK node : node = Entry(o, reg)
  OBVIOUS
<1>2. CASE node # NULL /\ o.heap[node].ref_count = 1
  BY <1>1, <1>2, ResetKept
<1>3. CASE ~ (node # NULL /\ o.heap[node].ref_count = 1)
  BY <1>1, <1>3, ResetFresh
<1> QED
  BY <1>2, <1>3

----------------------------------------------------------------------------
\* An interval is a forest as well, without branches.
Before(a, n) == [i \in (a + 1)..n |-> i - 1]

LEMMA IntervalForest ==
    ASSUME NEW a \in Int, NEW n \in Int
    PROVE  Forest((a + 1)..n, Before(a, n), a)
<1> DEFINE D == (a + 1)..n
<1>1. IsFiniteSet(D)
  <2>1. a + 1 \in Int
    OBVIOUS
  <2> QED
    BY <2>1, FS_Interval
<1>2. a \notin D /\ Before(a, n) \in [D -> D \cup {a}]
  BY DEF Before
<1>3. ASSUME NEW S \in SUBSET D, S # {} PROVE \E m \in S : Before(a, n)[m] \notin S
  <2> DEFINE Down(m) == (a + 1)..m
  <2>1. PICK F : F = {Down(m) : m \in S}
    OBVIOUS
  <2>2. F \subseteq SUBSET D /\ F # {}
    <3>1. \A m \in D : Down(m) \in SUBSET D
      OBVIOUS
    <3> HIDE DEF D, Down
    <3> QED
      BY <1>3, <2>1, <3>1
  <2>3. PICK T \in F : \A U \in F : U \subseteq T => U = T
    <3> HIDE DEF D
    <3> QED
      BY <1>1, <2>2, SmallestSet
  <2>4. PICK m \in S : T = Down(m)
    BY <2>1
  <2>5. ASSUME m - 1 \in S PROVE FALSE
    <3>1. Down(m - 1) \in F
      BY <2>1, <2>5
    <3>2. Down(m - 1) \subseteq T /\ m \in T /\ m \notin Down(m - 1)
      BY <1>3, <2>4
    <3> HIDE DEF Down
    <3> QED
      BY <2>3, <3>1, <3>2
  <2> QED
    BY <2>4, <2>5 DEF Before
<1> QED
  BY <1>1, <1>2, <1>3 DEF Forest

\* A finite set of integers has a largest one.
LEMMA LargestInteger ==
    ASSUME NEW S, S \subseteq Int, IsFiniteSet(S), S # {}
    PROVE  \E x \in S : \A y \in S : x >= y
<1> DEFINE Above(x) == {y \in S : y >= x}
<1>1. PICK F : F = {Above(x) : x \in S}
  OBVIOUS
<1>2. F \subseteq SUBSET S
  BY <1>1
<1>3. F # {}
  BY <1>1
<1> HIDE DEF Above
<1>4. \E T \in F : \A U \in F : U \subseteq T => U = T
  <2> SUFFICES ASSUME NEW A, IsFiniteSet(A), F \subseteq SUBSET A
               PROVE  \E T \in F : \A U \in F : U \subseteq T => U = T
    BY <1>2
  <2> QED
    BY <1>3, SmallestSet
<1>5. PICK x \in S : \A U \in F : U \subseteq Above(x) => U = Above(x)
  BY <1>1, <1>4
<1>6. ASSUME NEW y \in S, y > x PROVE FALSE
  <2>1. Above(y) \in F
    BY <1>1, <1>6
  <2>2. x \in Int /\ y \in Int /\ S \subseteq Int
    OBVIOUS
  <2>3. x \in Above(x) /\ x \notin Above(y)
    BY <1>6, <2>2 DEF Above
  <2>4. ASSUME NEW z \in Above(y) PROVE z \in Above(x)
    <3>1. z \in S /\ z \in Int /\ z >= y
      BY <2>2 DEF Above
    <3>2. z >= x
      BY <1>6, <2>2, <3>1
    <3> QED
      BY <3>1, <3>2 DEF Above
  <2> QED
    BY <1>5, <2>1, <2>3, <2>4
<1> QED
  BY <1>6

----------------------------------------------------------------------------
\* Collections.

\* The heaps that are counted by ext and no larger than h.
Shrunk(h, ext) ==
    {g \in UNION {[D -> IVENode] : D \in SUBSET Nodes} :
        Sound(g, ext) /\ DOMAIN g \subseteq DOMAIN h}

LEMMA ShrunkFact ==
    ASSUME NEW h, NEW ext, NEW g
    PROVE  g \in Shrunk(h, ext) <=> Sound(g, ext) /\ DOMAIN g \subseteq DOMAIN h
<1>1. Sound(g, ext) => g \in UNION {[D -> IVENode] : D \in SUBSET Nodes}
  <2>1. Sound(g, ext) => g \in [DOMAIN g -> IVENode] /\ DOMAIN g \in SUBSET Nodes
    BY DEF Sound, Tree, IsHeap
  <2> QED
    BY <2>1
<1> QED
  BY <1>1 DEF Shrunk

\* A node that is pointed to from outside is in each of them.
LEMMA ShrunkKeeps ==
    ASSUME NEW h, NEW ext, NEW g \in Shrunk(h, ext), NEW n \in Nodes \cup {NULL},
           n # NULL => ext[n] >= 1
    PROVE  /\ Sound(CollectChain(g, n), ext)
           /\ CollectChain(g, n) \in Shrunk(h, ext)
<1>1. Sound(g, ext) /\ DOMAIN g \subseteq DOMAIN h
  BY ShrunkFact
<1>2. n \in DOMAIN g \cup {NULL}
  BY <1>1, PointedFact DEF Pointed
<1>3. Sound(CollectChain(g, n), ext) /\ DOMAIN CollectChain(g, n) \subseteq DOMAIN g
  BY <1>1, <1>2, CollectChainSound
<1> QED
  BY <1>1, <1>3, ShrunkFact

\* A table whose entries are counted in ext.
Counted(table, ext) ==
    \A i \in DOMAIN table : /\ table[i] \in Nodes \cup {NULL}
                            /\ table[i] # NULL => ext[table[i]] >= 1

\* What the collection of each entry's chain keeps, the collection of the table keeps.
LEMMA CollectTableKeeps ==
    ASSUME NEW V, NEW h \in V, NEW table, NEW last \in Int, last >= -1,
           \A g \in V : \A i \in DOMAIN table : CollectChain(g, table[i]) \in V
    PROVE  CollectTable(h, table, last) \in V
<1> DEFINE D == (-1 + 1)..last
           Walk(i, g) == IF i \in DOMAIN table THEN CollectChain(g, table[i]) ELSE g
           step == [i \in D |-> [g \in V |-> Walk(i, g)]]
           W == [i \in D \cup {-1} |-> V]
           up == Before(-1, last)
           R(f) == f = [i \in -1..last |->
                           IF i = -1 THEN h
                           ELSE IF i \in DOMAIN table THEN CollectChain(f[i - 1], table[i])
                           ELSE f[i - 1]]
<1>1. h \in V
  OBVIOUS
<1>2. ASSUME NEW i \in D, NEW g \in V PROVE Walk(i, g) \in V
  OBVIOUS
<1>3. Forest(D, up, -1)
  BY IntervalForest
<1>4. \A i \in D : up[i] = i - 1 /\ i - 1 \in D \cup {-1} /\ i # -1
  BY DEF Before
<1>5. -1..last = D \cup {-1} /\ last \in D \cup {-1}
  OBVIOUS
<1> HIDE DEF D, Walk, up
<1>6. Steps(D, up, -1, W, h, step)
  BY <1>1, <1>2, <1>4 DEF Steps
<1>7. W[-1] = V /\ \A i \in D : W[i] = V
  OBVIOUS
<1> HIDE DEF W
<1>8. PICK f : GoesUp(D, up, -1, W, h, step, f)
  <2> HIDE DEF step
  <2> QED
    BY <1>3, <1>6, ForestRecursion
<1>9. /\ f = [i \in D \cup {-1} |-> f[i]] /\ f[-1] = h /\ \A i \in D \cup {-1} : f[i] \in V
      /\ \A i \in D : f[i] = Walk(i, f[i - 1])
  <2>1. /\ f = [i \in D \cup {-1} |-> f[i]] /\ f[-1] = h /\ \A i \in D \cup {-1} : f[i] \in V
    BY <1>1, <1>7, <1>8 DEF GoesUp
  <2>2. ASSUME NEW i \in D PROVE f[i] = Walk(i, f[i - 1])
    <3>1. f[i] = step[i][f[i - 1]] /\ f[i - 1] \in V
      BY <1>4, <1>8, <2>1 DEF GoesUp
    <3> QED
      BY <3>1
  <2> QED
    BY <2>1, <2>2
<1>10. R(f)
  <2>1. \A i \in D \cup {-1} :
           f[i] = IF i = -1 THEN h
                  ELSE IF i \in DOMAIN table THEN CollectChain(f[i - 1], table[i])
                  ELSE f[i - 1]
    BY <1>4, <1>9 DEF Walk
  <2> QED
    BY <1>5, <1>9, <2>1
<1>11. PICK r : r = (CHOOSE g : R(g))
  OBVIOUS
<1>12. R(r)
  <2> HIDE DEF R
  <2> QED
    BY <1>10, <1>11
<1>13. CollectTable(h, table, last) = r[last]
  BY <1>11 DEF CollectTable
<1>14. \A i \in D \cup {-1} : r[i] = f[i]
  <2>1. r[-1] = h /\ \A i \in D : r[i] = Walk(i, r[i - 1])
    BY <1>4, <1>5, <1>12 DEF Walk
  <2>2. \A i \in D : r[up[i]] = f[up[i]] => r[i] = f[i]
    <3> SUFFICES ASSUME NEW i \in D, r[up[i]] = f[up[i]] PROVE r[i] = f[i]
      OBVIOUS
    <3>1. PICK v : v = r[i - 1] /\ v = f[i - 1]
      BY <1>4
    <3>2. r[i] = Walk(i, v) /\ f[i] = Walk(i, v)
      BY <1>9, <2>1, <3>1
    <3> QED
      BY <3>2
  <2>3. r[-1] = f[-1]
    BY <1>9, <2>1
  <2> HIDE DEF R
  <2> QED
    BY <1>3, <2>2, <2>3, ForestUnique
<1> QED
  BY <1>5, <1>9, <1>13, <1>14

LEMMA CollectTableSound ==
    ASSUME NEW h, NEW ext, Sound(h, ext), NEW table, Counted(table, ext), NEW last \in Int,
           last >= -1
    PROVE  CollectTable(h, table, last) \in Shrunk(h, ext)
<1>1. h \in Shrunk(h, ext)
  BY ShrunkFact
<1>2. ASSUME NEW g \in Shrunk(h, ext), NEW i \in DOMAIN table
      PROVE  CollectChain(g, table[i]) \in Shrunk(h, ext)
  <2>1. table[i] \in Nodes \cup {NULL} /\ (table[i] # NULL => ext[table[i]] >= 1)
    BY DEF Counted
  <2> QED
    BY <2>1, ShrunkKeeps
<1> QED
  BY <1>1, <1>2, CollectTableKeeps

LEMMA TablesCounted ==
    ASSUME NEW o, SoundOpti(o)
    PROVE  /\ Counted(o.induction_vars, OptiExt(o))
           /\ Counted(o.memory_induction_vars, OptiExt(o))
<1>1. IsTable(o.induction_vars, Regs) /\ IsTable(o.memory_induction_vars, Bytes)
  BY DEF SoundOpti, IsOpti
<1>2. DOMAIN o.induction_vars = Regs /\ DOMAIN o.memory_induction_vars = Bytes
  BY <1>1 DEF IsTable
<1>3. Counted(o.induction_vars, OptiExt(o))
  BY <1>1, <1>2, ExtReg DEF Counted, OptiExt
<1>4. Counted(o.memory_induction_vars, OptiExt(o))
  BY <1>1, <1>2, ExtMem DEF Counted, OptiExt
<1> QED
  BY <1>3, <1>4

LEMMA LastByte == Max(Bytes \cup {-1}) \in Int /\ Max(Bytes \cup {-1}) >= -1
<1> DEFINE S == Bytes \cup {-1}
<1>1. S \subseteq Int /\ IsFiniteSet(S) /\ -1 \in S
  BY VariablesAssumption, FS_AddElement
<1> HIDE DEF S
<1>2. \E x \in S : \A y \in S : x >= y
  BY <1>1, LargestInteger
<1>3. Max(S) \in S /\ \A y \in S : Max(S) >= y
  BY <1>2 DEF Max
<1> QED
  BY <1>1, <1>3 DEF S

LEMMA CollectSound ==
    ASSUME NEW o, SoundOpti(o)
    PROVE  SoundOpti(Collect(o)) /\ DOMAIN Collect(o).heap \subseteq DOMAIN o.heap
<1> DEFINE ext == OptiExt(o)
           regs == CollectTable(o.heap, o.induction_vars, o.len - 1)
           last == Max(Bytes \cup {-1})
           heap == CollectTable(regs, o.memory_induction_vars, last)
           new == Collect(o)
<1>1. /\ IsOpti(o) /\ Sound(o.heap, ext) /\ o.len - 1 \in Int /\ o.len - 1 >= -1
      /\ IsTable(o.induction_vars, Regs) /\ IsTable(o.memory_induction_vars, Bytes)
  BY DEF SoundOpti, IsOpti
<1>2. Counted(o.induction_vars, ext) /\ Counted(o.memory_induction_vars, ext)
  BY TablesCounted
<1>4. regs \in Shrunk(o.heap, ext)
  <2> HIDE DEF ext
  <2> QED
    BY <1>1, <1>2, CollectTableSound
<1>5. last \in Int /\ last >= -1
  BY LastByte
<1> HIDE DEF regs, last
<1>6. Sound(regs, ext) /\ DOMAIN regs \subseteq DOMAIN o.heap
  BY <1>4, ShrunkFact
<1>7. heap \in Shrunk(regs, ext)
  <2> HIDE DEF ext
  <2> QED
    BY <1>2, <1>5, <1>6, CollectTableSound
<1> HIDE DEF heap
<1>8. Sound(heap, ext) /\ DOMAIN heap \subseteq DOMAIN o.heap
  BY <1>6, <1>7, ShrunkFact
<1>9. new = [o EXCEPT !.heap = heap, !.IVE_gc_interval = GCInterval]
  BY DEF Collect, heap, regs, last
<1> HIDE DEF new
<1>10. /\ new \in [heap : {heap}, induction_vars : {o.induction_vars}, len : Nat,
                   memory_induction_vars : {o.memory_induction_vars},
                   IVE_gc_interval : 0..GCInterval]
       /\ new.heap = heap /\ new.induction_vars = o.induction_vars /\ new.len = o.len
       /\ new.memory_induction_vars = o.memory_induction_vars
  <2>1. GCInterval \in 0..GCInterval
    BY VariablesAssumption
  <2> QED
    BY <1>1, <1>9, <2>1 DEF IsOpti
<1>11. IsOpti(new)
  BY <1>1, <1>10 DEF IsOpti
<1>12. OptiExt(new) = ext
  BY <1>10 DEF OptiExt
<1> QED
  BY <1>8, <1>10, <1>11, <1>12 DEF SoundOpti, new

----------------------------------------------------------------------------
\* The links.

LEMMA LinkSound ==
    ASSUME NEW o, SoundOpti(o), NEW dest_reg \in Regs, NEW src_reg \in Regs
    PROVE  SoundOpti(Link(o, dest_reg, src_reg))
           /\ DOMAIN Link(o, dest_reg, src_reg).heap \subseteq DOMAIN o.heap
<1> DEFINE parent == Entry(o, src_reg)
           heap == Ref(o.heap, parent, 1)
<1>1. IsOpti(o) /\ Sound(o.heap, OptiExt(o)) /\ parent \in DOMAIN o.heap \cup {NULL}
      /\ parent \in Nodes \cup {NULL}
  BY TablesFact, EntryFact DEF SoundOpti
<1>2. Link(o, dest_reg, src_reg) = Point(o, heap, dest_reg, parent)
  BY DEF Link
<1> HIDE DEF parent
<1>3. Sound(heap, Plus(OptiExt(o), parent, 1)) /\ DOMAIN heap = DOMAIN o.heap
  BY <1>1, RefSound
<1> HIDE DEF heap
<1> QED
  BY <1>1, <1>2, <1>3, PointSound

LEMMA LinkFromMemSound ==
    ASSUME NEW o, SoundOpti(o), NEW dest_reg \in Regs, NEW a, a[1] \in Bytes
    PROVE  SoundOpti(LinkFromMem(o, dest_reg, a))
           /\ DOMAIN LinkFromMem(o, dest_reg, a).heap \subseteq DOMAIN o.heap
<1> DEFINE parent == o.memory_induction_vars[a[1]]
           heap == Ref(o.heap, parent, 1)
<1>1. IsOpti(o) /\ Sound(o.heap, OptiExt(o)) /\ parent \in DOMAIN o.heap \cup {NULL}
      /\ parent \in Nodes \cup {NULL}
  BY TablesFact DEF SoundOpti, IsOpti, IsTable
<1>2. LinkFromMem(o, dest_reg, a) = Point(o, heap, dest_reg, parent)
  BY DEF LinkFromMem
<1> HIDE DEF parent
<1>3. Sound(heap, Plus(OptiExt(o), parent, 1)) /\ DOMAIN heap = DOMAIN o.heap
  BY <1>1, RefSound
<1> HIDE DEF heap
<1> QED
  BY <1>1, <1>2, <1>3, PointSound

LEMMA ChainSound ==
    ASSUME NEW o, SoundOpti(o), NEW dest_reg \in Regs, NEW src_reg \in Regs,
           NEW info \in Infos \cup {Start}, Room(o, 1)
    PROVE  SoundOpti(Chain(o, dest_reg, src_reg, info))
<1> DEFINE parent == Entry(o, src_reg)
           node == Fresh(o.heap)
           heap == Ref(Allocate(o.heap, node, parent, info), parent, 1)
           linked == Point(o, heap, dest_reg, node)
           new == Chain(o, dest_reg, src_reg, info)
<1>1. IsOpti(o) /\ Sound(o.heap, OptiExt(o)) /\ parent \in DOMAIN o.heap \cup {NULL}
      /\ IsHeap(o.heap)
  BY TablesFact DEF SoundOpti, Sound, Tree
<1>2. node \in Nodes /\ node \notin DOMAIN o.heap
  BY <1>1, FreshFact DEF Room
<1>3. /\ new = IF o.IVE_gc_interval = 0 THEN Collect(linked)
               ELSE [linked EXCEPT !.IVE_gc_interval = @ - 1]
      /\ linked.IVE_gc_interval = o.IVE_gc_interval
  <2>1. linked.IVE_gc_interval = o.IVE_gc_interval
    BY <1>1 DEF Point, IsOpti
  <2> QED
    BY <2>1 DEF Chain
<1> HIDE DEF parent, node, new
<1>4. Sound(heap, Plus(OptiExt(o), node, 1))
  <2>1. PICK g : g = heap
    OBVIOUS
  <2>2. Sound(g, Plus(OptiExt(o), node, 1))
    BY <1>1, <1>2, <2>1, AllocateSound
  <2> QED
    BY <2>1, <2>2
<1> HIDE DEF heap
<1>5. SoundOpti(linked)
  BY <1>1, <1>2, <1>4, PointSound
<1> HIDE DEF linked
<1>6. CASE o.IVE_gc_interval = 0
  BY <1>3, <1>5, <1>6, CollectSound DEF new
<1>7. CASE o.IVE_gc_interval # 0
  <2>1. new = [linked EXCEPT !.IVE_gc_interval = @ - 1]
    BY <1>3, <1>7
  <2>2. IsOpti(linked) /\ Sound(linked.heap, OptiExt(linked))
    BY <1>5 DEF SoundOpti
  <2>3. linked.IVE_gc_interval \in 0..GCInterval /\ linked.IVE_gc_interval # 0
    BY <1>3, <1>7, <2>2 DEF IsOpti
  <2>4. linked.IVE_gc_interval - 1 \in 0..GCInterval
    BY <2>3, VariablesAssumption
  <2>5. /\ new \in [heap : {linked.heap}, induction_vars : {linked.induction_vars}, len : Nat,
                    memory_induction_vars : {linked.memory_induction_vars},
                    IVE_gc_interval : 0..GCInterval]
        /\ new.heap = linked.heap /\ new.induction_vars = linked.induction_vars
        /\ new.len = linked.len /\ new.memory_induction_vars = linked.memory_induction_vars
    BY <2>1, <2>2, <2>4 DEF IsOpti
  <2>6. IsOpti(new) /\ OptiExt(new) = OptiExt(linked)
    BY <2>2, <2>5 DEF IsOpti, OptiExt
  <2> QED
    BY <2>2, <2>5, <2>6 DEF SoundOpti, new
<1> QED
  BY <1>6, <1>7

----------------------------------------------------------------------------
\* A byte is given another node, as a predicate.
MemMoved(iv, mv, b, node, nv) ==
    /\ Ext(iv, nv) = Plus(Plus(Ext(iv, mv), node, 1), mv[b], -1)
    /\ mv[b] # NULL => Ext(iv, mv)[mv[b]] >= 1
    /\ mv[b] \in Nodes \cup {NULL}

LEMMA ExtMemTo ==
    ASSUME NEW iv, NEW mv, IsTable(iv, Regs), IsTable(mv, Bytes), NEW b \in Bytes,
           NEW node \in Nodes \cup {NULL}, NEW nv, nv = [mv EXCEPT ![b] = node]
    PROVE  MemMoved(iv, mv, b, node, nv)
<1>1. IsTable(nv, Bytes)
  BY DEF IsTable
<1>2. EntryMoved(mv, iv, b, node, nv)
  BY ExtEntry, TablesFinite
<1>3. Ext(iv, mv) = Ext(mv, iv) /\ Ext(iv, nv) = Ext(nv, iv)
  BY <1>1, ExtSwap, TablesFinite
<1> QED
  BY <1>2, <1>3 DEF EntryMoved, MemMoved

\* A heap with fewer nodes, which have other counts at most.
Below(g, h) ==
    /\ DOMAIN g \subseteq DOMAIN h
    /\ \A n \in DOMAIN g : g[n].parent = h[n].parent /\ g[n].info = h[n].info

LEMMA UnrefBelow ==
    ASSUME NEW h, Tree(h), NEW n
    PROVE  Below(Unref(h, n), h)
<1> DEFINE g == Unref(h, n)
<1>1. /\ DOMAIN g \subseteq DOMAIN h
      /\ \A m \in DOMAIN g : g[m] = h[m] \/ g[m] = [h[m] EXCEPT !.ref_count = @ - 1]
  BY DEF Unref
<1>2. \A m \in DOMAIN h : h[m] \in IVENode
  BY HeapFact DEF Tree
<1> HIDE DEF g
<1>3. \A m \in DOMAIN h : LET v == [h[m] EXCEPT !.ref_count = @ - 1]
                          IN  v.parent = h[m].parent /\ v.info = h[m].info
  BY <1>2 DEF IVENode
<1> QED
  BY <1>1, <1>3 DEF Below, g

LEMMA RefBelow ==
    ASSUME NEW h, IsHeap(h), NEW n \in DOMAIN h \cup {NULL}, NEW k \in Nat
    PROVE  Below(Ref(h, n, k), h) /\ Below(h, Ref(h, n, k)) /\ DOMAIN Ref(h, n, k) = DOMAIN h
<1> DEFINE g == Ref(h, n, k)
<1>1. /\ DOMAIN g = DOMAIN h
      /\ \A m \in DOMAIN g : g[m] = h[m] \/ g[m] = [h[m] EXCEPT !.ref_count = @ + k]
  <2>1. CASE n = NULL
    BY <2>1 DEF Ref
  <2>2. CASE n # NULL
    <3>1. h = [m \in DOMAIN h |-> h[m]] /\ g = [h EXCEPT ![n].ref_count = @ + k]
      BY <2>2 DEF Ref, IsHeap
    <3> QED
      BY <3>1
  <2> QED
    BY <2>1, <2>2
<1>2. \A m \in DOMAIN h : h[m] \in IVENode
  BY HeapFact
<1> HIDE DEF g
<1>3. \A m \in DOMAIN h : LET v == [h[m] EXCEPT !.ref_count = @ + k]
                          IN  v.parent = h[m].parent /\ v.info = h[m].info
  BY <1>2 DEF IVENode
<1> QED
  BY <1>1, <1>3 DEF Below, g

\* The sound ones of these.
Lower(h, ext) ==
    {g \in UNION {[D -> IVENode] : D \in SUBSET Nodes} : Sound(g, ext) /\ Below(g, h)}

LEMMA LowerFact ==
    ASSUME NEW h, NEW ext, NEW g
    PROVE  g \in Lower(h, ext) <=> Sound(g, ext) /\ Below(g, h)
<1>1. Sound(g, ext) => g \in UNION {[D -> IVENode] : D \in SUBSET Nodes}
  <2>1. Sound(g, ext) => g \in [DOMAIN g -> IVENode] /\ DOMAIN g \in SUBSET Nodes
    BY DEF Sound, Tree, IsHeap
  <2> QED
    BY <2>1
<1> QED
  BY <1>1 DEF Lower

\* After a store of node to the bytes of a.
StoredTo(o, a, node, new) ==
    /\ SoundOpti(new) /\ Below(new.heap, o.heap)
    /\ new.induction_vars = o.induction_vars
    /\ new.memory_induction_vars =
          [b \in Bytes |-> IF b \in BytesOf(a) THEN node ELSE o.memory_induction_vars[b]]

(***************************************************************************)
(* A store: the new pointers are counted at once, then byte by byte an old *)
(* one is released and one of the new ones is put into the table.          *)
(***************************************************************************)
LEMMA LinkToMemSound ==
    ASSUME NEW o, SoundOpti(o), NEW a \in Accesses, NEW src_reg \in Regs
    PROVE  StoredTo(o, a, Entry(o, src_reg), LinkToMem(o, a, src_reg))
<1> DEFINE parent == Entry(o, src_reg)
           first == a[1] - 1
           last == a[1] + a[2] - 1
           iv == o.induction_vars
           mv == o.memory_induction_vars
           mem(b) == [x \in Bytes |-> IF x \in a[1]..b THEN parent ELSE mv[x]]
           ext(b) == Plus(Ext(iv, mem(b)), parent, last - b)
           D == (first + 1)..last
           up == Before(first, last)
           h0 == Ref(o.heap, parent, a[2])
           W == [b \in D \cup {first} |-> Lower(o.heap, ext(b))]
           step == [b \in D |-> [g \in W[b - 1] |-> Unref(g, mv[b])]]
           R(f) == f = [b \in first..last |->
                           IF b < a[1] THEN h0 ELSE Unref(f[b - 1], mv[b])]
           new == LinkToMem(o, a, src_reg)
<1>1. /\ IsOpti(o) /\ Sound(o.heap, OptiExt(o)) /\ IsTable(iv, Regs) /\ IsTable(mv, Bytes)
      /\ parent \in DOMAIN o.heap \cup {NULL} /\ parent \in Nodes \cup {NULL}
  BY TablesFact, EntryFact DEF SoundOpti, IsOpti
<1>2. /\ a[1] \in Nat /\ a[2] \in Nat \ {0} /\ D \subseteq Bytes /\ D = BytesOf(a)
      /\ first \in Int /\ last \in Int /\ first < last
  <2>1. a[1] \in Nat /\ a[2] \in Nat \ {0} /\ a[1]..(a[1] + a[2] - 1) \subseteq Bytes
    BY VariablesAssumption
  <2> QED
    BY <2>1 DEF BytesOf
<1>3. /\ \A b \in D : b - 1 \in D \cup {first} /\ b # first /\ up[b] = b - 1 /\ ~ (b < a[1])
                      /\ b \in Bytes /\ b \in Int
      /\ first < a[1] /\ first..last = D \cup {first} /\ last \in D \cup {first}
      /\ a[1]..last = BytesOf(a)
  <2>1. first = a[1] - 1 /\ D = a[1]..last /\ a[1] \in Int /\ a[1] <= last
    BY <1>2
  <2>2. first < a[1] /\ last \in D /\ a[1]..last = BytesOf(a)
    BY <1>2, <2>1
  <2>3. first..last = D \cup {first}
    BY <1>2, <2>1
  <2>4. ASSUME NEW b \in D
        PROVE  /\ b - 1 \in D \cup {first} /\ b # first /\ up[b] = b - 1
               /\ ~ (b < a[1]) /\ b \in Bytes /\ b \in Int
    <3>1. b \in Int /\ b >= a[1] /\ b <= last /\ b \in Bytes
      BY <1>2, <2>1
    <3>2. b # first /\ ~ (b < a[1])
      BY <2>1, <3>1
    <3>3. b - 1 \in D \cup {first}
      BY <1>2, <2>1, <3>1
    <3>4. up[b] = b - 1
      BY DEF Before
    <3> QED
      BY <3>1, <3>2, <3>3, <3>4
  <2> QED
    BY <2>2, <2>3, <2>4
<1>4. \A b : IsTable(mem(b), Bytes)
  BY <1>1 DEF IsTable
<1>5. ASSUME NEW b \in D
      PROVE  mem(b) = [mem(b - 1) EXCEPT ![b] = parent] /\ mem(b - 1)[b] = mv[b]
  <2>1. b \in Bytes /\ b \in Int /\ ~ (b < a[1]) /\ a[1] \in Int
    BY <1>2, <1>3
  <2>2. b \notin a[1]..(b - 1)
    BY <2>1
  <2>3. a[1]..b = (a[1]..(b - 1)) \cup {b}
    BY <2>1
  <2> QED
    BY <2>1, <2>2, <2>3
<1>6. Forest(D, up, first)
  BY <1>2, IntervalForest
<1> HIDE DEF parent, first, last, iv, mv, D, up
<1>7. ASSUME NEW b \in D, NEW g \in Lower(o.heap, ext(b - 1))
      PROVE  Unref(g, mv[b]) \in Lower(o.heap, ext(b))
  <2>1. PICK m, n : m = mem(b - 1) /\ n = mem(b)
    OBVIOUS
  <2>2. IsTable(m, Bytes) /\ n = [m EXCEPT ![b] = parent] /\ m[b] = mv[b] /\ b \in Bytes
    BY <1>3, <1>4, <1>5, <2>1
  <2>3. PICK e : e = Ext(iv, m)
    OBVIOUS
  <2>4. /\ Ext(iv, n) = Plus(Plus(e, parent, 1), mv[b], -1)
        /\ mv[b] # NULL => e[mv[b]] >= 1
        /\ mv[b] \in Nodes \cup {NULL}
        /\ e \in [Nodes -> Nat]
    <3>1. e \in [Nodes -> Nat]
      BY <1>1, <2>2, <2>3, ExtType, TablesFinite
    <3>2. IsTable(iv, Regs) /\ parent \in Nodes \cup {NULL}
      BY <1>1
    <3>3. MemMoved(iv, m, b, parent, n)
      BY <2>2, <3>2, ExtMemTo
    <3> QED
      BY <2>2, <2>3, <3>1, <3>3 DEF MemMoved
  <2>5. last - b \in Nat /\ last - (b - 1) = last - b + 1
    BY <1>2, <1>3 DEF D
  <2>6. PICK k \in Nat : k = last - b
    BY <2>5
  <2>7. ext(b - 1) = Plus(e, parent, k + 1) /\ ext(b) = Plus(Ext(iv, n), parent, k)
    BY <2>1, <2>3, <2>5, <2>6
  <2> HIDE DEF ext
  <2>8. Plus(Plus(e, parent, k + 1), mv[b], -1) = Plus(Ext(iv, n), parent, k)
    BY <2>4 DEF Plus
  <2>9. PICK x : x = Plus(e, parent, k + 1)
    OBVIOUS
  <2>10. mv[b] # NULL => x[mv[b]] >= 1
    BY <2>4, <2>9 DEF Plus
  <2>11. Sound(g, x) /\ Below(g, o.heap) /\ Tree(g)
    BY <2>7, <2>9, LowerFact DEF Sound
  <2>12. Released(g, x, mv[b])
    BY <2>4, <2>10, <2>11, PointedFact, UnrefSound
  <2>13. Sound(Unref(g, mv[b]), ext(b))
    BY <2>7, <2>8, <2>9, <2>12 DEF Released
  <2>14. Below(Unref(g, mv[b]), g)
    BY <2>11, UnrefBelow
  <2>15. Below(Unref(g, mv[b]), o.heap)
    BY <2>11, <2>14 DEF Below
  <2> QED
    BY <2>13, <2>15, LowerFact
<1>8. h0 \in Lower(o.heap, ext(first))
  <2>1. mem(first) = mv
    <3>1. a[1]..first = {}
      BY <1>2 DEF first
    <3>2. mv = [x \in Bytes |-> mv[x]]
      BY <1>1 DEF IsTable
    <3> QED
      BY <3>1, <3>2
  <2>2. last - first = a[2]
    BY <1>2 DEF first, last
  <2>3. ext(first) = Plus(OptiExt(o), parent, a[2])
    BY <2>1, <2>2 DEF OptiExt, iv, mv
  <2> HIDE DEF ext
  <2>4. a[2] \in Nat
    BY <1>2
  <2>5. Sound(h0, Plus(OptiExt(o), parent, a[2])) /\ Below(h0, o.heap)
    <3> HIDE DEF h0
    <3>1. h0 = Ref(o.heap, parent, a[2])
      BY DEF h0
    <3>2. Sound(h0, Plus(OptiExt(o), parent, a[2]))
      BY <1>1, <2>4, <3>1, RefSound
    <3>3. IsHeap(o.heap)
      BY <1>1 DEF Sound, Tree
    <3> QED
      BY <1>1, <2>4, <3>1, <3>2, <3>3, RefBelow
  <2> QED
    BY <2>3, <2>5, LowerFact
<1>9. /\ \A b \in D \cup {first} : W[b] = Lower(o.heap, ext(b))
      /\ \A b \in D : W[b - 1] = Lower(o.heap, ext(b - 1))
  BY <1>3
<1> HIDE DEF W, ext, h0
<1>10. Steps(D, up, first, W, h0, step)
  <2>1. ASSUME NEW b \in D, NEW v \in W[up[b]] PROVE step[b][v] \in W[b]
    <3>1. up[b] = b - 1
      BY <1>3
    <3>2. v \in W[b - 1] /\ v \in Lower(o.heap, ext(b - 1))
      BY <1>9, <2>1, <3>1
    <3>3. step[b][v] = Unref(v, mv[b])
      BY <3>2
    <3> QED
      BY <1>7, <1>9, <3>2, <3>3
  <2> HIDE DEF step
  <2> QED
    BY <1>8, <1>9, <2>1 DEF Steps
<1>11. PICK f : GoesUp(D, up, first, W, h0, step, f)
  <2> HIDE DEF step
  <2> QED
    BY <1>6, <1>10, ForestRecursion
<1>12. /\ f = [b \in D \cup {first} |-> f[b]] /\ f[first] = h0
       /\ \A b \in D \cup {first} : f[b] \in W[b]
       /\ \A b \in D : f[b] = Unref(f[b - 1], mv[b])
  <2>1. /\ f = [b \in D \cup {first} |-> f[b]] /\ f[first] = h0
        /\ \A b \in D \cup {first} : f[b] \in W[b]
    BY <1>8, <1>9, <1>11 DEF GoesUp
  <2>2. ASSUME NEW b \in D PROVE f[b] = Unref(f[b - 1], mv[b])
    <3>1. f[b] = step[b][f[b - 1]] /\ f[b - 1] \in W[b - 1]
      BY <1>3, <1>11, <2>1 DEF GoesUp
    <3> QED
      BY <3>1
  <2> QED
    BY <2>1, <2>2
<1>13. R(f)
  <2>1. \A b \in D \cup {first} : f[b] = IF b < a[1] THEN h0 ELSE Unref(f[b - 1], mv[b])
    BY <1>3, <1>12
  <2> QED
    BY <1>3, <1>12, <2>1
<1>14. PICK r : r = (CHOOSE g : R(g))
  OBVIOUS
<1>15. R(r)
  <2> HIDE DEF R
  <2> QED
    BY <1>13, <1>14
<1>16. new = [o EXCEPT !.heap = r[last],
                       !.memory_induction_vars =
                          [b \in Bytes |-> IF b \in BytesOf(a) THEN parent ELSE mv[b]]]
  BY <1>14 DEF LinkToMem, parent, first, last, mv, h0
<1>17. \A b \in D \cup {first} : r[b] = f[b]
  <2>1. r[first] = h0 /\ \A b \in D : r[b] = Unref(r[b - 1], mv[b])
    BY <1>3, <1>15
  <2>2. \A b \in D : r[up[b]] = f[up[b]] => r[b] = f[b]
    <3> SUFFICES ASSUME NEW b \in D, r[up[b]] = f[up[b]] PROVE r[b] = f[b]
      OBVIOUS
    <3>1. PICK v : v = r[b - 1] /\ v = f[b - 1]
      BY <1>3
    <3>2. r[b] = Unref(v, mv[b]) /\ f[b] = Unref(v, mv[b])
      BY <1>12, <2>1, <3>1
    <3> QED
      BY <3>2
  <2>3. r[first] = f[first]
    BY <1>12, <2>1
  <2>4. PICK g : g = r
    OBVIOUS
  <2> HIDE DEF R, D, up, h0
  <2>5. \A b \in D : g[up[b]] = f[up[b]] => g[b] = f[b]
    BY <2>2, <2>4
  <2>6. g[first] = f[first]
    BY <2>3, <2>4
  <2>7. \A b \in D \cup {first} : g[b] = f[b]
    BY <1>6, <2>5, <2>6, ForestUnique
  <2> QED
    BY <2>4, <2>7
<1>18. Sound(r[last], ext(last)) /\ Below(r[last], o.heap)
  <2>1. r[last] \in Lower(o.heap, ext(last))
    <3>1. last \in D \cup {first}
      BY <1>3
    <3>2. r[last] = f[last] /\ W[last] = Lower(o.heap, ext(last))
      BY <1>9, <1>17, <3>1
    <3>3. f[last] \in W[last]
      BY <1>12, <3>1
    <3> QED
      BY <3>2, <3>3
  <2> QED
    BY <2>1, LowerFact
<1>19. ext(last) = Ext(iv, mem(last))
  <2>1. PICK e : e = Ext(iv, mem(last))
    OBVIOUS
  <2>2. e \in [Nodes -> Nat]
    BY <1>1, <1>4, <2>1, ExtType, TablesFinite
  <2>3. last - last = 0
    BY <1>2
  <2>4. Plus(e, parent, 0) = e
    BY <2>2 DEF Plus
  <2> QED
    BY <2>1, <2>3, <2>4 DEF ext
<1>20. PICK m : m = mem(last)
  OBVIOUS
<1>21. new = [o EXCEPT !.heap = r[last], !.memory_induction_vars = m]
  BY <1>3, <1>16, <1>20
<1>22. IsTable(m, Bytes)
  BY <1>4, <1>20
<1> HIDE DEF new
<1>23. /\ new \in [heap : {r[last]}, induction_vars : {o.induction_vars}, len : Nat,
                   memory_induction_vars : {m}, IVE_gc_interval : 0..GCInterval]
       /\ new.heap = r[last] /\ new.induction_vars = o.induction_vars /\ new.len = o.len
       /\ new.memory_induction_vars = m
  BY <1>1, <1>21 DEF IsOpti
<1>24. IsOpti(new) /\ OptiExt(new) = Ext(iv, m)
  BY <1>1, <1>22, <1>23 DEF IsOpti, OptiExt, iv
<1>25. m = [b \in Bytes |-> IF b \in BytesOf(a) THEN parent ELSE mv[b]]
  BY <1>3, <1>20
<1>26. SoundOpti(new) /\ Below(new.heap, o.heap)
  BY <1>18, <1>19, <1>20, <1>23, <1>24 DEF SoundOpti
<1> QED
  BY <1>23, <1>25, <1>26 DEF StoredTo, new, mv, parent

----------------------------------------------------------------------------
\* adamant_IVE_read

LEMMA FoundSound ==
    ASSUME NEW o, SoundOpti(o), NEW reg \in Regs, Room(o, 2), ~ ReadFails(o, reg)
    PROVE  /\ SoundOpti(Found(o, reg)) /\ Room(Found(o, reg), 1)
           /\ Found(o, reg).induction_vars[reg] \in DOMAIN Found(o, reg).heap
<1>1. IsOpti(o) /\ IsHeap(o.heap) /\ Cardinality(DOMAIN o.heap) \in Nat /\ NodeBound \in Nat
  BY LargerFact, VariablesAssumption DEF SoundOpti, Sound, Tree
<1>2. CASE reg > o.len \/ Entry(o, reg) = NULL
  <2>1. Room(o, 1) /\ Start \in Infos \cup {Start}
    BY <1>1 DEF Room
  <2>2. ResetTo(o, reg, Reset(o, reg, Start))
    BY <2>1, ResetSound
  <2>3. Found(o, reg) = Reset(o, reg, Start)
    BY <1>2 DEF Found
  <2>4. PICK new : new = Found(o, reg)
    OBVIOUS
  <2>5. /\ SoundOpti(new) /\ new.induction_vars[reg] \in DOMAIN new.heap
        /\ Cardinality(DOMAIN new.heap) <= Cardinality(DOMAIN o.heap) + 1
    BY <2>2, <2>3, <2>4 DEF ResetTo, Larger
  <2>6. Cardinality(DOMAIN new.heap) \in Nat
    <3>1. IsHeap(new.heap)
      BY <2>5 DEF SoundOpti, Sound, Tree
    <3> QED
      BY <3>1, LargerFact
  <2>7. Room(new, 1)
    BY <1>1, <2>5, <2>6 DEF Room
  <2> QED
    BY <2>4, <2>5, <2>7
<1>3. CASE ~ (reg > o.len \/ Entry(o, reg) = NULL)
  <2>1. Found(o, reg) = o
    BY <1>3 DEF Found
  <2>2. Room(o, 1)
    BY <1>1 DEF Room
  <2>3. o.induction_vars[reg] \in DOMAIN o.heap
    BY <1>1, <1>3, EntryFact, TablesFact
  <2> QED
    BY <2>1, <2>2, <2>3
<1> QED
  BY <1>2, <1>3

LEMMA ReadInfoFact ==
    ASSUME NEW o, Tree(o.heap), NEW reg, o.induction_vars[reg] \in DOMAIN o.heap,
           unroll_factor \in Nat
    PROVE  /\ ReadInfo(o, reg) \in Infos \cup {Start}
           /\ \E back : /\ ReadInfo(o, reg) = back[o.induction_vars[reg]][1]
                        /\ \A n \in DOMAIN o.heap, i \in 1..(unroll_factor + 1) :
                              back[n][i] = IF o.heap[n].parent # NULL /\ i < unroll_factor
                                           THEN back[o.heap[n].parent][i + 1] ELSE o.heap[n].info
<1> DEFINE h == o.heap
           D == DOMAIN h
           I == 1..(unroll_factor + 1)
           V == [I -> Infos \cup {Start}]
           Back(n, v) == [i \in I |-> IF h[n].parent # NULL /\ i < unroll_factor
                                      THEN v[i + 1] ELSE h[n].info]
           step == [n \in D |-> [v \in V |-> Back(n, v)]]
           R(f) == f = [n \in D |-> [i \in I |-> IF h[n].parent # NULL /\ i < unroll_factor
                                                 THEN f[h[n].parent][i + 1] ELSE h[n].info]]
           v0 == [i \in I |-> Start]
<1>1. /\ Tree(h) /\ IsHeap(h) /\ NULL \notin D
      /\ \A n \in D : h[n].info \in Infos \cup {Start} /\ h[n].parent \in D \cup {NULL}
  BY HeapFact DEF Tree
<1>2. 1 \in I /\ \A i \in I : i < unroll_factor => i + 1 \in I
  OBVIOUS
<1>3. \A n \in D : \A v \in V : Back(n, v) \in V
  BY <1>1, <1>2
<1>4. PICK f : /\ f \in [D \cup {NULL} -> V] /\ f[NULL] = v0
               /\ \A n \in D : f[n] = step[n][f[h[n].parent]]
  <2>1. step \in [D -> [V -> V]] /\ v0 \in V
    BY <1>3
  <2>2. \E f : Climbs(h, V, v0, step, f)
    <3> HIDE DEF step, V, v0, h
    <3> QED
      BY <1>1, <2>1, TreeRecursion
  <2> QED
    BY <2>2 DEF Climbs
<1>5. \A n \in D : f[n] = Back(n, f[h[n].parent]) /\ f[n] \in V
  BY <1>1, <1>4
<1> HIDE DEF h, D, I, V
<1>6. R([n \in D |-> f[n]])
  <2> DEFINE g == [n \in D |-> f[n]]
  <2>1. ASSUME NEW n \in D
        PROVE  f[n] = [i \in I |-> IF h[n].parent # NULL /\ i < unroll_factor
                                   THEN g[h[n].parent][i + 1] ELSE h[n].info]
    <3>1. CASE h[n].parent = NULL
      BY <1>5, <3>1
    <3>2. CASE h[n].parent # NULL
      <4>1. g[h[n].parent] = f[h[n].parent]
        BY <1>1, <3>2
      <4> HIDE DEF g
      <4> QED
        BY <1>5, <4>1
    <3> QED
      BY <3>1, <3>2
  <2> QED
    BY <2>1
<1>7. PICK r : r = (CHOOSE g : R(g))
  OBVIOUS
<1>8. R(r)
  <2> HIDE DEF R
  <2> QED
    BY <1>6, <1>7
<1>9. ReadInfo(o, reg) = r[o.induction_vars[reg]][1]
  BY <1>7 DEF ReadInfo, h, D, I
<1>10. \A n \in D : r[n] = [i \in I |-> IF h[n].parent # NULL /\ i < unroll_factor
                                       THEN r[h[n].parent][i + 1] ELSE h[n].info]
  BY <1>8
<1> HIDE DEF R
<1>11. ASSUME NEW n \in D, h[n].parent \in D => r[h[n].parent] = f[h[n].parent]
       PROVE  r[n] = f[n]
  <2>1. CASE h[n].parent = NULL
    BY <1>5, <1>10, <2>1
  <2>2. CASE h[n].parent # NULL
    <3>1. PICK v : v = r[h[n].parent] /\ v = f[h[n].parent]
      BY <1>1, <1>11, <2>2
    <3>2. r[n] = Back(n, v)
      BY <1>10, <3>1
    <3> QED
      BY <1>5, <3>1, <3>2
  <2> QED
    BY <2>1, <2>2
<1>12. ASSUME NEW n \in D PROVE r[n] = f[n]
  <2> DEFINE S == {m \in D : r[m] # f[m]}
  <2>1. ASSUME S # {} PROVE FALSE
    <3>1. PICK m \in S : h[m].parent \notin S
      BY <1>1, <2>1 DEF Tree, NoCircle, D
    <3> QED
      BY <1>11, <3>1
  <2> QED
    BY <2>1
<1>13. r[o.induction_vars[reg]] \in V
  BY <1>5, <1>12 DEF D, h
<1>14. ASSUME NEW n \in D, NEW i \in I
       PROVE  r[n][i] = IF h[n].parent # NULL /\ i < unroll_factor
                        THEN r[h[n].parent][i + 1] ELSE h[n].info
  <2>1. PICK v, w : v = r[h[n].parent] /\ w = r[n]
    OBVIOUS
  <2>2. w = [l \in I |-> IF h[n].parent # NULL /\ l < unroll_factor
                         THEN v[l + 1] ELSE h[n].info]
    BY <1>10, <2>1
  <2>3. w[i] = IF h[n].parent # NULL /\ i < unroll_factor THEN v[i + 1] ELSE h[n].info
    BY <2>2
  <2> QED
    BY <2>1, <2>3
<1>15. ReadInfo(o, reg) \in Infos \cup {Start}
  BY <1>2, <1>9, <1>13 DEF V
<1> QED
  BY <1>9, <1>14, <1>15 DEF D, I, h

----------------------------------------------------------------------------
(***************************************************************************)
(* The inductive invariant: the nodes form trees, and each is counted once *)
(* for each child and each entry of the tables.                            *)
(***************************************************************************)
InductionInv ==
    /\ unroll_factor \in UnrollFactors
    /\ SoundOpti(opti)
    /\ source \in Infos \cup {Start}
    /\ status \in {"running", "aborted"}

LEMMA RoomFact ==
    ASSUME NEW o, SoundOpti(o), Room(o, 2)
    PROVE  Room(o, 1)
<1>1. Cardinality(DOMAIN o.heap) \in Nat /\ NodeBound \in Nat
  BY LargerFact, VariablesAssumption DEF SoundOpti, Sound, Tree
<1> QED
  BY <1>1 DEF Room

\* After an operation that allocates nothing, there is as much room.
LEMMA RoomKept ==
    ASSUME NEW o, SoundOpti(o), NEW new, DOMAIN new.heap \subseteq DOMAIN o.heap, Room(o, 1)
    PROVE  Room(new, 1)
<1>1. /\ Cardinality(DOMAIN o.heap) \in Nat /\ NodeBound \in Nat
      /\ Cardinality(DOMAIN new.heap) <= Cardinality(DOMAIN o.heap) + 0
      /\ Cardinality(DOMAIN new.heap) \in Nat
  BY LargerFact, VariablesAssumption DEF SoundOpti, Sound, Tree, Larger
<1> QED
  BY <1>1 DEF Room

LEMMA ReadsFact ==
    ASSUME InductionInv, NEW s \in Regs, Reads(s)
    PROVE  SoundOpti(Found(opti, s)) /\ Room(Found(opti, s), 1) /\ source' \in Infos \cup {Start}
<1>1. Room(opti, 2) /\ SoundOpti(opti) /\ ~ ReadFails(opti, s)
  BY DEF Reads, CanAllocate, Room, InductionInv
<1>2. PICK o : o = Found(opti, s)
  OBVIOUS
<1>3. SoundOpti(o) /\ Room(o, 1) /\ o.induction_vars[s] \in DOMAIN o.heap
  BY <1>1, <1>2, FoundSound
<1>4. Tree(o.heap) /\ unroll_factor \in Nat
  BY <1>3, VariablesAssumption DEF SoundOpti, Sound, InductionInv
<1>5. ReadInfo(o, s) \in Infos \cup {Start}
  BY <1>3, <1>4, ReadInfoFact
<1> QED
  BY <1>2, <1>3, <1>5 DEF Reads

LEMMA InitSound ==
    ASSUME Init
    PROVE  InductionInv
<1>1. /\ opti.heap = <<>> /\ opti.induction_vars = [r \in Regs |-> NULL] /\ opti.len = 0
      /\ opti.memory_induction_vars = [b \in Bytes |-> NULL]
      /\ opti.IVE_gc_interval = GCInterval
      /\ opti \in [heap : {opti.heap}, induction_vars : {opti.induction_vars}, len : Nat,
              memory_induction_vars : {opti.memory_induction_vars},
              IVE_gc_interval : 0..GCInterval]
  BY VariablesAssumption DEF Init
<1>2. DOMAIN opti.heap = {}
  BY <1>1
<1>3. IsTable(opti.induction_vars, Regs) /\ IsTable(opti.memory_induction_vars, Bytes)
  BY <1>1 DEF IsTable
<1>4. IsOpti(opti)
  BY <1>1, <1>3 DEF IsOpti
<1>5. Tree(opti.heap)
  BY <1>1, <1>2 DEF Tree, IsHeap, NoCircle
<1>6. OptiExt(opti) \in [Nodes -> Nat]
  BY <1>3, ExtType, TablesFinite DEF OptiExt
<1>7. \A n \in Nodes : OptiExt(opti)[n] = 0
  <2> TAKE n \in Nodes
  <2>1. At(opti.induction_vars, n) = {} /\ At(opti.memory_induction_vars, n) = {}
    BY <1>1, NodesFact DEF At
  <2>2. Cardinality(At(opti.induction_vars, n)) = 0
        /\ Cardinality(At(opti.memory_induction_vars, n)) = 0
    BY <2>1, FS_EmptySet
  <2> QED
    BY <2>2 DEF OptiExt, Ext
<1>8. Sound(opti.heap, OptiExt(opti))
  BY <1>2, <1>5, <1>6, <1>7 DEF Sound
<1> QED
  BY <1>4, <1>8 DEF InductionInv, SoundOpti, Init

LEMMA AccessFact == \A a \in Accesses : a[1] \in Bytes
<1> SUFFICES ASSUME NEW a \in Accesses PROVE a[1] \in Bytes
  OBVIOUS
<1>1. a[1] \in Nat /\ a[2] \in Nat \ {0} /\ a[1]..(a[1] + a[2] - 1) \subseteq Bytes
  BY VariablesAssumption
<1>2. a[1] \in a[1]..(a[1] + a[2] - 1)
  BY <1>1
<1> QED
  BY <1>1, <1>2

LEMMA NextSound ==
    ASSUME InductionInv, [Next]_vars
    PROVE  InductionInv'
<1>1. /\ SoundOpti(opti) /\ unroll_factor \in UnrollFactors /\ source \in Infos \cup {Start}
      /\ status \in {"running", "aborted"}
  BY DEF InductionInv
<1>2. CanAllocate => Room(opti, 2) /\ Room(opti, 1)
  <2>1. CanAllocate => Room(opti, 2)
    BY DEF CanAllocate, Room
  <2> QED
    BY <1>1, <2>1, RoomFact
<1>3. ASSUME NEW new, SoundOpti(new), opti' = new, UNCHANGED <<unroll_factor, status>>,
             source' \in Infos \cup {Start}
      PROVE  InductionInv'
  <2>1. SoundOpti(opti')
    BY <1>3
  <2> QED
    BY <1>1, <1>3, <2>1 DEF InductionInv, SoundOpti, IsOpti, OptiExt
<1>4. ASSUME NEW d \in Regs, NEW s \in Regs, Mov(d, s) PROVE InductionInv'
  <2>1. Reads(s) /\ opti' = Link(Found(opti, s), d, s) /\ UNCHANGED <<unroll_factor, status>>
    BY <1>4 DEF Mov
  <2>2. SoundOpti(Found(opti, s)) /\ source' \in Infos \cup {Start}
    BY <2>1, ReadsFact
  <2>3. SoundOpti(Link(Found(opti, s), d, s))
    BY <2>2, LinkSound
  <2> QED
    BY <1>3, <2>1, <2>2, <2>3
<1>5. ASSUME NEW d \in Regs, NEW s \in Regs, NEW info \in Infos, Addi(d, s, info)
      PROVE  InductionInv'
  <2>1. /\ Reads(s) /\ opti' = Chain(Found(opti, s), d, s, info)
        /\ UNCHANGED <<unroll_factor, status>>
    BY <1>5 DEF Addi
  <2>2. SoundOpti(Found(opti, s)) /\ Room(Found(opti, s), 1) /\ source' \in Infos \cup {Start}
    BY <2>1, ReadsFact
  <2>3. info \in Infos \cup {Start}
    OBVIOUS
  <2>4. SoundOpti(Chain(Found(opti, s), d, s, info))
    BY <2>2, <2>3, ChainSound
  <2> QED
    BY <1>3, <2>1, <2>2, <2>4
<1>6. ASSUME NEW d \in Regs, NEW info \in Infos, Other(d, info) PROVE InductionInv'
  <2>1. /\ CanAllocate /\ opti' = Reset(opti, d, info) /\ source' = source
        /\ UNCHANGED <<unroll_factor, status>>
    BY <1>6 DEF Other
  <2>2. info \in Infos \cup {Start}
    OBVIOUS
  <2>3. SoundOpti(Reset(opti, d, info))
    BY <1>1, <1>2, <2>1, <2>2, ResetSound DEF ResetTo
  <2> QED
    BY <1>1, <1>3, <2>1, <2>3
<1>7. ASSUME NEW a \in Accesses, NEW s \in Regs, Store(a, s) PROVE InductionInv'
  <2>1. /\ opti' = LinkToMem(opti, a, s) /\ source' = source
        /\ UNCHANGED <<unroll_factor, status>>
    BY <1>7 DEF Store
  <2>2. SoundOpti(LinkToMem(opti, a, s))
    BY <1>1, LinkToMemSound DEF StoredTo
  <2> QED
    BY <1>1, <1>3, <2>1, <2>2
<1>8. ASSUME NEW a \in Accesses, NEW s \in Regs, NEW base \in Regs, NEW info \in Infos,
             StoreUpdate(a, s, base, info)
      PROVE  InductionInv'
  <2>1. /\ CanAllocate /\ opti' = LinkToMem(Reset(opti, base, info), a, s) /\ source' = source
        /\ UNCHANGED <<unroll_factor, status>>
    BY <1>8 DEF StoreUpdate
  <2>2. info \in Infos \cup {Start}
    OBVIOUS
  <2>3. SoundOpti(Reset(opti, base, info))
    BY <1>1, <1>2, <2>1, <2>2, ResetSound DEF ResetTo
  <2>4. SoundOpti(LinkToMem(Reset(opti, base, info), a, s))
    BY <2>3, LinkToMemSound DEF StoredTo
  <2> QED
    BY <1>1, <1>3, <2>1, <2>4
<1>9. \A a \in Accesses : a[1] \in Bytes
  BY AccessFact
<1>10. ASSUME NEW a \in Accesses, NEW d \in Regs, Load(a, d) PROVE InductionInv'
  <2>1. /\ opti' = LinkFromMem(opti, d, a) /\ source' = source
        /\ UNCHANGED <<unroll_factor, status>>
    BY <1>10 DEF Load
  <2>2. SoundOpti(LinkFromMem(opti, d, a))
    BY <1>1, <1>9, LinkFromMemSound
  <2> QED
    BY <1>1, <1>3, <2>1, <2>2
<1>11. ASSUME NEW a \in Accesses, NEW d \in Regs, NEW base \in Regs, NEW info \in Infos,
              LoadUpdate(a, d, base, info)
       PROVE  InductionInv'
  <2>1. /\ CanAllocate /\ opti' = Reset(LinkFromMem(opti, d, a), base, info)
        /\ source' = source /\ UNCHANGED <<unroll_factor, status>>
    BY <1>11 DEF LoadUpdate
  <2>2. PICK o : o = LinkFromMem(opti, d, a)
    OBVIOUS
  <2>3. SoundOpti(o) /\ DOMAIN o.heap \subseteq DOMAIN opti.heap
    BY <1>1, <1>9, <2>2, LinkFromMemSound
  <2>4. Room(o, 1) /\ info \in Infos \cup {Start}
    BY <1>1, <1>2, <2>1, <2>3, RoomKept
  <2>5. SoundOpti(Reset(o, base, info))
    BY <2>3, <2>4, ResetSound DEF ResetTo
  <2> QED
    BY <1>1, <1>3, <2>1, <2>2, <2>5
<1>12. ASSUME NEW s \in Regs, Abort(s) PROVE InductionInv'
  BY <1>1, <1>12 DEF Abort, InductionInv, SoundOpti, IsOpti, OptiExt
<1>13. CASE UNCHANGED vars
  BY <1>1, <1>13 DEF vars, InductionInv, SoundOpti, IsOpti, OptiExt
<1>14. CASE Next
  BY <1>4, <1>5, <1>6, <1>7, <1>8, <1>10, <1>11, <1>12, <1>14 DEF Next
<1> QED
  BY <1>13, <1>14

(***************************************************************************)
(* The invariant holds in every state, for any registers, bytes, accesses, *)
(* unroll factors and collection interval.                                 *)
(***************************************************************************)
THEOREM InductionInvariant == Spec => []InductionInv
<1>1. Init => InductionInv
  BY InitSound
<1>2. InductionInv /\ [Next]_vars => InductionInv'
  BY NextSound
<1> QED
  BY <1>1, <1>2, PTL DEF Spec

(***************************************************************************)
(* Type correctness of runtime->opti: each table holds nodes or nothing,   *)
(* and nothing behind the end of the array of registers.                   *)
(***************************************************************************)
THEOREM InductionTypeCorrect == Spec => []TypeOK
<1>1. InductionInv => TypeOK
  <2> SUFFICES ASSUME InductionInv PROVE TypeOK
    OBVIOUS
  <2>1. IsOpti(opti) /\ IsHeap(opti.heap)
    BY DEF InductionInv, SoundOpti, Sound, Tree
  <2>2. opti.len \in Nat /\ opti.IVE_gc_interval \in 0..GCInterval
    BY <2>1 DEF IsOpti
  <2> QED
    BY <2>1, <2>2 DEF TypeOK, InductionInv, IsOpti, IsTable, IsHeap
<1> QED
  BY <1>1, InductionInvariant, PTL

----------------------------------------------------------------------------
\* The counts of RefCounts, which are of all the pointers in one set.

Tagged(tag, S) == {<<tag, x>> : x \in S}

LEMMA TaggedFact ==
    ASSUME NEW tag, NEW S, IsFiniteSet(S)
    PROVE  IsFiniteSet(Tagged(tag, S)) /\ Cardinality(Tagged(tag, S)) = Cardinality(S)
<1> DEFINE F == [x \in S |-> <<tag, x>>]
<1>1. F \in [S -> Tagged(tag, S)] /\ DOMAIN F = S /\ \A a, b \in S : F[a] = F[b] => a = b
  BY DEF Tagged
<1>2. \A t \in Tagged(tag, S) : \E s \in S : F[s] = t
  BY DEF Tagged
<1> HIDE DEF F
<1>3. F \in Injection(S, Tagged(tag, S))
  BY <1>1 DEF Injection, IsInjective
<1>4. F \in Surjection(S, Tagged(tag, S))
  BY <1>1, <1>2 DEF Surjection
<1>5. ExistsBijection(S, Tagged(tag, S))
  BY <1>3, <1>4 DEF ExistsBijection, Bijection
<1> QED
  BY <1>5, FS_Bijection

LEMMA DisjointUnion ==
    ASSUME NEW S, IsFiniteSet(S), NEW T, IsFiniteSet(T), S \cap T = {}
    PROVE  /\ IsFiniteSet(S \cup T)
           /\ Cardinality(S \cup T) = Cardinality(S) + Cardinality(T)
<1>1. /\ IsFiniteSet(S \cup T)
      /\ Cardinality(S \cup T) = Cardinality(S) + Cardinality(T) - Cardinality(S \cap T)
  BY FS_Union
<1>2. Cardinality(S \cap T) = 0
  BY FS_EmptySet
<1>3. Cardinality(S) \in Nat /\ Cardinality(T) \in Nat
  BY FS_CardinalityType
<1> QED
  BY <1>1, <1>2, <1>3

LEMMA PointersCount ==
    ASSUME InductionInv, NEW n \in DOMAIN opti.heap
    PROVE  Cardinality({p \in Pointers : Target(p) = n}) =
              OptiExt(opti)[n] + Cardinality(Children(opti.heap, n))
<1> DEFINE A == At(opti.induction_vars, n)
           B == At(opti.memory_induction_vars, n)
           C == Children(opti.heap, n)
           P == {p \in Pointers : Target(p) = n}
<1>1. /\ IsTable(opti.induction_vars, Regs) /\ IsTable(opti.memory_induction_vars, Bytes)
      /\ IsHeap(opti.heap) /\ n \in Nodes
  BY DEF InductionInv, SoundOpti, IsOpti, Sound, Tree, IsHeap
<1>2. IsFiniteSet(A) /\ IsFiniteSet(B) /\ IsFiniteSet(C)
  BY <1>1, AtFact, TablesFinite, ChildrenFact
<1>3. P = (Tagged("reg", A) \cup Tagged("mem", B)) \cup Tagged("node", C)
  <2>1. /\ \A r \in Regs : Target(<<"reg", r>>) = opti.induction_vars[r]
        /\ \A b \in Bytes : Target(<<"mem", b>>) = opti.memory_induction_vars[b]
        /\ \A m \in DOMAIN opti.heap : Target(<<"node", m>>) = opti.heap[m].parent
    BY DEF Target
  <2>2. DOMAIN opti.induction_vars = Regs /\ DOMAIN opti.memory_induction_vars = Bytes
    BY <1>1 DEF IsTable
  <2>3. ASSUME NEW p \in P
        PROVE  p \in (Tagged("reg", A) \cup Tagged("mem", B)) \cup Tagged("node", C)
    <3>1. p \in Pointers /\ Target(p) = n
      OBVIOUS
    <3> HIDE DEF P
    <3>2. CASE \E r \in Regs : p = <<"reg", r>>
      BY <2>1, <2>2, <3>1, <3>2 DEF Tagged, At
    <3>3. CASE \E b \in Bytes : p = <<"mem", b>>
      BY <2>1, <2>2, <3>1, <3>3 DEF Tagged, At
    <3>4. CASE \E m \in DOMAIN opti.heap : p = <<"node", m>>
      BY <2>1, <3>1, <3>4 DEF Tagged, Children
    <3> QED
      BY <3>1, <3>2, <3>3, <3>4 DEF Pointers
  <2>4. Tagged("reg", A) \subseteq P
    BY <2>1, <2>2 DEF Tagged, At, Pointers
  <2>5. Tagged("mem", B) \subseteq P
    BY <2>1, <2>2 DEF Tagged, At, Pointers
  <2>6. Tagged("node", C) \subseteq P
    BY <2>1 DEF Tagged, Children, Pointers
  <2> HIDE DEF P, A, B, C
  <2> QED
    BY <2>3, <2>4, <2>5, <2>6
<1> HIDE DEF A, B, C, P
<1>4. /\ IsFiniteSet(Tagged("reg", A)) /\ Cardinality(Tagged("reg", A)) = Cardinality(A)
      /\ IsFiniteSet(Tagged("mem", B)) /\ Cardinality(Tagged("mem", B)) = Cardinality(B)
      /\ IsFiniteSet(Tagged("node", C)) /\ Cardinality(Tagged("node", C)) = Cardinality(C)
  BY <1>2, TaggedFact
<1>5. /\ Tagged("reg", A) \cap Tagged("mem", B) = {}
      /\ (Tagged("reg", A) \cup Tagged("mem", B)) \cap Tagged("node", C) = {}
  BY DEF Tagged
<1>6. PICK M : M = Tagged("reg", A) \cup Tagged("mem", B)
  OBVIOUS
<1>7. IsFiniteSet(M) /\ Cardinality(M) = Cardinality(A) + Cardinality(B)
  BY <1>4, <1>5, <1>6, DisjointUnion
<1>8. Cardinality(P) = Cardinality(M) + Cardinality(C)
  BY <1>3, <1>4, <1>5, <1>6, <1>7, DisjointUnion
<1>9. OptiExt(opti)[n] = Cardinality(A) + Cardinality(B)
  BY <1>1 DEF OptiExt, Ext, A, B
<1> QED
  BY <1>7, <1>8, <1>9 DEF P, C

(***************************************************************************)
(* Every count of adamant_IVE_ref and adamant_IVE_unref is exact: no       *)
(* pointer is left to a node that was freed, and no node is left that      *)
(* nothing points to.                                                      *)
(***************************************************************************)
THEOREM InductionCountsAreExact == Spec => []RefCounts
<1>1. InductionInv => RefCounts
  <2> SUFFICES ASSUME InductionInv PROVE RefCounts
    OBVIOUS
  <2>1. SoundOpti(opti) /\ Sound(opti.heap, OptiExt(opti)) /\ Tree(opti.heap)
    BY DEF InductionInv, SoundOpti, Sound
  <2>2. ASSUME NEW p \in Pointers PROVE Target(p) \in DOMAIN opti.heap \cup {NULL}
    <3>1. CASE \E r \in Regs : p = <<"reg", r>>
      <4>1. PICK r \in Regs : p = <<"reg", r>>
        BY <3>1
      <4>2. Target(p) = opti.induction_vars[r]
        BY <4>1 DEF Target
      <4> QED
        BY <2>1, <4>2, TablesFact
    <3>2. CASE \E b \in Bytes : p = <<"mem", b>>
      <4>1. PICK b \in Bytes : p = <<"mem", b>>
        BY <3>2
      <4>2. Target(p) = opti.memory_induction_vars[b]
        BY <4>1 DEF Target
      <4> QED
        BY <2>1, <4>2, TablesFact
    <3>3. CASE \E m \in DOMAIN opti.heap : p = <<"node", m>>
      <4>1. PICK m \in DOMAIN opti.heap : p = <<"node", m>>
        BY <3>3
      <4>2. Target(p) = opti.heap[m].parent
        BY <4>1 DEF Target
      <4> QED
        BY <2>1, <4>2 DEF Tree
    <3> QED
      BY <3>1, <3>2, <3>3 DEF Pointers
  <2>3. ASSUME NEW n \in DOMAIN opti.heap
        PROVE  /\ opti.heap[n].ref_count > 0
               /\ opti.heap[n].ref_count = Cardinality({p \in Pointers : Target(p) = n})
    BY <2>1, PointersCount DEF Sound
  <2> QED
    BY <2>2, <2>3 DEF RefCounts
<1> QED
  BY <1>1, InductionInvariant, PTL

----------------------------------------------------------------------------
(***************************************************************************)
(* Chains as sequences: newest first, and only so many of them.            *)
(***************************************************************************)
Results == Infos \cup {Start}

Take(s, n) == IF Len(s) > n THEN SubSeq(s, 1, n) ELSE s

LEMMA ConsFact ==
    ASSUME NEW S, NEW x \in S, NEW s \in Seq(S), NEW t, t = <<x>> \o s
    PROVE  /\ t \in Seq(S) /\ Len(s) \in Nat /\ Len(t) = Len(s) + 1
           /\ t[1] = x /\ \A i \in 1..Len(s) : t[i + 1] = s[i]
<1> DEFINE e == <<x>>
<1>1. e \in Seq(S) /\ Len(e) = 1 /\ e[1] = x
  OBVIOUS
<1>2. Len(s) \in Nat
  BY LenProperties
<1> HIDE DEF e
<1>3. /\ t \in Seq(S) /\ Len(t) = Len(e) + Len(s)
      /\ \A i \in 1..Len(e) + Len(s) : t[i] = IF i <= Len(e) THEN e[i] ELSE s[i - Len(e)]
  BY <1>1, ConcatProperties DEF e
<1>4. /\ Len(t) = Len(s) + 1
      /\ \A i \in 1..1 + Len(s) : t[i] = IF i <= 1 THEN e[i] ELSE s[i - 1]
  BY <1>1, <1>2, <1>3
<1>5. t[1] = x
  BY <1>1, <1>2, <1>4
<1>6. ASSUME NEW i \in 1..Len(s) PROVE t[i + 1] = s[i]
  <2>1. i + 1 \in 1..1 + Len(s) /\ ~ (i + 1 <= 1) /\ (i + 1) - 1 = i
    BY <1>2
  <2> QED
    BY <1>4, <2>1
<1> QED
  BY <1>2, <1>3, <1>4, <1>5, <1>6

LEMMA TakeFact ==
    ASSUME NEW S, NEW s \in Seq(S), NEW n \in Nat
    PROVE  /\ Take(s, n) \in Seq(S) /\ Len(s) \in Nat
           /\ Len(Take(s, n)) = IF Len(s) > n THEN n ELSE Len(s)
           /\ \A i \in 1..Len(Take(s, n)) : Take(s, n)[i] = s[i]
<1>1. Len(s) \in Nat /\ \A i \in 1..Len(s) : s[i] \in S
  BY LenProperties, ElementOfSeq
<1>2. CASE Len(s) > n
  <2>1. \A i \in 1..n : s[i] \in S
    BY <1>1, <1>2
  <2>2. /\ SubSeq(s, 1, n) \in Seq(S)
        /\ Len(SubSeq(s, 1, n)) = IF 1 <= n THEN n - 1 + 1 ELSE 0
        /\ \A i \in 1..(n - 1 + 1) : SubSeq(s, 1, n)[i] = s[1 + i - 1]
    BY <2>1, SubSeqProperties
  <2>3. Take(s, n) = SubSeq(s, 1, n)
    BY <1>2 DEF Take
  <2>4. Len(Take(s, n)) = n
    BY <2>2, <2>3
  <2>5. \A i \in 1..n : i \in 1..(n - 1 + 1) /\ 1 + i - 1 = i
    OBVIOUS
  <2> QED
    BY <1>1, <1>2, <2>2, <2>3, <2>4, <2>5
<1>3. CASE ~ (Len(s) > n)
  BY <1>1, <1>3 DEF Take
<1> QED
  BY <1>2, <1>3

LEMMA TakeCons ==
    ASSUME NEW S, NEW x \in S, NEW s \in Seq(S), NEW n \in Nat
    PROVE  Take(<<x>> \o s, n + 1) = <<x>> \o Take(s, n)
<1>1. PICK t, c, l, r : t = Take(s, n) /\ c = <<x>> \o s /\ l = Take(c, n + 1) /\ r = <<x>> \o t
  OBVIOUS
<1>2. /\ t \in Seq(S) /\ Len(s) \in Nat /\ Len(t) = IF Len(s) > n THEN n ELSE Len(s)
      /\ \A i \in 1..Len(t) : t[i] = s[i]
  BY <1>1, TakeFact
<1>3. /\ c \in Seq(S) /\ Len(c) = Len(s) + 1
      /\ c[1] = x /\ \A i \in 1..Len(s) : c[i + 1] = s[i]
  BY <1>1, ConsFact
<1>4. /\ r \in Seq(S) /\ Len(r) = Len(t) + 1
      /\ r[1] = x /\ \A i \in 1..Len(t) : r[i + 1] = t[i]
  BY <1>1, <1>2, ConsFact
<1>5. /\ l \in Seq(S) /\ Len(l) = IF Len(c) > n + 1 THEN n + 1 ELSE Len(c)
      /\ \A i \in 1..Len(l) : l[i] = c[i]
  <2>1. PICK m \in Nat : m = n + 1
    OBVIOUS
  <2>2. l = Take(c, m) /\ c \in Seq(S)
    BY <1>1, <1>3, <2>1
  <2>3. /\ l \in Seq(S) /\ Len(l) = IF Len(c) > m THEN m ELSE Len(c)
        /\ \A i \in 1..Len(l) : l[i] = c[i]
    BY <2>2, TakeFact
  <2> QED
    BY <2>1, <2>3
<1>6. Len(l) = Len(r) /\ Len(t) \in Nat /\ Len(t) <= Len(s)
  BY <1>2, <1>3, <1>4, <1>5
<1>7. ASSUME NEW i \in 1..Len(l) PROVE l[i] = r[i]
  <2>1. CASE i = 1
    BY <1>3, <1>4, <1>5, <2>1
  <2>2. CASE i # 1
    <3>1. PICK j \in 1..Len(t) : i = j + 1
      <4>1. i - 1 \in 1..Len(t) /\ i = (i - 1) + 1
        BY <1>4, <1>6, <2>2
      <4> QED
        BY <4>1
    <3>2. l[i] = c[j + 1] /\ j \in 1..Len(s)
      BY <1>2, <1>5, <1>6, <3>1
    <3> QED
      BY <1>2, <1>3, <1>4, <3>1, <3>2
  <2> QED
    BY <2>1, <2>2
<1>8. l = r
  BY <1>4, <1>5, <1>6, <1>7, SeqEqual
<1> QED
  BY <1>1, <1>8

LEMMA TakeOne ==
    ASSUME NEW S, NEW x \in S, NEW s \in Seq(S)
    PROVE  Take(<<x>> \o s, 1) = <<x>>
<1>1. Take(<<x>> \o s, 0 + 1) = <<x>> \o Take(s, 0)
  BY TakeCons, 0 \in Nat
<1>2. Take(s, 0) \in Seq(S) /\ Len(Take(s, 0)) = 0
  BY TakeFact
<1>3. Take(s, 0) = <<>>
  BY <1>2, EmptySeq
<1>4. <<x>> \o <<>> = <<x>>
  BY ConcatEmptySeq
<1> QED
  BY <1>1, <1>3, <1>4

----------------------------------------------------------------------------
(***************************************************************************)
(* What can be read from the nodes of a heap on, with k - 1 results read   *)
(* already.                                                                *)
(***************************************************************************)
Run(h, u) ==
    LET from[n \in DOMAIN h \cup {NULL}] == [k \in Nat |->
            IF n = NULL THEN <<>>
            ELSE IF k >= u THEN <<h[n].info>>
            ELSE <<h[n].info>> \o from[h[n].parent][k + 1]]
    IN  from

LEMMA RunFact ==
    ASSUME NEW h, Tree(h), NEW u \in Nat
    PROVE  /\ \A k \in Nat : Run(h, u)[NULL][k] = <<>>
           /\ \A n \in DOMAIN h, k \in Nat :
                 Run(h, u)[n][k] = IF k >= u THEN <<h[n].info>>
                                   ELSE <<h[n].info>> \o Run(h, u)[h[n].parent][k + 1]
           /\ \A n \in DOMAIN h \cup {NULL}, k \in Nat : Run(h, u)[n][k] \in Seq(Results)
<1> DEFINE D == DOMAIN h
           V == [Nat -> Seq(Results)]
           One(n) == <<h[n].info>>
           Go(n, v) == [k \in Nat |-> IF k >= u THEN One(n) ELSE One(n) \o v[k + 1]]
           step == [n \in D |-> [v \in V |-> Go(n, v)]]
           v0 == [k \in Nat |-> <<>>]
           R(f) == f = [n \in D \cup {NULL} |-> [k \in Nat |->
                          IF n = NULL THEN <<>>
                          ELSE IF k >= u THEN One(n)
                          ELSE One(n) \o f[h[n].parent][k + 1]]]
<1>1. NULL \notin D /\ \A n \in D : h[n].parent \in D \cup {NULL} /\ h[n].info \in Results
  BY HeapFact DEF Tree, Results
<1>2. \A n \in D : One(n) \in Seq(Results)
  BY <1>1
<1> HIDE DEF One
<1>3. ASSUME NEW n \in D, NEW v \in V PROVE Go(n, v) \in V
  <2>1. \A k \in Nat : One(n) \o v[k + 1] \in Seq(Results)
    BY <1>2, ConcatProperties
  <2> QED
    BY <1>2, <2>1
<1>4. v0 \in V
  OBVIOUS
<1> HIDE DEF V, v0
<1>5. PICK f : /\ f \in [D \cup {NULL} -> V] /\ f[NULL] = v0
               /\ \A n \in D : f[n] = Go(n, f[h[n].parent])
  <2>1. step \in [D -> [V -> V]]
    BY <1>3
  <2>2. PICK f : Climbs(h, V, v0, step, f)
    <3> HIDE DEF step
    <3> QED
      BY <1>4, <2>1, TreeRecursion
  <2>3. f \in [D \cup {NULL} -> V] /\ f[NULL] = v0
        /\ \A n \in D : f[n] = step[n][f[h[n].parent]]
    BY <2>2 DEF Climbs
  <2>4. \A n \in D : f[n] = Go(n, f[h[n].parent])
    BY <1>1, <2>3
  <2> QED
    BY <2>3, <2>4
<1>6. R(f)
  <2>1. ASSUME NEW n \in D \cup {NULL}
        PROVE  f[n] = [k \in Nat |-> IF n = NULL THEN <<>>
                          ELSE IF k >= u THEN One(n)
                          ELSE One(n) \o f[h[n].parent][k + 1]]
    <3>1. CASE n = NULL
      BY <1>5, <3>1 DEF v0
    <3>2. CASE n # NULL
      BY <1>5, <3>2
    <3> QED
      BY <3>1, <3>2
  <2>2. f = [n \in D \cup {NULL} |-> f[n]]
    BY <1>5
  <2> QED
    BY <2>1, <2>2
<1>7. PICK r : r = (CHOOSE g : R(g)) /\ r = Run(h, u)
  <2>1. Run(h, u) = CHOOSE g : R(g)
    BY DEF Run, One
  <2> QED
    BY <2>1
<1>8. R(r)
  <2> HIDE DEF R
  <2> QED
    BY <1>6, <1>7
<1>9. r[NULL] = v0
  BY <1>8 DEF v0
<1>10. \A n \in D : r[n] = Go(n, r[h[n].parent])
  BY <1>1, <1>8
<1> HIDE DEF R, Go
<1>11. \A n \in D \cup {NULL} : r[n] = f[n]
  <2>1. \A n \in D : r[h[n].parent] = f[h[n].parent] => r[n] = f[n]
    <3> SUFFICES ASSUME NEW n \in D, r[h[n].parent] = f[h[n].parent] PROVE r[n] = f[n]
      OBVIOUS
    <3>1. r[n] = Go(n, r[h[n].parent]) /\ f[n] = Go(n, f[h[n].parent])
      BY <1>5, <1>10
    <3> QED
      BY <3>1
  <2>2. r[NULL] = f[NULL]
    BY <1>5, <1>9
  <2> QED
    BY <2>1, <2>2, TreeUnique
<1>12. \A k \in Nat : r[NULL][k] = <<>>
  BY <1>9 DEF v0
<1>13. ASSUME NEW n \in D, NEW k \in Nat
       PROVE  r[n][k] = IF k >= u THEN <<h[n].info>> ELSE <<h[n].info>> \o r[h[n].parent][k + 1]
  <2>1. PICK v, w : v = r[h[n].parent] /\ w = r[n]
    OBVIOUS
  <2>2. w = Go(n, v)
    BY <1>10, <2>1
  <2>3. w[k] = IF k >= u THEN One(n) ELSE One(n) \o v[k + 1]
    BY <2>2 DEF Go
  <2> QED
    BY <2>1, <2>3 DEF One
<1>14. \A n \in D \cup {NULL}, k \in Nat : r[n][k] \in Seq(Results)
  BY <1>5, <1>11 DEF V
<1> QED
  BY <1>7, <1>12, <1>13, <1>14

\* Up a tree: what holds of a node when it holds of its parent, holds of all.
LEMMA TreeInduction ==
    ASSUME NEW h, Tree(h), NEW S, NULL \in S, \A n \in DOMAIN h : h[n].parent \in S => n \in S
    PROVE  \A n \in DOMAIN h \cup {NULL} : n \in S
<1> DEFINE T == DOMAIN h \ S
<1>1. ASSUME T # {} PROVE FALSE
  <2>1. PICK n \in T : h[n].parent \notin T
    BY <1>1 DEF Tree, NoCircle
  <2>2. h[n].parent \in S
    BY <2>1 DEF Tree
  <2> QED
    BY <2>1, <2>2
<1> QED
  BY <1>1

\* Counts are not read, nor nodes that are not there in both.
LEMMA RunBelow ==
    ASSUME NEW g, Tree(g), NEW h, Tree(h), Below(g, h), NEW u \in Nat
    PROVE  \A n \in DOMAIN g \cup {NULL}, k \in Nat : Run(g, u)[n][k] = Run(h, u)[n][k]
<1> DEFINE S == {n \in DOMAIN g \cup {NULL} : \A k \in Nat : Run(g, u)[n][k] = Run(h, u)[n][k]}
<1>1. PICK a, b : a = Run(g, u) /\ b = Run(h, u)
  OBVIOUS
<1>2. /\ \A k \in Nat : a[NULL][k] = <<>>
      /\ \A n \in DOMAIN g, k \in Nat :
            a[n][k] = IF k >= u THEN <<g[n].info>> ELSE <<g[n].info>> \o a[g[n].parent][k + 1]
  BY <1>1, RunFact
<1>3. /\ \A k \in Nat : b[NULL][k] = <<>>
      /\ \A n \in DOMAIN h, k \in Nat :
            b[n][k] = IF k >= u THEN <<h[n].info>> ELSE <<h[n].info>> \o b[h[n].parent][k + 1]
  BY <1>1, RunFact
<1>4. NULL \in S
  BY <1>1, <1>2, <1>3
<1>5. ASSUME NEW n \in DOMAIN g, g[n].parent \in S PROVE n \in S
  <2>1. ASSUME NEW k \in Nat PROVE a[n][k] = b[n][k]
    <3>1. n \in DOMAIN h /\ g[n].parent = h[n].parent /\ g[n].info = h[n].info
      BY DEF Below
    <3>2. a[g[n].parent][k + 1] = b[g[n].parent][k + 1]
      BY <1>1, <1>5
    <3>3. a[n][k] = IF k >= u THEN <<h[n].info>> ELSE <<h[n].info>> \o b[h[n].parent][k + 1]
      BY <1>2, <3>1, <3>2
    <3> QED
      BY <1>3, <3>1, <3>3
  <2> QED
    BY <1>1, <2>1
<1> HIDE DEF S
<1>6. \A n \in DOMAIN g \cup {NULL} : n \in S
  BY <1>4, <1>5, TreeInduction
<1> QED
  BY <1>6 DEF S

\* With one result read more, one less can be read.
LEMMA RunTake ==
    ASSUME NEW h, Tree(h), NEW u \in Nat, NEW n \in DOMAIN h \cup {NULL}, NEW k \in Nat, k < u
    PROVE  Run(h, u)[n][k + 1] = Take(Run(h, u)[n][k], u - k)
<1> DEFINE S == {m \in DOMAIN h \cup {NULL} :
                    \A l \in Nat : l < u => Run(h, u)[m][l + 1] = Take(Run(h, u)[m][l], u - l)}
<1>1. PICK a : a = Run(h, u)
  OBVIOUS
<1>2. /\ \A l \in Nat : a[NULL][l] = <<>>
      /\ \A m \in DOMAIN h, l \in Nat :
            a[m][l] = IF l >= u THEN <<h[m].info>> ELSE <<h[m].info>> \o a[h[m].parent][l + 1]
      /\ \A m \in DOMAIN h \cup {NULL}, l \in Nat : a[m][l] \in Seq(Results)
  BY <1>1, RunFact
<1>3. \A m \in DOMAIN h : h[m].parent \in DOMAIN h \cup {NULL} /\ h[m].info \in Results
  BY HeapFact DEF Tree, Results
<1>4. NULL \in S
  <2>1. ASSUME NEW l \in Nat, l < u PROVE a[NULL][l + 1] = Take(a[NULL][l], u - l)
    <3>1. a[NULL][l + 1] = <<>> /\ a[NULL][l] = <<>> /\ u - l \in Nat /\ u - l > 0
      BY <1>2, <2>1
    <3>2. Take(<<>>, u - l) = <<>>
      <4>1. ~ (Len(<<>>) > u - l)
        BY <3>1, EmptySeq
      <4> QED
        BY <4>1 DEF Take
    <3> QED
      BY <3>1, <3>2
  <2> QED
    BY <1>1, <2>1
<1>5. ASSUME NEW m \in DOMAIN h, h[m].parent \in S PROVE m \in S
  <2> DEFINE p == h[m].parent
             x == h[m].info
  <2>1. ASSUME NEW l \in Nat, l < u PROVE a[m][l + 1] = Take(a[m][l], u - l)
    <3>0. l + 1 \in Nat /\ ~ (l >= u)
      BY <2>1
    <3>1. p \in DOMAIN h \cup {NULL} /\ x \in Results
      BY <1>3
    <3>2. a[m][l] = IF l >= u THEN <<x>> ELSE <<x>> \o a[p][l + 1]
      BY <1>2
    <3>3. a[m][l + 1] = IF l + 1 >= u THEN <<x>> ELSE <<x>> \o a[p][l + 1 + 1]
      BY <1>2, <3>0
    <3>4. a[p][l + 1] \in Seq(Results)
      BY <1>2, <3>0, <3>1
    <3> HIDE DEF p, x
    <3>5. a[m][l] = <<x>> \o a[p][l + 1]
      BY <3>0, <3>2
    <3>6. CASE l + 1 >= u
      <4>1. u - l = 1
        BY <2>1, <3>6
      <4>2. a[m][l + 1] = <<x>>
        BY <3>3, <3>6
      <4> QED
        BY <3>1, <3>4, <3>5, <4>1, <4>2, TakeOne
    <3>7. CASE ~ (l + 1 >= u)
      <4>1. a[p][l + 1 + 1] = Take(a[p][l + 1], u - (l + 1))
        BY <1>1, <1>5, <3>0, <3>7 DEF p
      <4>2. a[m][l + 1] = <<x>> \o a[p][l + 1 + 1]
        BY <3>3, <3>7
      <4>3. PICK d \in Nat : d = u - (l + 1) /\ d + 1 = u - l
        <5>1. u - (l + 1) \in Nat /\ u - (l + 1) + 1 = u - l
          BY <3>7
        <5> QED
          BY <5>1
      <4>4. Take(<<x>> \o a[p][l + 1], d + 1) = <<x>> \o Take(a[p][l + 1], d)
        BY <3>1, <3>4, TakeCons
      <4> QED
        BY <3>5, <4>1, <4>2, <4>3, <4>4
    <3> QED
      BY <3>6, <3>7
  <2> QED
    BY <1>1, <2>1
<1> HIDE DEF S
<1>6. n \in S
  BY <1>4, <1>5, TreeInduction
<1> QED
  BY <1>6 DEF S

\* As InductionChains keeps a chain, of which nobody can read more.
Farthest(u) == IF u = 0 THEN 1 ELSE u

LEMMA RunNew ==
    ASSUME NEW h, Tree(h), NEW g, Tree(g), Below(h, g), NEW u \in Nat,
           NEW node \in DOMAIN g, g[node].parent \in DOMAIN h \cup {NULL}
    PROVE  Run(g, u)[node][1] =
              Take(<<g[node].info>> \o Run(h, u)[g[node].parent][1], Farthest(u))
<1> DEFINE p == g[node].parent
           x == g[node].info
<1>1. PICK a, b : a = Run(h, u) /\ b = Run(g, u)
  OBVIOUS
<1>2. 1 \in Nat /\ 2 \in Nat /\ 1 + 1 = 2
  OBVIOUS
<1>3. b[node][1] = IF 1 >= u THEN <<x>> ELSE <<x>> \o b[p][2]
  BY <1>1, <1>2, RunFact
<1>4. a[p][1] \in Seq(Results) /\ x \in Results
  BY <1>1, <1>2, RunFact, HeapFact DEF Tree, Results
<1>5. CASE 1 >= u
  <2>1. Farthest(u) = 1
    BY <1>5 DEF Farthest
  <2>2. Take(<<x>> \o a[p][1], 1) = <<x>>
    BY <1>4, TakeOne
  <2> QED
    BY <1>1, <1>3, <1>5, <2>1, <2>2
<1>6. CASE 1 < u
  <2>1. b[p][2] = a[p][2]
    BY <1>1, <1>2, RunBelow
  <2>2. a[p][2] = Take(a[p][1], u - 1)
    BY <1>1, <1>2, <1>6, RunTake
  <2>3. PICK d \in Nat : d = u - 1 /\ d + 1 = u
    <3>1. u - 1 \in Nat /\ u - 1 + 1 = u
      BY <1>6
    <3> QED
      BY <3>1
  <2>4. Take(<<x>> \o a[p][1], d + 1) = <<x>> \o Take(a[p][1], d)
    BY <1>4, TakeCons
  <2>5. Farthest(u) = u /\ ~ (1 >= u)
    BY <1>6 DEF Farthest
  <2> HIDE DEF p, x
  <2>6. b[node][1] = Take(<<x>> \o a[p][1], Farthest(u))
    BY <1>3, <2>1, <2>2, <2>3, <2>4, <2>5
  <2> QED
    BY <1>1, <2>6 DEF p, x
<1> QED
  BY <1>5, <1>6

----------------------------------------------------------------------------
(***************************************************************************)
(* Where a chain is cut: the way up to there from any entry of a table has *)
(* unroll_factor nodes at least.                                           *)
(***************************************************************************)
PathUp(h, p, k) == \A i \in 0..(k - 1) : h[p[i]].parent = p[i + 1]

\* Any way up from an entry to node n has length nodes, n included.
Deep(h, ext, n, length) ==
    \A k \in Nat : \A p \in [0..k -> DOMAIN h] :
        PathUp(h, p, k) /\ ext[p[0]] >= 1 /\ p[k] = n => k + 1 >= length

\* So adamant_IVE_garbage_collect_chain has come to node n.
ComeTo(h, ext, n, length) == length = 0 \/ \E c \in Children(h, n) : Deep(h, ext, c, length)

LEMMA DeepStep ==
    ASSUME NEW h, NEW ext, Sound(h, ext), NEW n \in DOMAIN h, NEW length \in Nat,
           ComeTo(h, ext, n, length)
    PROVE  Deep(h, ext, n, ChainLength(h, n, length))
<1> SUFFICES ASSUME NEW k \in Nat, NEW p \in [0..k -> DOMAIN h],
                    PathUp(h, p, k), ext[p[0]] >= 1, p[k] = n
             PROVE  k + 1 >= ChainLength(h, n, length)
  BY DEF Deep
<1>1. CASE h[n].ref_count # 1 \/ length = 0
  BY <1>1 DEF ChainLength
<1>2. CASE h[n].ref_count = 1 /\ length # 0
  <2>1. PICK c \in Children(h, n) : Deep(h, ext, c, length)
    BY <1>2 DEF ComeTo
  <2>2. IsHeap(h) /\ n \in Nodes /\ ext[n] \in Nat
        /\ 1 = ext[n] + Cardinality(Children(h, n))
    BY <1>2, HeapFact DEF Sound, Tree
  <2>3. IsFiniteSet(Children(h, n)) /\ Cardinality(Children(h, n)) \in Nat
    BY <2>2, ChildrenFact
  <2>4. Cardinality(Children(h, n)) # 0
    BY <2>1, <2>3, FS_EmptySet
  <2>5. ext[n] = 0 /\ Cardinality(Children(h, n)) = 1
    BY <2>2, <2>3, <2>4
  <2>6. \A m \in Children(h, n) : m = c
    <3>1. PICK x : Children(h, n) = {x}
      BY <2>3, <2>5, FS_Singleton
    <3> QED
      BY <2>1, <3>1
  <2>7. k # 0
    BY <2>5
  <2>8. k - 1 \in Nat /\ k - 1 \in 0..(k - 1) /\ k - 1 \in 0..k /\ k - 1 + 1 = k
        /\ 0..(k - 1) \subseteq 0..k /\ 0 \in 0..(k - 1) /\ 0..(k - 1 - 1) \subseteq 0..(k - 1)
    BY <2>7
  <2>9. p[k - 1] = c
    <3>1. h[p[k - 1]].parent = n /\ p[k - 1] \in DOMAIN h
      BY <2>8 DEF PathUp
    <3> QED
      BY <2>6, <3>1 DEF Children
  <2> DEFINE q == [i \in 0..(k - 1) |-> p[i]]
  <2>10. q \in [0..(k - 1) -> DOMAIN h] /\ q[0] = p[0] /\ q[k - 1] = c
    BY <2>8, <2>9
  <2>11. PathUp(h, q, k - 1)
    <3> SUFFICES ASSUME NEW i \in 0..(k - 1 - 1) PROVE h[q[i]].parent = q[i + 1]
      BY DEF PathUp
    <3>1. i \in 0..(k - 1) /\ i + 1 \in 0..(k - 1)
      BY <2>8
    <3> QED
      BY <3>1 DEF PathUp
  <2> HIDE DEF q
  <2>12. k - 1 + 1 >= length
    BY <2>1, <2>8, <2>10, <2>11 DEF Deep
  <2> QED
    BY <1>2, <2>12 DEF ChainLength
<1> QED
  BY <1>1, <1>2

LEMMA CutDeep ==
    ASSUME NEW h, NEW ext, Sound(h, ext), NEW node \in DOMAIN h \cup {NULL},
           CutPoint(h)[node][0] # NULL
    PROVE  Deep(h, ext, CutPoint(h)[node][0], unroll_factor)
<1> DEFINE S == {n \in DOMAIN h \cup {NULL} :
                   \A length \in Nat : /\ ComeTo(h, ext, n, length)
                                       /\ CutPoint(h)[n][length] # NULL
                       => Deep(h, ext, CutPoint(h)[n][length], unroll_factor)}
<1>1. Tree(h)
  BY DEF Sound
<1>2. PICK c : c = CutPoint(h)
  OBVIOUS
<1>3. /\ \A length \in Nat : c[NULL][length] = NULL
      /\ \A n \in DOMAIN h, length \in Nat :
            c[n][length] = IF ChainLength(h, n, length) = unroll_factor THEN n
                           ELSE c[h[n].parent][ChainLength(h, n, length)]
  BY <1>1, <1>2, CutPointFact
<1>4. NULL \in S
  BY <1>2, <1>3
<1>5. ASSUME NEW n \in DOMAIN h, h[n].parent \in S PROVE n \in S
  <2>1. ASSUME NEW length \in Nat, ComeTo(h, ext, n, length), c[n][length] # NULL
        PROVE  Deep(h, ext, c[n][length], unroll_factor)
    <3>1. PICK l : l = ChainLength(h, n, length)
      OBVIOUS
    <3>2. l \in Nat /\ Deep(h, ext, n, l)
      BY <2>1, <3>1, DeepStep DEF ChainLength
    <3>3. CASE l = unroll_factor
      BY <1>3, <3>1, <3>2, <3>3
    <3>4. CASE l # unroll_factor
      <4>1. c[n][length] = c[h[n].parent][l]
        BY <1>3, <3>1, <3>4
      <4>2. ComeTo(h, ext, h[n].parent, l)
        BY <3>2 DEF ComeTo, Children
      <4> QED
        BY <1>2, <1>5, <2>1, <3>2, <4>1, <4>2
    <3> QED
      BY <3>3, <3>4
  <2> QED
    BY <1>2, <2>1
<1> HIDE DEF S
<1>6. node \in S
  BY <1>1, <1>4, <1>5, TreeInduction
<1>7. ComeTo(h, ext, node, 0) /\ 0 \in Nat
  BY DEF ComeTo
<1> QED
  BY <1>6, <1>7 DEF S

\* With k - 1 results read before node n, those behind the cut are not read.
Far(h, n, k, cut, u) ==
    \A j \in Nat : \A p \in [0..j -> DOMAIN h] :
        PathUp(h, p, j) /\ p[0] = n /\ p[j] = cut => k + j >= u

LEMMA FarUp ==
    ASSUME NEW h, Tree(h), NEW n \in DOMAIN h, NEW k \in Nat, NEW cut, NEW u \in Nat,
           Far(h, n, k, cut, u)
    PROVE  Far(h, h[n].parent, k + 1, cut, u)
<1> SUFFICES ASSUME NEW j \in Nat, NEW p \in [0..j -> DOMAIN h],
                    PathUp(h, p, j), p[0] = h[n].parent, p[j] = cut
             PROVE  k + 1 + j >= u
  BY DEF Far
<1> DEFINE q == [i \in 0..(j + 1) |-> IF i = 0 THEN n ELSE p[i - 1]]
<1>1. \A i \in 0..(j + 1) : i # 0 => i - 1 \in 0..j
  OBVIOUS
<1>2. q \in [0..(j + 1) -> DOMAIN h]
  BY <1>1
<1>3. q[0] = n /\ q[j + 1] = cut
  OBVIOUS
<1>4. PathUp(h, q, j + 1)
  <2> SUFFICES ASSUME NEW i \in 0..(j + 1 - 1) PROVE h[q[i]].parent = q[i + 1]
    BY DEF PathUp
  <2>1. i \in 0..(j + 1) /\ i + 1 \in 0..(j + 1) /\ i + 1 # 0 /\ i + 1 - 1 = i
    OBVIOUS
  <2>2. q[i + 1] = p[i]
    BY <2>1
  <2>3. CASE i = 0
    BY <1>3, <2>2, <2>3
  <2>4. CASE i # 0
    <3>1. q[i] = p[i - 1] /\ i - 1 \in 0..(j - 1) /\ i - 1 + 1 = i
      BY <2>1, <2>4
    <3> QED
      BY <2>2, <3>1 DEF PathUp
  <2> QED
    BY <2>3, <2>4
<1> HIDE DEF q
<1>5. k + (j + 1) >= u
  BY <1>2, <1>3, <1>4, j + 1 \in Nat DEF Far
<1> QED
  BY <1>5

LEMMA RunCut ==
    ASSUME NEW h, Tree(h), NEW g, Tree(g), DOMAIN g = DOMAIN h, NEW cut, NEW u \in Nat,
           \A n \in DOMAIN h : g[n].info = h[n].info /\ (n # cut => g[n].parent = h[n].parent),
           NEW n \in DOMAIN h \cup {NULL}, NEW k \in Nat, Far(h, n, k, cut, u)
    PROVE  Run(g, u)[n][k] = Run(h, u)[n][k]
<1> DEFINE S == {m \in DOMAIN h \cup {NULL} :
                   \A l \in Nat : Far(h, m, l, cut, u) => Run(g, u)[m][l] = Run(h, u)[m][l]}
<1>1. PICK a, b : a = Run(g, u) /\ b = Run(h, u)
  OBVIOUS
<1>2. /\ \A l \in Nat : a[NULL][l] = <<>>
      /\ \A m \in DOMAIN h, l \in Nat :
            a[m][l] = IF l >= u THEN <<g[m].info>> ELSE <<g[m].info>> \o a[g[m].parent][l + 1]
  BY <1>1, RunFact
<1>3. /\ \A l \in Nat : b[NULL][l] = <<>>
      /\ \A m \in DOMAIN h, l \in Nat :
            b[m][l] = IF l >= u THEN <<h[m].info>> ELSE <<h[m].info>> \o b[h[m].parent][l + 1]
  BY <1>1, RunFact
<1>4. NULL \in S
  BY <1>1, <1>2, <1>3
<1>5. ASSUME NEW m \in DOMAIN h, h[m].parent \in S PROVE m \in S
  <2>1. ASSUME NEW l \in Nat, Far(h, m, l, cut, u) PROVE a[m][l] = b[m][l]
    <3>1. CASE l >= u
      BY <1>2, <1>3, <3>1
    <3>2. CASE l < u
      <4>1. m # cut
        <5> SUFFICES ASSUME m = cut PROVE FALSE
          OBVIOUS
        <5> DEFINE p == [i \in 0..0 |-> m]
        <5>1. p \in [0..0 -> DOMAIN h] /\ p[0] = m /\ PathUp(h, p, 0) /\ 0 \in Nat
          BY DEF PathUp
        <5> HIDE DEF p
        <5>2. l + 0 >= u
          BY <2>1, <5>1 DEF Far
        <5> QED
          BY <3>2, <5>2
      <4>2. Far(h, h[m].parent, l + 1, cut, u)
        BY <2>1, FarUp
      <4>3. a[h[m].parent][l + 1] = b[h[m].parent][l + 1]
        BY <1>1, <1>5, <4>2, l + 1 \in Nat
      <4>4. g[m].parent = h[m].parent /\ g[m].info = h[m].info
        BY <4>1
      <4>5. a[m][l] = IF l >= u THEN <<g[m].info>> ELSE <<g[m].info>> \o a[g[m].parent][l + 1]
        BY <1>2
      <4>6. b[m][l] = IF l >= u THEN <<h[m].info>> ELSE <<h[m].info>> \o b[h[m].parent][l + 1]
        BY <1>3
      <4> QED
        BY <4>3, <4>4, <4>5, <4>6
    <3> QED
      BY <3>1, <3>2
  <2> QED
    BY <1>1, <2>1
<1> HIDE DEF S
<1>6. n \in S
  BY <1>4, <1>5, TreeInduction
<1> QED
  BY <1>6 DEF S

\* So the collection of a chain leaves every entry of a table what can be read from it.
SameRuns(g, h, ext) ==
    \A n \in Nodes : ext[n] >= 1 =>
        Run(g, unroll_factor)[n][1] = Run(h, unroll_factor)[n][1]

LEMMA CollectChainRuns ==
    ASSUME NEW h, NEW ext, Sound(h, ext), NEW node \in DOMAIN h \cup {NULL},
           unroll_factor \in Nat
    PROVE  SameRuns(CollectChain(h, node), h, ext)
<1> DEFINE cut == CutPoint(h)[node][0]
           g == [h EXCEPT ![cut].parent = NULL]
           p == h[cut].parent
           new == CollectChain(h, node)
<1>1. Tree(h) /\ cut \in DOMAIN h \cup {NULL} /\ IsHeap(h)
  BY CutPointFact DEF Sound, Tree
<1>2. CASE cut = NULL
  BY <1>2 DEF CollectChain, SameRuns
<1>3. CASE cut # NULL
  <2>1. Deep(h, ext, cut, unroll_factor)
    BY <1>3, CutDeep
  <2> HIDE DEF cut
  <2>2. Sound(g, Plus(ext, p, 1))
    BY <1>1, <1>3, CutSound
  <2>3. Tree(g)
    BY <2>2 DEF Sound
  <2>4. new = Unref(g, p)
    BY <1>3 DEF CollectChain, cut
  <2>5. /\ DOMAIN g = DOMAIN h
        /\ \A n \in DOMAIN h : g[n].info = h[n].info /\ (n # cut => g[n].parent = h[n].parent)
    <3>1. \A n \in DOMAIN h : n # cut => g[n] = h[n]
      OBVIOUS
    <3>2. g[cut].info = h[cut].info
      <4>1. h[cut] \in IVENode /\ g[cut] = [h[cut] EXCEPT !.parent = NULL]
        BY <1>1, <1>3, HeapFact
      <4> HIDE DEF g
      <4> QED
        BY <4>1 DEF IVENode
    <3> QED
      BY <3>1, <3>2
  <2>6. Sound(new, ext)
    BY <1>1, CollectChainSound
  <2>7. Tree(new) /\ Below(new, g)
    BY <2>3, <2>4, <2>6, UnrefBelow DEF Sound
  <2> HIDE DEF g, new
  <2>8. ASSUME NEW n \in Nodes, ext[n] >= 1
        PROVE  Run(new, unroll_factor)[n][1] = Run(h, unroll_factor)[n][1]
    <3>1. n \in DOMAIN new /\ n \in DOMAIN h
      BY <2>6, <2>8 DEF Sound
    <3>2. Run(new, unroll_factor)[n][1] = Run(g, unroll_factor)[n][1]
      BY <2>3, <2>7, <3>1, RunBelow, 1 \in Nat
    <3>3. Far(h, n, 1, cut, unroll_factor)
      <4> SUFFICES ASSUME NEW j \in Nat, NEW q \in [0..j -> DOMAIN h],
                          PathUp(h, q, j), q[0] = n, q[j] = cut
                   PROVE  1 + j >= unroll_factor
        BY DEF Far
      <4>1. j + 1 >= unroll_factor
        BY <2>1, <2>8 DEF Deep
      <4> QED
        BY <4>1
    <3>4. Run(g, unroll_factor)[n][1] = Run(h, unroll_factor)[n][1]
      BY <1>1, <2>3, <2>5, <3>1, <3>3, RunCut, 1 \in Nat
    <3> QED
      BY <3>2, <3>4
  <2> QED
    BY <2>8 DEF SameRuns, new
<1> QED
  BY <1>2, <1>3

----------------------------------------------------------------------------
(***************************************************************************)
(* What is read from the tables, and how each operation changes that.      *)
(***************************************************************************)
Reading(h, n) == Run(h, unroll_factor)[n][1]

RegChains(o) == [r \in Regs |-> Reading(o.heap, o.induction_vars[r])]

MemChains(o) == [b \in Bytes |-> Reading(o.heap, o.memory_induction_vars[b])]

\* Only register reg reads another chain.
Becomes(o, new, reg, chain) ==
    /\ RegChains(new) = [RegChains(o) EXCEPT ![reg] = chain]
    /\ MemChains(new) = MemChains(o)

\* The other entries read the same from either heap.
OthersRead(o, g, h, reg) ==
    /\ \A r \in Regs \ {reg} : Reading(g, o.induction_vars[r]) = Reading(h, o.induction_vars[r])
    /\ \A b \in Bytes : Reading(g, o.memory_induction_vars[b]) = Reading(h, o.memory_induction_vars[b])

LEMMA BecomesFact ==
    ASSUME NEW o, NEW new, NEW reg \in Regs, NEW node, IsTable(o.induction_vars, Regs),
           new.induction_vars = [o.induction_vars EXCEPT ![reg] = node],
           new.memory_induction_vars = o.memory_induction_vars,
           OthersRead(o, new.heap, o.heap, reg)
    PROVE  Becomes(o, new, reg, Reading(new.heap, node))
<1>1. PICK g, h, iv, jv, mv : /\ g = new.heap /\ h = o.heap /\ iv = o.induction_vars
                              /\ jv = new.induction_vars /\ mv = o.memory_induction_vars
  OBVIOUS
<1>2. jv[reg] = node /\ \A r \in Regs \ {reg} : jv[r] = iv[r]
  BY <1>1 DEF IsTable
<1>3. \A r \in Regs : Reading(g, jv[r]) = IF r = reg THEN Reading(g, node) ELSE Reading(h, iv[r])
  BY <1>1, <1>2 DEF OthersRead
<1>4. \A b \in Bytes : Reading(g, mv[b]) = Reading(h, mv[b])
  BY <1>1 DEF OthersRead
<1>5. [r \in Regs |-> Reading(g, jv[r])] =
          [[r \in Regs |-> Reading(h, iv[r])] EXCEPT ![reg] = Reading(g, node)]
  BY <1>3
<1>6. [b \in Bytes |-> Reading(g, mv[b])] = [b \in Bytes |-> Reading(h, mv[b])]
  BY <1>4
<1> QED
  BY <1>1, <1>5, <1>6 DEF Becomes, RegChains, MemChains

\* Nodes that stay read the same.
LEMMA ReadingBelow ==
    ASSUME NEW g, Tree(g), NEW h, Tree(h), Below(g, h), NEW n \in DOMAIN g \cup {NULL},
           unroll_factor \in Nat
    PROVE  Reading(g, n) = Reading(h, n)
BY RunBelow, 1 \in Nat DEF Reading

LEMMA ReadingType ==
    ASSUME NEW h, Tree(h), NEW n \in DOMAIN h \cup {NULL}, unroll_factor \in Nat
    PROVE  Reading(h, n) \in Seq(Results) /\ (Reading(h, n) = <<>> <=> n = NULL)
<1>1. 1 \in Nat
  OBVIOUS
<1>2. Reading(h, n) \in Seq(Results) /\ Reading(h, NULL) = <<>>
  BY <1>1, RunFact DEF Reading
<1>3. ASSUME n # NULL PROVE Reading(h, n) # <<>>
  <2>1. PICK u, p, x, s : u = unroll_factor /\ p = h[n].parent /\ x = h[n].info
                          /\ s = Run(h, u)[p][1 + 1]
    OBVIOUS
  <2>2. n \in DOMAIN h /\ p \in DOMAIN h \cup {NULL} /\ x \in Results /\ u \in Nat /\ 1 + 1 \in Nat
    BY <1>3, <2>1, HeapFact DEF Tree, Results
  <2>3. s \in Seq(Results)
    BY <2>1, <2>2, RunFact
  <2>4. Reading(h, n) = IF 1 >= u THEN <<x>> ELSE <<x>> \o s
    BY <1>1, <2>1, <2>2, RunFact DEF Reading
  <2>5. PICK t : t = <<x>> \o s
    OBVIOUS
  <2>6. Len(t) = Len(s) + 1 /\ Len(s) \in Nat
    BY <2>2, <2>3, <2>5, ConsFact
  <2>7. t # <<>>
    <3>1. Len(<<>>) = 0
      OBVIOUS
    <3> QED
      BY <2>6, <3>1
  <2>8. <<x>> # <<>>
    OBVIOUS
  <2> QED
    BY <2>4, <2>5, <2>7, <2>8
<1> QED
  BY <1>2, <1>3

\* A new register's chain is its only result.
LEMMA ReadingFirst ==
    ASSUME NEW h, Tree(h), NEW n \in DOMAIN h, h[n].parent = NULL, unroll_factor \in Nat
    PROVE  Reading(h, n) = <<h[n].info>>
<1>1. 1 \in Nat /\ 1 + 1 \in Nat
  OBVIOUS
<1>2. PICK u, x : u = unroll_factor /\ x = h[n].info
  OBVIOUS
<1>3. Run(h, u)[NULL][1 + 1] = <<>> /\ x \in Results
  BY <1>1, <1>2, RunFact, HeapFact DEF Tree, Results
<1>4. Reading(h, n) = IF 1 >= u THEN <<x>> ELSE <<x>> \o <<>>
  <2>1. Run(h, u)[n][1] = IF 1 >= u THEN <<h[n].info>>
                          ELSE <<h[n].info>> \o Run(h, u)[h[n].parent][1 + 1]
    BY <1>1, <1>2, RunFact
  <2> QED
    BY <1>2, <1>3, <2>1 DEF Reading
<1>5. <<x>> \o <<>> = <<x>>
  BY <1>3, ConcatEmptySeq
<1> QED
  BY <1>2, <1>4, <1>5

----------------------------------------------------------------------------
\* When the node of register reg is released, the other entries keep theirs.
LEMMA EntriesStay ==
    ASSUME NEW o, IsOpti(o), NEW reg \in Regs, NEW h,
           Sound(h, Plus(OptiExt(o), o.induction_vars[reg], -1))
    PROVE  /\ \A r \in Regs \ {reg} : o.induction_vars[r] \in DOMAIN h \cup {NULL}
           /\ \A b \in Bytes : o.memory_induction_vars[b] \in DOMAIN h \cup {NULL}
<1>1. PICK iv, mv, jv : /\ iv = o.induction_vars /\ mv = o.memory_induction_vars
                        /\ jv = [iv EXCEPT ![reg] = NULL]
  OBVIOUS
<1>2. IsTable(iv, Regs) /\ IsTable(mv, Bytes)
  BY <1>1 DEF IsOpti
<1>3. /\ IsTable(jv, Regs)
      /\ Ext(jv, mv) = Plus(Plus(Ext(iv, mv), NULL, 1), iv[reg], -1)
  BY <1>1, <1>2, ExtReg
<1>4. Plus(Ext(iv, mv), NULL, 1) = Ext(iv, mv)
  <2>1. Ext(iv, mv) \in [Nodes -> Nat] /\ NULL \notin Nodes
    BY <1>2, ExtType, TablesFinite, NodesFact
  <2> QED
    BY <2>1 DEF Plus
<1>5. Sound(h, Ext(jv, mv))
  BY <1>1, <1>3, <1>4 DEF OptiExt
<1>6. ASSUME NEW r \in Regs \ {reg} PROVE iv[r] \in DOMAIN h \cup {NULL}
  <2>1. jv[r] = iv[r]
    BY <1>1, <1>2 DEF IsTable
  <2>2. jv[r] \in Nodes \cup {NULL} /\ (jv[r] # NULL => Ext(jv, mv)[jv[r]] >= 1)
    BY <1>2, <1>3, ExtReg
  <2> QED
    BY <1>5, <2>1, <2>2, PointedFact DEF Pointed
<1>7. ASSUME NEW b \in Bytes PROVE mv[b] \in DOMAIN h \cup {NULL}
  <2>1. mv[b] \in Nodes \cup {NULL} /\ (mv[b] # NULL => Ext(jv, mv)[mv[b]] >= 1)
    BY <1>2, <1>3, ExtMem
  <2> QED
    BY <1>5, <2>1, PointedFact DEF Pointed
<1> QED
  BY <1>1, <1>6, <1>7

\* A register is given a counted node: its chain is what can be read from there.
LEMMA PointChains ==
    ASSUME NEW o, SoundOpti(o), NEW reg \in Regs, NEW heap, NEW node \in Nodes \cup {NULL},
           Sound(heap, Plus(OptiExt(o), node, 1)), Below(o.heap, heap), unroll_factor \in Nat,
           NEW new, new = Point(o, heap, reg, node)
    PROVE  Becomes(o, new, reg, Reading(heap, node))
<1>1. IsOpti(o) /\ Tree(o.heap) /\ Tree(heap) /\ IsTable(o.induction_vars, Regs)
  BY DEF SoundOpti, Sound, IsOpti
<1>2. SoundOpti(new)
  BY <1>1, PointSound
<1>3. PICK old : old = Entry(o, reg)
  OBVIOUS
<1>4. new = [o EXCEPT !.heap = Unref(heap, old), !.len = Grown(o, reg),
                      !.induction_vars[reg] = node]
  BY <1>3 DEF Point
<1>5. OptiReg(o, reg, node, Unref(heap, old), new)
  BY <1>1, <1>4, IsOptiReg
<1>6. Tree(new.heap) /\ Below(new.heap, heap)
  BY <1>1, <1>2, <1>5, UnrefBelow DEF OptiReg, SoundOpti, Sound
<1>7. ASSUME NEW n \in DOMAIN new.heap \cup {NULL}, n \in DOMAIN o.heap \cup {NULL}
      PROVE  Reading(new.heap, n) = Reading(o.heap, n)
  <2>1. Reading(new.heap, n) = Reading(heap, n)
    BY <1>1, <1>6, ReadingBelow
  <2>2. Reading(o.heap, n) = Reading(heap, n)
    BY <1>1, <1>7, ReadingBelow
  <2> QED
    BY <2>1, <2>2
<1>8. OthersRead(o, new.heap, o.heap, reg)
  <2>1. ASSUME NEW r \in Regs \ {reg}
        PROVE  Reading(new.heap, o.induction_vars[r]) = Reading(o.heap, o.induction_vars[r])
    <3>1. new.induction_vars[r] = o.induction_vars[r]
      BY <1>1, <1>5 DEF OptiReg, IsTable
    <3>2. new.induction_vars[r] \in DOMAIN new.heap \cup {NULL}
      BY <1>2, TablesFact
    <3>3. o.induction_vars[r] \in DOMAIN o.heap \cup {NULL}
      BY TablesFact
    <3> QED
      BY <1>7, <3>1, <3>2, <3>3
  <2>2. ASSUME NEW b \in Bytes
        PROVE  Reading(new.heap, o.memory_induction_vars[b]) =
                  Reading(o.heap, o.memory_induction_vars[b])
    <3>1. new.memory_induction_vars[b] = o.memory_induction_vars[b]
      BY <1>5 DEF OptiReg
    <3>2. new.memory_induction_vars[b] \in DOMAIN new.heap \cup {NULL}
      BY <1>2, TablesFact
    <3>3. o.memory_induction_vars[b] \in DOMAIN o.heap \cup {NULL}
      BY TablesFact
    <3> QED
      BY <1>7, <3>1, <3>2, <3>3
  <2> QED
    BY <2>1, <2>2 DEF OthersRead
<1>9. Reading(new.heap, node) = Reading(heap, node)
  <2>1. node \in DOMAIN new.heap \cup {NULL}
    <3>1. new.induction_vars[reg] = node
      BY <1>5 DEF OptiReg
    <3> QED
      BY <1>2, <3>1, TablesFact
  <2> QED
    BY <1>1, <1>6, <2>1, ReadingBelow
<1>10. Becomes(o, new, reg, Reading(new.heap, node))
  BY <1>1, <1>5, <1>8, BecomesFact DEF OptiReg
<1> QED
  BY <1>9, <1>10

LEMMA LinkChains ==
    ASSUME NEW o, SoundOpti(o), NEW dest_reg \in Regs, NEW src_reg \in Regs, unroll_factor \in Nat
    PROVE  Becomes(o, Link(o, dest_reg, src_reg), dest_reg, RegChains(o)[src_reg])
<1>1. PICK parent, heap : parent = Entry(o, src_reg) /\ heap = Ref(o.heap, parent, 1)
  OBVIOUS
<1>2. /\ Sound(o.heap, OptiExt(o)) /\ Tree(o.heap) /\ parent = o.induction_vars[src_reg]
      /\ parent \in DOMAIN o.heap \cup {NULL} /\ parent \in Nodes \cup {NULL} /\ 1 \in Nat
  BY <1>1, TablesFact, EntryFact DEF SoundOpti, Sound
<1>3. Sound(heap, Plus(OptiExt(o), parent, 1)) /\ Below(o.heap, heap) /\ Tree(heap)
  <2>1. Sound(heap, Plus(OptiExt(o), parent, 1))
    BY <1>1, <1>2, RefSound
  <2>2. Below(o.heap, heap)
    BY <1>1, <1>2, RefBelow DEF Tree
  <2> QED
    BY <2>1, <2>2 DEF Sound
<1>4. PICK new : new = Link(o, dest_reg, src_reg) /\ new = Point(o, heap, dest_reg, parent)
  BY <1>1 DEF Link
<1>5. Becomes(o, new, dest_reg, Reading(heap, parent))
  BY <1>2, <1>3, <1>4, PointChains
<1>6. Reading(heap, parent) = Reading(o.heap, parent)
  BY <1>2, <1>3, ReadingBelow
<1>7. RegChains(o)[src_reg] = Reading(o.heap, parent)
  BY <1>2 DEF RegChains
<1> QED
  BY <1>4, <1>5, <1>6, <1>7

LEMMA LinkFromMemChains ==
    ASSUME NEW o, SoundOpti(o), NEW dest_reg \in Regs, NEW a, a[1] \in Bytes, unroll_factor \in Nat
    PROVE  Becomes(o, LinkFromMem(o, dest_reg, a), dest_reg, MemChains(o)[a[1]])
<1>1. PICK parent, heap : parent = o.memory_induction_vars[a[1]] /\ heap = Ref(o.heap, parent, 1)
  OBVIOUS
<1>2. /\ Sound(o.heap, OptiExt(o)) /\ Tree(o.heap) /\ 1 \in Nat
      /\ parent \in DOMAIN o.heap \cup {NULL} /\ parent \in Nodes \cup {NULL}
  BY <1>1, TablesFact DEF SoundOpti, IsOpti, IsTable, Sound
<1>3. Sound(heap, Plus(OptiExt(o), parent, 1)) /\ Below(o.heap, heap) /\ Tree(heap)
  <2>1. Sound(heap, Plus(OptiExt(o), parent, 1))
    BY <1>1, <1>2, RefSound
  <2>2. Below(o.heap, heap)
    BY <1>1, <1>2, RefBelow DEF Tree
  <2> QED
    BY <2>1, <2>2 DEF Sound
<1>4. PICK new : new = LinkFromMem(o, dest_reg, a) /\ new = Point(o, heap, dest_reg, parent)
  BY <1>1 DEF LinkFromMem
<1>5. Becomes(o, new, dest_reg, Reading(heap, parent))
  BY <1>2, <1>3, <1>4, PointChains
<1>6. Reading(heap, parent) = Reading(o.heap, parent)
  BY <1>2, <1>3, ReadingBelow
<1>7. MemChains(o)[a[1]] = Reading(o.heap, parent)
  BY <1>1 DEF MemChains
<1> QED
  BY <1>4, <1>5, <1>6, <1>7

\* A store: the bytes are given the register's chain.
LEMMA LinkToMemChains ==
    ASSUME NEW o, SoundOpti(o), NEW a \in Accesses, NEW src_reg \in Regs, unroll_factor \in Nat,
           NEW new, new = LinkToMem(o, a, src_reg)
    PROVE  /\ RegChains(new) = RegChains(o)
           /\ MemChains(new) = [b \in Bytes |-> IF b \in BytesOf(a) THEN RegChains(o)[src_reg]
                                                ELSE MemChains(o)[b]]
<1>1. PICK node : node = Entry(o, src_reg)
  OBVIOUS
<1>2. StoredTo(o, a, node, new)
  BY <1>1, LinkToMemSound
<1>3. node = o.induction_vars[src_reg] /\ node \in DOMAIN o.heap \cup {NULL}
  BY <1>1, EntryFact, TablesFact DEF SoundOpti
<1>4. Tree(o.heap) /\ Tree(new.heap) /\ Below(new.heap, o.heap) /\ SoundOpti(new)
  BY <1>2 DEF StoredTo, SoundOpti, Sound
<1>5. ASSUME NEW r \in Regs
      PROVE  Reading(new.heap, new.induction_vars[r]) = Reading(o.heap, o.induction_vars[r])
  <2>1. new.induction_vars[r] = o.induction_vars[r]
    BY <1>2 DEF StoredTo
  <2> QED
    BY <1>4, <2>1, TablesFact, ReadingBelow
<1>6. ASSUME NEW b \in Bytes
      PROVE  Reading(new.heap, new.memory_induction_vars[b]) =
                IF b \in BytesOf(a) THEN RegChains(o)[src_reg] ELSE MemChains(o)[b]
  <2>1. new.memory_induction_vars[b] = IF b \in BytesOf(a) THEN node
                                       ELSE o.memory_induction_vars[b]
    BY <1>2 DEF StoredTo
  <2>2. new.memory_induction_vars[b] \in DOMAIN new.heap \cup {NULL}
    BY <1>4, TablesFact
  <2>3. Reading(new.heap, new.memory_induction_vars[b]) = Reading(o.heap, new.memory_induction_vars[b])
    BY <1>4, <2>2, ReadingBelow
  <2>4. RegChains(o)[src_reg] = Reading(o.heap, node)
        /\ MemChains(o)[b] = Reading(o.heap, o.memory_induction_vars[b])
    BY <1>3 DEF RegChains, MemChains
  <2> QED
    BY <2>1, <2>3, <2>4
<1>7. RegChains(new) = RegChains(o)
  BY <1>5 DEF RegChains
<1>8. MemChains(new) = [b \in Bytes |-> Reading(new.heap, new.memory_induction_vars[b])]
  BY DEF MemChains
<1> QED
  BY <1>6, <1>7, <1>8

----------------------------------------------------------------------------
\* A reset takes a new node, with nothing behind it, after the old one has been released.
AfterReset(o, reg, info, new) ==
    LET u == Unref(o.heap, o.induction_vars[reg])
    IN  \E node \in Nodes \ DOMAIN u :
            OptiReg(o, reg, node, Allocate(u, node, NULL, info), new)

LEMMA ResetAllocates ==
    ASSUME NEW o, SoundOpti(o), NEW reg \in Regs, NEW info \in Infos \cup {Start}, Room(o, 1)
    PROVE  AfterReset(o, reg, info, Reset(o, reg, info))
<1>1. PICK node, h, p, new : /\ node = Entry(o, reg) /\ h = o.heap /\ p = h[node].parent
                             /\ new = Reset(o, reg, info)
  OBVIOUS
<1>2. /\ IsOpti(o) /\ Sound(h, OptiExt(o)) /\ Tree(h) /\ IsHeap(h) /\ node = o.induction_vars[reg]
      /\ node \in DOMAIN h \cup {NULL} /\ (node # NULL => OptiExt(o)[node] >= 1)
      /\ node \in Nodes \cup {NULL}
  BY <1>1, EntryFact, TablesFact DEF SoundOpti, Sound, Tree
<1>3. CASE node # NULL /\ h[node].ref_count = 1
  <2>1. node \in DOMAIN h /\ node \in Nodes
    BY <1>2, <1>3
  <2>2. \A m \in DOMAIN h : h[m].parent # node
    BY <1>2, <1>3, <2>1, SoundWithout
  <2>3. p \in (DOMAIN h \ {node}) \cup {NULL}
    BY <1>1, <1>2, <2>1, <2>2 DEF Tree
  <2>4. PICK u, v : u = Unref(h, node) /\ v = Unref(h, p)
    OBVIOUS
  <2>5. u = Unref(Without(h, node), p)
    BY <1>1, <1>2, <1>3, <2>1, <2>2, <2>4, UnrefLast
  <2>6. SameBut(u, v, node)
    BY <1>2, <2>1, <2>2, <2>3, <2>4, <2>5, UnrefWithout
  <2>7. Allocate(v, node, NULL, info) = Allocate(u, node, NULL, info) /\ node \notin DOMAIN u
    BY <2>6 DEF Allocate, SameBut
  <2>8. new = [o EXCEPT !.heap = Allocate(v, node, NULL, info), !.len = Grown(o, reg),
                        !.induction_vars[reg] = node]
    BY <1>1, <1>3, <2>4 DEF Reset
  <2>9. OptiReg(o, reg, node, Allocate(u, node, NULL, info), new)
    BY <1>2, <2>1, <2>7, <2>8, IsOptiReg
  <2> QED
    BY <1>1, <1>2, <2>1, <2>4, <2>7, <2>9 DEF AfterReset
<1>4. CASE ~ (node # NULL /\ h[node].ref_count = 1)
  <2>1. PICK u, n : u = Unref(h, node) /\ n = Fresh(u)
    OBVIOUS
  <2>2. Sound(u, Plus(OptiExt(o), node, -1)) /\ DOMAIN u \subseteq DOMAIN h
    BY <1>2, <2>1, PointedFact, UnrefSound DEF Released
  <2>3. IsHeap(u) /\ Cardinality(DOMAIN u) + 1 <= NodeBound
    <3>1. /\ Cardinality(DOMAIN u) <= Cardinality(DOMAIN h) + 0
          /\ Cardinality(DOMAIN u) \in Nat /\ Cardinality(DOMAIN h) \in Nat
      BY <1>2, <2>2, LargerFact DEF Larger
    <3>2. Cardinality(DOMAIN u) + 1 <= NodeBound
      BY <1>1, <3>1, VariablesAssumption DEF Room
    <3> QED
      BY <2>2, <3>2 DEF Sound, Tree
  <2>4. n \in Nodes /\ n \notin DOMAIN u
    BY <2>1, <2>3, FreshFact
  <2>5. new = [o EXCEPT !.heap = Allocate(u, n, NULL, info), !.len = Grown(o, reg),
                        !.induction_vars[reg] = n]
    BY <1>1, <1>4, <2>1 DEF Reset
  <2>6. OptiReg(o, reg, n, Allocate(u, n, NULL, info), new)
    BY <1>2, <2>4, <2>5, IsOptiReg
  <2> QED
    BY <1>1, <1>2, <2>1, <2>4, <2>6 DEF AfterReset
<1> QED
  BY <1>3, <1>4

LEMMA ResetChains ==
    ASSUME NEW o, SoundOpti(o), NEW reg \in Regs, NEW info \in Infos \cup {Start}, Room(o, 1),
           unroll_factor \in Nat, NEW new, new = Reset(o, reg, info)
    PROVE  Becomes(o, new, reg, <<info>>)
<1>0. PICK u : u = Unref(o.heap, o.induction_vars[reg])
  OBVIOUS
<1>1. PICK node \in Nodes \ DOMAIN u : OptiReg(o, reg, node, Allocate(u, node, NULL, info), new)
  BY <1>0, ResetAllocates DEF AfterReset
<1>2. SoundOpti(new)
  BY ResetSound DEF ResetTo
<1>3. IsOpti(o) /\ Tree(o.heap) /\ IsTable(o.induction_vars, Regs) /\ Sound(o.heap, OptiExt(o))
  BY DEF SoundOpti, Sound, IsOpti
<1>4. Sound(u, Plus(OptiExt(o), o.induction_vars[reg], -1)) /\ Below(u, o.heap)
  <2>1. /\ o.induction_vars[reg] \in Nodes \cup {NULL}
        /\ o.induction_vars[reg] # NULL => OptiExt(o)[o.induction_vars[reg]] >= 1
    BY <1>3, EntryFact
  <2> QED
    BY <1>0, <1>3, <2>1, PointedFact, UnrefSound, UnrefBelow DEF Released
<1>5. PICK g : g = new.heap /\ g = Allocate(u, node, NULL, info)
  BY <1>1 DEF OptiReg
<1>6. /\ node \in DOMAIN g /\ g[node].parent = NULL /\ g[node].info = info /\ Below(u, g)
  BY <1>1, <1>5 DEF Allocate, Below
<1>7. Tree(g) /\ Tree(u)
  BY <1>2, <1>4, <1>5 DEF SoundOpti, Sound
<1>8. ASSUME NEW n \in DOMAIN u \cup {NULL}
      PROVE  Reading(g, n) = Reading(o.heap, n)
  <2>1. Reading(u, n) = Reading(g, n)
    BY <1>6, <1>7, ReadingBelow
  <2>2. Reading(u, n) = Reading(o.heap, n)
    BY <1>3, <1>4, <1>7, ReadingBelow
  <2> QED
    BY <2>1, <2>2
<1>9. OthersRead(o, g, o.heap, reg)
  BY <1>3, <1>4, <1>8, EntriesStay DEF OthersRead
<1>10. Reading(g, node) = <<info>>
  BY <1>6, <1>7, ReadingFirst
<1>11. Becomes(o, new, reg, Reading(new.heap, node))
  BY <1>1, <1>3, <1>5, <1>9, BecomesFact DEF OptiReg
<1> QED
  BY <1>5, <1>10, <1>11

----------------------------------------------------------------------------
LEMMA CollectTableRuns ==
    ASSUME NEW h, NEW ext, Sound(h, ext), NEW table, Counted(table, ext), NEW last \in Int,
           last >= -1, unroll_factor \in Nat, NEW new, new = CollectTable(h, table, last)
    PROVE  Sound(new, ext) /\ SameRuns(new, h, ext)
<1> DEFINE V == {g \in Shrunk(h, ext) : SameRuns(g, h, ext)}
<1>1. h \in V
  BY ShrunkFact DEF SameRuns
<1>2. ASSUME NEW g \in V, NEW i \in DOMAIN table PROVE CollectChain(g, table[i]) \in V
  <2>1. PICK c, n : n = table[i] /\ c = CollectChain(g, n)
    OBVIOUS
  <2>2. n \in Nodes \cup {NULL} /\ (n # NULL => ext[n] >= 1)
    BY <2>1 DEF Counted
  <2>3. g \in Shrunk(h, ext) /\ Sound(g, ext) /\ SameRuns(g, h, ext)
    BY <1>2, ShrunkFact
  <2>4. c \in Shrunk(h, ext)
    BY <2>1, <2>2, <2>3, ShrunkKeeps
  <2>5. n \in DOMAIN g \cup {NULL}
    BY <2>2, <2>3, PointedFact DEF Pointed
  <2>6. SameRuns(c, g, ext)
    BY <2>1, <2>3, <2>5, CollectChainRuns
  <2>7. SameRuns(c, h, ext)
    BY <2>3, <2>6 DEF SameRuns
  <2> QED
    BY <2>1, <2>4, <2>7
<1> HIDE DEF V
<1>3. new \in V
  BY <1>1, <1>2, CollectTableKeeps
<1> QED
  BY <1>3, ShrunkFact DEF V

\* A collection changes nothing that can be read.
LEMMA CollectChains ==
    ASSUME NEW o, SoundOpti(o), unroll_factor \in Nat, NEW new, new = Collect(o)
    PROVE  RegChains(new) = RegChains(o) /\ MemChains(new) = MemChains(o)
<1>1. PICK ext, regs, last, heap :
          /\ ext = OptiExt(o)
          /\ regs = CollectTable(o.heap, o.induction_vars, o.len - 1)
          /\ last = Max(Bytes \cup {-1})
          /\ heap = CollectTable(regs, o.memory_induction_vars, last)
  OBVIOUS
<1>2. /\ IsOpti(o) /\ Sound(o.heap, ext) /\ o.len - 1 \in Int /\ o.len - 1 >= -1
      /\ last \in Int /\ last >= -1
  BY <1>1, LastByte DEF SoundOpti, IsOpti
<1>3. Counted(o.induction_vars, ext) /\ Counted(o.memory_induction_vars, ext)
  BY <1>1, TablesCounted
<1>4. Sound(regs, ext) /\ SameRuns(regs, o.heap, ext)
  BY <1>1, <1>2, <1>3, CollectTableRuns
<1>5. Sound(heap, ext) /\ SameRuns(heap, regs, ext)
  BY <1>1, <1>2, <1>3, <1>4, CollectTableRuns
<1>6. SameRuns(heap, o.heap, ext)
  BY <1>4, <1>5 DEF SameRuns
<1>7. /\ new.heap = heap /\ new.induction_vars = o.induction_vars
      /\ new.memory_induction_vars = o.memory_induction_vars
  <2>1. new = [o EXCEPT !.heap = heap, !.IVE_gc_interval = GCInterval]
    BY <1>1 DEF Collect
  <2> QED
    BY <1>2, <2>1 DEF IsOpti
<1>8. ASSUME NEW n \in Nodes \cup {NULL}, n # NULL => ext[n] >= 1
      PROVE  Reading(heap, n) = Reading(o.heap, n)
  <2>1. CASE n = NULL
    <3>1. Tree(heap) /\ Tree(o.heap)
      BY <1>2, <1>5 DEF Sound
    <3> QED
      BY <2>1, <3>1, ReadingType
  <2>2. CASE n # NULL
    BY <1>6, <1>8, <2>2 DEF SameRuns, Reading
  <2> QED
    BY <2>1, <2>2
<1>9. \A r \in Regs : Reading(heap, o.induction_vars[r]) = Reading(o.heap, o.induction_vars[r])
  <2>1. DOMAIN o.induction_vars = Regs
    BY <1>2 DEF IsOpti, IsTable
  <2> QED
    BY <1>3, <1>8, <2>1 DEF Counted
<1>10. \A b \in Bytes : Reading(heap, o.memory_induction_vars[b]) =
                           Reading(o.heap, o.memory_induction_vars[b])
  <2>1. DOMAIN o.memory_induction_vars = Bytes
    BY <1>2 DEF IsOpti, IsTable
  <2> QED
    BY <1>3, <1>8, <2>1 DEF Counted
<1> QED
  BY <1>7, <1>9, <1>10 DEF RegChains, MemChains

----------------------------------------------------------------------------
\* A new node is counted in the heap, which is otherwise as before.
LEMMA AllocateBelow ==
    ASSUME NEW h, IsHeap(h), NEW node \in Nodes, node \notin DOMAIN h,
           NEW parent \in DOMAIN h \cup {NULL}, NEW info \in Infos \cup {Start},
           NEW g, g = Ref(Allocate(h, node, parent, info), parent, 1)
    PROVE  /\ Below(h, g) /\ node \in DOMAIN g
           /\ g[node].parent = parent /\ g[node].info = info
<1>1. PICK a : a = Allocate(h, node, parent, info)
  OBVIOUS
<1>2. /\ DOMAIN a = DOMAIN h \cup {node} /\ \A n \in DOMAIN h : a[n] = h[n]
      /\ a[node] = [parent |-> parent, ref_count |-> 1, info |-> info]
      /\ a = [n \in DOMAIN a |-> a[n]]
  BY <1>1 DEF Allocate
<1>3. IsHeap(a)
  <2>1. parent \in Nodes \cup {NULL}
    BY DEF IsHeap
  <2>2. [parent |-> parent, ref_count |-> 1, info |-> info] \in IVENode
    BY <2>1 DEF IVENode
  <2>3. \A n \in DOMAIN h : a[n] \in IVENode
    BY <1>2, HeapFact
  <2>4. DOMAIN a \subseteq Nodes
    BY <1>2 DEF IsHeap
  <2>5. \A n \in DOMAIN a : a[n] \in IVENode
    BY <1>2, <2>2, <2>3
  <2> QED
    BY <1>2, <2>4, <2>5 DEF IsHeap
<1>4. parent \in DOMAIN a \cup {NULL} /\ 1 \in Nat
  BY <1>2
<1>5. Below(a, g) /\ DOMAIN g = DOMAIN a
  BY <1>1, <1>3, <1>4, RefBelow
<1>6. Below(h, g)
  BY <1>2, <1>5 DEF Below
<1>7. g[node].parent = a[node].parent /\ g[node].info = a[node].info /\ node \in DOMAIN g
  BY <1>2, <1>5 DEF Below
<1> QED
  BY <1>2, <1>6, <1>7

\* An addition: its result before the chain it goes on, as far as that can be read.
LEMMA ChainChains ==
    ASSUME NEW o, SoundOpti(o), NEW dest_reg \in Regs, NEW src_reg \in Regs,
           NEW info \in Infos \cup {Start}, Room(o, 1), unroll_factor \in Nat,
           NEW new, new = Chain(o, dest_reg, src_reg, info)
    PROVE  Becomes(o, new, dest_reg,
                   Take(<<info>> \o RegChains(o)[src_reg], Farthest(unroll_factor)))
<1>1. PICK parent, node, heap, linked :
          /\ parent = Entry(o, src_reg) /\ node = Fresh(o.heap)
          /\ heap = Ref(Allocate(o.heap, node, parent, info), parent, 1)
          /\ linked = Point(o, heap, dest_reg, node)
  OBVIOUS
<1>2. /\ IsOpti(o) /\ Sound(o.heap, OptiExt(o)) /\ IsHeap(o.heap) /\ Tree(o.heap)
      /\ parent \in DOMAIN o.heap \cup {NULL} /\ parent = o.induction_vars[src_reg]
  BY <1>1, TablesFact, EntryFact DEF SoundOpti, Sound, Tree
<1>3. node \in Nodes /\ node \notin DOMAIN o.heap
  BY <1>1, <1>2, FreshFact DEF Room
<1>4. Sound(heap, Plus(OptiExt(o), node, 1))
  BY <1>1, <1>2, <1>3, AllocateSound
<1>5. Below(o.heap, heap) /\ node \in DOMAIN heap /\ heap[node].parent = parent
      /\ heap[node].info = info
  BY <1>1, <1>2, <1>3, AllocateBelow
<1>6. Becomes(o, linked, dest_reg, Reading(heap, node)) /\ SoundOpti(linked)
  <2>1. Becomes(o, linked, dest_reg, Reading(heap, node))
    BY <1>1, <1>3, <1>4, <1>5, PointChains
  <2>2. SoundOpti(linked)
    BY <1>1, <1>2, <1>3, <1>4, PointSound
  <2> QED
    BY <2>1, <2>2
<1>7. Reading(heap, node) = Take(<<info>> \o RegChains(o)[src_reg], Farthest(unroll_factor))
  <2>1. Tree(heap)
    BY <1>4 DEF Sound
  <2>2. Reading(heap, node) =
            Take(<<heap[node].info>> \o Reading(o.heap, heap[node].parent), Farthest(unroll_factor))
    BY <1>2, <1>5, <2>1, RunNew DEF Reading
  <2>3. RegChains(o)[src_reg] = Reading(o.heap, parent)
    BY <1>2 DEF RegChains
  <2> QED
    BY <1>5, <2>2, <2>3
<1>8. RegChains(new) = RegChains(linked) /\ MemChains(new) = MemChains(linked)
  <2>1. linked.IVE_gc_interval = o.IVE_gc_interval
    BY <1>1, <1>2 DEF Point, IsOpti
  <2>2. new = IF o.IVE_gc_interval = 0 THEN Collect(linked)
              ELSE [linked EXCEPT !.IVE_gc_interval = @ - 1]
    BY <1>1 DEF Chain
  <2>3. CASE o.IVE_gc_interval = 0
    BY <1>6, <2>2, <2>3, CollectChains
  <2>4. CASE o.IVE_gc_interval # 0
    <3>1. /\ new.heap = linked.heap /\ new.induction_vars = linked.induction_vars
          /\ new.memory_induction_vars = linked.memory_induction_vars
      BY <1>6, <2>2, <2>4 DEF SoundOpti, IsOpti
    <3> QED
      BY <3>1 DEF RegChains, MemChains
  <2> QED
    BY <2>3, <2>4
<1> QED
  BY <1>6, <1>7, <1>8 DEF Becomes

----------------------------------------------------------------------------
\* What a register without a chain is read as.
Given(chain) == IF chain = <<>> THEN <<Start>> ELSE chain

LEMMA FoundChains ==
    ASSUME NEW o, SoundOpti(o), NEW reg \in Regs, Room(o, 1), unroll_factor \in Nat,
           NEW new, new = Found(o, reg)
    PROVE  Becomes(o, new, reg, Given(RegChains(o)[reg]))
<1>1. PICK n : n = o.induction_vars[reg]
  OBVIOUS
<1>2. IsOpti(o) /\ Tree(o.heap) /\ Entry(o, reg) = n /\ n \in DOMAIN o.heap \cup {NULL}
  BY <1>1, EntryFact, TablesFact DEF SoundOpti, Sound
<1>3. RegChains(o)[reg] = Reading(o.heap, n)
  BY <1>1 DEF RegChains
<1>4. RegChains(o)[reg] = <<>> <=> n = NULL
  BY <1>2, <1>3, ReadingType
<1>5. CASE n = NULL
  <2>1. new = Reset(o, reg, Start) /\ Start \in Infos \cup {Start}
    BY <1>2, <1>5 DEF Found
  <2>2. Becomes(o, new, reg, <<Start>>)
    BY <2>1, ResetChains
  <2> QED
    BY <1>4, <1>5, <2>2 DEF Given
<1>6. CASE n # NULL
  <2>1. ~ (reg > o.len)
    <3>1. reg \in Nat /\ o.len \in Nat
      BY <1>2, VariablesAssumption DEF IsOpti
    <3> QED
      BY <1>2, <1>6, <3>1 DEF Entry
  <2>2. new = o
    BY <1>2, <1>6, <2>1 DEF Found
  <2>3. RegChains(o) = [RegChains(o) EXCEPT ![reg] = RegChains(o)[reg]]
    BY DEF RegChains
  <2> QED
    BY <1>4, <1>6, <2>2, <2>3 DEF Given, Becomes
<1> QED
  BY <1>5, <1>6

\* The info read is the last of the chain.
LEMMA ReadLast ==
    ASSUME NEW o, Tree(o.heap), NEW reg, o.induction_vars[reg] \in DOMAIN o.heap,
           unroll_factor \in Nat
    PROVE  LET chain == Reading(o.heap, o.induction_vars[reg])
           IN  ReadInfo(o, reg) = chain[Len(chain)]
<1> DEFINE LastOf(s) == s[Len(s)]
<1>1. PICK h, u, a : h = o.heap /\ u = unroll_factor /\ a = Run(h, u)
  OBVIOUS
<1>2. PICK back : /\ ReadInfo(o, reg) = back[o.induction_vars[reg]][1]
                  /\ \A n \in DOMAIN h, i \in 1..(u + 1) :
                        back[n][i] = IF h[n].parent # NULL /\ i < u
                                     THEN back[h[n].parent][i + 1] ELSE h[n].info
  BY <1>1, ReadInfoFact
<1>3. /\ \A k \in Nat : a[NULL][k] = <<>>
      /\ \A n \in DOMAIN h, k \in Nat :
            a[n][k] = IF k >= u THEN <<h[n].info>> ELSE <<h[n].info>> \o a[h[n].parent][k + 1]
      /\ \A n \in DOMAIN h \cup {NULL}, k \in Nat : a[n][k] \in Seq(Results)
  BY <1>1, RunFact
<1>4. /\ Tree(h) /\ NULL \notin DOMAIN h
      /\ \A n \in DOMAIN h : h[n].parent \in DOMAIN h \cup {NULL} /\ h[n].info \in Results
  BY <1>1, HeapFact DEF Tree, Results
<1> DEFINE S == {n \in DOMAIN h \cup {NULL} : n # NULL =>
                    \A i \in 1..(u + 1) : Len(a[n][i]) > 0 /\ back[n][i] = LastOf(a[n][i])}
<1>5. NULL \in S
  OBVIOUS
<1>6. ASSUME NEW n \in DOMAIN h, h[n].parent \in S PROVE n \in S
  <2>1. ASSUME NEW i \in 1..(u + 1) PROVE Len(a[n][i]) > 0 /\ back[n][i] = LastOf(a[n][i])
    <3>1. PICK p, x, s : p = h[n].parent /\ x = h[n].info /\ s = a[p][i + 1]
      OBVIOUS
    <3>2. i \in Nat /\ i + 1 \in Nat /\ p \in DOMAIN h \cup {NULL} /\ x \in Results
      BY <1>4, <3>1
    <3>3. s \in Seq(Results)
      BY <1>3, <3>1, <3>2
    <3>4. back[n][i] = IF p # NULL /\ i < u THEN back[p][i + 1] ELSE x
      BY <1>2, <3>1
    <3>5. a[n][i] = IF i >= u THEN <<x>> ELSE <<x>> \o s
      BY <1>3, <3>1, <3>2
    <3>6. Len(<<x>>) = 1 /\ LastOf(<<x>>) = x
      OBVIOUS
    <3>7. CASE i >= u
      <4>1. back[n][i] = x
        BY <1>1, <3>4, <3>7
      <4> HIDE DEF LastOf
      <4> QED
        BY <3>5, <3>6, <3>7, <4>1
    <3>8. CASE ~ (i >= u) /\ p = NULL
      <4>1. s = <<>>
        BY <1>3, <3>1, <3>2, <3>8
      <4>2. <<x>> \o <<>> = <<x>>
        BY <3>2, ConcatEmptySeq
      <4>3. a[n][i] = <<x>>
        BY <3>5, <3>8, <4>1, <4>2
      <4>4. back[n][i] = x
        BY <3>4, <3>8
      <4> HIDE DEF LastOf
      <4> QED
        BY <3>6, <4>3, <4>4
    <3>9. CASE ~ (i >= u) /\ p # NULL
      <4>1. i + 1 \in 1..(u + 1) /\ i < u
        BY <1>1, <3>9
      <4>2. Len(s) > 0 /\ back[p][i + 1] = LastOf(s)
        BY <1>6, <3>1, <3>9, <4>1
      <4>3. PICK t : t = <<x>> \o s
        OBVIOUS
      <4>4. /\ Len(s) \in Nat /\ Len(t) = Len(s) + 1
            /\ \A j \in 1..Len(s) : t[j + 1] = s[j]
        BY <3>2, <3>3, <4>3, ConsFact
      <4>5. Len(t) > 0 /\ t[Len(t)] = s[Len(s)]
        BY <4>2, <4>4
      <4>6. a[n][i] = t /\ back[n][i] = LastOf(s)
        BY <3>4, <3>5, <3>9, <4>1, <4>2, <4>3
      <4> QED
        BY <4>5, <4>6
    <3> QED
      BY <3>7, <3>8, <3>9
  <2> QED
    BY <2>1
<1>7. o.induction_vars[reg] \in S
  <2> HIDE DEF S
  <2> QED
    BY <1>1, <1>4, <1>5, <1>6, TreeInduction
<1>8. 1 \in 1..(u + 1) /\ o.induction_vars[reg] # NULL
  BY <1>1, <1>4
<1>9. back[o.induction_vars[reg]][1] = LastOf(a[o.induction_vars[reg]][1])
  BY <1>7, <1>8
<1> QED
  BY <1>1, <1>2, <1>9 DEF Reading

----------------------------------------------------------------------------
(***************************************************************************)
(* The nodes implement the chains of InductionChains.                      *)
(***************************************************************************)
RegMap == [r \in Regs |-> ChainFrom(opti.induction_vars[r])]

MemMap == [b \in Bytes |-> ChainFrom(opti.memory_induction_vars[b])]

LEMMA MapFact == RegMap = RegChains(opti) /\ MemMap = MemChains(opti)
<1>1. \A n : ChainFrom(n) = Reading(opti.heap, n)
  BY DEF ChainFrom, Reading, Run
<1> QED
  BY <1>1 DEF RegMap, MemMap, RegChains, MemChains

LEMMA MapNext ==
    ASSUME NEW new, opti' = new, unroll_factor' = unroll_factor
    PROVE  RegMap' = RegChains(new) /\ MemMap' = MemChains(new)
<1>1. \A n : ChainFrom(n)' = Reading(new.heap, n)
  <2> SUFFICES ASSUME NEW n PROVE ChainFrom(n)' = Reading(new.heap, n)
    OBVIOUS
  <2> QED
    BY DEF ChainFrom, Reading, Run
<1> QED
  BY <1>1 DEF RegMap, MemMap, RegChains, MemChains

\* The chain that is read, and the chains after that.
LEMMA ReadChains ==
    ASSUME NEW s \in Regs
    PROVE  /\ Chains!Found(s) = Given(RegMap[s])
           /\ Chains!Read(s) = [RegMap EXCEPT ![s] = Given(RegMap[s])]
<1>1. Chains!Found(s) = Given(RegMap[s])
  BY DEF Chains!Found, RegMap, Given, Start, Chains!Start
<1> QED
  BY <1>1 DEF Chains!Read, RegMap

LEMMA KeptTaken ==
    ASSUME NEW chain
    PROVE  Chains!Kept(chain) = Take(chain, Farthest(unroll_factor))
BY DEF Chains!Kept, Chains!Distance, Take, Farthest

\* The steps of InductionChains, by what becomes of the registers and the bytes.
LEMMA MovStep ==
    ASSUME NEW d \in Regs, NEW s \in Regs, NEW f, f = Given(RegMap[s]), source' = f[Len(f)],
           RegMap' = [[RegMap EXCEPT ![s] = f] EXCEPT ![d] = f],
           MemMap' = MemMap, unroll_factor' = unroll_factor
    PROVE  Chains!Mov(d, s)
<1>1. Chains!Found(s) = f /\ Chains!Read(s) = [RegMap EXCEPT ![s] = f]
  BY ReadChains
<1> QED
  BY <1>1 DEF Chains!Mov, RegMap, MemMap

LEMMA AddiStep ==
    ASSUME NEW d \in Regs, NEW s \in Regs, NEW info, NEW f, f = Given(RegMap[s]),
           source' = f[Len(f)],
           RegMap' = [[RegMap EXCEPT ![s] = f]
                         EXCEPT ![d] = Take(<<info>> \o f, Farthest(unroll_factor))],
           MemMap' = MemMap, unroll_factor' = unroll_factor
    PROVE  Chains!Addi(d, s, info)
<1>1. Chains!Found(s) = f /\ Chains!Read(s) = [RegMap EXCEPT ![s] = f]
  BY ReadChains
<1>2. Chains!Kept(<<info>> \o f) = Take(<<info>> \o f, Farthest(unroll_factor))
  BY KeptTaken
<1> QED
  BY <1>1, <1>2 DEF Chains!Addi, RegMap, MemMap

LEMMA OtherStep ==
    ASSUME NEW d \in Regs, NEW info,
           RegMap' = [RegMap EXCEPT ![d] = <<info>>], MemMap' = MemMap,
           unroll_factor' = unroll_factor, source' = source
    PROVE  Chains!Other(d, info)
BY DEF Chains!Other, RegMap, MemMap

LEMMA StoreStep ==
    ASSUME NEW a, NEW s \in Regs, RegMap' = RegMap,
           MemMap' = [b \in Bytes |-> IF b \in BytesOf(a) THEN RegMap[s] ELSE MemMap[b]],
           unroll_factor' = unroll_factor, source' = source
    PROVE  Chains!Store(a, s)
BY DEF Chains!Store, RegMap, MemMap, BytesOf, Chains!BytesOf

LEMMA StoreUpdateStep ==
    ASSUME NEW a, NEW s \in Regs, NEW base \in Regs, NEW info,
           RegMap' = [RegMap EXCEPT ![base] = <<info>>],
           MemMap' = [b \in Bytes |-> IF b \in BytesOf(a) THEN RegMap'[s] ELSE MemMap[b]],
           unroll_factor' = unroll_factor, source' = source
    PROVE  Chains!StoreUpdate(a, s, base, info)
BY DEF Chains!StoreUpdate, RegMap, MemMap, BytesOf, Chains!BytesOf

LEMMA LoadStep ==
    ASSUME NEW a, NEW d \in Regs,
           RegMap' = [RegMap EXCEPT ![d] = MemMap[a[1]]], MemMap' = MemMap,
           unroll_factor' = unroll_factor, source' = source
    PROVE  Chains!Load(a, d)
BY DEF Chains!Load, RegMap, MemMap

LEMMA LoadUpdateStep ==
    ASSUME NEW a, NEW d \in Regs, NEW base \in Regs, NEW info, d # base,
           RegMap' = [[RegMap EXCEPT ![d] = MemMap[a[1]]] EXCEPT ![base] = <<info>>],
           MemMap' = MemMap, unroll_factor' = unroll_factor, source' = source
    PROVE  Chains!LoadUpdate(a, d, base, info)
BY DEF Chains!LoadUpdate, RegMap, MemMap

----------------------------------------------------------------------------
LEMMA InitChains ==
    ASSUME Init
    PROVE  Chains!Init
<1>1. InductionInv /\ unroll_factor \in Nat
  BY InitSound, VariablesAssumption DEF Init
<1>2. Tree(opti.heap)
  BY <1>1 DEF InductionInv, SoundOpti, Sound
<1>3. Reading(opti.heap, NULL) = <<>>
  BY <1>1, <1>2, ReadingType
<1>4. opti.induction_vars = [r \in Regs |-> NULL]
      /\ opti.memory_induction_vars = [b \in Bytes |-> NULL]
  BY DEF Init
<1>5. RegMap = [r \in Regs |-> <<>>] /\ MemMap = [b \in Bytes |-> <<>>]
  <2>1. \A r \in Regs : Reading(opti.heap, opti.induction_vars[r]) = <<>>
    BY <1>3, <1>4
  <2>2. \A b \in Bytes : Reading(opti.heap, opti.memory_induction_vars[b]) = <<>>
    BY <1>3, <1>4
  <2> QED
    BY <2>1, <2>2, MapFact DEF RegChains, MemChains
<1> QED
  BY <1>5 DEF Init, Chains!Init, RegMap, MemMap, Start, Chains!Start

\* What an instruction that reads register s finds.
LEMMA ReadsChains ==
    ASSUME InductionInv, unroll_factor \in Nat, NEW s \in Regs, Reads(s),
           NEW o, o = Found(opti, s), NEW f, f = Given(RegMap[s])
    PROVE  /\ SoundOpti(o) /\ Room(o, 1) /\ source' = f[Len(f)]
           /\ RegChains(o) = [RegMap EXCEPT ![s] = f] /\ RegChains(o)[s] = f
           /\ MemChains(o) = MemMap
<1>1. Room(opti, 2) /\ SoundOpti(opti) /\ ~ ReadFails(opti, s) /\ source' = ReadInfo(o, s)
  BY DEF Reads, CanAllocate, Room, InductionInv
<1>2. SoundOpti(o) /\ Room(o, 1) /\ o.induction_vars[s] \in DOMAIN o.heap
  BY <1>1, FoundSound
<1>3. Room(opti, 1)
  BY <1>1, RoomFact
<1>4. Becomes(opti, o, s, Given(RegChains(opti)[s]))
  BY <1>1, <1>3, FoundChains
<1>5. RegChains(o) = [RegMap EXCEPT ![s] = f] /\ MemChains(o) = MemMap
  BY <1>4, MapFact DEF Becomes
<1>6. RegChains(o)[s] = f
  BY <1>5 DEF RegMap
<1>7. Tree(o.heap)
  BY <1>2 DEF SoundOpti, Sound
<1>8. PICK chain : chain = Reading(o.heap, o.induction_vars[s])
  OBVIOUS
<1>9. ReadInfo(o, s) = chain[Len(chain)]
  BY <1>2, <1>7, <1>8, ReadLast
<1>10. chain = f
  BY <1>6, <1>8 DEF RegChains
<1> QED
  BY <1>1, <1>2, <1>5, <1>6, <1>9, <1>10

LEMMA NextChains ==
    ASSUME InductionInv, [Next]_vars
    PROVE  [Chains!Next]_(Chains!vars)
<1>1. SoundOpti(opti) /\ unroll_factor \in Nat
  BY VariablesAssumption DEF InductionInv
<1>2. RegMap = RegChains(opti) /\ MemMap = MemChains(opti)
  BY MapFact
<1>3. CanAllocate => Room(opti, 1)
  <2>1. CanAllocate => Room(opti, 2)
    BY DEF CanAllocate, Room
  <2> QED
    BY <1>1, <2>1, RoomFact
<1>4. \A a \in Accesses : a[1] \in Bytes
  BY AccessFact
<1>5. ASSUME NEW d \in Regs, NEW s \in Regs, Mov(d, s) PROVE Chains!Mov(d, s)
  <2>1. PICK o, f, new : o = Found(opti, s) /\ f = Given(RegMap[s]) /\ new = Link(o, d, s)
    OBVIOUS
  <2>2. Reads(s) /\ opti' = new /\ unroll_factor' = unroll_factor
    BY <1>5, <2>1 DEF Mov
  <2>3. /\ SoundOpti(o) /\ source' = f[Len(f)] /\ RegChains(o)[s] = f
        /\ RegChains(o) = [RegMap EXCEPT ![s] = f] /\ MemChains(o) = MemMap
    BY <1>1, <2>1, <2>2, ReadsChains
  <2>4. Becomes(o, new, d, f)
    BY <1>1, <2>1, <2>3, LinkChains
  <2>5. RegMap' = RegChains(new) /\ MemMap' = MemChains(new)
    BY <2>2, MapNext
  <2>6. RegMap' = [[RegMap EXCEPT ![s] = f] EXCEPT ![d] = f] /\ MemMap' = MemMap
    BY <2>3, <2>4, <2>5 DEF Becomes
  <2> QED
    BY <2>1, <2>2, <2>3, <2>6, MovStep
<1>6. ASSUME NEW d \in Regs, NEW s \in Regs, NEW info \in Infos, Addi(d, s, info)
      PROVE  Chains!Addi(d, s, info)
  <2>1. PICK o, f, new : o = Found(opti, s) /\ f = Given(RegMap[s]) /\ new = Chain(o, d, s, info)
    OBVIOUS
  <2>2. Reads(s) /\ opti' = new /\ unroll_factor' = unroll_factor
    BY <1>6, <2>1 DEF Addi
  <2>3. /\ SoundOpti(o) /\ Room(o, 1) /\ source' = f[Len(f)] /\ RegChains(o)[s] = f
        /\ RegChains(o) = [RegMap EXCEPT ![s] = f] /\ MemChains(o) = MemMap
    BY <1>1, <2>1, <2>2, ReadsChains
  <2>4. PICK chain : chain = Take(<<info>> \o f, Farthest(unroll_factor))
    OBVIOUS
  <2>5. Becomes(o, new, d, chain)
    BY <1>1, <2>1, <2>3, <2>4, ChainChains
  <2>6. RegMap' = RegChains(new) /\ MemMap' = MemChains(new)
    BY <2>2, MapNext
  <2>7. RegMap' = [[RegMap EXCEPT ![s] = f] EXCEPT ![d] = chain] /\ MemMap' = MemMap
    BY <2>3, <2>5, <2>6 DEF Becomes
  <2> QED
    BY <2>1, <2>2, <2>3, <2>4, <2>7, AddiStep
<1>7. ASSUME NEW d \in Regs, NEW info \in Infos, Other(d, info) PROVE Chains!Other(d, info)
  <2>1. PICK new : new = Reset(opti, d, info)
    OBVIOUS
  <2>2. CanAllocate /\ opti' = new /\ source' = source /\ unroll_factor' = unroll_factor
    BY <1>7, <2>1 DEF Other
  <2>3. Becomes(opti, new, d, <<info>>)
    BY <1>1, <1>3, <2>1, <2>2, ResetChains
  <2>4. RegMap' = RegChains(new) /\ MemMap' = MemChains(new)
    BY <2>2, MapNext
  <2> QED
    BY <1>2, <2>2, <2>3, <2>4, OtherStep DEF Becomes
<1>8. ASSUME NEW a \in Accesses, NEW s \in Regs, Store(a, s) PROVE Chains!Store(a, s)
  <2>1. PICK new : new = LinkToMem(opti, a, s)
    OBVIOUS
  <2>2. opti' = new /\ source' = source /\ unroll_factor' = unroll_factor
    BY <1>8, <2>1 DEF Store
  <2>3. /\ RegChains(new) = RegMap
        /\ MemChains(new) = [b \in Bytes |-> IF b \in BytesOf(a) THEN RegMap[s] ELSE MemMap[b]]
    BY <1>1, <1>2, <2>1, LinkToMemChains
  <2>4. RegMap' = RegChains(new) /\ MemMap' = MemChains(new)
    BY <2>2, MapNext
  <2> QED
    BY <2>2, <2>3, <2>4, StoreStep
<1>9. ASSUME NEW a \in Accesses, NEW s \in Regs, NEW base \in Regs, NEW info \in Infos,
             StoreUpdate(a, s, base, info)
      PROVE  Chains!StoreUpdate(a, s, base, info)
  <2>1. PICK o, new : o = Reset(opti, base, info) /\ new = LinkToMem(o, a, s)
    OBVIOUS
  <2>2. CanAllocate /\ opti' = new /\ source' = source /\ unroll_factor' = unroll_factor
    BY <1>9, <2>1 DEF StoreUpdate
  <2>3. Becomes(opti, o, base, <<info>>) /\ SoundOpti(o)
    BY <1>1, <1>3, <2>1, <2>2, ResetChains, ResetSound DEF ResetTo
  <2>4. /\ RegChains(new) = RegChains(o)
        /\ MemChains(new) = [b \in Bytes |-> IF b \in BytesOf(a) THEN RegChains(o)[s]
                                             ELSE MemChains(o)[b]]
    BY <1>1, <2>1, <2>3, LinkToMemChains
  <2>5. RegMap' = RegChains(new) /\ MemMap' = MemChains(new)
    BY <2>2, MapNext
  <2>6. RegMap' = [RegMap EXCEPT ![base] = <<info>>] /\ RegMap' = RegChains(o)
        /\ MemChains(o) = MemMap
    BY <1>2, <2>3, <2>4, <2>5 DEF Becomes
  <2>7. MemMap' = [b \in Bytes |-> IF b \in BytesOf(a) THEN RegMap'[s] ELSE MemMap[b]]
    BY <2>4, <2>5, <2>6
  <2> QED
    BY <2>2, <2>6, <2>7, StoreUpdateStep
<1>10. ASSUME NEW a \in Accesses, NEW d \in Regs, Load(a, d) PROVE Chains!Load(a, d)
  <2>1. PICK new : new = LinkFromMem(opti, d, a)
    OBVIOUS
  <2>2. opti' = new /\ source' = source /\ unroll_factor' = unroll_factor
    BY <1>10, <2>1 DEF Load
  <2>3. Becomes(opti, new, d, MemMap[a[1]])
    BY <1>1, <1>2, <1>4, <2>1, LinkFromMemChains
  <2>4. RegMap' = RegChains(new) /\ MemMap' = MemChains(new)
    BY <2>2, MapNext
  <2> QED
    BY <1>2, <2>2, <2>3, <2>4, LoadStep DEF Becomes
<1>11. ASSUME NEW a \in Accesses, NEW d \in Regs, NEW base \in Regs, NEW info \in Infos,
              LoadUpdate(a, d, base, info)
       PROVE  Chains!LoadUpdate(a, d, base, info)
  <2>1. PICK o, new : o = LinkFromMem(opti, d, a) /\ new = Reset(o, base, info)
    OBVIOUS
  <2>2. /\ CanAllocate /\ d # base /\ opti' = new /\ source' = source
        /\ unroll_factor' = unroll_factor
    BY <1>11, <2>1 DEF LoadUpdate
  <2>3. SoundOpti(o) /\ DOMAIN o.heap \subseteq DOMAIN opti.heap
    BY <1>1, <1>4, <2>1, LinkFromMemSound
  <2>4. Room(o, 1)
    BY <1>1, <1>3, <2>2, <2>3, RoomKept
  <2>5. Becomes(opti, o, d, MemMap[a[1]])
    BY <1>1, <1>2, <1>4, <2>1, LinkFromMemChains
  <2>6. Becomes(o, new, base, <<info>>)
    BY <1>1, <2>1, <2>3, <2>4, ResetChains
  <2>7. RegMap' = RegChains(new) /\ MemMap' = MemChains(new)
    BY <2>2, MapNext
  <2>8. /\ RegMap' = [[RegMap EXCEPT ![d] = MemMap[a[1]]] EXCEPT ![base] = <<info>>]
        /\ MemMap' = MemMap
    BY <1>2, <2>5, <2>6, <2>7 DEF Becomes
  <2> QED
    BY <2>2, <2>8, LoadUpdateStep
<1>12. ASSUME opti' = opti, unroll_factor' = unroll_factor, source' = source
       PROVE  UNCHANGED Chains!vars
  <2>1. RegMap' = RegMap /\ MemMap' = MemMap
    BY <1>2, <1>12, MapNext
  <2> QED
    BY <1>12, <2>1 DEF Chains!vars, RegMap, MemMap
<1>13. ASSUME NEW s \in Regs, Abort(s) PROVE UNCHANGED Chains!vars
  BY <1>12, <1>13 DEF Abort
<1>14. CASE UNCHANGED vars
  BY <1>12, <1>14 DEF vars
<1>15. CASE Next
  <2>1. CASE \E s \in Regs : Abort(s)
    BY <1>13, <2>1
  <2>2. CASE ~ \E s \in Regs : Abort(s)
    BY <1>5, <1>6, <1>7, <1>8, <1>9, <1>10, <1>11, <1>15, <2>2 DEF Next, Chains!Next
  <2> QED
    BY <2>1, <2>2
<1> QED
  BY <1>14, <1>15

(***************************************************************************)
(* Refinement: whatever registers, bytes, accesses, unroll factor and      *)
(* collection interval there are, an addition is given the result          *)
(* unroll_factor links back, or the first of its chain, and every register *)
(* and byte keeps the results that can still be asked for, while nodes are *)
(* shared, reused, freed and cut off (adamant_IVE_read, adamant_IVE_chain, *)
(* adamant_IVE_garbage_collect_chain).                                     *)
(***************************************************************************)
THEOREM InductionChainsAreImplemented == Spec => ImplementsInductionChains
<1>1. Init => Chains!Init
  BY InitChains
<1>2. InductionInv /\ [Next]_vars => [Chains!Next]_(Chains!vars)
  BY NextChains
<1> QED
  BY <1>1, <1>2, InductionInvariant, PTL DEF Spec, ImplementsInductionChains, Chains!Spec
=============================================================================
