--------------------------- MODULE PageTable_proofs ---------------------------
(***************************************************************************)
(* The page table is a map, for every depth, every set of lines and any    *)
(* two hash functions.                                                     *)
(***************************************************************************)
EXTENDS PageTable, SequenceTheorems, FiniteSetTheorems, TLAPS

\* The walk to an entry never ends early.
TreeComplete == \A l \in Lines : nodes[l] # NULL => Reached(l)

(***************************************************************************)
(* Each entry hangs in the tree at the address it carries, and only there. *)
(* This is what makes the comparison of ami->ea in the hash table enough:  *)
(* an entry with the right address is the one the walk would have found,   *)
(* however long it has been in the hash table.                             *)
(***************************************************************************)
EntriesInPlace ==
    /\ \A e \in Entries : nodes[ea[e]] = e
    /\ \A l \in Lines : nodes[l] # NULL => ea[nodes[l]] = l

PageInv == TypeOK /\ TreeComplete /\ EntriesInPlace

\* A lookup gives what is in the tree, whatever the hash table holds.
LEMMA LookupFact ==
    ASSUME PageInv, NEW l \in Lines
    PROVE  Lookup(l) = nodes[l]
<1>1. CASE Hit(l)
  <2>1. Bucket(l) \in Entries
    BY <1>1, PageTableAssumption DEF Hit, Bucket, PageInv, TypeOK
  <2> QED
    BY <1>1, <2>1 DEF Hit, Lookup, PageInv, EntriesInPlace
<1>2. CASE ~Hit(l)
  BY <1>2 DEF Lookup, PageInv, TreeComplete
<1> QED
  BY <1>1, <1>2

\* Only entries of the tree, or NULL, get into the hash table.
LEMMA RememberFact ==
    ASSUME PageInv, NEW l \in Lines, Remember(l)
    PROVE  hasharray' \in [Buckets -> Entries \cup {NULL}]
<1>1. CASE Hit(l) \/ ~Reached(l)
  BY <1>1 DEF Remember, PageInv, TypeOK
<1>2. CASE ~(Hit(l) \/ ~Reached(l))
  <2>1. PICK h \in Evicted(l) : hasharray' = [hasharray EXCEPT ![h] = nodes[l]]
    BY <1>2 DEF Remember
  <2> QED
    BY <2>1 DEF PageInv, TypeOK
<1> QED
  BY <1>1, <1>2

\* At the start there is no entry at all.
LEMMA InitPageInv == Init => PageInv
<1> SUFFICES ASSUME Init PROVE PageInv
  OBVIOUS
<1>1. TypeOK
  BY DEF Init, TypeOK, Entries, NULL
<1>2. TreeComplete
  BY DEF Init, TreeComplete
<1>3. EntriesInPlace
  BY DEF Init, EntriesInPlace, Entries
<1> QED
  BY <1>1, <1>2, <1>3 DEF PageInv

\* A lookup changes nothing but the hash table.
LEMMA FindInv == ASSUME PageInv, NEW l \in Lines, Find(l) PROVE PageInv'
<1>1. UNCHANGED <<inodes, nodes, ea, nummeminfos, open, freed>> /\ line' = l
  BY DEF Find
<1>2. meminfo' \in Entries \cup {NULL}
  BY LookupFact DEF Find, PageInv, TypeOK
<1>3. TypeOK'
  BY <1>1, <1>2, RememberFact DEF Find, PageInv, TypeOK, Entries
<1>4. TreeComplete' /\ EntriesInPlace'
  BY <1>1 DEF PageInv, TreeComplete, EntriesInPlace, Entries, Reached
<1> QED
  BY <1>3, <1>4 DEF PageInv

(***************************************************************************)
(* A new entry takes the next number, so no other entry is touched, and    *)
(* the nodes on its way are created with it.                               *)
(***************************************************************************)
LEMMA UpdateInv == ASSUME PageInv, NEW l \in Lines, Update(l) PROVE PageInv'
<1>1. CASE Lookup(l) # NULL
  <2>1. UNCHANGED <<inodes, nodes, ea, nummeminfos, open, freed>> /\ line' = l
    BY <1>1 DEF Update
  <2>2. meminfo' \in Entries \cup {NULL}
    BY <1>1, LookupFact DEF Update, PageInv, TypeOK
  <2>3. TypeOK'
    BY <2>1, <2>2, RememberFact DEF Update, PageInv, TypeOK, Entries
  <2>4. TreeComplete' /\ EntriesInPlace'
    BY <2>1 DEF PageInv, TreeComplete, EntriesInPlace, Entries, Reached
  <2> QED
    BY <2>3, <2>4 DEF PageInv
<1>2. CASE Lookup(l) = NULL
  <2> DEFINE e == nummeminfos + 1
  <2>1. /\ inodes' = inodes \cup Path(l) /\ nodes' = [nodes EXCEPT ![l] = e]
        /\ nummeminfos' = e /\ ea' = Append(ea, l) /\ meminfo' = e
        /\ open' = open /\ freed' = freed /\ line' = l
    BY <1>2 DEF Update, Add
  <2>2. nummeminfos \in Nat /\ e \in Nat /\ Entries' = Entries \cup {e} /\ e \notin Entries
    BY <2>1 DEF PageInv, TypeOK, Entries
  <2>3. nodes[l] = NULL
    BY <1>2, LookupFact
  <2>4. /\ ea' \in Seq(Lines) /\ Len(ea') = e /\ ea'[e] = l
        /\ \A i \in Entries : ea'[i] = ea[i] /\ ea[i] \in Lines
    BY <2>1, <2>2 DEF PageInv, TypeOK, Entries
  <2>5. nodes \in [Lines -> Entries \cup {NULL}] /\ NULL \notin Entries
    BY DEF PageInv, TypeOK, Entries, NULL
  <2>6. TypeOK'
    <3>1. hasharray' \in [Buckets -> Entries' \cup {NULL}]
      BY <2>2, RememberFact DEF Update
    <3>2. inodes' \subseteq UNION {Path(k) : k \in Lines}
      BY <2>1 DEF PageInv, TypeOK
    <3>3. nodes' \in [Lines -> Entries' \cup {NULL}]
      BY <2>1, <2>2, <2>5
    <3>4. meminfo' \in Entries' \cup {NULL} /\ open' \in BOOLEAN
          /\ line' \in Lines \cup {NoLine}
      BY <2>1, <2>2 DEF PageInv, TypeOK
    <3> QED
      BY <2>1, <2>2, <2>4, <3>1, <3>2, <3>3, <3>4 DEF TypeOK
  <2>7. TreeComplete'
    BY <2>1, <2>5 DEF PageInv, TreeComplete, Reached
  <2>8. \A i \in Entries' : nodes'[ea'[i]] = i
    <3>1. ASSUME NEW i \in Entries PROVE nodes'[ea'[i]] = i
      <4>1. nodes[ea[i]] = i /\ ea[i] \in Lines
        BY <2>4 DEF PageInv, EntriesInPlace
      <4>2. ea[i] # l
        BY <2>3, <2>5, <4>1
      <4> QED
        BY <2>1, <2>4, <2>5, <4>1, <4>2
    <3>2. nodes'[ea'[e]] = e
      BY <2>1, <2>4, <2>5
    <3> QED
      BY <2>2, <3>1, <3>2
  <2>9. \A k \in Lines : nodes'[k] # NULL => ea'[nodes'[k]] = k
    <3>1. ASSUME NEW k \in Lines, k # l, nodes'[k] # NULL PROVE ea'[nodes'[k]] = k
      <4>1. nodes'[k] = nodes[k] /\ nodes[k] \in Entries
        BY <2>1, <2>5, <3>1
      <4> QED
        BY <2>4, <3>1, <4>1 DEF PageInv, EntriesInPlace
    <3>2. ea'[nodes'[l]] = l
      BY <2>1, <2>4, <2>5
    <3> QED
      BY <3>1, <3>2
  <2> QED
    BY <2>6, <2>7, <2>8, <2>9 DEF PageInv, EntriesInPlace
<1> QED
  BY <1>1, <1>2

\* Every operation keeps the invariant.
LEMMA NextPageInv == PageInv /\ [Next]_vars => PageInv'
<1> SUFFICES ASSUME PageInv, [Next]_vars PROVE PageInv'
  OBVIOUS
<1>1. CASE Destroy
  BY <1>1 DEF Destroy, PageInv, TypeOK, TreeComplete, EntriesInPlace, Entries, Reached
<1>2. CASE \E l \in Lines : Find(l) \/ Update(l)
  BY <1>2, FindInv, UpdateInv
<1>3. CASE UNCHANGED vars
  BY <1>3 DEF vars, PageInv, TypeOK, TreeComplete, EntriesInPlace, Entries, Reached
<1> QED
  BY <1>1, <1>2, <1>3 DEF Next

\* The invariant the refinement rests on.
THEOREM PageInvariant == Spec => []PageInv
BY InitPageInv, NextPageInv, PTL DEF Spec

(***************************************************************************)
(* No pointer of the table leads anywhere but to an entry that has been    *)
(* allocated.                                                              *)
(***************************************************************************)
THEOREM PageTypeCorrect == Spec => []TypeOK
BY PageInvariant, PTL DEF PageInv

\* Every operation of the table is the operation of the map of the same name.
LEMMA StepRefines == PageInv /\ [Next]_vars => [Map!Next]_Map!vars
<1> SUFFICES ASSUME PageInv, [Next]_vars PROVE [Map!Next]_Map!vars
  OBVIOUS
<1>1. CASE Destroy
  BY <1>1 DEF Destroy, Map!Next, Map!Destroy
<1>2. ASSUME NEW l \in Lines, Find(l) PROVE Map!Find(l)
  BY <1>2, LookupFact DEF Find, Map!Find
<1>3. ASSUME NEW l \in Lines, Update(l) PROVE Map!Update(l)
  <2>1. Lookup(l) = nodes[l] /\ nodes \in [Lines -> Entries \cup {NULL}]
    BY LookupFact DEF PageInv, TypeOK
  <2>2. CASE nodes[l] # NULL
    BY <1>3, <2>1, <2>2 DEF Update, Map!Update, Map!NULL, NULL
  <2>3. CASE nodes[l] = NULL
    BY <1>3, <2>1, <2>3 DEF Update, Add, Map!Update, Map!NULL, NULL
  <2> QED
    BY <2>2, <2>3
<1>4. CASE UNCHANGED vars
  BY <1>4 DEF vars, Map!vars
<1> QED
  BY <1>1, <1>2, <1>3, <1>4 DEF Next, Map!Next

(***************************************************************************)
(* MemInfoPageTable implements a map from lines to entries: no line ever   *)
(* loses its entry or gets a second one, and no lookup gives the entry of  *)
(* another line, whatever has been looked up, missed and evicted before.   *)
(***************************************************************************)
THEOREM PageTableIsMap == Spec => ImplementsLineMap
<1>1. Init => Map!Init
  BY DEF Init, Map!Init, Map!NULL, NULL
<1> QED
  BY <1>1, PageInvariant, StepRefines, PTL DEF Spec, ImplementsLineMap, Map!Spec

----------------------------------------------------------------------------
(***************************************************************************)
(* Induction over an interval: a set that takes in whatever follows what   *)
(* is in it.  Of the intervals up to a number that is not in it, none is   *)
(* the least.                                                              *)
(***************************************************************************)
LEMMA IntervalInduction ==
    ASSUME NEW a \in Nat, NEW n \in Nat, NEW G,
           \A m \in a..n : a..(m - 1) \subseteq G => m \in G
    PROVE  a..n \subseteq G
<1> DEFINE Bad == (a..n) \ G
           Downs == {a..m : m \in Bad}
<1> SUFFICES ASSUME Bad # {} PROVE FALSE
  OBVIOUS
<1>1. IsWellFoundedOn(StrictSubsetOrdering(a..n), FiniteSubsetsOf(a..n))
  BY FS_StrictSubsetOrderingWellFounded
<1>2. Downs \subseteq FiniteSubsetsOf(a..n) /\ Downs # {}
  <2>1. \A m \in Bad : a..m \subseteq a..n /\ IsFiniteSet(a..m)
    BY FS_Interval
  <2> HIDE DEF Bad
  <2> QED
    BY <2>1 DEF FiniteSubsetsOf
<1>3. PICK D \in Downs : \A E \in Downs : ~ (<<E, D>> \in StrictSubsetOrdering(a..n))
  <2> HIDE DEF Downs
  <2> QED
    BY <1>1, <1>2, WFMin
<1>4. PICK m \in Bad : D = a..m
  OBVIOUS
<1>5. ASSUME NEW k \in a..(m - 1) PROVE k \in G
  <2> SUFFICES ASSUME k \notin G PROVE FALSE
    OBVIOUS
  <2>1. k \in Bad
    OBVIOUS
  <2>2. a..k \in Downs
    BY <2>1
  <2>3. a..k \subseteq a..m /\ m \in a..m /\ m \notin a..k /\ a..m \subseteq a..n
    BY SMTT(20)
  <2>4. <<a..k, a..m>> \in StrictSubsetOrdering(a..n)
    BY <2>3 DEF StrictSubsetOrdering
  <2> QED
    BY <1>3, <1>4, <2>2, <2>4
<1> QED
  BY <1>5

----------------------------------------------------------------------------
\* Destroying the table.

\* The interior nodes form a tree: every node hangs on the one above it.
TreeClosed ==
    \A n \in inodes : \E l \in Lines, i \in 1..(Depth - 1) :
        n = SubSeq(l, 1, i) /\ \A j \in 1..i : SubSeq(l, 1, j) \in inodes

\* The first digits of a line.
LEMMA PrefixFact ==
    ASSUME NEW l \in Lines, NEW i \in 1..Depth
    PROVE  /\ Len(l) = Depth
           /\ Len(SubSeq(l, 1, i)) = i
           /\ \A j \in 1..i : SubSeq(SubSeq(l, 1, i), 1, j) = SubSeq(l, 1, j)
<1>1. l \in Seq(Digits) /\ Len(l) = Depth
  BY PageTableAssumption
<1>2. /\ SubSeq(l, 1, i) \in Seq(Digits) /\ Len(SubSeq(l, 1, i)) = i
      /\ \A k \in 1..i : SubSeq(l, 1, i)[k] = l[k]
  BY <1>1, PageTableAssumption
<1>3. ASSUME NEW j \in 1..i
      PROVE  SubSeq(SubSeq(l, 1, i), 1, j) = SubSeq(l, 1, j)
  BY <1>1, <1>2, PageTableAssumption
<1> QED
  BY <1>1, <1>2, <1>3

\* Whatever there is to free below the first level hangs on something to free above it.
LEMMA LevelFact ==
    ASSUME PageInv, TreeClosed
    PROVE  /\ \A d \in 2..Depth : \A n \in Level(d) : SubSeq(n, 1, d - 1) \in Level(d - 1)
           /\ \A n \in inodes \cup {l \in Lines : nodes[l] # NULL} :
                \E d \in 1..Depth : n \in Level(d)
<1> DEFINE All == inodes \cup {l \in Lines : nodes[l] # NULL}
<1>1. Depth \in Nat /\ Depth >= 1
  BY PageTableAssumption
<1>2. ASSUME NEW n \in inodes
      PROVE  /\ Len(n) \in 1..(Depth - 1)
             /\ \A j \in 1..(Len(n) - 1) : SubSeq(n, 1, j) \in inodes /\ Len(SubSeq(n, 1, j)) = j
  <2>1. PICK l \in Lines, i \in 1..(Depth - 1) :
          n = SubSeq(l, 1, i) /\ \A j \in 1..i : SubSeq(l, 1, j) \in inodes
    BY DEF TreeClosed
  <2>2. i \in 1..Depth
    BY <1>1
  <2>3. Len(n) = i /\ \A j \in 1..i : SubSeq(n, 1, j) = SubSeq(l, 1, j)
    BY <2>1, <2>2, PrefixFact
  <2>4. ASSUME NEW j \in 1..(i - 1) PROVE SubSeq(n, 1, j) \in inodes /\ Len(SubSeq(n, 1, j)) = j
    <3>1. j \in 1..i /\ j \in 1..Depth
      BY <1>1
    <3>2. SubSeq(n, 1, j) = SubSeq(l, 1, j) /\ SubSeq(l, 1, j) \in inodes
      BY <2>1, <2>3, <3>1
    <3>3. Len(SubSeq(l, 1, j)) = j
      BY <3>1, PrefixFact
    <3> QED
      BY <3>2, <3>3
  <2> QED
    BY <2>3, <2>4
<1>3. ASSUME NEW l \in Lines, nodes[l] # NULL
      PROVE  /\ Len(l) = Depth
             /\ \A j \in 1..(Depth - 1) : SubSeq(l, 1, j) \in inodes /\ Len(SubSeq(l, 1, j)) = j
  <2>1. Path(l) \subseteq inodes
    BY <1>3 DEF PageInv, TreeComplete, Reached
  <2>2. \A j \in 1..(Depth - 1) : SubSeq(l, 1, j) \in inodes
    BY <2>1 DEF Path
  <2>3. \A j \in 1..(Depth - 1) : j \in 1..Depth
    BY <1>1
  <2>4. Depth \in 1..Depth
    BY <1>1
  <2> QED
    BY <2>2, <2>3, <2>4, PrefixFact
<1>4. ASSUME NEW d \in 2..Depth, NEW n \in Level(d)
      PROVE  SubSeq(n, 1, d - 1) \in Level(d - 1)
  <2>1. n \in All /\ Len(n) = d
    BY DEF Level
  <2>2. SubSeq(n, 1, d - 1) \in inodes /\ Len(SubSeq(n, 1, d - 1)) = d - 1
    <3>1. d - 1 \in 1..(d - 1) /\ d - 1 \in 1..(Depth - 1)
      BY <1>1
    <3>2. CASE n \in inodes
      BY <1>2, <2>1, <3>1, <3>2
    <3>3. CASE n \in Lines /\ nodes[n] # NULL
      BY <1>3, <3>1, <3>3
    <3> QED
      BY <2>1, <3>2, <3>3
  <2> QED
    BY <2>2 DEF Level
<1>5. ASSUME NEW n \in All PROVE \E d \in 1..Depth : n \in Level(d)
  <2>1. Len(n) \in 1..Depth
    BY <1>1, <1>2, <1>3
  <2> QED
    BY <2>1 DEF Level
<1> QED
  BY <1>4, <1>5

\* The descent reaches every level whole.
LEMMA DestroyedFact ==
    ASSUME PageInv, TreeClosed
    PROVE  Destroyed = inodes \cup {l \in Lines : nodes[l] # NULL}
<1> DEFINE All == inodes \cup {l \in Lines : nodes[l] # NULL}
           level == [d \in 1..Depth |-> Level(d)]
           Descent(at) == at = [d \in 1..Depth |->
               IF d = 1 THEN Level(1) ELSE {n \in Level(d) : SubSeq(n, 1, d - 1) \in at[d - 1]}]
           at == CHOOSE at : Descent(at)
           G == {d \in 1..Depth : at[d] = Level(d)}
<1>1. Depth \in Nat /\ Depth >= 1
  BY PageTableAssumption
<1>2. Destroyed = UNION {at[d] : d \in 1..Depth}
  BY DEF Destroyed
<1>3. /\ \A d \in 2..Depth : \A n \in Level(d) : SubSeq(n, 1, d - 1) \in Level(d - 1)
      /\ \A n \in All : \E d \in 1..Depth : n \in Level(d)
  BY LevelFact
<1>4. \A d \in 1..Depth : Level(d) \subseteq All
  BY DEF Level
<1>5. Descent(level)
  <2>1. ASSUME NEW d \in 2..Depth
        PROVE  level[d] = {n \in Level(d) : SubSeq(n, 1, d - 1) \in level[d - 1]}
    <3>1. d - 1 \in 1..Depth /\ d \in 1..Depth
      BY <1>1
    <3>2. level[d - 1] = Level(d - 1) /\ level[d] = Level(d)
      BY <3>1
    <3> QED
      BY <1>3, <3>2
  <2>2. level[1] = Level(1)
    BY <1>1
  <2>3. \A d \in 1..Depth : d = 1 \/ d \in 2..Depth
    BY <1>1
  <2>4. level = [d \in 1..Depth |-> level[d]]
    OBVIOUS
  <2> HIDE DEF level
  <2>5. \A d \in 1..Depth :
           level[d] = IF d = 1 THEN Level(1) ELSE {n \in Level(d) : SubSeq(n, 1, d - 1) \in level[d - 1]}
    BY <2>1, <2>2, <2>3
  <2> QED
    BY <2>4, <2>5
<1>6. Descent(at)
  <2> HIDE DEF Descent, level
  <2> QED
    BY <1>5
<1> HIDE DEF at
<1>7. ASSUME NEW m \in 1..Depth, 1..(m - 1) \subseteq G PROVE m \in G
  <2>1. CASE m = 1
    BY <1>6, <2>1
  <2>2. CASE m > 1
    <3>1. m - 1 \in 1..(m - 1) /\ m \in 2..Depth
      BY <2>2
    <3>2. at[m - 1] = Level(m - 1)
      BY <1>7, <3>1
    <3>3. at[m] = {n \in Level(m) : SubSeq(n, 1, m - 1) \in at[m - 1]}
      <4>1. at[m] = IF m = 1 THEN Level(1)
                    ELSE {n \in Level(m) : SubSeq(n, 1, m - 1) \in at[m - 1]}
        BY <1>6, Zenon
      <4> QED
        BY <2>2, <4>1
    <3> QED
      BY <1>3, <3>1, <3>2, <3>3
  <2> QED
    BY <2>1, <2>2
<1>8. 1..Depth \subseteq G
  <2> HIDE DEF G
  <2> QED
    BY <1>1, <1>7, IntervalInduction
<1>9. \A d \in 1..Depth : at[d] = Level(d)
  BY <1>8
<1> QED
  BY <1>2, <1>3, <1>4, <1>9

(***************************************************************************)
(* The nodes of a new entry hang on the root; nothing else grows the tree, *)
(* and nothing changes once it is destroyed.                               *)
(***************************************************************************)
DestroyInv == TreeClosed /\ NothingLeaks

LEMMA UpdateClosed ==
    ASSUME PageInv, TreeClosed, NEW l \in Lines, inodes' = inodes \cup Path(l)
    PROVE  TreeClosed'
<1>1. ASSUME NEW n \in inodes'
      PROVE  \E k \in Lines, i \in 1..(Depth - 1) :
               n = SubSeq(k, 1, i) /\ \A j \in 1..i : SubSeq(k, 1, j) \in inodes'
  <2>1. CASE n \in inodes
    BY <2>1 DEF TreeClosed
  <2>2. CASE n \in Path(l)
    <3>1. PICK i \in 1..(Depth - 1) : n = SubSeq(l, 1, i)
      BY <2>2 DEF Path
    <3>2. \A j \in 1..i : j \in 1..(Depth - 1)
      BY PageTableAssumption
    <3>3. \A j \in 1..i : SubSeq(l, 1, j) \in inodes'
      BY <3>2 DEF Path
    <3> QED
      BY <3>1, <3>3
  <2> QED
    BY <2>1, <2>2
<1> QED
  BY <1>1 DEF TreeClosed

LEMMA NextDestroyInv == PageInv /\ DestroyInv /\ [Next]_vars => DestroyInv'
<1> SUFFICES ASSUME PageInv, DestroyInv, [Next]_vars PROVE DestroyInv'
  OBVIOUS
<1>1. CASE Destroy
  <2>1. freed' = inodes \cup {l \in Lines : nodes[l] # NULL}
    BY <1>1, DestroyedFact DEF Destroy, DestroyInv
  <2> QED
    BY <1>1, <2>1 DEF Destroy, DestroyInv, TreeClosed, NothingLeaks
<1>2. ASSUME NEW l \in Lines, Find(l) PROVE DestroyInv'
  BY <1>2 DEF Find, DestroyInv, TreeClosed, NothingLeaks
<1>3. ASSUME NEW l \in Lines, Update(l) PROVE DestroyInv'
  <2>1. open' /\ (inodes' = inodes \/ inodes' = inodes \cup Path(l))
    BY <1>3 DEF Update, Add
  <2>2. TreeClosed'
    <3>1. CASE inodes' = inodes
      BY <3>1 DEF DestroyInv, TreeClosed
    <3>2. CASE inodes' = inodes \cup Path(l)
      BY <3>2, UpdateClosed DEF DestroyInv
    <3> QED
      BY <2>1, <3>1, <3>2
  <2> QED
    BY <2>1, <2>2 DEF DestroyInv, NothingLeaks
<1>4. CASE UNCHANGED vars
  BY <1>4 DEF vars, DestroyInv, TreeClosed, NothingLeaks
<1> QED
  BY <1>1, <1>2, <1>3, <1>4 DEF Next

(***************************************************************************)
(* Destroying a table frees every node and every entry of it, however deep *)
(* it is and whatever has been put into it.                                *)
(***************************************************************************)
THEOREM DestroyFreesAll == Spec => []NothingLeaks
<1>1. Init => DestroyInv
  BY DEF Init, DestroyInv, TreeClosed, NothingLeaks
<1>2. PageInv /\ DestroyInv /\ [Next]_vars => DestroyInv'
  BY NextDestroyInv
<1>3. DestroyInv => NothingLeaks
  BY DEF DestroyInv
<1> QED
  BY <1>1, <1>2, <1>3, PageInvariant, PTL DEF Spec
=============================================================================
