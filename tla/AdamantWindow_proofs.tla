------------------------ MODULE AdamantWindow_proofs ------------------------
(***************************************************************************)
(* The circular buffer and the heap of adamant_window.c implement the      *)
(* window the scheduler is built on, whatever its size.                    *)
(***************************************************************************)
EXTENDS AdamantWindow, WindowOps_proofs, SequenceTheorems

----------------------------------------------------------------------------
(***************************************************************************)
(* Heaps.  A heap of n times is in order if no time is less than that of   *)
(* its parent.                                                             *)
(***************************************************************************)
Heap(n) == {h \in [1..n -> Nat] : \A i \in 2..n : h[i \div 2] <= h[i]}

LEMMA HalfFact ==
    ASSUME NEW p \in Nat, p >= 1
    PROVE  /\ p \div 2 \in Nat /\ p \div 2 < p
           /\ p >= 2 => p \div 2 >= 1
           /\ p = 2 * (p \div 2) \/ p = 2 * (p \div 2) + 1
OBVIOUS

\* HeapCheck looks down from every node, the order up.
LEMMA HeapOrder ==
    ASSUME NEW n \in Nat, NEW h \in [1..n -> Nat]
    PROVE  h \in Heap(n) <=>
             \A i \in DOMAIN h :
                /\ 2 * i <= Len(h) => h[i] <= h[2 * i]
                /\ 2 * i + 1 <= Len(h) => h[i] <= h[2 * i + 1]
<1>1. Len(h) = n /\ DOMAIN h = 1..n
  OBVIOUS
<1>2. ASSUME h \in Heap(n), NEW i \in 1..n
      PROVE  /\ 2 * i <= n => h[i] <= h[2 * i]
             /\ 2 * i + 1 <= n => h[i] <= h[2 * i + 1]
  <2>1. (2 * i) \div 2 = i /\ (2 * i + 1) \div 2 = i
    OBVIOUS
  <2>2. 2 * i <= n => 2 * i \in 2..n
    OBVIOUS
  <2>3. 2 * i + 1 <= n => 2 * i + 1 \in 2..n
    OBVIOUS
  <2> QED
    BY <1>2, <2>1, <2>2, <2>3 DEF Heap
<1>3. ASSUME \A i \in 1..n : /\ 2 * i <= n => h[i] <= h[2 * i]
                             /\ 2 * i + 1 <= n => h[i] <= h[2 * i + 1],
             NEW j \in 2..n
      PROVE  h[j \div 2] <= h[j]
  <2> DEFINE i == j \div 2
  <2>1. i \in 1..n /\ (j = 2 * i \/ j = 2 * i + 1)
    BY HalfFact
  <2> HIDE DEF i
  <2>2. h[i] <= h[j]
    <3>1. CASE j = 2 * i
      BY <1>3, <2>1, <3>1
    <3>2. CASE j = 2 * i + 1
      BY <1>3, <2>1, <3>2
    <3> QED
      BY <2>1, <3>1, <3>2
  <2> QED
    BY <2>2 DEF i
<1> QED
  BY <1>1, <1>2, <1>3 DEF Heap

\* The top is the least of the times.
LEMMA HeapTop ==
    ASSUME NEW n \in Nat, NEW h \in Heap(n)
    PROVE  \A i \in 1..n : h[1] <= h[i]
<1> DEFINE G == {i \in 1..n : h[1] <= h[i]}
<1>1. h \in [1..n -> Nat] /\ \A j \in 2..n : h[j \div 2] <= h[j]
  BY DEF Heap
<1>2. ASSUME NEW m \in 1..n, 1..(m - 1) \subseteq G
      PROVE  m \in G
  <2>1. CASE m = 1
    BY <1>1, <2>1
  <2>2. CASE m > 1
    <3> DEFINE p == m \div 2
    <3>1. p \in 1..(m - 1) /\ p \in 1..n
      BY <2>2, HalfFact
    <3>2. h[p] <= h[m] /\ h[1] \in Nat /\ h[p] \in Nat /\ h[m] \in Nat
      BY <1>1, <2>2, <3>1
    <3>3. h[1] <= h[p]
      BY <1>2, <3>1
    <3> HIDE DEF p
    <3> QED
      BY <3>2, <3>3
  <2> QED
    BY <2>1, <2>2
<1>3. 1..n \subseteq G
  <2> HIDE DEF G
  <2> QED
    BY <1>2, IntervalInduction
<1> QED
  BY <1>3

----------------------------------------------------------------------------
\* The path from the last place of a heap to the top.

Up(m, up) == up = [p \in 0..m |-> IF p = 0 THEN {} ELSE {p} \cup up[p \div 2]]

LEMMA UpExists ==
    ASSUME NEW n \in Nat
    PROVE  \E up : Up(n, up)
<1> DEFINE G == {m \in 0..n : \E up : Up(m, up)}
<1>1. ASSUME NEW m \in 0..n, 0..(m - 1) \subseteq G
      PROVE  m \in G
  <2>1. CASE m = 0
    <3>1. Up(0, [p \in 0..0 |-> {}])
      BY DEF Up
    <3> QED
      BY <2>1, <3>1
  <2>2. CASE m > 0
    <3>1. m - 1 \in 0..(m - 1)
      BY <2>2
    <3>2. PICK up : Up(m - 1, up)
      BY <1>1, <3>1
    <3> DEFINE new == [p \in 0..m |-> IF p = m THEN {m} \cup up[m \div 2] ELSE up[p]]
    <3>3. \A p \in 1..m : p \div 2 \in 0..(m - 1) /\ p \div 2 # m
      BY HalfFact
    <3>4. ASSUME NEW p \in 0..m
          PROVE  new[p] = IF p = 0 THEN {} ELSE {p} \cup new[p \div 2]
      <4>1. CASE p = 0
        <5>1. up[0] = {}
          BY <2>2, <3>2 DEF Up
        <5> QED
          BY <2>2, <4>1, <5>1
      <4>2. CASE p \in 1..(m - 1)
        <5>1. p \div 2 \in 0..(m - 1) /\ p \div 2 # m /\ p # m /\ p # 0
          BY <3>3, <4>2
        <5>2. up[p] = {p} \cup up[p \div 2]
          BY <3>2, <4>2, <5>1 DEF Up
        <5> QED
          BY <5>1, <5>2
      <4>3. CASE p = m
        <5>1. p \div 2 \in 0..(m - 1) /\ p \div 2 # m /\ p # 0
          BY <2>2, <3>3, <4>3
        <5> QED
          BY <4>3, <5>1
      <4> QED
        BY <4>1, <4>2, <4>3
    <3>5. new = [p \in 0..m |-> new[p]]
      OBVIOUS
    <3> HIDE DEF new
    <3>6. Up(m, new)
      BY <3>4, <3>5 DEF Up
    <3> QED
      BY <3>6
  <2> QED
    BY <2>1, <2>2
<1>2. 0..n \subseteq G
  <2> HIDE DEF G
  <2> QED
    BY <1>1, IntervalInduction
<1> QED
  BY <1>2

(***************************************************************************)
(* The path has the last place and the parents of its places, one on every *)
(* level.                                                                  *)
(***************************************************************************)
PathUp(A, n) ==
    /\ A \subseteq 1..n /\ n \in A
    /\ \A i \in A : i > 1 => i \div 2 \in A
    /\ \A i, j \in A : i < j => i <= j \div 2
    /\ \A i \in A : i # n => \E j \in A : j \div 2 = i

LEMMA AncestorsFact ==
    ASSUME NEW n \in Nat, n >= 1
    PROVE  PathUp(AncestorsOf(n), n)
<1> DEFINE up == CHOOSE up : up = [p \in 0..n |-> IF p = 0 THEN {} ELSE {p} \cup up[p \div 2]]
<1>1. AncestorsOf(n) = up[n]
  BY DEF AncestorsOf
<1>2. up = [p \in 0..n |-> IF p = 0 THEN {} ELSE {p} \cup up[p \div 2]]
  BY UpExists DEF Up
<1> HIDE DEF up
<1> DEFINE G == {p \in 1..n : PathUp(up[p], p)}
<1>3. ASSUME NEW p \in 1..n, 1..(p - 1) \subseteq G
      PROVE  p \in G
  <2>1. up[p] = {p} \cup up[p \div 2] /\ up[0] = {}
    BY <1>2
  <2>2. CASE p = 1
    <3>1. up[p] = {1}
      BY <2>1, <2>2
    <3> QED
      BY <2>2, <3>1 DEF PathUp
  <2>3. CASE p > 1
    <3> DEFINE q == p \div 2
               A == up[p]
               B == up[q]
    <3>1. q \in 1..(p - 1) /\ q < p
      BY <2>3, HalfFact
    <3>2. PathUp(B, q)
      BY <1>3, <3>1
    <3>3. A = {p} \cup B
      BY <2>1
    <3> HIDE DEF A, B
    <3>4. B \subseteq 1..q /\ q \in B
      BY <3>2 DEF PathUp
    <3>5. \A i \in B : i > 1 => i \div 2 \in B
      BY <3>2 DEF PathUp
    <3>6. \A i, j \in B : i < j => i <= j \div 2
      BY <3>2 DEF PathUp
    <3>7. \A i \in B : i # q => \E j \in B : j \div 2 = i
      BY <3>2 DEF PathUp
    <3>8. A \subseteq 1..p /\ p \in A
      BY <3>1, <3>3, <3>4
    <3>9. ASSUME NEW i \in A, i > 1 PROVE i \div 2 \in A
      BY <3>3, <3>4, <3>5, <3>9
    <3>10. ASSUME NEW i \in A, NEW j \in A, i < j PROVE i <= j \div 2
      <4>1. i \in B
        BY <3>1, <3>3, <3>4, <3>8, <3>10
      <4>2. CASE j = p
        BY <3>1, <3>4, <4>1, <4>2
      <4>3. CASE j \in B
        BY <3>6, <3>10, <4>1, <4>3
      <4> QED
        BY <3>3, <4>2, <4>3
    <3>11. ASSUME NEW i \in A, i # p PROVE \E j \in A : j \div 2 = i
      <4>1. CASE i = q
        BY <3>3, <4>1
      <4>2. CASE i # q
        BY <3>3, <3>7, <3>11, <4>2
      <4> QED
        BY <4>1, <4>2
    <3> QED
      BY <3>8, <3>9, <3>10, <3>11 DEF PathUp, A
  <2> QED
    BY <2>2, <2>3
<1>4. 1..n \subseteq G
  <2> HIDE DEF G
  <2> QED
    BY <1>3, IntervalInduction
<1> QED
  BY <1>1, <1>4

----------------------------------------------------------------------------
(***************************************************************************)
(* What HeapInsert and HeapNext do to the places of a heap: `place' tells  *)
(* for every place where its time was.                                     *)
(***************************************************************************)

Rise(go, m, rise) ==
    rise = [p \in 1..m |-> IF p \in go THEN rise[p \div 2] ELSE p]

LEMMA RiseExists ==
    ASSUME NEW n \in Nat, NEW go, 1 \notin go
    PROVE  \E rise : Rise(go, n, rise)
<1> DEFINE G == {m \in 0..n : \E rise : Rise(go, m, rise)}
<1>1. ASSUME NEW m \in 0..n, 0..(m - 1) \subseteq G
      PROVE  m \in G
  <2>1. CASE m = 0
    <3>1. Rise(go, 0, [p \in 1..0 |-> 0])
      BY DEF Rise
    <3> QED
      BY <2>1, <3>1
  <2>2. CASE m > 0
    <3>1. m - 1 \in 0..(m - 1)
      BY <2>2
    <3>2. PICK rise : Rise(go, m - 1, rise)
      BY <1>1, <3>1
    <3> DEFINE new == [p \in 1..m |-> IF p = m THEN IF m \in go THEN rise[m \div 2] ELSE m
                                               ELSE rise[p]]
    <3>3. \A p \in 2..m : p \div 2 \in 1..(m - 1) /\ p \div 2 # m
      BY HalfFact
    <3>4. ASSUME NEW p \in 1..m
          PROVE  new[p] = IF p \in go THEN new[p \div 2] ELSE p
      <4>1. CASE p \notin go
        <5>1. CASE p = m
          BY <4>1, <5>1
        <5>2. CASE p # m
          <6>1. rise[p] = p
            BY <3>2, <4>1, <5>2 DEF Rise
          <6> QED
            BY <4>1, <5>2, <6>1
        <5> QED
          BY <5>1, <5>2
      <4>2. CASE p \in go
        <5>1. p \in 2..m
          BY <4>2
        <5>2. p \div 2 \in 1..(m - 1) /\ p \div 2 # m /\ p \div 2 \in 1..m
          BY <3>3, <5>1
        <5>3. new[p \div 2] = rise[p \div 2]
          BY <5>2
        <5>4. CASE p = m
          BY <4>2, <5>3, <5>4
        <5>5. CASE p # m
          <6>1. rise[p] = rise[p \div 2]
            BY <3>2, <4>2, <5>5 DEF Rise
          <6> QED
            BY <4>2, <5>3, <5>5, <6>1
        <5> QED
          BY <5>4, <5>5
      <4> QED
        BY <4>1, <4>2
    <3>5. new = [p \in 1..m |-> new[p]]
      OBVIOUS
    <3> HIDE DEF new
    <3>6. Rise(go, m, new)
      BY <3>4, <3>5 DEF Rise
    <3> QED
      BY <3>6
  <2> QED
    BY <2>1, <2>2
<1>2. 0..n \subseteq G
  <2> HIDE DEF G
  <2> QED
    BY <1>1, IntervalInduction
<1> QED
  BY <1>2

(***************************************************************************)
(* The new entry rises to the first place of the path whose parent is not  *)
(* greater.                                                                *)
(***************************************************************************)
LEMMA RiseFact ==
    ASSUME NEW n \in Nat, n >= 1, NEW A, PathUp(A, n), NEW go, 1 \notin go,
           NEW rise, Rise(go, n, rise)
    PROVE  /\ rise[n] \in A /\ rise[n] \notin go
           /\ \A i \in A : i > rise[n] => i \in go
<1> DEFINE Good(p) == /\ rise[p] \in A /\ rise[p] \notin go /\ rise[p] <= p
                      /\ \A i \in A : i > rise[p] /\ i <= p => i \in go
           G == {p \in 1..n : p \in A => Good(p)}
<1>0. /\ A \subseteq 1..n /\ n \in A
      /\ \A i \in A : i > 1 => i \div 2 \in A
      /\ \A i, j \in A : i < j => i <= j \div 2
  BY DEF PathUp
<1>1. ASSUME NEW p \in 1..n, 1..(p - 1) \subseteq G
      PROVE  p \in G
  <2> SUFFICES ASSUME p \in A PROVE Good(p)
    OBVIOUS
  <2>1. rise[p] = IF p \in go THEN rise[p \div 2] ELSE p
    BY DEF Rise
  <2>2. CASE p \notin go
    BY <1>0, <2>1, <2>2
  <2>3. CASE p \in go
    <3> DEFINE q == p \div 2
    <3>1. q \in 1..(p - 1) /\ q \in A /\ q < p
      BY <1>0, <2>3, HalfFact
    <3>2. Good(q)
      BY <1>1, <3>1
    <3>3. rise[p] = rise[q]
      BY <2>1, <2>3
    <3>4. \A i \in A : i <= p => i <= q \/ i = p
      BY <1>0
    <3> HIDE DEF q
    <3>5. rise[q] \in 1..n
      BY <1>0, <3>2
    <3> QED
      BY <1>0, <2>3, <3>1, <3>2, <3>3, <3>4, <3>5
  <2> QED
    BY <2>2, <2>3
<1>2. 1..n \subseteq G
  <2> HIDE DEF G
  <2> QED
    BY <1>1, IntervalInduction
<1>3. Good(n)
  BY <1>0, <1>2
<1> QED
  BY <1>0, <1>3

\* The times of g are those of f with v for the k-th; place[i] tells where g[i] was.
Rearranged(g, f, n, k, v) ==
    \E place \in [1..n -> 1..n] :
       /\ \A j \in 1..n : \E i \in 1..n : place[i] = j
       /\ \A i \in 1..n : /\ place[i] = k => g[i] = v
                          /\ place[i] # k => g[i] = f[place[i]]

LEMMA HeapInsertFact ==
    ASSUME NEW n \in Nat, n >= 1, NEW h \in Heap(n - 1), NEW v \in Nat
    PROVE  /\ HeapInsert(h, v) \in Heap(n)
           /\ Rearranged(HeapInsert(h, v), h, n, n, v)
<1>1. h \in [1..(n - 1) -> Nat] /\ \A j \in 2..(n - 1) : h[j \div 2] <= h[j]
  BY DEF Heap
<1>2. Len(h) + 1 = n
  BY <1>1
<1> DEFINE go == {p \in 2..n : h[p \div 2] > v}
           A == AncestorsOf(n)
           rise == CHOOSE rise : rise = [p \in 1..n |->
                      IF p > 1 /\ h[p \div 2] > v THEN rise[p \div 2] ELSE p]
           r == rise[n]
           g == [i \in 1..n |-> IF i = r THEN v ELSE IF i \in A /\ i > r THEN h[i \div 2] ELSE h[i]]
<1>3. HeapInsert(h, v) = g
  BY <1>2 DEF HeapInsert
<1>4. PathUp(A, n)
  BY AncestorsFact
<1>5. 1 \notin go
  OBVIOUS
<1>6. Rise(go, n, rise)
  <2>1. PICK f : Rise(go, n, f)
    BY <1>5, RiseExists
  <2>2. \A e : [p \in 1..n |-> IF p > 1 /\ h[p \div 2] > v THEN e[p \div 2] ELSE p]
               = [p \in 1..n |-> IF p \in go THEN e[p \div 2] ELSE p]
    OBVIOUS
  <2>3. f = [p \in 1..n |-> IF p > 1 /\ h[p \div 2] > v THEN f[p \div 2] ELSE p]
    BY <2>1, <2>2 DEF Rise
  <2> HIDE DEF go
  <2>4. rise = [p \in 1..n |-> IF p > 1 /\ h[p \div 2] > v THEN rise[p \div 2] ELSE p]
    BY <2>3
  <2> HIDE DEF rise
  <2> QED
    BY <2>2, <2>4 DEF Rise
<1> HIDE DEF rise
<1>7. r \in A /\ r \notin go /\ \A i \in A : i > r => i \in go
  <2> HIDE DEF A, go
  <2> QED
    BY <1>4, <1>5, <1>6, RiseFact
<1>8. /\ A \subseteq 1..n /\ n \in A
      /\ \A i \in A : i > 1 => i \div 2 \in A
      /\ \A i, j \in A : i < j => i <= j \div 2
      /\ \A i \in A : i # n => \E j \in A : j \div 2 = i
  BY <1>4 DEF PathUp
<1>9. r \in 1..n /\ (r > 1 => h[r \div 2] <= v)
  <2>1. r \in 1..n
    BY <1>7, <1>8
  <2>2. ASSUME r > 1 PROVE h[r \div 2] <= v
    <3>1. r \div 2 \in 1..(n - 1)
      BY <2>1, <2>2, HalfFact
    <3>2. h[r \div 2] \in Nat /\ ~ (h[r \div 2] > v)
      BY <1>1, <1>7, <2>1, <2>2, <3>1
    <3> QED
      BY <3>2
  <2> QED
    BY <2>1, <2>2
<1>10. \A i \in A : i > r => h[i \div 2] > v
  BY <1>7
<1> HIDE DEF r, A, go
<1>11. \A i \in 2..n : i \div 2 \in 1..(n - 1) /\ i \div 2 < i
  BY HalfFact
<1>12. \A i \in A : i > r => r <= i \div 2
  BY <1>7, <1>8, <1>9
<1>13. g \in [1..n -> Nat]
  <2>1. \A i \in 1..n : i \in A /\ i > r => h[i \div 2] \in Nat
    BY <1>1, <1>9, <1>11
  <2>2. \A i \in 1..n : i # r /\ ~ (i \in A /\ i > r) => h[i] \in Nat
    BY <1>1, <1>8, <1>9
  <2> QED
    BY <2>1, <2>2
<1>14. ASSUME NEW i \in 2..n
       PROVE  g[i \div 2] <= g[i]
  <2> DEFINE p == i \div 2
  <2>1. p \in 1..(n - 1) /\ p < i /\ p \in 1..n
    BY <1>11
  <2>2. g[p] = IF p = r THEN v ELSE IF p \in A /\ p > r THEN h[p \div 2] ELSE h[p]
    BY <2>1
  <2>3. g[i] = IF i = r THEN v ELSE IF i \in A /\ i > r THEN h[p] ELSE h[i]
    OBVIOUS
  <2>4. i \in A => p \in A
    BY <1>8
  <2>5. i < n => h[p] <= h[i]
    BY <1>1
  <2>6. p > 1 => h[p \div 2] <= h[p] /\ h[p \div 2] \in Nat
    BY <1>1, <1>11, <2>1
  <2>7. h[p] \in Nat /\ (i < n => h[i] \in Nat)
    BY <1>1, <2>1
  <2>8. g[p] <= g[i]
    <3>1. CASE i = r
      <4>1. g[i] = v /\ g[p] = h[p] /\ h[p] <= v
        BY <1>9, <2>1, <2>2, <2>3, <3>1
      <4> QED
        BY <4>1
    <3>2. CASE i \in A /\ i > r
      <4>1. g[i] = h[p] /\ h[p] > v
        BY <1>9, <1>10, <2>3, <3>2
      <4>2. CASE p = r
        BY <2>2, <2>7, <4>1, <4>2
      <4>3. CASE p # r
        <5>1. p > r /\ p \in A
          BY <1>12, <1>9, <2>1, <2>4, <3>2, <4>3
        <5>2. g[p] = h[p \div 2] /\ p > 1
          BY <1>9, <2>1, <2>2, <4>3, <5>1
        <5> QED
          BY <2>6, <2>7, <4>1, <5>2
      <4> QED
        BY <4>2, <4>3
    <3>3. CASE i # r /\ ~ (i \in A /\ i > r)
      <4>1. i < n /\ g[i] = h[i]
        BY <1>8, <1>9, <2>3, <3>3
      <4>2. CASE p = r
        \* the parent took the new time, smaller than what was there, or is the last place
        <5>1. PICK j \in A : j \div 2 = r
          BY <1>7, <1>8, <2>1, <4>2
        <5>2. j > r
          BY <1>8, <1>9, <1>11, <5>1, HalfFact
        <5>3. h[r] > v
          BY <1>10, <5>1, <5>2
        <5> QED
          BY <2>2, <2>5, <2>7, <4>1, <4>2, <5>3
      <4>3. CASE p # r
        <5>1. g[p] <= h[p]
          BY <2>2, <2>6, <2>7, <1>9, <2>1, <4>3
        <5> QED
          BY <1>13, <2>1, <2>5, <2>7, <4>1, <5>1
      <4> QED
        BY <4>2, <4>3
    <3> QED
      BY <3>1, <3>2, <3>3
  <2> QED
    BY <2>8
<1> DEFINE place == [i \in 1..n |-> IF i = r THEN n ELSE IF i \in A /\ i > r THEN i \div 2 ELSE i]
<1>15. place \in [1..n -> 1..n]
  BY <1>9, <1>11
<1>16. ASSUME NEW j \in 1..n PROVE \E i \in 1..n : place[i] = j
  <2>1. CASE j = n
    BY <1>9, <2>1
  <2>2. CASE j # n /\ j \in A /\ j >= r
    <3>1. PICK i \in A : i \div 2 = j
      BY <1>8, <2>2
    <3>2. i \in 1..n /\ i > r
      BY <1>8, <1>9, <2>2, <3>1, HalfFact
    <3>3. place[i] = j
      BY <1>9, <3>1, <3>2
    <3> QED
      BY <3>2, <3>3
  <2>3. CASE j # r /\ ~ (j \in A /\ j > r)
    BY <2>3
  <2> QED
    BY <1>7, <1>9, <2>1, <2>2, <2>3
<1>17. ASSUME NEW i \in 1..n
       PROVE  /\ place[i] = n => g[i] = v
              /\ place[i] # n => g[i] = h[place[i]]
  <2>1. CASE i = r
    BY <2>1
  <2>2. CASE i \in A /\ i > r
    <3>1. i \div 2 \in 1..(n - 1) /\ i \div 2 # n
      BY <1>9, <1>11, <2>2
    <3> QED
      BY <1>9, <2>2, <3>1
  <2>3. CASE i # r /\ ~ (i \in A /\ i > r)
    <3>1. i # n
      BY <1>8, <1>9, <2>3
    <3> QED
      BY <2>3, <3>1
  <2> QED
    BY <2>1, <2>2, <2>3
<1>18. g \in Heap(n)
  <2> HIDE DEF g
  <2> QED
    BY <1>13, <1>14 DEF Heap
<1> HIDE DEF g, place
<1>19. Rearranged(g, h, n, n, v)
  BY <1>15, <1>16, <1>17 DEF Rearranged
<1> QED
  BY <1>3, <1>18, <1>19

----------------------------------------------------------------------------
\* The path the last time of a heap takes down from the top.

Down(go, next, m, down) ==
    down = [p \in 1..m |-> IF p \in go THEN {p} \cup down[next[p]] ELSE {p}]

LEMMA DownExists ==
    ASSUME NEW m \in Nat, NEW go, go \subseteq 1..m, NEW next,
           \A p \in go : next[p] \in 1..m
    PROVE  \E down : Down(go, next, m, down)
<1> DEFINE Closed(C) == C \subseteq 1..m /\ \A i \in C : i \in go => next[i] \in C
           path == [p \in 1..m |->
                      {q \in 1..m : \A C \in SUBSET (1..m) : Closed(C) /\ p \in C => q \in C}]
<1>1. ASSUME NEW p \in 1..m
      PROVE  Closed(path[p]) /\ p \in path[p]
  OBVIOUS
<1>2. ASSUME NEW p \in 1..m
      PROVE  path[p] = IF p \in go THEN {p} \cup path[next[p]] ELSE {p}
  <2>1. CASE p \in go
    <3> DEFINE q == next[p]
               C == {p} \cup path[q]
    <3>1. q \in 1..m /\ path[q] \subseteq 1..m
      BY <2>1
    <3>2. Closed(path[q]) /\ q \in path[q]
      BY <1>1, <3>1
    <3>3. Closed(C) /\ p \in C /\ C \in SUBSET (1..m)
      <4> HIDE DEF path
      <4> QED
        BY <3>1, <3>2
    <3>4. path[p] \subseteq C
      <4> HIDE DEF C
      <4> QED
        BY <3>3
    <3>5. Closed(path[p]) /\ p \in path[p]
      BY <1>1
    <3>6. q \in path[p]
      BY <2>1, <3>5
    <3>7. path[q] \subseteq path[p]
      <4>1. path[p] \in SUBSET (1..m)
        BY <3>5
      <4> QED
        BY <3>1, <3>5, <3>6, <4>1
    <3> HIDE DEF path
    <3> QED
      BY <2>1, <3>4, <3>5, <3>7
  <2>2. CASE p \notin go
    <3>1. Closed({p}) /\ {p} \in SUBSET (1..m) /\ p \in {p}
      BY <2>2
    <3>2. path[p] \subseteq {p}
      BY <3>1
    <3>3. p \in path[p]
      BY <1>1
    <3> HIDE DEF path
    <3> QED
      BY <2>2, <3>2, <3>3
  <2> QED
    BY <2>1, <2>2
<1>3. path = [p \in 1..m |-> path[p]]
  OBVIOUS
<1> HIDE DEF path
<1>4. Down(go, next, m, path)
  BY <1>2, <1>3 DEF Down
<1> QED
  BY <1>4

(***************************************************************************)
(* The path has the top and, of every place that is left, one child; the   *)
(* place where it ends is the greatest.                                    *)
(***************************************************************************)
PathDown(D, p, go, next, m) ==
    /\ D \subseteq p..m /\ p \in D
    /\ \A i \in D : i \in go => next[i] \in D
    /\ \A i \in D : i # p => i \div 2 \in D /\ i \div 2 \in go /\ i = next[i \div 2]
    /\ \A i, j \in D : i < j => i \in go

LEMMA DownFact ==
    ASSUME NEW m \in Nat, m >= 1, NEW go, go \subseteq 1..m, NEW next,
           \A p \in go : next[p] \in 1..m /\ next[p] > p /\ next[p] \div 2 = p,
           NEW down, Down(go, next, m, down)
    PROVE  PathDown(down[1], 1, go, next, m)
<1> DEFINE Good(p) == PathDown(down[p], p, go, next, m)
           G == {k \in 1..m : Good(m + 1 - k)}
<1>1. ASSUME NEW k \in 1..m, 1..(k - 1) \subseteq G
      PROVE  k \in G
  <2> DEFINE p == m + 1 - k
  <2>1. p \in 1..m
    OBVIOUS
  <2>2. down[p] = IF p \in go THEN {p} \cup down[next[p]] ELSE {p}
    BY <2>1 DEF Down
  <2>3. CASE p \notin go
    <3>1. down[p] = {p}
      BY <2>2, <2>3
    <3> QED
      BY <2>1, <2>3, <3>1 DEF PathDown
  <2>4. CASE p \in go
    <3> DEFINE q == next[p]
               D == down[p]
               E == down[q]
    <3>1. q \in 1..m /\ q > p /\ q \div 2 = p
      BY <2>4
    <3>2. Good(q)
      <4>1. m + 1 - q \in 1..(k - 1)
        BY <3>1
      <4>2. m + 1 - q \in G
        BY <1>1, <4>1
      <4>3. Good(m + 1 - (m + 1 - q))
        BY <4>2
      <4>4. m + 1 - (m + 1 - q) = q
        BY <3>1
      <4> HIDE DEF Good, q
      <4> QED
        BY <4>3, <4>4
    <3>3. D = {p} \cup E
      BY <2>2, <2>4
    <3>4. /\ E \subseteq q..m /\ q \in E
          /\ \A i \in E : i \in go => next[i] \in E
          /\ \A i \in E : i # q => i \div 2 \in E /\ i \div 2 \in go /\ i = next[i \div 2]
          /\ \A i, j \in E : i < j => i \in go
      BY <3>2 DEF PathDown
    <3>5. q = next[p]
      OBVIOUS
    <3> HIDE DEF D, E, q
    <3>6. D \subseteq p..m /\ p \in D
      BY <2>1, <3>1, <3>3, <3>4
    <3>7. \A i \in D : i \in go => next[i] \in D
      BY <3>3, <3>4, <3>5
    <3>8. \A i \in D : i # p => i \div 2 \in D /\ i \div 2 \in go /\ i = next[i \div 2]
      BY <2>4, <3>1, <3>3, <3>4, <3>5
    <3>9. \A i, j \in D : i < j => i \in go
      BY <2>1, <2>4, <3>1, <3>3, <3>4
    <3> QED
      BY <2>1, <3>6, <3>7, <3>8, <3>9 DEF PathDown, D
  <2> QED
    BY <2>3, <2>4
<1>2. 1..m \subseteq G
  <2> HIDE DEF G
  <2> QED
    BY <1>1, IntervalInduction
<1>3. Good(m + 1 - m) /\ m + 1 - m = 1
  BY <1>2
<1> HIDE DEF Good
<1>4. Good(1)
  BY <1>3
<1> QED
  BY <1>4 DEF Good

LEMMA HeapNextFact ==
    ASSUME NEW m \in Nat, NEW h \in Heap(m + 1)
    PROVE  /\ HeapNext(h) \in Heap(m)
           /\ \E place \in [1..m -> 2..(m + 1)] :
                /\ \A j \in 2..(m + 1) : \E i \in 1..m : place[i] = j
                /\ \A i \in 1..m : HeapNext(h)[i] = h[place[i]]
<1> DEFINE n == Len(h) - 1
           bubble == h[n + 1]
           Smaller(p) == IF 2 * p + 1 <= n /\ h[2 * p + 1] < h[2 * p] THEN 2 * p + 1 ELSE 2 * p
           go == {p \in 1..(n + 1) : 2 * p <= n /\ bubble > h[Smaller(p)]}
           next == [p \in 1..(n + 1) |-> Smaller(p)]
           down == CHOOSE down : down = [p \in 1..(n + 1) |->
                     IF 2 * p <= n /\ bubble > h[Smaller(p)]
                     THEN {p} \cup down[Smaller(p)] ELSE {p}]
           D == down[1]
           L == MaxOf(D)
           g == [i \in 1..n |-> IF i = L THEN bubble ELSE IF i \in D THEN h[Smaller(i)] ELSE h[i]]
<1>1. HeapNext(h) = g
  BY DEF HeapNext
<1>2. n = m
  BY DEF Heap
<1> HIDE DEF n
<1>3. h \in [1..(n + 1) -> Nat] /\ \A j \in 2..(n + 1) : h[j \div 2] <= h[j]
  BY <1>2 DEF Heap
<1> USE <1>2
<1>4. ASSUME NEW p \in 1..(n + 1), 2 * p <= n
      PROVE  /\ Smaller(p) \in 2..n /\ Smaller(p) > p /\ Smaller(p) \div 2 = p
             /\ h[Smaller(p)] <= h[2 * p]
             /\ 2 * p + 1 <= n => h[Smaller(p)] <= h[2 * p + 1]
  <2>1. (2 * p) \div 2 = p /\ (2 * p + 1) \div 2 = p
    OBVIOUS
  <2>2. h[2 * p] \in Nat /\ (2 * p + 1 <= n => h[2 * p + 1] \in Nat)
    BY <1>3, <1>4
  <2>3. CASE 2 * p + 1 <= n /\ h[2 * p + 1] < h[2 * p]
    <3>1. Smaller(p) = 2 * p + 1
      BY <2>3
    <3> QED
      BY <2>1, <2>2, <2>3, <3>1
  <2>4. CASE ~ (2 * p + 1 <= n /\ h[2 * p + 1] < h[2 * p])
    <3>1. Smaller(p) = 2 * p
      BY <2>4
    <3> HIDE DEF Smaller
    <3>2. 2 * p + 1 <= n => h[2 * p] <= h[2 * p + 1]
      BY <2>2, <2>4
    <3> QED
      BY <1>4, <2>1, <2>2, <3>1, <3>2
  <2> QED
    BY <2>3, <2>4
<1> HIDE DEF Smaller
<1>5. /\ go \subseteq 1..(n + 1)
      /\ \A p \in go : next[p] \in 1..(n + 1) /\ next[p] > p /\ next[p] \div 2 = p
  BY <1>4
<1>6. Down(go, next, n + 1, down)
  <2>1. PICK f : Down(go, next, n + 1, f)
    <3> HIDE DEF go, next
    <3>1. n + 1 \in Nat
      OBVIOUS
    <3> QED
      BY <1>5, <3>1, DownExists
  <2>2. \A e : [p \in 1..(n + 1) |-> IF 2 * p <= n /\ bubble > h[Smaller(p)]
                                     THEN {p} \cup e[Smaller(p)] ELSE {p}]
               = [p \in 1..(n + 1) |-> IF p \in go THEN {p} \cup e[next[p]] ELSE {p}]
    OBVIOUS
  <2>3. f = [p \in 1..(n + 1) |-> IF 2 * p <= n /\ bubble > h[Smaller(p)]
                                  THEN {p} \cup f[Smaller(p)] ELSE {p}]
    BY <2>1, <2>2 DEF Down
  <2> HIDE DEF go, next
  <2>4. down = [p \in 1..(n + 1) |-> IF 2 * p <= n /\ bubble > h[Smaller(p)]
                                     THEN {p} \cup down[Smaller(p)] ELSE {p}]
    BY <2>3
  <2> HIDE DEF down
  <2> QED
    BY <2>2, <2>4 DEF Down
<1> HIDE DEF down
<1>7. PathDown(D, 1, go, next, n + 1)
  <2> HIDE DEF go, next
  <2>1. n + 1 \in Nat /\ n + 1 >= 1
    OBVIOUS
  <2> QED
    BY <1>5, <1>6, <2>1, DownFact
<1>8. /\ D \subseteq 1..(n + 1) /\ 1 \in D
      /\ \A i \in D : i \in go => Smaller(i) \in D
      /\ \A i \in D : i # 1 => i \div 2 \in D /\ i \div 2 \in go /\ i = Smaller(i \div 2)
      /\ \A i, j \in D : i < j => i \in go
  BY <1>7 DEF PathDown
<1> HIDE DEF D
<1>9. L \in D /\ \A i \in D : i <= L
  <2>1. IsFiniteSet(D)
    <3>1. IsFiniteSet(1..(n + 1))
      BY FS_Interval
    <3> QED
      BY <1>8, <3>1, FS_Subset
  <2>2. D \subseteq Nat /\ D # {}
    BY <1>8
  <2> QED
    BY <2>1, <2>2, MaxOfFact
<1> HIDE DEF L
<1>10. \A i \in D : i # L => i \in go
  BY <1>8, <1>9
<1>11. L \notin go
  <2> SUFFICES ASSUME L \in go PROVE FALSE
    OBVIOUS
  <2>1. Smaller(L) \in D /\ Smaller(L) > L /\ Smaller(L) \in Nat
    BY <1>4, <1>8, <1>9
  <2> QED
    BY <1>8, <1>9, <2>1
<1>12. n >= 1 => D \subseteq 1..n
  <2> SUFFICES ASSUME n >= 1, NEW i \in D PROVE i \in 1..n
    OBVIOUS
  <2>1. CASE i = 1
    BY <2>1
  <2>2. CASE i # 1
    <3>1. i \div 2 \in go /\ i = Smaller(i \div 2)
      BY <1>8, <2>2
    <3> QED
      BY <1>4, <3>1
  <2> QED
    BY <2>1, <2>2
<1>13. \A i \in D : i # L => /\ Smaller(i) \in D /\ Smaller(i) \in 2..n
                             /\ Smaller(i) > i /\ bubble > h[Smaller(i)]
  BY <1>4, <1>8, <1>10
<1>14. 2 * L <= n => bubble <= h[Smaller(L)]
  <2> SUFFICES ASSUME 2 * L <= n PROVE bubble <= h[Smaller(L)]
    OBVIOUS
  <2>1. L \in 1..(n + 1) /\ Smaller(L) \in 2..n
    BY <1>4, <1>8, <1>9
  <2>2. h[Smaller(L)] \in Nat /\ bubble \in Nat
    BY <1>3, <2>1
  <2>3. ~ (bubble > h[Smaller(L)])
    BY <1>11, <2>1
  <2> QED
    BY <2>2, <2>3
<1>15. \A i \in D : i # 1 => /\ i \div 2 \in D /\ i = Smaller(i \div 2)
                             /\ i \div 2 # L /\ bubble > h[i]
  <2> SUFFICES ASSUME NEW i \in D, i # 1
               PROVE  /\ i \div 2 \in D /\ i = Smaller(i \div 2)
                      /\ i \div 2 # L /\ bubble > h[i]
    OBVIOUS
  <2>1. i \div 2 \in D /\ i \div 2 \in go /\ i = Smaller(i \div 2)
    BY <1>8
  <2> QED
    BY <1>11, <2>1
<1> HIDE DEF go, next
<1>16. g \in [1..n -> Nat]
  <2>1. bubble \in Nat
    BY <1>3
  <2>2. \A i \in D : i # L => h[Smaller(i)] \in Nat
    BY <1>3, <1>13
  <2>3. \A i \in 1..n : h[i] \in Nat
    BY <1>3
  <2> QED
    BY <2>1, <2>2, <2>3
<1>17. ASSUME NEW i \in 2..n
       PROVE  g[i \div 2] <= g[i]
  <2> DEFINE p == i \div 2
  <2>1. p \in 1..(n - 1) /\ p < i /\ p \in 1..n /\ (i = 2 * p \/ i = 2 * p + 1)
    BY HalfFact
  <2>2. g[p] = IF p = L THEN bubble ELSE IF p \in D THEN h[Smaller(p)] ELSE h[p]
    BY <2>1
  <2>3. g[i] = IF i = L THEN bubble ELSE IF i \in D THEN h[Smaller(i)] ELSE h[i]
    OBVIOUS
  <2>4. h[p] <= h[i] /\ h[p] \in Nat /\ h[i] \in Nat /\ bubble \in Nat
    BY <1>3, <2>1
  <2>5. 2 * p <= n /\ Smaller(p) \in 2..n /\ h[Smaller(p)] <= h[i]
    BY <1>4, <2>1, SMTT(60)
  <2>6. h[Smaller(p)] \in Nat
    BY <1>3, <2>5
  <2> HIDE DEF g
  <2>7. g[p] <= g[i]
    <3>1. CASE i \notin D
      <4>1. g[i] = h[i]
        BY <1>9, <2>3, <3>1
      <4>2. CASE p = L
        BY <1>14, <2>2, <2>4, <2>5, <2>6, <4>1, <4>2
      <4>3. CASE p # L /\ p \in D
        BY <2>2, <2>5, <4>1, <4>3
      <4>4. CASE p # L /\ p \notin D
        BY <2>2, <2>4, <4>1, <4>4
      <4> QED
        BY <4>2, <4>3, <4>4
    <3>2. CASE i \in D
      <4>1. i # 1 /\ p \in D /\ i = Smaller(p) /\ p # L /\ bubble > h[i]
        BY <1>15, <3>2
      <4>2. g[p] = h[i]
        BY <2>2, <4>1
      <4>3. CASE i = L
        BY <2>3, <2>4, <4>1, <4>2, <4>3
      <4>4. CASE i # L
        <5>1. Smaller(i) \in 2..n /\ Smaller(i) \div 2 = i
          BY <1>4, <1>10, <1>13, <3>2, <4>4 DEF go
        <5>2. h[i] <= h[Smaller(i)]
          BY <1>3, <5>1
        <5> QED
          BY <2>3, <3>2, <4>2, <4>4, <5>2
      <4> QED
        BY <4>3, <4>4
    <3> QED
      BY <3>1, <3>2
  <2> QED
    BY <2>7
<1>18. g \in Heap(n)
  <2> HIDE DEF g
  <2> QED
    BY <1>16, <1>17 DEF Heap
<1> DEFINE place == [i \in 1..n |-> IF i = L THEN n + 1 ELSE IF i \in D THEN Smaller(i) ELSE i]
<1>19. place \in [1..n -> 2..(n + 1)]
  <2>1. \A i \in D : i # L => Smaller(i) \in 2..(n + 1)
    BY <1>13
  <2>2. \A i \in 1..n : i \notin D => i \in 2..(n + 1)
    BY <1>8
  <2> QED
    BY <2>1, <2>2
<1>20. ASSUME NEW j \in 2..(n + 1) PROVE \E i \in 1..n : place[i] = j
  <2>0. D \subseteq 1..n
    BY <1>12
  <2>1. CASE j = n + 1
    BY <1>9, <2>0, <2>1
  <2>2. CASE j # n + 1 /\ j \in D
    <3>1. j \div 2 \in D /\ j = Smaller(j \div 2) /\ j \div 2 # L
      BY <1>15, <2>2
    <3> QED
      BY <2>0, <3>1
  <2>3. CASE j # n + 1 /\ j \notin D
    <3>1. j \in 1..n /\ j # L
      BY <1>9, <2>3
    <3> QED
      BY <2>3, <3>1
  <2> QED
    BY <2>1, <2>2, <2>3
<1>21. ASSUME NEW i \in 1..n PROVE g[i] = h[place[i]]
  OBVIOUS
<1> HIDE DEF g, place
<1> QED
  BY <1>1, <1>18, <1>19, <1>20, <1>21

----------------------------------------------------------------------------
(***************************************************************************)
(* Windows as bags of times.  A time takes the place of the first one: the *)
(* number of slots free by t loses the one and gains the other.            *)
(***************************************************************************)
Swapped(count, first, v, t) ==
    (IF first <= t THEN count - 1 ELSE count) + (IF v <= t THEN 1 ELSE 0)

LEMMA SwapCount ==
    ASSUME NEW n \in Nat, n >= 1, NEW f \in [1..n -> Nat], NEW g \in [1..n -> Nat],
           NEW v \in Nat, NEW t \in Nat, Rearranged(g, f, n, 1, v)
    PROVE  FreeBy(g, t) = Swapped(FreeBy(f, t), f[1], v, t)
<1>0. PICK place \in [1..n -> 1..n] :
        /\ \A j \in 1..n : \E i \in 1..n : place[i] = j
        /\ \A i \in 1..n : /\ place[i] = 1 => g[i] = v
                           /\ place[i] # 1 => g[i] = f[place[i]]
  BY DEF Rearranged
<1>1. IsFiniteSet(1..n)
  BY FS_Interval
<1>2. \A i, j \in 1..n : place[i] = place[j] => i = j
  <2>1. place \in Surjection(1..n, 1..n)
    BY <1>0 DEF Surjection
  <2>2. place \in Injection(1..n, 1..n)
    BY <1>1, <2>1, FS_SurjSameCardinalityImpliesInj
  <2> QED
    BY <2>2 DEF Injection, IsInjective
<1> DEFINE F == {i \in 1..n : f[i] <= t}
           H == {i \in 1..n : g[i] <= t}
<1>3. IsFiniteSet(F) /\ IsFiniteSet(H)
  BY <1>1, FS_Subset
<1>4. PICK k \in 1..n : place[k] = 1
  BY <1>0
<1> DEFINE move == [i \in H \ {k} |-> place[i]]
<1>5. move \in Bijection(H \ {k}, F \ {1})
  <2>1. ASSUME NEW i \in H \ {k} PROVE place[i] \in F \ {1}
    BY <1>0, <1>2, <1>4
  <2>2. ASSUME NEW j \in F \ {1} PROVE \E i \in H \ {k} : place[i] = j
    <3>1. PICK i \in 1..n : place[i] = j
      BY <1>0
    <3>2. g[i] = f[j] /\ i # k
      BY <1>0, <1>4, <3>1
    <3> QED
      BY <3>1, <3>2
  <2>3. move \in [H \ {k} -> F \ {1}]
    BY <2>1
  <2>4. \A i, j \in H \ {k} : move[i] = move[j] => i = j
    BY <1>2
  <2>5. \A j \in F \ {1} : \E i \in H \ {k} : move[i] = j
    BY <2>2
  <2>6. DOMAIN move = H \ {k}
    OBVIOUS
  <2> HIDE DEF F, H, move
  <2>7. move \in Injection(H \ {k}, F \ {1})
    BY <2>3, <2>4, <2>6 DEF Injection, IsInjective
  <2>8. move \in Surjection(H \ {k}, F \ {1})
    BY <2>3, <2>5 DEF Surjection
  <2> QED
    BY <2>7, <2>8 DEF Bijection
<1> HIDE DEF move
<1>6. Cardinality(F \ {1}) = Cardinality(H \ {k})
  <2>1. ExistsBijection(H \ {k}, F \ {1}) /\ IsFiniteSet(H \ {k})
    BY <1>3, <1>5, FS_RemoveElement DEF ExistsBijection
  <2> QED
    BY <2>1, FS_Bijection
<1>7. Cardinality(F \ {1}) = IF f[1] <= t THEN Cardinality(F) - 1 ELSE Cardinality(F)
  <2>1. 1 \in F <=> f[1] <= t
    OBVIOUS
  <2> HIDE DEF F
  <2> QED
    BY <1>3, <2>1, FS_RemoveElement
<1>8. Cardinality(H \ {k}) = IF v <= t THEN Cardinality(H) - 1 ELSE Cardinality(H)
  <2>1. k \in H <=> v <= t
    BY <1>0, <1>4
  <2> HIDE DEF H
  <2> QED
    BY <1>3, <2>1, FS_RemoveElement
<1>9. Cardinality(F) \in Nat /\ Cardinality(H) \in Nat
  BY <1>3, FS_CardinalityType
<1>10. FreeBy(f, t) = Cardinality(F) /\ FreeBy(g, t) = Cardinality(H)
  BY DEF FreeBy
<1> DEFINE c == Cardinality(F)
           d == Cardinality(H)
<1>11. c \in Nat /\ d \in Nat
  BY <1>9
<1>12. (IF f[1] <= t THEN c - 1 ELSE c) = (IF v <= t THEN d - 1 ELSE d)
  BY <1>6, <1>7, <1>8
<1> HIDE DEF c, d
<1>13. d = (IF f[1] <= t THEN c - 1 ELSE c) + (IF v <= t THEN 1 ELSE 0)
  <2>1. CASE f[1] <= t /\ v <= t
    BY <1>11, <1>12, <2>1
  <2>2. CASE f[1] <= t /\ ~ (v <= t)
    BY <1>11, <1>12, <2>2
  <2>3. CASE ~ (f[1] <= t) /\ v <= t
    BY <1>11, <1>12, <2>3
  <2>4. CASE ~ (f[1] <= t) /\ ~ (v <= t)
    BY <1>11, <1>12, <2>4
  <2> QED
    BY <2>1, <2>2, <2>3, <2>4
<1> QED
  BY <1>10, <1>13 DEF Swapped, c, d

(***************************************************************************)
(* The heap with its top taken out and v put in has one time in place of   *)
(* the least.                                                              *)
(***************************************************************************)
LEMMA HeapSwap ==
    ASSUME NEW n \in Nat, n >= 1, NEW h \in Heap(n), NEW v \in Nat
    PROVE  /\ HeapInsert(HeapNext(h), v) \in Heap(n)
           /\ \A t \in Nat : FreeBy(HeapInsert(HeapNext(h), v), t)
                               = Swapped(FreeBy(h, t), h[1], v, t)
<1> DEFINE k == HeapNext(h)
           g == HeapInsert(k, v)
<1>1. n - 1 \in Nat /\ (n - 1) + 1 = n
  OBVIOUS
<1>2. /\ k \in Heap(n - 1)
      /\ \E place \in [1..(n - 1) -> 2..n] :
           /\ \A j \in 2..n : \E i \in 1..(n - 1) : place[i] = j
           /\ \A i \in 1..(n - 1) : k[i] = h[place[i]]
  <2> DEFINE m == n - 1
  <2>1. m \in Nat /\ m + 1 = n
    BY <1>1
  <2>2. /\ k \in Heap(m)
        /\ \E place \in [1..m -> 2..n] :
             /\ \A j \in 2..n : \E i \in 1..m : place[i] = j
             /\ \A i \in 1..m : k[i] = h[place[i]]
    <3> HIDE DEF m
    <3> QED
      BY <2>1, HeapNextFact
  <2> QED
    BY <2>2
<1> HIDE DEF k
<1>3. /\ g \in Heap(n)
      /\ Rearranged(g, k, n, n, v)
  <2>1. k \in Heap(n - 1)
    BY <1>2
  <2> QED
    BY <2>1, HeapInsertFact
<1> HIDE DEF g
<1>4. PICK down : /\ down \in [1..(n - 1) -> 2..n]
                   /\ \A j \in 2..n : \E m \in 1..(n - 1) : down[m] = j
                   /\ \A i \in 1..(n - 1) : k[i] = h[down[i]]
  BY <1>2
<1>5. PICK up : /\ up \in [1..n -> 1..n]
                 /\ \A j \in 1..n : \E m \in 1..n : up[m] = j
                 /\ \A i \in 1..n : /\ up[i] = n => g[i] = v
                                    /\ up[i] # n => g[i] = k[up[i]]
  BY <1>3 DEF Rearranged
<1> DEFINE place == [i \in 1..n |-> IF up[i] = n THEN 1 ELSE down[up[i]]]
<1>6. place \in [1..n -> 1..n] /\ \A i \in 1..n : up[i] # n => up[i] \in 1..(n - 1)
  <2>1. \A i \in 1..n : up[i] # n => up[i] \in 1..(n - 1)
    <3>1. up \in [1..n -> 1..n]
      BY <1>5
    <3> QED
      BY <3>1
  <2>2. \A l \in 1..(n - 1) : down[l] \in 2..n
    BY <1>4
  <2> QED
    BY <1>1, <2>1, <2>2
<1>7. ASSUME NEW j \in 1..n PROVE \E i \in 1..n : place[i] = j
  <2>1. CASE j = 1
    <3>1. PICK i \in 1..n : up[i] = n
      BY <1>5
    <3> QED
      BY <2>1, <3>1
  <2>2. CASE j # 1
    <3>1. PICK l \in 1..(n - 1) : down[l] = j
      BY <1>4, <2>2
    <3>2. l \in 1..n /\ l # n
      BY <1>1
    <3>3. PICK i \in 1..n : up[i] = l
      BY <1>5, <3>2
    <3> QED
      BY <3>1, <3>2, <3>3
  <2> QED
    BY <2>1, <2>2
<1>8. ASSUME NEW i \in 1..n
      PROVE  /\ place[i] = 1 => g[i] = v
             /\ place[i] # 1 => g[i] = h[place[i]]
  <2>1. CASE up[i] = n
    BY <1>5, <2>1
  <2>2. CASE up[i] # n
    <3>1. up[i] \in 1..(n - 1)
      BY <1>6, <2>2
    <3>2. down[up[i]] \in 2..n /\ k[up[i]] = h[down[up[i]]]
      BY <1>4, <3>1
    <3>3. place[i] = down[up[i]] /\ place[i] # 1
      BY <2>2, <3>2
    <3>4. g[i] = k[up[i]]
      BY <1>5, <2>2
    <3> QED
      BY <3>2, <3>3, <3>4
  <2> QED
    BY <2>1, <2>2
<1>9. h \in [1..n -> Nat] /\ g \in [1..n -> Nat]
  BY <1>3 DEF Heap
<1> HIDE DEF place
<1>10. Rearranged(g, h, n, 1, v)
  BY <1>6, <1>7, <1>8 DEF Rearranged
<1>11. \A t \in Nat : FreeBy(g, t) = Swapped(FreeBy(h, t), h[1], v, t)
  BY <1>9, <1>10, SwapCount, SMTT(60)
<1> QED
  BY <1>3, <1>11 DEF g, k

(***************************************************************************)
(* So does Slide to the list of the times in their order.                  *)
(***************************************************************************)
LEMMA SlideSwap ==
    ASSUME NEW w, IsWindow(w), NEW v \in Nat
    PROVE  \A t \in Nat : FreeBy(Slide(w, v), t) = Swapped(FreeBy(w, t), w[1], v, t)
<1> DEFINE n == WindowSize
           s == Slide(w, v)
           place == [i \in 1..n |->
                       IF i < n /\ w[i + 1] <= v THEN i + 1
                       ELSE IF i = 1 \/ w[i] <= v THEN 1 ELSE i]
<1>1. n \in Nat /\ n >= 1 /\ Slots = 1..n
  BY WindowSizeAssumption DEF Slots
<1>2. w \in [1..n -> Nat] /\ \A i, j \in 1..n : i <= j => w[i] <= w[j]
  BY <1>1 DEF IsWindow
<1>3. s \in [1..n -> Nat]
  BY <1>1, SlideIsWindow DEF IsWindow
<1>4. place \in [1..n -> 1..n]
  BY <1>1
<1>5. ASSUME NEW i \in 1..n
      PROVE  /\ place[i] = 1 => s[i] = v
             /\ place[i] # 1 => s[i] = w[place[i]]
  <2>1. s[i] = IF i < n /\ w[i + 1] <= v THEN w[i + 1]
               ELSE IF i = 1 \/ w[i] <= v THEN v ELSE w[i]
    BY <1>1 DEF Slide
  <2> HIDE DEF s
  <2> QED
    BY <2>1
<1> HIDE DEF s, n
<1>6. ASSUME NEW j \in 1..n PROVE \E i \in 1..n : place[i] = j
  <2>1. CASE j = 1
    <3> DEFINE Low == {i \in 1..n : i = 1 \/ w[i] <= v}
    <3>1. IsFiniteSet(Low)
      <4>1. IsFiniteSet(1..n)
        BY <1>1, FS_Interval
      <4> QED
        BY <4>1, FS_Subset
    <3>2. Low \subseteq Nat /\ Low # {}
      BY <1>1
    <3>3. PICK i \in Low : \A k \in Low : k <= i
      <4> HIDE DEF Low
      <4> QED
        BY <3>1, <3>2, MaxOfFact
    <3>4. ~ (i < n /\ w[i + 1] <= v)
      <4> SUFFICES ASSUME i < n, w[i + 1] <= v PROVE FALSE
        OBVIOUS
      <4>1. i + 1 \in Low
        BY <1>1
      <4> QED
        BY <3>3, <4>1
    <3> QED
      BY <1>1, <2>1, <3>4
  <2>2. CASE j # 1 /\ w[j] <= v
    <3>1. j - 1 \in 1..n /\ j - 1 < n /\ (j - 1) + 1 = j
      BY <1>1, <2>2
    <3>2. place[j - 1] = j
      BY <2>2, <3>1
    <3> QED
      BY <3>1, <3>2
  <2>3. CASE j # 1 /\ ~ (w[j] <= v)
    <3>1. ~ (j < n /\ w[j + 1] <= v)
      <4> SUFFICES ASSUME j < n, w[j + 1] <= v PROVE FALSE
        OBVIOUS
      <4>1. j + 1 \in 1..n /\ j <= j + 1
        BY <1>1
      <4>2. w[j] <= w[j + 1] /\ w[j] \in Nat /\ w[j + 1] \in Nat
        BY <1>2, <4>1
      <4> QED
        BY <2>3, <4>2
    <3>2. place[j] = j
      BY <2>3, <3>1
    <3> QED
      BY <3>2
  <2> QED
    BY <2>1, <2>2, <2>3
<1> HIDE DEF place
<1>7. Rearranged(s, w, n, 1, v)
  BY <1>4, <1>5, <1>6 DEF Rearranged
<1>8. \A t \in Nat : FreeBy(s, t) = Swapped(FreeBy(w, t), w[1], v, t)
  BY <1>1, <1>2, <1>3, <1>7, SwapCount
<1> QED
  BY <1>8 DEF s

(***************************************************************************)
(* A list in order is known by how many of its times are no later than t:  *)
(* the k-th is the first by which k slots are free.                        *)
(***************************************************************************)
LEMMA CountInOrder ==
    ASSUME NEW w, IsWindow(w), NEW k \in Slots
    PROVE  /\ FreeBy(w, w[k]) >= k
           /\ \A t \in Nat : t < w[k] => FreeBy(w, t) < k
           /\ \A t \in Nat : FreeBy(w, t) \in Nat
<1> DEFINE n == WindowSize
<1>1. n \in Nat /\ n >= 1 /\ Slots = 1..n
  BY WindowSizeAssumption DEF Slots
<1>2. w \in [1..n -> Nat] /\ \A i, j \in 1..n : i <= j => w[i] <= w[j]
  BY <1>1 DEF IsWindow
<1> HIDE DEF n
<1> DEFINE F(t) == {i \in 1..n : w[i] <= t}
<1>3. \A t : FreeBy(w, t) = Cardinality(F(t))
  BY <1>2 DEF FreeBy
<1>4. \A t : IsFiniteSet(F(t)) /\ Cardinality(F(t)) \in Nat
  <2> SUFFICES ASSUME NEW t PROVE IsFiniteSet(F(t)) /\ Cardinality(F(t)) \in Nat
    OBVIOUS
  <2>1. IsFiniteSet(1..n) /\ F(t) \subseteq 1..n
    BY <1>1, FS_Interval
  <2> HIDE DEF F
  <2> QED
    BY <2>1, FS_Subset, FS_CardinalityType
<1>5. \A l \in 0..n : IsFiniteSet(1..l) /\ Cardinality(1..l) = l
  BY <1>1, FS_Interval
<1>6. Cardinality(F(w[k])) >= k
  <2>1. 1..k \subseteq F(w[k])
    BY <1>1, <1>2
  <2>2. Cardinality(1..k) = k
    BY <1>1, <1>5
  <2> HIDE DEF F
  <2> QED
    BY <1>1, <1>4, <2>1, <2>2, FS_Subset
<1>7. ASSUME NEW t \in Nat, t < w[k] PROVE Cardinality(F(t)) < k
  <2>1. F(t) \subseteq 1..(k - 1)
    <3> SUFFICES ASSUME NEW i \in 1..n, w[i] <= t, i >= k PROVE FALSE
      BY <1>1
    <3>1. w[k] <= w[i] /\ w[k] \in Nat /\ w[i] \in Nat
      BY <1>1, <1>2
    <3> QED
      BY <1>7, <3>1
  <2>2. IsFiniteSet(1..(k - 1)) /\ Cardinality(1..(k - 1)) = k - 1 /\ k \in Nat
    BY <1>1, <1>5
  <2> HIDE DEF F
  <2>3. Cardinality(F(t)) <= k - 1
    BY <2>1, <2>2, FS_Subset
  <2> QED
    BY <1>4, <2>2, <2>3
<1> HIDE DEF F
<1> QED
  BY <1>3, <1>4, <1>6, <1>7

LEMMA InOrderFact ==
    ASSUME NEW h \in [Slots -> Nat], NEW w, IsWindow(w),
           \A t \in Nat : FreeBy(h, t) = FreeBy(w, t)
    PROVE  InOrder(h) = w /\ (h \in Heap(WindowSize) => h[1] = w[1])
<1>0. w \in [Slots -> Nat] /\ DOMAIN h = Slots /\ Times(h) \subseteq Nat
  BY DEF IsWindow, Times
<1>1. ASSUME NEW k \in Slots
      PROVE  /\ w[k] \in Times(h)
             /\ \A t \in Nat : FreeBy(h, t) >= k <=> w[k] <= t
  <2>1. /\ FreeBy(w, w[k]) >= k
        /\ \A t \in Nat : t < w[k] => FreeBy(w, t) < k
        /\ \A t \in Nat : FreeBy(w, t) \in Nat
    BY CountInOrder
  <2>2. k \in Nat /\ k >= 1 /\ w[k] \in Nat
    BY <1>0 DEF Slots
  <2>3. ASSUME NEW t \in Nat PROVE FreeBy(h, t) >= k <=> w[k] <= t
    <3>1. CASE t < w[k]
      BY <2>1, <2>2, <3>1
    <3>2. CASE w[k] <= t
      <4>1. {i \in Slots : w[i] <= w[k]} \subseteq {i \in Slots : w[i] <= t}
        <5> SUFFICES ASSUME NEW i \in Slots, w[i] <= w[k] PROVE w[i] <= t
          OBVIOUS
        <5>1. w[i] \in Nat
          BY <1>0
        <5> QED
          BY <2>2, <3>2, <5>1
      <4>2. IsFiniteSet({i \in Slots : w[i] <= t})
        <5>1. IsFiniteSet(Slots)
          BY WindowSizeAssumption, FS_Interval DEF Slots
        <5> QED
          BY <5>1, FS_Subset
      <4>3. FreeBy(w, w[k]) <= FreeBy(w, t)
        <5>1. DOMAIN w = Slots
          BY <1>0
        <5> QED
          BY <4>1, <4>2, <5>1, FS_Subset DEF FreeBy
      <4> QED
        BY <2>1, <2>2, <3>2, <4>3
    <3> QED
      BY <2>2, <3>1, <3>2
  <2>4. w[k] \in Times(h)
    <3> SUFFICES ASSUME \A i \in Slots : h[i] # w[k] PROVE FALSE
      BY <1>0 DEF Times
    <3>1. CASE w[k] = 0
      <4>1. {i \in Slots : h[i] <= 0} = {}
        BY <3>1
      <4>2. FreeBy(h, 0) = 0
        BY <1>0, <4>1, FS_EmptySet DEF FreeBy
      <4> QED
        BY <2>1, <2>2, <3>1, <4>2
    <3>2. CASE w[k] # 0
      <4> DEFINE t == w[k] - 1
      <4>1. t \in Nat /\ t < w[k] /\ t + 1 = w[k]
        BY <2>2, <3>2
      <4>2. \A i \in Slots : h[i] <= w[k] <=> h[i] <= t
        BY <2>2
      <4>3. FreeBy(h, w[k]) = FreeBy(h, t)
        BY <1>0, <4>2 DEF FreeBy
      <4> HIDE DEF t
      <4> QED
        BY <2>1, <2>2, <4>1, <4>3
    <3> QED
      BY <3>1, <3>2
  <2> QED
    BY <2>3, <2>4
<1>2. ASSUME NEW k \in Slots PROVE InOrder(h)[k] = w[k]
  <2> DEFINE P(t) == FreeBy(h, t) >= k /\ \A u \in Times(h) : FreeBy(h, u) >= k => t <= u
  <2>1. InOrder(h)[k] = CHOOSE t \in Times(h) : P(t)
    BY DEF InOrder
  <2>2. w[k] \in Times(h) /\ P(w[k])
    BY <1>0, <1>1
  <2>3. ASSUME NEW t \in Times(h), P(t) PROVE t = w[k]
    <3>1. t \in Nat /\ w[k] \in Nat /\ w[k] <= t /\ t <= w[k]
      BY <1>0, <1>1, <2>2, <2>3
    <3> QED
      BY <3>1
  <2> HIDE DEF P
  <2> QED
    BY <2>1, <2>2, <2>3
<1>3. InOrder(h) = w
  <2>1. InOrder(h) = [k \in Slots |-> InOrder(h)[k]]
    BY DEF InOrder
  <2>2. w = [k \in Slots |-> w[k]]
    BY <1>0
  <2> QED
    BY <1>2, <2>1, <2>2
<1>4. ASSUME h \in Heap(WindowSize) PROVE h[1] = w[1]
  <2>1. 1 \in Slots /\ h[1] \in Nat /\ w[1] \in Nat
    BY <1>0, WindowSizeAssumption DEF Slots
  <2>2. PICK m \in Slots : h[m] = w[1]
    BY <1>0, <1>1, <2>1 DEF Times
  <2>3. h[1] <= w[1]
    BY <1>4, <2>2, HeapTop, WindowSizeAssumption DEF Slots
  <2>4. FreeBy(h, h[1]) >= 1
    <3>1. 1 \in {i \in Slots : h[i] <= h[1]}
      BY <2>1
    <3>2. IsFiniteSet({i \in Slots : h[i] <= h[1]})
      <4>1. IsFiniteSet(Slots)
        BY WindowSizeAssumption, FS_Interval DEF Slots
      <4> QED
        BY <4>1, FS_Subset
    <3>3. /\ Cardinality({i \in Slots : h[i] <= h[1]}) # 0
          /\ Cardinality({i \in Slots : h[i] <= h[1]}) \in Nat
      BY <3>1, <3>2, FS_EmptySet, FS_CardinalityType
    <3> QED
      BY <1>0, <3>3 DEF FreeBy
  <2>5. w[1] <= h[1]
    BY <1>1, <2>1, <2>4
  <2> QED
    BY <2>1, <2>3, <2>5
<1> QED
  BY <1>3, <1>4

----------------------------------------------------------------------------
\* The circular buffer, read from ptr on.
Ring(r, p) == [i \in Slots |-> r[MOD_PLUS(p, i - 1, WindowSize)]]

LEMMA ModFact ==
    ASSUME NEW m \in Nat, m >= 1, NEW a \in Nat, a < m + m
    PROVE  /\ a < m => a % m = a
           /\ a >= m => a % m = a - m
<1>1. CASE a < m
  <2>1. a \in 0..(m - 1)
    BY <1>1
  <2> QED
    BY <1>1, <2>1
<1>2. CASE a >= m
  <2>1. a \in m..(2 * m - 1)
    BY <1>2
  <2> QED
    BY <1>2, <2>1
<1> QED
  BY <1>1, <1>2

LEMMA ModPlusFact ==
    ASSUME NEW n \in Nat, NEW q \in 0..(n - 1), NEW k \in 0..(n - 1)
    PROVE  /\ q + k < n => MOD_PLUS(q, k, n) = q + k
           /\ q + k >= n => MOD_PLUS(q, k, n) = q + k - n
           /\ MOD_PLUS(q, k, n) \in 0..(n - 1)
<1> DEFINE a == q + k
<1>1. a \in Nat /\ a < n + n /\ n >= 1 /\ a = q + k
  OBVIOUS
<1> HIDE DEF a
<1>2. /\ a < n => a % n = a
      /\ a >= n => a % n = a - n
  BY <1>1, ModFact
<1> QED
  BY <1>1, <1>2 DEF MOD_PLUS

LEMMA ModMinusFact ==
    ASSUME NEW n \in Nat, n >= 1, NEW q \in 0..(n - 1)
    PROVE  /\ q = 0 => MOD_MINUS(q, 1, n) = n - 1
           /\ q > 0 => MOD_MINUS(q, 1, n) = q - 1
<1> DEFINE a == q - 1 + n
<1>1. a \in Nat /\ a < n + n /\ a = q - 1 + n
  OBVIOUS
<1> HIDE DEF a
<1>2. /\ a < n => a % n = a
      /\ a >= n => a % n = a - n
  BY <1>1, ModFact
<1> QED
  BY <1>1, <1>2 DEF MOD_MINUS

(***************************************************************************)
(* The slot ptr points to has the oldest commit time; the new one takes    *)
(* its place and, when ptr has moved on, is the last.                      *)
(***************************************************************************)
RingCommit(r, p, ready) == MAX(ready, r[MOD_MINUS(p, 1, WindowSize)])
RingNext(p) == MOD_PLUS(p, 1, WindowSize)
RingAfter(r, p, ready) == [r EXCEPT ![p] = RingCommit(r, p, ready)]

LEMMA RingInsert ==
    ASSUME NEW r \in [0..(WindowSize - 1) -> Nat], NEW p \in 0..(WindowSize - 1),
           IsWindow(Ring(r, p)), NEW ready \in Nat
    PROVE  /\ RingAfter(r, p, ready) \in [0..(WindowSize - 1) -> Nat]
           /\ RingNext(p) \in 0..(WindowSize - 1)
           /\ r[MOD_MINUS(p, 1, WindowSize)] = WindowTail(Ring(r, p))
           /\ Ring(RingAfter(r, p, ready), RingNext(p)) = WindowInsert("rob", Ring(r, p), ready)
           /\ RingAfter(r, p, ready)[RingNext(p)]
                = WindowHead(Ring(RingAfter(r, p, ready), RingNext(p)))
           /\ RingCommit(r, p, ready)
                = WindowTail(Ring(RingAfter(r, p, ready), RingNext(p)))
<1> DEFINE n == WindowSize
           commit == RingCommit(r, p, ready)
           next == RingNext(p)
           w == Ring(r, p)
           r2 == [r EXCEPT ![p] = commit]
           w2 == Ring(r2, next)
<1>0. /\ commit = MAX(ready, r[MOD_MINUS(p, 1, n)])
      /\ next = MOD_PLUS(p, 1, n)
      /\ RingAfter(r, p, ready) = r2
  BY DEF RingCommit, RingNext, RingAfter
<1> HIDE DEF commit, next
<1>1. n \in Nat /\ n >= 1 /\ Slots = 1..n /\ 1 \in Slots /\ n \in Slots
  BY WindowSizeAssumption DEF Slots
<1>2. /\ p + 1 < n => next = p + 1
      /\ p + 1 >= n => next = 0
  <2>1. CASE n = 1
    <3>1. p = 0 /\ (p + 1) % 1 = 0
      BY <1>1, <2>1
    <3> QED
      BY <1>0, <2>1, <3>1 DEF MOD_PLUS
  <2>2. CASE n > 1
    <3> DEFINE k == 1
    <3>1. k \in 0..(n - 1) /\ k = 1
      BY <1>1, <2>2
    <3> HIDE DEF k
    <3>2. /\ p + k < n => MOD_PLUS(p, k, n) = p + k
          /\ p + k >= n => MOD_PLUS(p, k, n) = p + k - n
      BY <1>1, <3>1, ModPlusFact
    <3> QED
      BY <1>0, <1>1, <3>1, <3>2
  <2> QED
    BY <1>1, <2>1, <2>2
<1>3. next \in 0..(n - 1)
  BY <1>1, <1>2
<1>4. \A q, k \in 0..(n - 1) : /\ q + k < n => MOD_PLUS(q, k, n) = q + k
                               /\ q + k >= n => MOD_PLUS(q, k, n) = q + k - n
                               /\ MOD_PLUS(q, k, n) \in 0..(n - 1)
  BY <1>1, ModPlusFact
<1>5. \A i \in Slots : i - 1 \in 0..(n - 1)
  BY <1>1
<1>6. \A i \in Slots : w[i] = r[MOD_PLUS(p, i - 1, n)] /\ w2[i] = r2[MOD_PLUS(next, i - 1, n)]
  BY DEF Ring
<1>7. r[MOD_MINUS(p, 1, n)] = w[n]
  <2>1. MOD_PLUS(p, n - 1, n) = MOD_MINUS(p, 1, n)
    <3>1. n - 1 \in 0..(n - 1)
      BY <1>1
    <3>2. CASE p = 0
      BY <1>1, <1>4, <3>1, <3>2, ModMinusFact
    <3>3. CASE p > 0
      BY <1>1, <1>4, <3>1, <3>3, ModMinusFact
    <3> QED
      BY <3>2, <3>3
  <2> QED
    BY <1>1, <1>6, <2>1
<1>8. w \in [Slots -> Nat] /\ \A i \in Slots : w[i] <= w[n]
  BY <1>1 DEF IsWindow
<1>9. commit \in Nat /\ commit >= w[n] /\ commit = Leaves("rob", w, ready)
  <2>1. w[n] \in Nat
    BY <1>1, <1>8
  <2> QED
    BY <1>0, <1>7, <2>1, MaxFact DEF Leaves, WindowTail
<1>10. ASSUME NEW i \in Slots
       PROVE  w2[i] = IF i < n THEN w[i + 1] ELSE commit
  <2>1. w2[i] = r2[MOD_PLUS(next, i - 1, n)]
    BY <1>6
  <2>2. CASE i < n
    <3> DEFINE k == i - 1
    <3>1. i \in 0..(n - 1) /\ k \in 0..(n - 1) /\ i + 1 \in Slots /\ (i + 1) - 1 = i
          /\ k + 1 = i
      BY <1>1, <2>2
    <3> HIDE DEF k
    <3>2. MOD_PLUS(next, k, n) = MOD_PLUS(p, i, n)
      <4>1. /\ next + k < n => MOD_PLUS(next, k, n) = next + k
            /\ next + k >= n => MOD_PLUS(next, k, n) = next + k - n
        BY <1>3, <1>4, <3>1
      <4>2. /\ p + i < n => MOD_PLUS(p, i, n) = p + i
            /\ p + i >= n => MOD_PLUS(p, i, n) = p + i - n
        BY <1>4, <3>1
      <4>3. CASE p + 1 < n
        <5>1. next = p + 1 /\ next \in Nat /\ p \in Nat /\ i \in Nat /\ k \in Nat
          BY <1>1, <1>2, <3>1, <4>3
        <5>2. next + k = p + i /\ p + i \in Nat
          BY <3>1, <5>1
        <5>3. CASE p + i < n
          BY <4>1, <4>2, <5>2, <5>3
        <5>4. CASE p + i >= n
          <6>1. MOD_PLUS(p, i, n) = p + i - n
            BY <4>2, <5>4
          <6>2. MOD_PLUS(next, k, n) = next + k - n
            BY <4>1, <5>2, <5>4
          <6>3. p + i - n = next + k - n
            BY <1>1, <5>1, <5>2
          <6> QED
            BY <6>1, <6>2, <6>3
        <5> QED
          BY <1>1, <5>2, <5>3, <5>4
      <4>4. CASE p + 1 >= n
        <5>1. next + k < n /\ next + k = k /\ p + i - n = k /\ p + i >= n
          BY <1>1, <1>2, <3>1, <4>4
        <5> HIDE DEF n
        <5> QED
          BY <1>1, <4>1, <4>2, <5>1
      <4> QED
        BY <1>1, <4>3, <4>4
    <3>3. MOD_PLUS(p, i, n) # p /\ MOD_PLUS(p, i, n) \in 0..(n - 1)
      <4>1. /\ p + i < n => MOD_PLUS(p, i, n) = p + i
            /\ p + i >= n => MOD_PLUS(p, i, n) = p + i - n
            /\ MOD_PLUS(p, i, n) \in 0..(n - 1)
        BY <1>4, <3>1
      <4> QED
        BY <1>1, <2>2, <3>1, <4>1
    <3>4. r2[MOD_PLUS(p, i, n)] = r[MOD_PLUS(p, i, n)]
      BY <3>3
    <3>5. w[i + 1] = r[MOD_PLUS(p, i, n)]
      BY <1>6, <3>1
    <3> QED
      BY <2>1, <2>2, <3>2, <3>4, <3>5 DEF k
  <2>3. CASE i = n
    <3>1. i - 1 \in 0..(n - 1)
      BY <1>1, <2>3
    <3>2. MOD_PLUS(next, i - 1, n) = p
      <4>1. CASE p + 1 < n
        BY <1>1, <1>2, <1>3, <1>4, <2>3, <3>1, <4>1
      <4>2. CASE p + 1 >= n
        BY <1>1, <1>2, <1>3, <1>4, <2>3, <3>1, <4>2
      <4> QED
        BY <1>1, <4>1, <4>2
    <3>3. r2[p] = commit
      OBVIOUS
    <3> QED
      BY <1>1, <2>1, <2>3, <3>2, <3>3
  <2> QED
    BY <1>1, <2>2, <2>3
<1>11. w2 = Slide(w, commit)
  <2>1. ASSUME NEW i \in Slots
        PROVE  w2[i] = IF i < n /\ w[i + 1] <= commit THEN w[i + 1]
                       ELSE IF i = 1 \/ w[i] <= commit THEN commit ELSE w[i]
    <3>1. CASE i < n
      <4>1. i + 1 \in Slots
        BY <1>1, <3>1
      <4>2. w[i + 1] \in Nat /\ w[n] \in Nat /\ w[i + 1] <= w[n]
        BY <1>1, <1>8, <4>1
      <4>3. w[i + 1] <= commit
        BY <1>9, <4>2
      <4> QED
        BY <1>10, <3>1, <4>3
    <3>2. CASE i = n
      <4>1. w[i] <= commit /\ ~ (i < n)
        BY <1>1, <1>8, <1>9, <3>2
      <4>2. w2[i] = commit
        BY <1>10, <4>1
      <4> QED
        BY <4>1, <4>2
    <3> QED
      BY <1>1, <3>1, <3>2
  <2>2. w2 = [i \in Slots |-> w2[i]]
    BY DEF Ring
  <2> HIDE DEF w, w2
  <2> QED
    BY <2>1, <2>2 DEF Slide
<1>12. r2[next] = w2[1]
  <2>1. 0 \in 0..(n - 1) /\ 1 - 1 = 0
    BY <1>1
  <2>2. MOD_PLUS(next, 0, n) = next
    BY <1>1, <1>3, <1>4, <2>1, SMTT(60)
  <2> QED
    <3>1. 1 \in Slots
      BY <1>1
    <3>2. w2[1] = r2[MOD_PLUS(next, 1 - 1, n)]
      BY <1>6, <3>1
    <3> QED
      BY <2>1, <2>2, <3>2
<1>13. commit = w2[n]
  <2>1. ~ (n < n) /\ n \in Slots
    BY <1>1
  <2> QED
    BY <1>10, <2>1
<1>14. r2 \in [0..(n - 1) -> Nat]
  BY <1>9
<1> HIDE DEF w, w2, r2
<1>15. /\ r2 \in [0..(n - 1) -> Nat] /\ next \in 0..(n - 1)
       /\ r[MOD_MINUS(p, 1, n)] = WindowTail(w)
       /\ w2 = WindowInsert("rob", w, ready)
       /\ r2[next] = WindowHead(w2)
       /\ commit = WindowTail(w2)
  BY <1>3, <1>7, <1>9, <1>11, <1>12, <1>13, <1>14 DEF WindowInsert, WindowHead, WindowTail
<1> QED
  BY <1>0, <1>15 DEF w, w2, commit, next

----------------------------------------------------------------------------
(***************************************************************************)
(* The inductive invariant: the slots in the order in which they become    *)
(* free are a window, whose ends the scheduler sees; and the heap, which   *)
(* is in order, has the times of that window.                              *)
(***************************************************************************)
Ends == head = WindowHead(InFlight) /\ tail = WindowTail(InFlight)

SameTimes(h) == h \in Heap(WindowSize) /\ \A t \in Nat : FreeBy(h, t) = FreeBy(InOrder(h), t)

WindowInv ==
    /\ TypeOK
    /\ IsWindow(InFlight)
    /\ Ends
    /\ type = "ooo" => SameTimes(heap)

\* The window as an operator of its structure.
LEMMA InFlightFact ==
    /\ type = "rob" => InFlight = Ring(rob, ptr)
    /\ type = "ooo" => InFlight = InOrder(heap)
BY DEF InFlight, Ring

\* The definitions of the abstract window are those of WindowOps.
LEMMA SameOperators ==
    /\ \A ty, w, ready : Window!WindowInsert(ty, w, ready) = WindowInsert(ty, w, ready)
    /\ \A w : Window!WindowHead(w) = WindowHead(w) /\ Window!WindowTail(w) = WindowTail(w)
    /\ Window!EmptyWindow = EmptyWindow /\ Window!WindowTypes = WindowTypes
BY DEF Window!WindowInsert, WindowInsert, Window!Slide, Slide, Window!Leaves, Leaves,
       Window!MAX, MAX, Window!WindowHead, WindowHead, Window!WindowTail, WindowTail,
       Window!EmptyWindow, EmptyWindow, Window!Slots, Slots, Window!WindowTypes, WindowTypes

LEMMA InitInv == Init => WindowInv /\ InFlight = EmptyWindow
<1> SUFFICES ASSUME Init PROVE WindowInv /\ InFlight = EmptyWindow
  OBVIOUS
<1> DEFINE n == WindowSize
<1>1. n \in Nat /\ n >= 1 /\ Slots = 1..n /\ 1 \in Slots /\ n \in Slots
  BY WindowSizeAssumption DEF Slots
<1>2. IsWindow(EmptyWindow) /\ EmptyWindow \in [Slots -> Nat]
  BY EmptyWindowIsWindow DEF EmptyWindow
<1>3. TypeOK
  BY <1>1 DEF Init, TypeOK
<1>4. CASE type = "rob"
  <2>1. rob = [i \in 0..(n - 1) |-> 0] /\ ptr = 0
    BY <1>4 DEF Init
  <2>2. ASSUME NEW i \in Slots PROVE rob[MOD_PLUS(ptr, i - 1, n)] = 0
    <3> DEFINE k == i - 1
    <3>1. k \in 0..(n - 1) /\ 0 \in 0..(n - 1)
      BY <1>1
    <3> HIDE DEF k
    <3>2. MOD_PLUS(0, k, n) \in 0..(n - 1)
      BY <1>1, <3>1, ModPlusFact
    <3>3. rob[MOD_PLUS(0, k, n)] = 0
      BY <2>1, <3>2
    <3> QED
      BY <2>1, <3>3 DEF k
  <2>3. InFlight = EmptyWindow
    BY <1>4, <2>2 DEF InFlight, EmptyWindow
  <2> QED
    BY <1>1, <1>2, <1>3, <1>4, <2>3 DEF WindowInv, Ends, WindowHead, WindowTail, EmptyWindow, Init
<1>5. CASE type = "ooo"
  <2>1. heap = EmptyWindow
    BY <1>5 DEF Init, EmptyWindow
  <2>2. InOrder(heap) = EmptyWindow
    BY <1>2, <2>1, InOrderFact
  <2>3. heap \in Heap(n)
    <3>1. \A i \in 2..n : i \div 2 \in 1..n
      BY <1>1, HalfFact
    <3>2. \A i \in 1..n : heap[i] = 0
      BY <1>1, <2>1 DEF EmptyWindow
    <3> QED
      BY <1>1, <1>2, <2>1, <3>1, <3>2 DEF Heap
  <2>4. InFlight = EmptyWindow
    BY <1>5, <2>2 DEF InFlight
  <2>5. SameTimes(heap)
    BY <2>1, <2>2, <2>3 DEF SameTimes
  <2> QED
    BY <1>1, <1>2, <1>3, <2>4, <2>5 DEF WindowInv, Ends, WindowHead, WindowTail, EmptyWindow, Init
<1> QED
  BY <1>4, <1>5 DEF Init, WindowTypes

(***************************************************************************)
(* An instruction enters the circular buffer.                              *)
(***************************************************************************)
LEMMA RobStep ==
    ASSUME WindowInv, NEW ready \in Nat, ready >= head, RobInsert(ready)
    PROVE  WindowInv' /\ InFlight' = WindowInsert("rob", InFlight, ready)
<1> DEFINE n == WindowSize
           commit == RingCommit(rob, ptr, ready)
           next == RingNext(ptr)
           r2 == RingAfter(rob, ptr, ready)
           w2 == Ring(r2, next)
<1>1. type = "rob" /\ type' = "rob" /\ rob' = r2 /\ ptr' = next
      /\ tail' = commit /\ head' = r2[next] /\ heap' = heap /\ HEAPSIZE' = HEAPSIZE
  BY DEF RobInsert, RingCommit, RingNext, RingAfter
<1>2. rob \in [0..(n - 1) -> Nat] /\ ptr \in 0..(n - 1)
  BY <1>1 DEF WindowInv, TypeOK
<1>3. InFlight = Ring(rob, ptr)
  BY <1>1, InFlightFact
<1>4. IsWindow(Ring(rob, ptr)) /\ Ends
  BY <1>3 DEF WindowInv
<1> HIDE DEF commit, next, r2
<1>5. /\ r2 \in [0..(n - 1) -> Nat] /\ next \in 0..(n - 1)
      /\ w2 = WindowInsert("rob", Ring(rob, ptr), ready)
      /\ r2[next] = WindowHead(w2)
      /\ commit = WindowTail(w2)
  BY <1>2, <1>4, RingInsert DEF commit, next, r2
<1>6. IsWindow(w2)
  <2>1. ready >= WindowHead(Ring(rob, ptr))
    BY <1>3, <1>4 DEF Ends
  <2> HIDE DEF w2
  <2> QED
    BY <1>4, <1>5, <2>1, WindowInsertFact
<1>7. InFlight' = w2
  BY <1>1 DEF InFlight, Ring
<1> HIDE DEF w2
<1>8. head' = WindowHead(w2) /\ tail' = WindowTail(w2)
  BY <1>1, <1>5
<1>9. TypeOK'
  <2>1. WindowHead(w2) \in Nat /\ WindowTail(w2) \in Nat
    BY <1>6, HeadTailFact
  <2> QED
    BY <1>1, <1>5, <1>8, <2>1 DEF TypeOK, WindowTypes
<1>10. Ends'
  BY <1>7, <1>8 DEF Ends, WindowHead, WindowTail
<1>11. IsWindow(InFlight)'
  BY <1>6, <1>7 DEF IsWindow
<1> QED
  BY <1>1, <1>3, <1>5, <1>7, <1>9, <1>10, <1>11 DEF WindowInv

(***************************************************************************)
(* The head leaves the heap and an instruction enters it: the times in     *)
(* their order slide.                                                      *)
(***************************************************************************)
LEMMA SlideSameTimes ==
    ASSUME NEW h, SameTimes(h), IsWindow(InOrder(h)), NEW ready \in Nat
    PROVE  /\ SameTimes(HeapInsert(HeapNext(h), ready))
           /\ InOrder(HeapInsert(HeapNext(h), ready)) = Slide(InOrder(h), ready)
           /\ HeapInsert(HeapNext(h), ready)[1] = WindowHead(Slide(InOrder(h), ready))
<1> DEFINE w == InOrder(h)
           g == HeapInsert(HeapNext(h), ready)
           s == Slide(w, ready)
<1>1. WindowSize \in Nat /\ WindowSize >= 1 /\ Slots = 1..WindowSize
  BY WindowSizeAssumption DEF Slots
<1>2. /\ g \in Heap(WindowSize)
      /\ \A t \in Nat : FreeBy(g, t) = Swapped(FreeBy(h, t), h[1], ready, t)
  BY <1>1, HeapSwap DEF SameTimes
<1>3. \A t \in Nat : FreeBy(s, t) = Swapped(FreeBy(w, t), w[1], ready, t)
  BY SlideSwap
<1>4. h \in [Slots -> Nat] /\ g \in [Slots -> Nat]
  BY <1>1, <1>2 DEF SameTimes, Heap
<1>5. h[1] = w[1] /\ \A t \in Nat : FreeBy(h, t) = FreeBy(w, t)
  BY <1>4, InOrderFact DEF SameTimes
<1>6. IsWindow(s)
  BY SlideIsWindow
<1> HIDE DEF w, g, s
<1>7. \A t \in Nat : FreeBy(g, t) = FreeBy(s, t)
  BY <1>2, <1>3, <1>5
<1>8. InOrder(g) = s /\ g[1] = s[1]
  BY <1>2, <1>4, <1>6, <1>7, InOrderFact
<1>9. SameTimes(g) /\ InOrder(g) = s /\ g[1] = WindowHead(s)
  BY <1>2, <1>7, <1>8 DEF SameTimes, WindowHead
<1> QED
  BY <1>9 DEF g, s, w

LEMMA OooStep ==
    ASSUME WindowInv, NEW ready \in Nat, ready >= head, OooInsert(ready)
    PROVE  WindowInv' /\ InFlight' = WindowInsert("ooo", InFlight, ready)
<1> DEFINE g == HeapInsert(HeapNext(heap), ready)
           s == Slide(InOrder(heap), ready)
<1>1. /\ type = "ooo" /\ type' = "ooo" /\ heap' = g
      /\ HEAPSIZE' = IF Len(g) > HEAPSIZE THEN 2 * HEAPSIZE ELSE HEAPSIZE
      /\ head' = g[1] /\ tail' = IF ready > tail THEN ready ELSE tail
      /\ rob' = rob /\ ptr' = ptr
  BY DEF OooInsert, HeapPeek
<1>2. InFlight = InOrder(heap)
  BY <1>1, InFlightFact
<1>3. SameTimes(heap) /\ IsWindow(InOrder(heap)) /\ Ends /\ TypeOK
  BY <1>1, <1>2 DEF WindowInv
<1>4. SameTimes(g) /\ InOrder(g) = s /\ g[1] = WindowHead(s)
  BY <1>3, SlideSameTimes
<1>5. IsWindow(s)
  BY <1>3, SlideIsWindow
<1>6. tail' = WindowTail(s)
  <2>1. ready >= WindowHead(InOrder(heap)) /\ tail = WindowTail(InOrder(heap))
    BY <1>2, <1>3 DEF Ends
  <2>2. WindowTail(s) = MAX(ready, WindowTail(InOrder(heap)))
    BY <1>3, <2>1, SlideEnds
  <2> QED
    BY <1>1, <2>1, <2>2 DEF MAX
<1>7. s = WindowInsert("ooo", InOrder(heap), ready)
  BY DEF WindowInsert, Leaves
<1> HIDE DEF g, s
<1>8. g \in [1..WindowSize -> Nat] /\ Len(g) = WindowSize
  <2>1. g \in [1..WindowSize -> Nat]
    BY <1>4 DEF SameTimes, Heap
  <2> QED
    BY <2>1, WindowSizeAssumption
<1>9. InFlight' = s
  BY <1>1, <1>4 DEF InFlight
<1>10. TypeOK'
  <2>1. WindowHead(s) \in Nat /\ WindowTail(s) \in Nat
    BY <1>5, HeadTailFact
  <2>2. HEAPSIZE = WindowSize /\ WindowSize \in Nat
    BY <1>1, <1>3, WindowSizeAssumption DEF TypeOK
  <2>3. HEAPSIZE' = WindowSize
    BY <1>1, <1>8, <2>2
  <2> QED
    BY <1>1, <1>3, <1>4, <1>6, <1>8, <2>1, <2>3 DEF TypeOK, WindowTypes, Slots
<1>11. Ends'
  BY <1>1, <1>4, <1>6, <1>9 DEF Ends, WindowHead, WindowTail
<1>12. IsWindow(InFlight)'
  BY <1>5, <1>9 DEF IsWindow
<1>13. SameTimes(heap)'
  BY <1>1, <1>4
<1> QED
  BY <1>2, <1>7, <1>9, <1>10, <1>11, <1>12, <1>13 DEF WindowInv

(***************************************************************************)
(* Every step keeps the invariant, and is a step of the abstract window.   *)
(***************************************************************************)
LEMMA NextInv ==
    ASSUME WindowInv, [Next]_vars
    PROVE  WindowInv' /\ [Window!Next]_(Window!vars)
<1>1. CASE UNCHANGED vars
  <2>1. InFlight' = InFlight
    BY <1>1 DEF vars, InFlight, InOrder, FreeBy, Times
  <2>2. WindowInv'
    <3>1. TypeOK' /\ IsWindow(InFlight)' /\ Ends'
      BY <1>1, <2>1 DEF WindowInv, vars, TypeOK, IsWindow, Ends, WindowHead, WindowTail
    <3>2. type' = "ooo" => SameTimes(heap)'
      BY <1>1 DEF WindowInv, vars
    <3> QED
      BY <3>1, <3>2 DEF WindowInv
  <2> QED
    BY <1>1, <2>1, <2>2 DEF vars, Window!vars
<1>2. CASE Next
  <2>1. PICK ready \in 0..MaxTime : Insert(ready)
    BY <1>2 DEF Next
  <2>2. ready \in Nat /\ ready >= head
    BY <2>1 DEF Insert
  <2>3. /\ WindowInv' /\ InFlight' = WindowInsert(type, InFlight, ready)
        /\ type' = type
    <3>1. CASE RobInsert(ready)
      <4>1. type = "rob" /\ type' = type
        BY <3>1 DEF RobInsert
      <4> QED
        BY <2>2, <3>1, <4>1, RobStep
    <3>2. CASE OooInsert(ready)
      <4>1. type = "ooo" /\ type' = type
        BY <3>2 DEF OooInsert
      <4> QED
        BY <2>2, <3>2, <4>1, OooStep
    <3> QED
      BY <2>1, <3>1, <3>2 DEF Insert
  <2>4. head' = WindowHead(InFlight') /\ tail' = WindowTail(InFlight')
    BY <2>3 DEF WindowInv, Ends, WindowHead, WindowTail
  <2>5. Window!Insert(ready)
    BY <2>2, <2>3, <2>4, SameOperators DEF Window!Insert
  <2> QED
    BY <2>1, <2>3, <2>5 DEF Window!Next
<1> QED
  BY <1>1, <1>2

(***************************************************************************)
(* The invariant, for windows of every size and ready times of any bound.  *)
(***************************************************************************)
THEOREM WindowInvariant == Spec => []WindowInv
<1>1. Init => WindowInv
  BY InitInv
<1>2. WindowInv /\ [Next]_vars => WindowInv'
  BY NextInv
<1> QED
  BY <1>1, <1>2, PTL DEF Spec

\* The fields of a window hold values of their types: the heap never outgrows its array.
THEOREM WindowTypeCorrect == Spec => []TypeOK
<1>1. WindowInv => TypeOK
  BY DEF WindowInv
<1> QED
  BY <1>1, WindowInvariant, PTL

\* The circular buffer lists the commit times in program order.
THEOREM RobKeepsProgramOrder == Spec => []RobInProgramOrder
<1>1. ASSUME WindowInv PROVE RobInProgramOrder
  <2> SUFFICES ASSUME type = "rob" PROVE RobInProgramOrder
    BY DEF RobInProgramOrder
  <2> DEFINE n == WindowSize
             w == Ring(rob, ptr)
  <2>1. n \in Nat /\ n >= 1 /\ Slots = 1..n
    BY WindowSizeAssumption DEF Slots
  <2>2. InFlight = w /\ IsWindow(w) /\ head = WindowHead(w) /\ tail = WindowTail(w)
    BY <1>1, InFlightFact DEF WindowInv, Ends
  <2>3. rob \in [0..(n - 1) -> Nat] /\ ptr \in 0..(n - 1)
    BY <1>1 DEF WindowInv, TypeOK
  <2>4. \A i \in Slots : w[i] = rob[MOD_PLUS(ptr, i - 1, n)]
    BY DEF Ring
  <2>5. ASSUME NEW i \in 0..(n - 1), NEW j \in 0..(n - 1), i <= j
        PROVE  rob[MOD_PLUS(ptr, i, n)] <= rob[MOD_PLUS(ptr, j, n)]
    <3>1. i + 1 \in Slots /\ j + 1 \in Slots /\ i + 1 <= j + 1
          /\ (i + 1) - 1 = i /\ (j + 1) - 1 = j
      BY <2>1, <2>5
    <3>2. w[i + 1] <= w[j + 1]
      BY <2>2, <3>1 DEF IsWindow
    <3>3. w[i + 1] = rob[MOD_PLUS(ptr, i, n)] /\ w[j + 1] = rob[MOD_PLUS(ptr, j, n)]
      BY <2>4, <3>1
    <3> QED
      BY <3>2, <3>3
  <2>6. head = rob[ptr]
    <3>1. 1 \in Slots /\ 1 - 1 = 0 /\ 0 \in 0..(n - 1) /\ ptr + 0 = ptr
      BY <2>1, <2>3
    <3>2. MOD_PLUS(ptr, 0, n) = ptr
      BY <2>1, <2>3, <3>1, ModPlusFact
    <3>3. w[1] = rob[ptr]
      BY <2>4, <3>1, <3>2
    <3> QED
      BY <2>2, <3>3 DEF WindowHead
  <2>7. tail = rob[MOD_MINUS(ptr, 1, n)]
    BY <2>2, <2>3, RingInsert, 0 \in Nat
  <2> QED
    BY <2>5, <2>6, <2>7 DEF RobInProgramOrder
<1> QED
  BY <1>1, WindowInvariant, PTL

\* No time in the heap is less than that of its parent.
THEOREM HeapStaysInOrder == Spec => []HeapCheck
<1>1. ASSUME WindowInv PROVE HeapCheck
  <2>1. WindowSize \in Nat
    BY WindowSizeAssumption
  <2>2. ASSUME type = "ooo" PROVE heap \in Heap(WindowSize)
    BY <1>1, <2>2 DEF WindowInv, SameTimes
  <2>3. ASSUME type = "ooo" PROVE heap \in [1..WindowSize -> Nat]
    BY <2>2, <2>3 DEF Heap
  <2> QED
    BY <2>1, <2>2, <2>3, HeapOrder DEF HeapCheck
<1> QED
  BY <1>1, WindowInvariant, PTL

(***************************************************************************)
(* Both structures implement the abstract window: the head they report is  *)
(* the time the next slot frees, the tail the time the last one does.      *)
(***************************************************************************)
THEOREM WindowIsImplemented == Spec => ImplementsIssueWindow
<1>1. Init => Window!Init
  <2> SUFFICES ASSUME Init PROVE Window!Init
    OBVIOUS
  <2>1. InFlight = EmptyWindow
    BY InitInv
  <2> QED
    BY <2>1, SameOperators DEF Init, Window!Init
<1>2. WindowInv /\ [Next]_vars => [Window!Next]_(Window!vars)
  BY NextInv
<1> QED
  BY <1>1, <1>2, WindowInvariant, PTL DEF Spec, ImplementsIssueWindow, Window!Spec
==============================================================================
