--------------------------- MODULE WindowOps_proofs ---------------------------
(***************************************************************************)
(* What WindowInsert does to a window, for every size and every time.      *)
(***************************************************************************)
EXTENDS WindowOps, FiniteSetTheorems, TLAPS

\* MAX is an upper bound and one of its arguments.
LEMMA MaxFact ==
    ASSUME NEW a \in Nat, NEW b \in Nat
    PROVE  /\ MAX(a, b) \in Nat
           /\ MAX(a, b) >= a /\ MAX(a, b) >= b
           /\ MAX(a, b) = a \/ MAX(a, b) = b
BY DEF MAX

(***************************************************************************)
(* A finite set of times that is not empty has a greatest element.  The    *)
(* strict-subset order on its subsets is well-founded, and a minimal       *)
(* subset without a greatest element cannot exist: taking one element out  *)
(* leaves a set that has one.                                              *)
(***************************************************************************)
LEMMA MaxOfFact ==
    ASSUME NEW S, S \subseteq Nat, IsFiniteSet(S), S # {}
    PROVE  MaxOf(S) \in S /\ \A y \in S : y <= MaxOf(S)
<1> DEFINE HasMax(U) == \E x \in U : \A y \in U : y <= x
           Bad == {U \in SUBSET S : U # {} /\ ~HasMax(U)}
<1>1. IsWellFoundedOn(StrictSubsetOrdering(S), FiniteSubsetsOf(S))
  BY FS_StrictSubsetOrderingWellFounded
<1>2. FiniteSubsetsOf(S) = SUBSET S
  BY FS_Subset DEF FiniteSubsetsOf
<1>3. Bad = {}
  <2> SUFFICES ASSUME Bad # {} PROVE FALSE
    OBVIOUS
  <2>0. Bad \subseteq FiniteSubsetsOf(S)
    BY <1>2
  <2>1. PICK U \in Bad : \A V \in Bad : ~ (<<V, U>> \in StrictSubsetOrdering(S))
    <3> HIDE DEF Bad
    <3> QED
      BY <1>1, <2>0, WFMin
  <2>2. PICK x \in U : TRUE
    OBVIOUS
  <2> DEFINE V == U \ {x}
  <2>3. V \notin Bad
    BY <2>1, <2>2 DEF StrictSubsetOrdering
  <2>4. CASE V = {}
    BY <2>2, <2>4
  <2>5. CASE V # {}
    <3>1. PICK m \in V : \A y \in V : y <= m
      BY <2>3, <2>5
    <3>2. x \in Nat /\ m \in Nat
      BY <2>2, <3>1
    <3>3. CASE x <= m
      BY <3>1, <3>3
    <3>4. CASE m <= x
      <4>1. \A y \in U : y <= x
        BY <3>1, <3>2, <3>4
      <4> QED
        BY <2>2, <4>1
    <3> QED
      BY <3>2, <3>3, <3>4
  <2> QED
    BY <2>4, <2>5
<1>4. HasMax(S)
  BY <1>3
<1> QED
  BY <1>4 DEF MaxOf

(***************************************************************************)
(* A set of times that is not empty has a least element: the greatest of   *)
(* its lower bounds.                                                       *)
(***************************************************************************)
LEMMA MinFact ==
    ASSUME NEW S, S \subseteq Nat, S # {}
    PROVE  \E m \in S : \A x \in S : m <= x
<1>1. PICK n \in S : n \in Nat
  OBVIOUS
<1> DEFINE Lower == {k \in 0..n : \A x \in S : k <= x}
<1>2. IsFiniteSet(Lower)
  BY <1>1, FS_Interval, FS_Subset, 0 \in Int, n \in Int
<1>3. 0 \in Lower /\ Lower \subseteq Nat
  BY <1>1
<1>4. PICK k \in Lower : \A l \in Lower : l <= k
  <2> HIDE DEF Lower
  <2> QED
    BY <1>2, <1>3, MaxOfFact
<1>5. CASE k \in S
  BY <1>5
<1>6. CASE k \notin S
  <2>1. \A x \in S : k + 1 <= x
    BY <1>1, <1>6
  <2>2. k + 1 \in Lower
    BY <1>1, <2>1
  <2> QED
    BY <1>1, <1>4, <2>2
<1> QED
  BY <1>5, <1>6

\* Induction over an interval: a set that takes in whatever follows what is in it.
LEMMA IntervalInduction ==
    ASSUME NEW a \in Nat, NEW n \in Nat, NEW G,
           \A m \in a..n : a..(m - 1) \subseteq G => m \in G
    PROVE  a..n \subseteq G
<1> DEFINE Bad == (a..n) \ G
<1> SUFFICES ASSUME Bad # {} PROVE FALSE
  OBVIOUS
<1>1. Bad \subseteq Nat
  OBVIOUS
<1>2. PICK m \in Bad : \A k \in Bad : m <= k
  <2> HIDE DEF Bad
  <2> QED
    BY <1>1, MinFact
<1>3. a..(m - 1) \subseteq G
  BY <1>2
<1> QED
  BY <1>3

\* What a function makes of a finite domain is finite.
LEMMA ImageFact ==
    ASSUME NEW S, IsFiniteSet(S), NEW f, DOMAIN f = S, f = [x \in S |-> f[x]]
    PROVE  IsFiniteSet({f[x] : x \in S})
<1> DEFINE T == {f[x] : x \in S}
<1>1. f \in [S -> T]
  OBVIOUS
<1>2. f \in Surjection(S, T)
  BY <1>1 DEF Surjection
<1> QED
  BY <1>2, FS_Surjection

\* A new window is ordered.
LEMMA EmptyWindowIsWindow == IsWindow(EmptyWindow)
BY WindowSizeAssumption DEF IsWindow, EmptyWindow, Slots

\* The head of a window is its least time, the tail its greatest.
LEMMA HeadTailFact ==
    ASSUME NEW w, IsWindow(w)
    PROVE  /\ WindowHead(w) \in Nat /\ WindowTail(w) \in Nat
           /\ \A i \in Slots : WindowHead(w) <= w[i] /\ w[i] <= WindowTail(w)
BY WindowSizeAssumption DEF IsWindow, WindowHead, WindowTail, Slots

(***************************************************************************)
(* Slide keeps a window ordered: dropping the first time and putting any   *)
(* time in its place in the order gives a window again.                    *)
(***************************************************************************)
LEMMA SlideIsWindow ==
    ASSUME NEW w, IsWindow(w), NEW v \in Nat
    PROVE  IsWindow(Slide(w, v))
<1> DEFINE s == Slide(w, v)
<1>1. s \in [Slots -> Nat]
  BY WindowSizeAssumption DEF Slide, Slots, IsWindow
<1>2. \A i, j \in Slots : i <= j => s[i] <= s[j]
  <2> SUFFICES ASSUME NEW i \in Slots, NEW j \in Slots, i < j
               PROVE  s[i] <= s[j]
    BY <1>1 DEF Slots
  <2>1. i \in Nat /\ j \in Nat /\ WindowSize \in Nat /\ 1 <= i /\ j <= WindowSize
    BY WindowSizeAssumption DEF Slots
  <2>2. w[i] \in Nat /\ w[j] \in Nat /\ w[i] <= w[j]
    BY <2>1 DEF IsWindow
  <2>3. i + 1 \in Slots /\ w[i + 1] \in Nat /\ w[i] <= w[i + 1] /\ w[i + 1] <= w[j]
    BY <2>1 DEF IsWindow, Slots
  <2>4. CASE j < WindowSize
    <3>1. w[j + 1] \in Nat /\ w[i + 1] <= w[j + 1] /\ w[j] <= w[j + 1]
      BY <2>1, <2>3, <2>4 DEF IsWindow, Slots
    <3> QED
      BY <2>1, <2>2, <2>3, <2>4, <3>1 DEF Slide
  <2>5. CASE j = WindowSize
    BY <2>1, <2>2, <2>3, <2>5 DEF Slide
  <2> QED
    BY <2>1, <2>4, <2>5
<1> QED
  BY <1>1, <1>2 DEF IsWindow

(***************************************************************************)
(* A time no earlier than the head never moves the head back, and the tail *)
(* becomes the later of the time and the old tail.                         *)
(***************************************************************************)
LEMMA SlideEnds ==
    ASSUME NEW w, IsWindow(w), NEW v \in Nat, v >= WindowHead(w)
    PROVE  /\ WindowHead(Slide(w, v)) >= WindowHead(w)
           /\ WindowTail(Slide(w, v)) = MAX(v, WindowTail(w))
<1>1. 1 \in Slots /\ WindowSize \in Slots /\ WindowSize \in Nat
  BY WindowSizeAssumption DEF Slots
<1>2. w[1] \in Nat /\ w[WindowSize] \in Nat /\ w[1] <= w[WindowSize]
  BY <1>1 DEF IsWindow, Slots
<1>3. WindowSize > 1 => w[2] \in Nat /\ w[1] <= w[2]
  BY <1>1 DEF IsWindow, Slots
<1>4. Slide(w, v)[1] = IF 1 < WindowSize /\ w[2] <= v THEN w[2] ELSE v
  BY <1>1 DEF Slide
<1>5. Slide(w, v)[WindowSize] =
        IF WindowSize = 1 \/ w[WindowSize] <= v THEN v ELSE w[WindowSize]
  BY <1>1 DEF Slide
<1> QED
  BY <1>1, <1>2, <1>3, <1>4, <1>5 DEF WindowHead, WindowTail, MAX

(***************************************************************************)
(* adamant_window_insert, for either type of window: the window stays      *)
(* ordered, its head does not move back, and its tail does not pass the    *)
(* later of the old tail and the new ready time.                           *)
(***************************************************************************)
THEOREM WindowInsertFact ==
    ASSUME NEW type, NEW w, IsWindow(w), NEW ready \in Nat, ready >= WindowHead(w)
    PROVE  /\ IsWindow(WindowInsert(type, w, ready))
           /\ WindowHead(WindowInsert(type, w, ready)) >= WindowHead(w)
           /\ WindowTail(WindowInsert(type, w, ready)) = MAX(ready, WindowTail(w))
<1> DEFINE v == Leaves(type, w, ready)
<1>1. WindowHead(w) \in Nat /\ WindowTail(w) \in Nat
  BY HeadTailFact
<1>2. /\ v \in Nat /\ v >= WindowHead(w)
      /\ MAX(v, WindowTail(w)) = MAX(ready, WindowTail(w))
  BY <1>1 DEF Leaves, MAX
<1> QED
  BY <1>2, SlideIsWindow, SlideEnds DEF WindowInsert
=============================================================================
