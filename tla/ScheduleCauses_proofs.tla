----------------------- MODULE ScheduleCauses_proofs -----------------------
(***************************************************************************)
(* Nothing holds up an instruction but what should: every time the tables  *)
(* and windows keep is that of an earlier instruction, of one the new      *)
(* instruction depends on where it is looked up.                           *)
(***************************************************************************)
EXTENDS AdamantSchedule_proofs

----------------------------------------------------------------------------
(***************************************************************************)
(* The times a branch releases are defined by recursion over the schedule; *)
(* they exist because every step of the schedule adds one instruction to   *)
(* those that have them.  gov are the governors of each instruction.       *)
(***************************************************************************)
PassedOn(gov, lg, f, m) ==
    IF lg[m].predicted THEN {0} \cup UNION {f[i] : i \in gov[m]} ELSE {lg[m].ready}

Passes(n, gov, lg, f) == f = [m \in 1..n |-> PassedOn(gov, lg, f, m)]

\* The schedule lg2 is lg, n instructions long, with one more; nobody governs the past.
Lengthened(n, gov, lg, gov2, lg2) ==
    \A m \in 1..n : gov2[m] = gov[m] /\ lg2[m] = lg[m] /\ gov[m] \subseteq 1..(m - 1)

\* What an instruction passes on depends on its governors only.
LEMMA PassedOnSame ==
    ASSUME NEW n, NEW gov, NEW lg, NEW gov2, NEW lg2, NEW f, NEW g, NEW m \in 1..n,
           Lengthened(n, gov, lg, gov2, lg2), \A i \in gov[m] : g[i] = f[i]
    PROVE  PassedOn(gov2, lg2, g, m) = PassedOn(gov, lg, f, m)
<1>1. gov2[m] = gov[m] /\ lg2[m] = lg[m]
  BY DEF Lengthened
<1>2. {g[i] : i \in gov[m]} = {f[i] : i \in gov[m]}
  OBVIOUS
<1> QED
  BY <1>1, <1>2, Zenon DEF PassedOn

\* The one more has its times, too.
LEMMA PassesExtended ==
    ASSUME NEW n \in Nat, NEW gov, NEW lg, NEW gov2, NEW lg2, NEW f,
           Lengthened(n, gov, lg, gov2, lg2), gov2[n + 1] \subseteq 1..n,
           Passes(n, gov, lg, f)
    PROVE  \E g : Passes(n + 1, gov2, lg2, g)
<1> DEFINE g == [m \in 1..(n + 1) |->
                   IF m = n + 1 THEN PassedOn(gov2, lg2, f, n + 1) ELSE f[m]]
<1>1. \A m \in 1..(n + 1) : m \in 1..n \/ m = n + 1
  OBVIOUS
<1>2. \A m \in 1..n : g[m] = f[m] /\ m # n + 1
  OBVIOUS
<1>3. g[n + 1] = PassedOn(gov2, lg2, f, n + 1)
  OBVIOUS
<1>4. DOMAIN g = 1..(n + 1) /\ g = [m \in 1..(n + 1) |-> g[m]]
  OBVIOUS
<1> HIDE DEF g
<1>5. ASSUME NEW m \in 1..n
      PROVE  g[m] = PassedOn(gov2, lg2, g, m)
  <2>1. \A i \in gov[m] : g[i] = f[i]
    BY <1>2 DEF Lengthened
  <2>2. f[m] = PassedOn(gov, lg, f, m)
    BY DEF Passes
  <2>3. PassedOn(gov2, lg2, g, m) = PassedOn(gov, lg, f, m)
    BY <2>1, PassedOnSame
  <2> QED
    BY <1>2, <2>2, <2>3
<1>6. g[n + 1] = PassedOn(gov2, lg2, g, n + 1)
  <2>1. {g[i] : i \in gov2[n + 1]} = {f[i] : i \in gov2[n + 1]}
    BY <1>2
  <2> QED
    BY <1>3, <2>1, Zenon DEF PassedOn
<1>7. \A m \in 1..(n + 1) : g[m] = PassedOn(gov2, lg2, g, m)
  BY <1>1, <1>5, <1>6
<1>8. Passes(n + 1, gov2, lg2, g)
  BY <1>4, <1>7, Zenon DEF Passes
<1> QED
  BY <1>8

\* And the others keep theirs.
LEMMA PassesKept ==
    ASSUME NEW n \in Nat, NEW gov, NEW lg, NEW gov2, NEW lg2, NEW f, NEW g,
           Lengthened(n, gov, lg, gov2, lg2),
           Passes(n, gov, lg, f), NEW n2 \in Nat, n <= n2, Passes(n2, gov2, lg2, g)
    PROVE  \A m \in 1..n : g[m] = f[m]
<1> DEFINE G == {m \in 1..n : g[m] = f[m]}
<1>1. ASSUME NEW m \in 1..n, 1..(m - 1) \subseteq G
      PROVE  m \in G
  <2>1. \A i \in gov[m] : g[i] = f[i]
    BY <1>1 DEF Lengthened
  <2>2. PassedOn(gov2, lg2, g, m) = PassedOn(gov, lg, f, m)
    BY <2>1, PassedOnSame
  <2>0. m \in 1..n2
    OBVIOUS
  <2>3. f[m] = PassedOn(gov, lg, f, m) /\ g[m] = PassedOn(gov2, lg2, g, m)
    BY <2>0 DEF Passes
  <2> QED
    BY <2>2, <2>3
<1>2. 1..n \subseteq G
  <2> HIDE DEF G
  <2> QED
    BY <1>1, IntervalInduction
<1> QED
  BY <1>2

\* The times of the branches scheduled so far are such a function as soon as there is one.
HasTimes(f) == Passes(Len(log), [m \in Scheduled |-> Governors(m)], log, f)

ReleasedInv == HasTimes(Released)

\* Released is one of them, if there is any.
LEMMA ReleasedExists == (\E f : HasTimes(f)) => ReleasedInv
<1> DEFINE gov == [m \in Scheduled |-> Governors(m)]
           R(g) == g = [m \in Scheduled |->
                          IF log[m].predicted
                          THEN {0} \cup UNION {g[i] : i \in Governors(m)}
                          ELSE {log[m].ready}]
<1> SUFFICES ASSUME NEW f, HasTimes(f) PROVE ReleasedInv
  OBVIOUS
<1>1. ASSUME NEW g
      PROVE  HasTimes(g) <=> R(g)
  <2>1. \A m \in Scheduled : gov[m] = Governors(m)
    OBVIOUS
  <2>2. HasTimes(g) <=> Passes(Len(log), gov, log, g)
    BY DEF HasTimes
  <2> HIDE DEF gov
  <2>3. \A m \in Scheduled : PassedOn(gov, log, g, m) =
                               IF log[m].predicted
                               THEN {0} \cup UNION {g[i] : i \in Governors(m)}
                               ELSE {log[m].ready}
    BY <2>1, Zenon DEF PassedOn
  <2> QED
    BY <2>2, <2>3 DEF Passes, Scheduled
<1>2. Released = CHOOSE g : R(g)
  BY DEF Released
<1>3. R(f)
  BY <1>1
<1> HIDE DEF R
<1>4. R(Released)
  BY <1>2, <1>3
<1> QED
  BY <1>1, <1>4 DEF ReleasedInv

----------------------------------------------------------------------------
(***************************************************************************)
(* Calls, returns and what governs an instruction, in any schedule lg: x   *)
(* is config->x86_translate, sj when setjmp was entered.                   *)
(***************************************************************************)
IsCall(o, x) == o.branch /\ o.call /\ (o.taken \/ x)
IsReturn(o, x) == o.branch /\ o.return /\ ~o.call /\ (o.taken \/ x)

CallsIn(lg, x, a, i, k) == {l \in i..k : IsCall(lg[l].oper, x) /\ lg[l].oper.next = a}
ReturnsIn(lg, x, a, i, k) == {l \in i..k : IsReturn(lg[l].oper, x) /\ lg[l].after = a}

SetjmpsIn(sj, a, i, k) == {l \in 1..Len(sj) : sj[l].ip = a /\ sj[l].at \in i..k}

\* From i to k fewer returns to a were made than calls and setjmps have announced.
More(lg, x, sj, a, i, k) ==
    Cardinality(ReturnsIn(lg, x, a, i, k))
        < Cardinality(CallsIn(lg, x, a, i, k)) + Cardinality(SetjmpsIn(sj, a, i, k))

InsideIn(lg, x, sj, i, j) ==
    /\ IsCall(lg[i].oper, x)
    /\ \A k \in (i + 1)..(j - 1) : More(lg, x, sj, lg[i].oper.next, i, k)

DependsIn(lg, j, i) ==
    lg[j].oper.ip \in DOMAIN ControlDeps /\ lg[i].oper.ip \in ControlDeps[lg[j].oper.ip]

GovernsIn(lg, x, sj, i, j) ==
    /\ lg[i].oper.branch
    /\ \/ /\ DependsIn(lg, j, i)
          /\ \A k \in (i + 1)..(j - 1) : ~(lg[k].oper.branch /\ DependsIn(lg, j, k))
       \/ InsideIn(lg, x, sj, i, j)

GovernorsIn(lg, x, sj, j) == {i \in 1..(j - 1) : GovernsIn(lg, x, sj, i, j)}

\* They are those of the schedule so far, before and after a step.
LEMMA GovernsIs ==
    ASSUME NEW i, NEW j
    PROVE  /\ Governs(i, j) <=> GovernsIn(log, config.x86_translate, setjmps, i, j)
           /\ Governs(i, j)' <=> GovernsIn(log', config'.x86_translate, setjmps', i, j)
BY Zenon DEF Governs, LastDependence, DependsOn, DependsIn, Inside, Calls, CallsFrom, Returns,
             ReturnsTo, SetjmpsFrom, Followed, GovernsIn, InsideIn, More, IsCall, CallsIn,
             IsReturn, ReturnsIn, SetjmpsIn

\* And so are all of those that govern an instruction.
LEMMA GovernorsIs ==
    ASSUME NEW j
    PROVE  /\ Governors(j) = GovernorsIn(log, config.x86_translate, setjmps, j)
           /\ Governors(j)' = GovernorsIn(log', config'.x86_translate, setjmps', j)
BY GovernsIs DEF Governors, GovernorsIn

\* setjmp is entered after n instructions, by a call that returns to a.
Entered(n, a, sj, sj2) ==
    /\ Len(sj) \in Nat /\ Len(sj2) = Len(sj) + 1
    /\ \A l \in 1..Len(sj) : sj2[l] = sj[l]
    /\ sj2[Len(sj) + 1] = [at |-> n, ip |-> a]

\* After a step the schedule begins as before, and setjmp may have been entered at its end.
SamePast(n, lg, lg2, sj, sj2) ==
    /\ \A k \in 1..n : lg2[k] = lg[k]
    /\ sj2 = sj \/ \E a : Entered(n, a, sj, sj2)

\* The setjmp entered last adds to those of its call, not to those before.
LEMMA SetjmpsEntered ==
    ASSUME NEW n \in Nat, NEW b, NEW sj, NEW sj2, Entered(n, b, sj, sj2),
           NEW a, NEW i \in 1..n, NEW k \in Nat
    PROVE  /\ SetjmpsIn(sj2, a, i, k) =
                SetjmpsIn(sj, a, i, k) \cup (IF a = b /\ n <= k THEN {Len(sj) + 1} ELSE {})
           /\ Len(sj) + 1 \notin SetjmpsIn(sj, a, i, k)
<1> DEFINE m == Len(sj) + 1
<1>1. 1..Len(sj2) = 1..Len(sj) \cup {m} /\ m \notin 1..Len(sj)
  BY DEF Entered
<1>2. /\ \A l \in 1..Len(sj) : sj2[l] = sj[l]
      /\ sj2[m].ip = b /\ sj2[m].at = n
  BY DEF Entered
<1>3. n \in i..k <=> n <= k
  OBVIOUS
<1> HIDE DEF m
<1>4. SetjmpsIn(sj2, a, i, k) = SetjmpsIn(sj, a, i, k) \cup (IF a = b /\ n <= k THEN {m} ELSE {})
  BY <1>1, <1>2, <1>3 DEF SetjmpsIn
<1> QED
  BY <1>1, <1>4 DEF SetjmpsIn, m

LEMMA SetjmpsBefore ==
    ASSUME NEW n \in Nat, NEW b, NEW sj, NEW sj2, Entered(n, b, sj, sj2),
           NEW a, NEW i \in 1..n, NEW k \in Nat, k < n
    PROVE  SetjmpsIn(sj2, a, i, k) = SetjmpsIn(sj, a, i, k)
<1>1. SetjmpsIn(sj2, a, i, k) =
        SetjmpsIn(sj, a, i, k) \cup (IF a = b /\ n <= k THEN {Len(sj) + 1} ELSE {})
  BY SetjmpsEntered
<1>2. ~(n <= k)
  OBVIOUS
<1> QED
  BY <1>1, <1>2

\* Setjmps can be counted.
LEMMA SetjmpsFact ==
    ASSUME NEW sj, Len(sj) \in Nat, NEW a, NEW i, NEW k
    PROVE  /\ IsFiniteSet(SetjmpsIn(sj, a, i, k))
           /\ Cardinality(SetjmpsIn(sj, a, i, k)) \in Nat
<1>1. IsFiniteSet(1..Len(sj))
  BY FS_Interval, 1 \in Int, Len(sj) \in Int
<1>2. SetjmpsIn(sj, a, i, k) \subseteq 1..Len(sj)
  BY DEF SetjmpsIn
<1> QED
  BY <1>1, <1>2, FS_Subset, FS_CardinalityType

\* What calls and returns there have been does not change.
LEMMA CountsSame ==
    ASSUME NEW n \in Nat, NEW lg, NEW lg2, NEW x, NEW sj, NEW a,
           \A k \in 1..n : lg2[k] = lg[k],
           NEW i \in 1..n, NEW k \in 1..n
    PROVE  /\ CallsIn(lg2, x, a, i, k) = CallsIn(lg, x, a, i, k)
           /\ ReturnsIn(lg2, x, a, i, k) = ReturnsIn(lg, x, a, i, k)
           /\ More(lg2, x, sj, a, i, k) <=> More(lg, x, sj, a, i, k)
<1>1. \A l \in i..k : lg2[l] = lg[l]
  OBVIOUS
<1>2. CallsIn(lg2, x, a, i, k) = CallsIn(lg, x, a, i, k)
  BY <1>1 DEF CallsIn
<1>3. ReturnsIn(lg2, x, a, i, k) = ReturnsIn(lg, x, a, i, k)
  BY <1>1 DEF ReturnsIn
<1> QED
  BY <1>2, <1>3 DEF More

\* So what governs an instruction of the past does not, either.
LEMMA GovernsSame ==
    ASSUME NEW n \in Nat, NEW lg, NEW lg2, NEW x, NEW sj, NEW sj2,
           SamePast(n, lg, lg2, sj, sj2),
           NEW j \in 1..n, NEW i \in 1..(j - 1)
    PROVE  GovernsIn(lg2, x, sj2, i, j) <=> GovernsIn(lg, x, sj, i, j)
<1> DEFINE a == lg[i].oper.next
<1>1. i \in 1..n /\ lg2[i] = lg[i] /\ lg2[j] = lg[j]
  BY DEF SamePast
<1>2. ASSUME NEW k \in (i + 1)..(j - 1)
      PROVE  More(lg2, x, sj2, a, i, k) <=> More(lg, x, sj, a, i, k)
  <2>1. k \in 1..n /\ k \in Nat /\ k < n
    OBVIOUS
  <2> HIDE DEF a
  <2>2. SetjmpsIn(sj2, a, i, k) = SetjmpsIn(sj, a, i, k)
    <3>1. ASSUME NEW b, Entered(n, b, sj, sj2)
          PROVE  SetjmpsIn(sj2, a, i, k) = SetjmpsIn(sj, a, i, k)
      BY <1>1, <2>1, <3>1, SetjmpsBefore
    <3> QED
      BY <3>1 DEF SamePast
  <2>3. More(lg2, x, sj, a, i, k) <=> More(lg, x, sj, a, i, k)
    BY <1>1, <2>1, CountsSame DEF SamePast
  <2> QED
    BY <2>2, <2>3 DEF More
<1>4. InsideIn(lg2, x, sj2, i, j) <=> InsideIn(lg, x, sj, i, j)
  BY <1>1, <1>2, Zenon DEF InsideIn
<1>5. /\ DependsIn(lg2, j, i) <=> DependsIn(lg, j, i)
      /\ \A k \in (i + 1)..(j - 1) :
            lg2[k] = lg[k] /\ (DependsIn(lg2, j, k) <=> DependsIn(lg, j, k))
  <2>1. \A k \in (i + 1)..(j - 1) : lg2[k] = lg[k]
    BY DEF SamePast
  <2> QED
    BY <1>1, <2>1 DEF DependsIn
<1> QED
  BY <1>1, <1>4, <1>5, Zenon DEF GovernsIn

----------------------------------------------------------------------------
(***************************************************************************)
(* A call is still open after n instructions: up to the last of them there *)
(* were more calls and setjmps than returns, at the last there are c more. *)
(***************************************************************************)
Counted(lg, x, sj, n, a, i, c) ==
    /\ \A k \in (i + 1)..(n - 1) : More(lg, x, sj, a, i, k)
    /\ Cardinality(ReturnsIn(lg, x, a, i, n)) + c
          <= Cardinality(CallsIn(lg, x, a, i, n)) + Cardinality(SetjmpsIn(sj, a, i, n))

\* Calls and returns can be counted.
LEMMA CountsFact ==
    ASSUME NEW lg, NEW x, NEW a, NEW i \in Nat, NEW k \in Nat
    PROVE  /\ IsFiniteSet(CallsIn(lg, x, a, i, k)) /\ IsFiniteSet(ReturnsIn(lg, x, a, i, k))
           /\ Cardinality(CallsIn(lg, x, a, i, k)) \in Nat
           /\ Cardinality(ReturnsIn(lg, x, a, i, k)) \in Nat
<1>1. IsFiniteSet(i..k)
  BY FS_Interval, i \in Int, k \in Int
<1>2. CallsIn(lg, x, a, i, k) \subseteq i..k /\ ReturnsIn(lg, x, a, i, k) \subseteq i..k
  BY DEF CallsIn, ReturnsIn
<1> QED
  BY <1>1, <1>2, FS_Subset, FS_CardinalityType

\* One more instruction counts as a call, as a return or not at all.
LEMMA CountedLonger ==
    ASSUME NEW n \in Nat, NEW lg, NEW lg2, NEW x, NEW sj, Len(sj) \in Nat,
           NEW a, NEW i \in 1..n, NEW c \in Int,
           \A k \in 1..n : lg2[k] = lg[k], c >= 1, Counted(lg, x, sj, n, a, i, c),
           NEW p, p = (IsCall(lg2[n + 1].oper, x) /\ lg2[n + 1].oper.next = a),
           NEW q, q = (IsReturn(lg2[n + 1].oper, x) /\ lg2[n + 1].after = a)
    PROVE  Counted(lg2, x, sj, n + 1, a, i,
                   c + (IF p THEN 1 ELSE 0) - (IF q THEN 1 ELSE 0))
<1> DEFINE C == CallsIn(lg, x, a, i, n)
           R == ReturnsIn(lg, x, a, i, n)
           C2 == CallsIn(lg2, x, a, i, n + 1)
           R2 == ReturnsIn(lg2, x, a, i, n + 1)
           S == SetjmpsIn(sj, a, i, n)
           S2 == SetjmpsIn(sj, a, i, n + 1)
<1>setjmps. Cardinality(S) \in Nat /\ Cardinality(S2) \in Nat /\ Cardinality(S) <= Cardinality(S2)
  <2>1. S \subseteq S2
    BY DEF SetjmpsIn
  <2> QED
    BY <2>1, SetjmpsFact, FS_Subset
<1>1. /\ IsFiniteSet(C) /\ IsFiniteSet(R)
      /\ Cardinality(C) \in Nat /\ Cardinality(R) \in Nat
  BY CountsFact
<1>2. Cardinality(R) + c <= Cardinality(C) + Cardinality(S)
  BY DEF Counted
<1>3. \A k \in i..n : lg2[k] = lg[k]
  OBVIOUS
<1>4. i..(n + 1) = i..n \cup {n + 1} /\ n + 1 \notin i..n
  OBVIOUS
<1>5. C2 = C \cup (IF p THEN {n + 1} ELSE {}) /\ n + 1 \notin C
  BY <1>3, <1>4 DEF CallsIn
<1>6. R2 = R \cup (IF q THEN {n + 1} ELSE {}) /\ n + 1 \notin R
  BY <1>3, <1>4 DEF ReturnsIn
<1>7. ASSUME NEW k \in (i + 1)..n
      PROVE  More(lg2, x, sj, a, i, k)
  <2>1. More(lg, x, sj, a, i, k)
    <3>1. CASE k \in (i + 1)..(n - 1)
      BY <3>1 DEF Counted
    <3>2. CASE k = n
      <4> HIDE DEF C, R, S
      <4>1. Cardinality(R) < Cardinality(C) + Cardinality(S)
        BY <1>setjmps, <1>1, <1>2
      <4> QED
        BY <3>2, <4>1 DEF More, C, R, S
    <3> QED
      BY <3>1, <3>2
  <2> QED
    BY <2>1, CountsSame
<1> HIDE DEF C, R, C2, R2, S, S2
<1>8. Cardinality(C2) = Cardinality(C) + (IF p THEN 1 ELSE 0)
  <2>1. CASE p
    BY <1>1, <1>5, <2>1, FS_AddElement
  <2>2. CASE ~p
    BY <1>1, <1>5, <2>2
  <2> QED
    BY <2>1, <2>2
<1>9. Cardinality(R2) = Cardinality(R) + (IF q THEN 1 ELSE 0)
  <2>1. CASE q
    BY <1>1, <1>6, <2>1, FS_AddElement
  <2>2. CASE ~q
    BY <1>1, <1>6, <2>2
  <2> QED
    BY <2>1, <2>2
<1>10. Cardinality(R2) + (c + (IF p THEN 1 ELSE 0) - (IF q THEN 1 ELSE 0))
         <= Cardinality(C2) + Cardinality(S2)
  <2> DEFINE called == IF p THEN 1 ELSE 0
             left == IF q THEN 1 ELSE 0
  <2>1. called \in Nat /\ left \in Nat
    OBVIOUS
  <2>2. Cardinality(C2) = Cardinality(C) + called /\ Cardinality(R2) = Cardinality(R) + left
    BY <1>8, <1>9
  <2> HIDE DEF called, left
  <2>3. PICK calls, returns, before, now :
          /\ calls = Cardinality(C) /\ returns = Cardinality(R)
          /\ before = Cardinality(S) /\ now = Cardinality(S2)
    OBVIOUS
  <2>4. /\ calls \in Nat /\ returns \in Nat /\ before \in Nat /\ now \in Nat
        /\ before <= now /\ returns + c <= calls + before
    BY <1>setjmps, <1>1, <1>2, <2>3
  <2>5. (returns + left) + (c + called - left) <= (calls + called) + now
    BY <2>1, <2>4
  <2> QED
    BY <2>2, <2>3, <2>5 DEF called, left
<1>11. (n + 1) - 1 = n
  OBVIOUS
<1> QED
  BY <1>7, <1>10, <1>11 DEF Counted, C2, R2, S2

\* A call that has just been scheduled is open.
LEMMA CountedNew ==
    ASSUME NEW n \in Nat, NEW lg, NEW x, NEW sj, Len(sj) \in Nat, NEW a,
           IsCall(lg[n + 1].oper, x), lg[n + 1].oper.next = a
    PROVE  Counted(lg, x, sj, n + 1, a, n + 1, 1)
<1>1. (n + 1)..(n + 1) = {n + 1}
  OBVIOUS
<1>2. CallsIn(lg, x, a, n + 1, n + 1) = {n + 1}
  BY <1>1 DEF CallsIn
<1>3. ReturnsIn(lg, x, a, n + 1, n + 1) = {}
  BY <1>1 DEF ReturnsIn, IsCall, IsReturn
<1>4. Cardinality({n + 1}) = 1 /\ Cardinality({}) = 0
  BY FS_Singleton, FS_EmptySet
<1> DEFINE S == Cardinality(SetjmpsIn(sj, a, n + 1, n + 1))
<1>5. S \in Nat
  BY SetjmpsFact
<1> HIDE DEF S
<1>6. 0 + 1 <= 1 + S /\ ((n + 1) + 1)..((n + 1) - 1) = {}
  BY <1>5
<1> QED
  BY <1>2, <1>3, <1>4, <1>6 DEF Counted, S

\* Once its call has entered setjmp, it is open for one return more.
LEMMA CountedSetjmp ==
    ASSUME NEW n \in Nat, NEW lg, NEW x, NEW sj, NEW sj2, NEW b, Entered(n, b, sj, sj2),
           NEW a, NEW i \in 1..n, NEW c \in Int, Counted(lg, x, sj, n, a, i, c)
    PROVE  Counted(lg, x, sj2, n, a, i, c + (IF a = b THEN 1 ELSE 0))
<1> DEFINE S == SetjmpsIn(sj, a, i, n)
           S2 == SetjmpsIn(sj2, a, i, n)
           R == Cardinality(ReturnsIn(lg, x, a, i, n))
           C == Cardinality(CallsIn(lg, x, a, i, n))
<1>1. IsFiniteSet(S) /\ Cardinality(S) \in Nat
  BY SetjmpsFact DEF Entered
<1>2. S2 = S \cup (IF a = b THEN {Len(sj) + 1} ELSE {}) /\ Len(sj) + 1 \notin S
  BY SetjmpsEntered, n <= n
<1>3. ASSUME NEW k \in (i + 1)..(n - 1)
      PROVE  More(lg, x, sj2, a, i, k)
  <2>1. k \in Nat /\ k < n
    OBVIOUS
  <2>2. SetjmpsIn(sj2, a, i, k) = SetjmpsIn(sj, a, i, k)
    BY <2>1, SetjmpsBefore
  <2> QED
    BY <2>2 DEF Counted, More
<1>4. R \in Nat /\ C \in Nat
  BY CountsFact
<1>5. R + c <= C + Cardinality(S)
  BY DEF Counted
<1> HIDE DEF S, S2, R, C
<1>6. Cardinality(S2) = Cardinality(S) + (IF a = b THEN 1 ELSE 0)
  <2>1. CASE a = b
    BY <1>1, <1>2, <2>1, FS_AddElement
  <2>2. CASE a # b
    BY <1>1, <1>2, <2>2
  <2> QED
    BY <2>1, <2>2
<1>7. R + (c + (IF a = b THEN 1 ELSE 0)) <= C + Cardinality(S2)
  BY <1>1, <1>4, <1>5, <1>6
<1> QED
  BY <1>3, <1>7 DEF Counted, S2, R, C

----------------------------------------------------------------------------
(***************************************************************************)
(* The frames of the call stack, counted from its bottom.                  *)
(***************************************************************************)
At(s, e) == s[Len(s) + 1 - e]

\* Those at depth e and above that are left by a return to address a.
Same(s, a, e) == {f \in e..Len(s) : At(s, f).ip = a}

Carries(lg, rel, info, i) == info.thread_id = lg[i].window /\ info.ready \in rel[i]

\* Frame p is that of call i, and there are c more calls and setjmps than returns.
FrameOf(lg, x, sj, n, rel, p, i, c) ==
    /\ i \in 1..n /\ IsCall(lg[i].oper, x) /\ lg[i].oper.next = p.ip
    /\ Carries(lg, rel, p.info, i)
    /\ Counted(lg, x, sj, n, p.ip, i, c)

\* The calls a frame must leave room for: those above it, but for one about to be left.
Room(s, e, pending, ip) ==
    Cardinality(Same(s, At(s, e).ip, e)) - (IF pending /\ ip = At(s, e).ip THEN 1 ELSE 0)

Owned(lg, x, sj, n, rel, s, pending, ip) ==
    \A e \in 1..Len(s) : \E i : FrameOf(lg, x, sj, n, rel, At(s, e), i, Room(s, e, pending, ip))

\* The frames above one are finitely many, and it is one of them.
LEMMA SameFact ==
    ASSUME NEW S, NEW s \in Seq(S), NEW e \in 1..Len(s)
    PROVE  /\ \A a : IsFiniteSet(Same(s, a, e)) /\ Cardinality(Same(s, a, e)) \in Nat
           /\ Cardinality(Same(s, At(s, e).ip, e)) >= 1
<1>1. Len(s) \in Nat
  BY LenProperties
<1>2. IsFiniteSet(e..Len(s))
  BY <1>1, FS_Interval, e \in Int, Len(s) \in Int
<1>3. \A a : IsFiniteSet(Same(s, a, e)) /\ Cardinality(Same(s, a, e)) \in Nat
  <2>1. \A a : Same(s, a, e) \subseteq e..Len(s)
    BY DEF Same
  <2> QED
    BY <1>2, <2>1, FS_Subset, FS_CardinalityType
<1>4. {e} \subseteq Same(s, At(s, e).ip, e)
  BY <1>1 DEF Same
<1>5. Cardinality({e}) = 1
  BY FS_Singleton
<1>6. Cardinality({e}) <= Cardinality(Same(s, At(s, e).ip, e))
  BY <1>3, <1>4, FS_Subset
<1> QED
  BY <1>3, <1>5, <1>6

\* Less room is always left.
LEMMA CountedLess ==
    ASSUME NEW lg, NEW x, NEW sj, Len(sj) \in Nat, NEW n \in Nat, NEW a, NEW i \in Nat,
           NEW c \in Int, NEW d \in Int, Counted(lg, x, sj, n, a, i, c), d <= c
    PROVE  Counted(lg, x, sj, n, a, i, d)
<1>1. /\ Cardinality(CallsIn(lg, x, a, i, n)) \in Nat
      /\ Cardinality(ReturnsIn(lg, x, a, i, n)) \in Nat
      /\ Cardinality(SetjmpsIn(sj, a, i, n)) \in Nat
  BY CountsFact, SetjmpsFact
<1> QED
  BY <1>1 DEF Counted

\* So a frame that leaves much room leaves less.
LEMMA FrameLess ==
    ASSUME NEW lg, NEW x, NEW sj, Len(sj) \in Nat, NEW n \in Nat, NEW rel, NEW p, NEW i,
           NEW c \in Int, NEW d \in Int, d <= c, FrameOf(lg, x, sj, n, rel, p, i, c)
    PROVE  FrameOf(lg, x, sj, n, rel, p, i, d)
<1>1. i \in Nat
  BY DEF FrameOf
<1>2. Counted(lg, x, sj, n, p.ip, i, c) => Counted(lg, x, sj, n, p.ip, i, d)
  BY <1>1, CountedLess
<1> QED
  BY <1>2 DEF FrameOf

\* Unwinding leaves the frames below the one that is left as they are.
LEMMA OwnedUnwound ==
    ASSUME NEW lg, NEW x, NEW sj, Len(sj) \in Nat, NEW n \in Nat, NEW rel, NEW ip,
           NEW S, NEW s \in Seq(S), Owned(lg, x, sj, n, rel, s, TRUE, ip),
           NEW k \in 1..Len(s), s[k].ip = ip,
           NEW t \in Seq(S), Len(t) = Len(s) - k,
           \A m \in 1..Len(t) : t[m] = s[k + m]
    PROVE  Owned(lg, x, sj, n, rel, t, FALSE, ip)
<1>1. Len(s) \in Nat /\ Len(t) \in Nat /\ k \in Nat
  BY LenProperties
<1>2. \A f \in 1..Len(t) : At(t, f) = At(s, f)
  <2> TAKE f \in 1..Len(t)
  <2>1. Len(t) + 1 - f \in 1..Len(t) /\ k + (Len(t) + 1 - f) = Len(s) + 1 - f
    BY <1>1
  <2> QED
    BY <2>1 DEF At
<1>3. ASSUME NEW e \in 1..Len(t)
      PROVE  \E i : FrameOf(lg, x, sj, n, rel, At(t, e), i, Room(t, e, FALSE, ip))
  <2> DEFINE a == At(t, e).ip
             T == Same(t, a, e)
             U == Same(s, a, e)
             top == Len(t) + 1
  <2>1. e \in 1..Len(s) /\ a = At(s, e).ip /\ At(t, e) = At(s, e)
    BY <1>1, <1>2
  <2>2. PICK i : FrameOf(lg, x, sj, n, rel, At(s, e), i, Room(s, e, TRUE, ip))
    BY <2>1 DEF Owned
  <2>3. T \subseteq U /\ top \notin T
    <3>1. \A f \in e..Len(t) : f \in e..Len(s) /\ At(t, f) = At(s, f)
      BY <1>1, <1>2
    <3>2. top \notin e..Len(t)
      BY <1>1
    <3> QED
      BY <3>1, <3>2 DEF Same
  <2>4. a = ip => top \in U
    <3>1. top \in e..Len(s) /\ Len(s) + 1 - top = k
      BY <1>1
    <3> QED
      BY <3>1 DEF Same, At
  <2>5. IsFiniteSet(U) /\ Cardinality(U) \in Nat /\ IsFiniteSet(T) /\ Cardinality(T) \in Nat
    BY <2>1, SameFact
  <2>6. Room(t, e, FALSE, ip) = Cardinality(T)
    BY <2>5 DEF Room
  <2>7. Room(s, e, TRUE, ip) = Cardinality(U) - (IF ip = a THEN 1 ELSE 0)
    BY <2>1 DEF Room
  <2> HIDE DEF T, U, a, top
  <2>8. Cardinality(T) <= Cardinality(U)
    BY <2>3, <2>5, FS_Subset
  <2>9. ip = a => Cardinality(T) + 1 <= Cardinality(U)
    <3> SUFFICES ASSUME ip = a PROVE Cardinality(T) + 1 <= Cardinality(U)
      OBVIOUS
    <3>1. T \cup {top} \subseteq U
      BY <2>3, <2>4
    <3>2. Cardinality(T \cup {top}) = Cardinality(T) + 1
      BY <2>3, <2>5, FS_AddElement
    <3>3. Cardinality(T \cup {top}) <= Cardinality(U)
      BY <2>5, <3>1, FS_Subset
    <3> QED
      BY <3>2, <3>3
  <2>10. /\ Room(t, e, FALSE, ip) <= Room(s, e, TRUE, ip)
         /\ Room(t, e, FALSE, ip) \in Int /\ Room(s, e, TRUE, ip) \in Int
    <3> DEFINE r == Room(t, e, FALSE, ip)
               v == Room(s, e, TRUE, ip)
               c == Cardinality(T)
               d == Cardinality(U)
    <3>1. r = c /\ v = d - (IF ip = a THEN 1 ELSE 0) /\ c \in Nat /\ d \in Nat
      BY <2>5, <2>6, <2>7
    <3>2. c <= d /\ (ip = a => c + 1 <= d)
      BY <2>8, <2>9
    <3> HIDE DEF r, v, c, d
    <3>3. r <= v /\ r \in Int /\ v \in Int
      BY <3>1, <3>2
    <3> QED
      BY <3>3 DEF r, v
  <2>11. FrameOf(lg, x, sj, n, rel, At(s, e), i, Room(t, e, FALSE, ip))
    BY <2>2, <2>10, FrameLess
  <2> QED
    BY <2>1, <2>11
<1> QED
  BY <1>3 DEF Owned

(***************************************************************************)
(* When setjmp is entered its call gets a second frame, which takes the    *)
(* room that the setjmp has made.                                          *)
(***************************************************************************)
LEMMA OwnedDoubled ==
    ASSUME NEW lg, NEW x, NEW sj, NEW n \in Nat, NEW rel, NEW ip,
           NEW S, NEW s \in Seq(S), s # <<>>, Owned(lg, x, sj, n, rel, s, FALSE, ip),
           NEW sj2, Entered(n, s[1].ip, sj, sj2),
           NEW t \in Seq(S), Len(t) = 1 + Len(s),
           \A m \in 1..Len(t) : t[m] = IF m = 1 THEN s[1] ELSE s[m - 1]
    PROVE  Owned(lg, x, sj2, n, rel, t, FALSE, ip)
<1> DEFINE b == s[1].ip
<1>1. Len(s) \in Nat /\ Len(s) > 0 /\ Len(t) \in Nat
  BY LenProperties, EmptySeq
<1>2. Len(sj2) \in Nat
  BY DEF Entered
<1>3. \A f \in 1..Len(s) : At(t, f) = At(s, f)
  <2> TAKE f \in 1..Len(s)
  <2>1. /\ Len(t) + 1 - f \in 1..Len(t) /\ Len(t) + 1 - f # 1
        /\ (Len(t) + 1 - f) - 1 = Len(s) + 1 - f
    BY <1>1
  <2> QED
    BY <2>1 DEF At
<1>4. At(t, Len(t)) = s[1] /\ At(s, Len(s)) = s[1]
  <2>1. 1 \in 1..Len(t) /\ Len(t) + 1 - Len(t) = 1 /\ Len(s) + 1 - Len(s) = 1
    BY <1>1
  <2> QED
    BY <2>1 DEF At
<1>5. ASSUME NEW i, NEW p, NEW c \in Int, FrameOf(lg, x, sj, n, rel, p, i, c)
      PROVE  FrameOf(lg, x, sj2, n, rel, p, i, c + (IF p.ip = b THEN 1 ELSE 0))
  <2>1. i \in 1..n /\ Counted(lg, x, sj, n, p.ip, i, c)
    BY <1>5 DEF FrameOf
  <2>2. Counted(lg, x, sj2, n, p.ip, i, c + (IF p.ip = b THEN 1 ELSE 0))
    BY <2>1, CountedSetjmp
  <2> QED
    BY <1>5, <2>2 DEF FrameOf
<1>6. ASSUME NEW e \in 1..Len(s)
      PROVE  \E i : FrameOf(lg, x, sj2, n, rel, At(t, e), i, Room(t, e, FALSE, ip))
  <2> DEFINE a == At(s, e).ip
             c == Cardinality(Same(s, a, e))
             d == Cardinality(Same(t, a, e))
  <2>1. IsFiniteSet(Same(s, a, e)) /\ c \in Nat
    BY SameFact
  <2>2. PICK i : FrameOf(lg, x, sj, n, rel, At(s, e), i, c)
    <3>1. Room(s, e, FALSE, ip) = c
      BY <2>1 DEF Room
    <3> QED
      BY <3>1 DEF Owned
  <2>3. FrameOf(lg, x, sj2, n, rel, At(s, e), i, c + (IF a = b THEN 1 ELSE 0))
    BY <1>5, <2>1, <2>2
  <2>4. /\ Same(t, a, e) = Same(s, a, e) \cup (IF a = b THEN {Len(t)} ELSE {})
        /\ Len(t) \notin Same(s, a, e)
    <3>1. e..Len(t) = e..Len(s) \cup {Len(t)} /\ Len(t) \notin e..Len(s)
      BY <1>1
    <3>2. \A f \in e..Len(s) : At(t, f) = At(s, f)
      BY <1>3
    <3>3. At(t, Len(t)).ip = b
      BY <1>4
    <3> HIDE DEF a, b
    <3>4. Len(t) \notin Same(s, a, e)
      BY <3>1 DEF Same
    <3>5. PICK m : m = Len(t)
      OBVIOUS
    <3>6. Same(t, a, e) = {f \in e..Len(s) \cup {m} : At(t, f).ip = a}
      BY <3>1, <3>5 DEF Same
    <3>7. \A f \in e..Len(s) \cup {m} :
             At(t, f).ip = a <=> (f \in Same(s, a, e) \/ (f = m /\ a = b))
      <4>1. \A f \in e..Len(s) : f # m /\ At(t, f).ip = At(s, f).ip
        BY <3>1, <3>2, <3>5
      <4>2. At(t, m).ip = b /\ m \notin Same(s, a, e)
        BY <3>3, <3>4, <3>5
      <4>3. \A f \in e..Len(s) : f \in Same(s, a, e) <=> At(s, f).ip = a
        BY DEF Same
      <4> TAKE f \in e..Len(s) \cup {m}
      <4>4. CASE f = m
        BY <4>2, <4>4
      <4>5. CASE f \in e..Len(s)
        <5>1. f # m /\ (f \in Same(s, a, e) <=> At(t, f).ip = a)
          BY <4>1, <4>3, <4>5, Zenon
        <5> QED
          BY <5>1, Zenon
      <4> QED
        BY <4>4, <4>5
    <3>8. Same(s, a, e) \subseteq e..Len(s)
      BY DEF Same
    <3>9. Same(t, a, e) = Same(s, a, e) \cup (IF a = b THEN {m} ELSE {})
      BY <3>6, <3>7, <3>8
    <3> QED
      BY <3>4, <3>5, <3>9
  <2> HIDE DEF a, b
  <2>5. d = c + (IF a = b THEN 1 ELSE 0)
    <3>1. CASE a = b
      <4>1. PICK U, m : U = Same(s, a, e) /\ m = Len(t)
        OBVIOUS
      <4>2. Same(t, a, e) = U \cup {m} /\ m \notin U /\ IsFiniteSet(U)
        BY <2>1, <2>4, <3>1, <4>1
      <4>3. Cardinality(U \cup {m}) = Cardinality(U) + 1
        BY <4>2, FS_AddElement
      <4> QED
        BY <3>1, <4>1, <4>2, <4>3
    <3>2. CASE a # b
      BY <2>1, <2>4, <3>2
    <3> QED
      BY <3>1, <3>2
  <2>6. Room(t, e, FALSE, ip) = d
    <3>1. a = At(t, e).ip
      BY <1>3 DEF a
    <3>2. d \in Nat
      BY <2>1, <2>5
    <3> QED
      BY <3>1, <3>2 DEF Room
  <2> QED
    BY <1>3, <2>3, <2>5, <2>6
<1>7. LET e == Len(t)
      IN  \E i : FrameOf(lg, x, sj2, n, rel, At(t, e), i, Room(t, e, FALSE, ip))
  <2> DEFINE e == Len(t)
             f == Len(s)
  <2>1. f \in 1..Len(s) /\ At(s, f).ip = b /\ f..Len(s) = {f} /\ e..Len(t) = {e}
    BY <1>1, <1>4
  <2>2. Same(s, b, f) = {f} /\ Same(t, b, e) = {e}
    BY <1>4, <2>1 DEF Same
  <2>3. Cardinality({f}) = 1 /\ Cardinality({e}) = 1
    BY FS_Singleton
  <2>4. Room(s, f, FALSE, ip) = 1 /\ Room(t, e, FALSE, ip) = 1
    <3>1. Same(s, At(s, f).ip, f) = {f} /\ Same(t, At(t, e).ip, e) = {e}
      BY <1>4, <2>2
    <3> HIDE DEF e, f
    <3> QED
      BY <2>3, <3>1 DEF Room
  <2>5. PICK i : FrameOf(lg, x, sj, n, rel, s[1], i, 1)
    BY <1>4, <2>1, <2>4 DEF Owned
  <2>6. FrameOf(lg, x, sj2, n, rel, s[1], i, 1 + 1)
    BY <1>5, <2>5
  <2>7. FrameOf(lg, x, sj2, n, rel, s[1], i, 1)
    BY <1>2, <2>6, FrameLess
  <2> QED
    BY <1>4, <2>4, <2>7
<1>8. \A e \in 1..Len(t) : e \in 1..Len(s) \/ e = Len(t)
  BY <1>1
<1> QED
  BY <1>6, <1>7, <1>8 DEF Owned

\* preupdate_cdstack: what is on the stack afterwards is of calls still open.
LEMMA OwnedPreupdated ==
    ASSUME ScheduleInv, config.respect_control, ~PreupdateFails(next_oper),
           NEW lg, NEW x, NEW sj, Len(sj) \in Nat, NEW n \in Nat, NEW rel,
           Owned(lg, x, sj, n, rel, cdstack, dopop, next_oper.ip),
           NEW sj2, IF IsSetjmp(next_oper) THEN Entered(n, cdstack[1].ip, sj, sj2) ELSE sj2 = sj
    PROVE  Owned(lg, x, sj2, n, rel, Preupdated(next_oper), FALSE, next_oper.ip)
<1> DEFINE o == next_oper
           ip == next_oper.ip
<1>1. cdstack \in Seq(CDItem) /\ Len(cdstack) \in Nat /\ dopop \in BOOLEAN
  BY LenProperties DEF ScheduleInv, TypeOK
<1>2. CASE IsSetjmp(o)
  <2> DEFINE t == <<cdstack[1]>> \o cdstack
  <2>1. cdstack # <<>> /\ ~dopop
    BY <1>2 DEF PreupdateFails
  <2>2. cdstack[1] \in CDItem
    <3>1. 1 \in 1..Len(cdstack)
      BY <1>1, <2>1, EmptySeq
    <3> QED
      BY <1>1, <3>1, ElementOfSeq
  <2>3. /\ t \in Seq(CDItem) /\ Len(t) = 1 + Len(cdstack)
        /\ \A m \in 1..(1 + Len(cdstack)) : t[m] = IF m = 1 THEN cdstack[1] ELSE cdstack[m - 1]
    BY <1>1, <2>2, PushFact
  <2>4. Preupdated(o) = t
    BY <1>2, Zenon DEF Preupdated
  <2> HIDE DEF t
  <2>5. \A m \in 1..Len(t) : t[m] = IF m = 1 THEN cdstack[1] ELSE cdstack[m - 1]
    BY <2>3
  <2>6. Owned(lg, x, sj2, n, rel, t, FALSE, ip)
    <3>1. PICK s : s = cdstack
      OBVIOUS
    <3>2. /\ s \in Seq(CDItem) /\ s # <<>> /\ Owned(lg, x, sj, n, rel, s, FALSE, ip)
          /\ Entered(n, s[1].ip, sj, sj2)
      BY <1>1, <1>2, <2>1, <3>1
    <3>3. /\ t \in Seq(CDItem) /\ Len(t) = 1 + Len(s)
          /\ \A m \in 1..Len(t) : t[m] = IF m = 1 THEN s[1] ELSE s[m - 1]
      BY <2>3, <2>5, <3>1
    <3> QED
      BY <3>2, <3>3, OwnedDoubled, ZenonT(40)
  <2> QED
    BY <1>2, <2>4, <2>6
<1>3. CASE ~IsSetjmp(o) /\ dopop
  <2> DEFINE k == CHOOSE k \in Frames(o) : \A l \in Frames(o) : k <= l
             t == SubSeq(cdstack, k + 1, Len(cdstack))
  <2>1. Frames(o) # {} /\ Frames(o) \subseteq 1..Len(cdstack)
    BY <1>3 DEF PreupdateFails, Frames
  <2>2. Frames(o) \subseteq Nat
    BY <1>1, <2>1
  <2>3. k \in Frames(o)
    BY <2>1, <2>2, MinFact
  <2>4. Preupdated(o) = t
    BY <1>3, Zenon DEF Preupdated, Unwound
  <2> HIDE DEF k
  <2>5. k \in 1..Len(cdstack) /\ cdstack[k].ip = ip
    BY <2>1, <2>3 DEF Frames
  <2>6. /\ t \in Seq(CDItem)
        /\ Len(t) = IF k + 1 <= Len(cdstack) THEN Len(cdstack) - (k + 1) + 1 ELSE 0
        /\ \A m \in 1..(Len(cdstack) - (k + 1) + 1) : t[m] = cdstack[(k + 1) + m - 1]
    <3>1. \A m \in (k + 1)..Len(cdstack) : cdstack[m] \in CDItem
      BY <1>1, <2>5, ElementOfSeq
    <3> QED
      BY <1>1, <2>5, <3>1, SubSeqProperties
  <2> HIDE DEF t
  <2>7. Len(t) = Len(cdstack) - k
    BY <1>1, <2>5, <2>6
  <2>8. \A m \in 1..Len(t) : t[m] = cdstack[k + m]
    BY <1>1, <2>5, <2>6, <2>7
  <2>9. Owned(lg, x, sj, n, rel, cdstack, TRUE, ip)
    BY <1>1, <1>3
  <2>10. Owned(lg, x, sj, n, rel, t, FALSE, ip)
    BY <1>1, <2>5, <2>6, <2>7, <2>8, <2>9, OwnedUnwound
  <2> QED
    BY <1>3, <2>4, <2>10
<1>4. CASE ~IsSetjmp(o) /\ ~dopop
  <2>1. Preupdated(o) = cdstack
    BY <1>4, Zenon DEF Preupdated
  <2>2. Owned(lg, x, sj, n, rel, cdstack, FALSE, ip)
    BY <1>1, <1>4
  <2> QED
    BY <1>4, <2>1, <2>2
<1> QED
  BY <1>1, <1>2, <1>3, <1>4

\* g begins like f, n values long.
SameUpTo(n, f, g) == \A k \in 1..n : g[k] = f[k]

\* Instruction n + 1 pushes top onto the stack if it is a call.
Pushed(n, lg2, rel2, x, s, t, top) ==
    IF IsCall(lg2[n + 1].oper, x)
    THEN /\ Len(t) = 1 + Len(s)
         /\ \A m \in 1..(1 + Len(s)) : t[m] = IF m = 1 THEN top ELSE s[m - 1]
         /\ top.ip = lg2[n + 1].oper.next
         /\ Carries(lg2, rel2, top.info, n + 1)
    ELSE t = s

(***************************************************************************)
(* One more instruction is scheduled, and pushed if it is a call.  A frame *)
(* below then leaves room for one call more, a return takes one away.      *)
(***************************************************************************)
LEMMA OwnedScheduled ==
    ASSUME NEW n \in Nat, NEW lg, NEW lg2, SameUpTo(n, lg, lg2),
           NEW rel, NEW rel2, SameUpTo(n, rel, rel2),
           NEW x, NEW sj, Len(sj) \in Nat, NEW s \in Seq(CDItem), NEW ip,
           Owned(lg, x, sj, n, rel, s, FALSE, ip),
           NEW t \in Seq(CDItem), NEW top, Pushed(n, lg2, rel2, x, s, t, top)
    PROVE  Owned(lg2, x, sj, n + 1, rel2, t, IsReturn(lg2[n + 1].oper, x), lg2[n + 1].after)
<1> DEFINE after == lg2[n + 1].after
<1>kinds. PICK call, pending :
        call = IsCall(lg2[n + 1].oper, x) /\ pending = IsReturn(lg2[n + 1].oper, x)
  OBVIOUS
<1>pushed. call => /\ Len(t) = 1 + Len(s)
                   /\ \A m \in 1..(1 + Len(s)) : t[m] = IF m = 1 THEN top ELSE s[m - 1]
                   /\ top.ip = lg2[n + 1].oper.next
                   /\ Carries(lg2, rel2, top.info, n + 1)
  BY <1>kinds DEF Pushed
<1>kept. ~call => t = s
  BY <1>kinds DEF Pushed
<1>same. (\A k \in 1..n : lg2[k] = lg[k]) /\ (\A k \in 1..n : rel2[k] = rel[k])
  BY DEF SameUpTo
<1>1. Len(s) \in Nat /\ Len(t) \in Nat /\ call \in BOOLEAN /\ pending \in BOOLEAN
  BY <1>kinds, LenProperties DEF IsCall, IsReturn
<1>2. \A f \in 1..Len(s) : f \in 1..Len(t) /\ At(t, f) = At(s, f)
  <2> TAKE f \in 1..Len(s)
  <2>1. CASE ~call
    BY <1>kept, <2>1
  <2>2. CASE call
    <3>1. /\ Len(t) + 1 - f \in 1..(1 + Len(s)) /\ Len(t) + 1 - f # 1
          /\ (Len(t) + 1 - f) - 1 = Len(s) + 1 - f /\ f \in 1..Len(t)
      BY <1>1, <1>pushed, <2>2
    <3> QED
      BY <1>pushed, <2>2, <3>1 DEF At
  <2> QED
    BY <1>1, <2>1, <2>2
<1>3. call => Len(t) = Len(s) + 1 /\ At(t, Len(t)) = top
  <2> SUFFICES ASSUME call PROVE Len(t) = Len(s) + 1 /\ At(t, Len(t)) = top
    OBVIOUS
  <2>1. Len(t) + 1 - Len(t) = 1 /\ 1 \in 1..(1 + Len(s))
    BY <1>1
  <2> QED
    BY <1>1, <1>pushed, <2>1 DEF At
<1>4. \A e \in 1..Len(t) : e \in 1..Len(s) \/ (call /\ e = Len(t))
  <2>1. CASE ~call
    BY <1>kept, <2>1
  <2>2. CASE call
    BY <1>1, <1>3, <2>2
  <2> QED
    BY <1>1, <2>1, <2>2
<1>5. ASSUME NEW e \in 1..Len(s)
      PROVE  \E i : FrameOf(lg2, x, sj, n + 1, rel2, At(t, e), i, Room(t, e, pending, after))
  <2> DEFINE a == At(s, e).ip
             p == call /\ lg2[n + 1].oper.next = a
             q == pending /\ after = a
             r == Room(s, e, FALSE, ip)
             v == Room(t, e, pending, after)
             c == Cardinality(Same(s, a, e))
  <2>1. PICK i : FrameOf(lg, x, sj, n, rel, At(s, e), i, r)
    BY DEF Owned
  <2>2. At(t, e) = At(s, e) /\ a = At(t, e).ip
    BY <1>2
  <2>3. i \in 1..n /\ i \in 1..(n + 1) /\ lg2[i] = lg[i] /\ rel2[i] = rel[i]
    BY <1>same, <2>1 DEF FrameOf
  <2>4. /\ IsCall(lg2[i].oper, x) /\ lg2[i].oper.next = At(t, e).ip
        /\ Carries(lg2, rel2, At(t, e).info, i)
    BY <2>1, <2>2, <2>3 DEF FrameOf, Carries
  <2>5. IsFiniteSet(Same(s, a, e)) /\ c \in Nat /\ c >= 1
    BY SameFact
  <2>6. r = c
    BY <2>5 DEF Room
  <2>7. Cardinality(Same(t, a, e)) = c + (IF p THEN 1 ELSE 0)
    <3>1. CASE ~call
      BY <1>1, <1>kept, <2>5, <3>1
    <3>2. CASE call
      <4>1. e..Len(t) = e..Len(s) \cup {Len(t)} /\ Len(t) \notin e..Len(s)
        BY <1>1, <1>3, <3>2
      <4>2. \A f \in e..Len(s) : At(t, f) = At(s, f)
        BY <1>2
      <4>3. Same(t, a, e) = Same(s, a, e) \cup (IF top.ip = a THEN {Len(t)} ELSE {})
        BY <1>3, <3>2, <4>1, <4>2 DEF Same
      <4>4. Len(t) \notin Same(s, a, e)
        BY <4>1 DEF Same
      <4>5. p <=> top.ip = a
        BY <1>pushed, <3>2
      <4> HIDE DEF p, a
      <4>6. CASE p
        BY <2>5, <4>3, <4>4, <4>5, <4>6, FS_AddElement
      <4>7. CASE ~p
        <5>1. Same(t, a, e) = Same(s, a, e)
          BY <4>3, <4>5, <4>7
        <5> QED
          BY <2>5, <4>7, <5>1
      <4> QED
        BY <4>6, <4>7
    <3> QED
      BY <1>1, <3>1, <3>2
  <2>8. v = c + (IF p THEN 1 ELSE 0) - (IF q THEN 1 ELSE 0)
    <3>1. v = Cardinality(Same(t, a, e)) - (IF q THEN 1 ELSE 0)
      BY <2>2, Zenon DEF Room
    <3> DEFINE d == Cardinality(Same(t, a, e))
    <3>2. d = c + (IF p THEN 1 ELSE 0) /\ v = d - (IF q THEN 1 ELSE 0) /\ c \in Nat
      BY <2>5, <2>7, <3>1
    <3> HIDE DEF v, p, q, c, d
    <3> QED
      BY <3>2
  <2>9. Counted(lg, x, sj, n, a, i, r) => Counted(lg2, x, sj, n + 1, a, i, v)
    <3> SUFFICES ASSUME Counted(lg, x, sj, n, a, i, r) PROVE Counted(lg2, x, sj, n + 1, a, i, v)
      OBVIOUS
    <3>1. p = (IsCall(lg2[n + 1].oper, x) /\ lg2[n + 1].oper.next = a)
      BY <1>kinds
    <3>2. q = (IsReturn(lg2[n + 1].oper, x) /\ lg2[n + 1].after = a)
      BY <1>kinds
    <3>3. c \in Int /\ Counted(lg, x, sj, n, a, i, c)
      <4> HIDE DEF r, c, a
      <4> QED
        BY <2>5, <2>6
    <3> HIDE DEF p, q, a, c, v
    <3>4. Counted(lg2, x, sj, n + 1, a, i, c + (IF p THEN 1 ELSE 0) - (IF q THEN 1 ELSE 0))
      BY <1>same, <2>3, <2>5, <3>1, <3>2, <3>3, CountedLonger
    <3> QED
      BY <2>8, <3>4
  <2>10. Counted(lg2, x, sj, n + 1, At(t, e).ip, i, v)
    BY <2>1, <2>2, <2>9 DEF FrameOf
  <2> QED
    BY <2>3, <2>4, <2>10 DEF FrameOf
<1>6. ASSUME call
      PROVE  LET e == Len(t)
             IN  \E i : FrameOf(lg2, x, sj, n + 1, rel2, At(t, e), i, Room(t, e, pending, after))
  <2> DEFINE e == Len(t)
             a == top.ip
             v == Room(t, e, pending, after)
  <2>1. At(t, e) = top
    BY <1>3, <1>6
  <2>2. Same(t, a, e) = {e}
    BY <1>1, <2>1 DEF Same
  <2>3. Cardinality({e}) = 1
    BY FS_Singleton
  <2>4. ~pending
    BY <1>kinds, <1>6 DEF IsCall, IsReturn
  <2>5. v = 1
    BY <2>1, <2>2, <2>3, <2>4 DEF Room
  <2>6. Counted(lg2, x, sj, n + 1, a, n + 1, 1)
    BY <1>kinds, <1>pushed, <1>6, CountedNew
  <2>7. IsCall(lg2[n + 1].oper, x) /\ lg2[n + 1].oper.next = top.ip
        /\ Carries(lg2, rel2, top.info, n + 1) /\ n + 1 \in 1..(n + 1)
    BY <1>kinds, <1>pushed, <1>6
  <2>8. FrameOf(lg2, x, sj, n + 1, rel2, top, n + 1, 1)
    BY <2>6, <2>7 DEF FrameOf
  <2> QED
    BY <2>1, <2>5, <2>8
<1> QED
  BY <1>kinds, <1>4, <1>5, <1>6 DEF Owned

----------------------------------------------------------------------------
(***************************************************************************)
(* The step that schedules instruction n + 1, whose entry is e.            *)
(***************************************************************************)
Adds(n, e) ==
    /\ n \in Nat /\ n = Len(log) /\ e \in LogEntry
    /\ log' \in Seq(LogEntry) /\ Len(log') = n + 1
    /\ log'[n + 1] = e /\ \A k \in 1..n : log'[k] = log[k]
    /\ config' = config

\* The cost of a window is one of the times it is the maximum of.
LEMMA ReadyCostIsOne ==
    ASSUME ScheduleInv, NEW w \in WindowIds,
           NEW srcs, srcs \subseteq SchedInfo, IsFiniteSet(srcs)
    PROVE  \/ ReadyCost(w, srcs) = WindowTime(w)
           \/ \E s \in srcs : ReadyCost(w, srcs) = Arrival(s, w)
<1> DEFINE f == [s \in srcs |-> Arrival(s, w)]
           Arrivals == {f[s] : s \in srcs}
           Times == {WindowTime(w)} \cup Arrivals
<1>1. WindowTime(w) \in Nat
  BY WindowTimeFact
<1>2. Arrivals \subseteq Nat
  BY ConfigFact DEF Arrival, SchedInfo
<1>3. /\ DOMAIN f = srcs /\ f = [s \in srcs |-> f[s]]
      /\ \A t \in Arrivals : \E s \in srcs : t = Arrival(s, w)
  OBVIOUS
<1>4. ReadyCost(w, srcs) = MaxOf(Times)
  <2>1. Arrivals = {Arrival(s, w) : s \in srcs}
    OBVIOUS
  <2> QED
    BY <2>1 DEF ReadyCost
<1> HIDE DEF f
<1>5. IsFiniteSet(Arrivals)
  BY <1>3, ImageFact
<1> HIDE DEF Arrivals
<1>6. IsFiniteSet(Times)
  BY <1>5, FS_Union, FS_Singleton
<1>7. Times \subseteq Nat /\ Times # {} /\ \A t \in Times : t = WindowTime(w) \/ t \in Arrivals
  BY <1>1, <1>2
<1> HIDE DEF Times
<1>8. MaxOf(Times) \in Times
  BY <1>6, <1>7, MaxOfFact
<1> QED
  BY <1>3, <1>4, <1>7, <1>8

\* The entry a step appends, and the time it waits for.
LEMMA AddedEntry ==
    ASSUME ScheduleInv, log \in Seq(LogEntry), ScheduleNext
    PROVE  \E n, e :
             /\ Adds(n, e)
             /\ e.oper = next_oper /\ next_oper \in Opers /\ ~PreupdateFails(next_oper)
             /\ e.window \in WindowIds /\ e.after = next_oper'.ip
             /\ Sources(next_oper, Preupdated(next_oper)) \subseteq SchedInfo
             /\ CoveredStack(Preupdated(next_oper))
             /\ \/ e.ready - Latency(next_oper) = WindowTime(e.window)
                \/ \E s \in Sources(next_oper, Preupdated(next_oper)) :
                      e.ready - Latency(next_oper) = Arrival(s, e.window)
             /\ windows' = IF config.w_num = 0 THEN windows
                           ELSE [windows EXCEPT ![e.window] =
                                   WindowInsert(config.w_type, windows[e.window], e.ready)]
             /\ UpdateControl(next_oper, e.window, e.ready, e.predicted,
                              Preupdated(next_oper))
<1> DEFINE o == next_oper
           stack == Preupdated(o)
           srcs == Sources(o, stack)
           w == Choose(srcs)
           ready == ReadyTime(o, w, srcs)
<1>1. PICK predicted \in Predictions(o, tmterr' # "TMTIO_OK") :
        ScheduleOper(o, predicted, stack)
  BY DEF ScheduleNext
<1>2. predicted \in BOOLEAN
  BY <1>1 DEF Predictions
<1>3. /\ o \in Opers /\ opcount \in Nat /\ ~PreupdateFails(o) /\ next_oper'.ip \in Nat
      /\ config' = config
  BY ScheduleAssumption DEF ScheduleNext, ReadAhead, ScheduleInv, TypeOK, OperType
<1>4. srcs \subseteq SchedInfo /\ IsFiniteSet(srcs) /\ CoveredStack(stack)
  BY <1>3, PreupdatedCovered, SourcesFact
<1>5. /\ log' = Append(log, [oper |-> o, din |-> opcount, ready |-> ready,
                             window |-> w, predicted |-> predicted,
                             after |-> next_oper'.ip])
      /\ UpdateControl(o, w, ready, predicted, stack)
      /\ windows' = IF config.w_num = 0 THEN windows
                    ELSE [windows EXCEPT ![w] = WindowInsert(config.w_type, @, ready)]
  BY <1>1 DEF ScheduleOper
<1> HIDE DEF srcs
<1>6. w \in WindowIds /\ w \in Nat
  BY <1>4, ChooseFact, ConfigFact
<1> HIDE DEF w
<1>7. /\ ready = ReadyCost(w, srcs) + Latency(o) /\ Latency(o) \in {0, 1}
      /\ ready \in Nat /\ ReadyCost(w, srcs) \in Nat
  BY <1>4, <1>6, ReadyTimeFact, ReadyCostFact
<1> HIDE DEF ready, stack
<1>8. \/ ready - Latency(o) = WindowTime(w)
      \/ \E s \in srcs : ready - Latency(o) = Arrival(s, w)
  <2>1. ready - Latency(o) = ReadyCost(w, srcs)
    BY <1>7
  <2> QED
    BY <1>4, <1>6, <2>1, ReadyCostIsOne
<1> DEFINE e == [oper |-> o, din |-> opcount, ready |-> ready, window |-> w,
                 predicted |-> predicted, after |-> next_oper'.ip]
<1>9. /\ e.oper = o /\ e.ready = ready /\ e.window = w /\ e.predicted = predicted
      /\ e.after = next_oper'.ip /\ e \in LogEntry
  BY <1>2, <1>3, <1>6, <1>7 DEF LogEntry
<1>10. log' = Append(log, e)
  BY <1>5
<1> HIDE DEF e
<1>11. Adds(Len(log), e)
  <2>1. Len(log) \in Nat
    BY LenProperties
  <2>2. /\ log' \in Seq(LogEntry) /\ Len(log') = Len(log) + 1
        /\ log'[Len(log) + 1] = e
        /\ \A k \in 1..Len(log) : log'[k] = log[k]
    BY <1>9, <1>10
  <2> QED
    BY <1>3, <1>9, <2>1, <2>2 DEF Adds
<1>12. windows' = IF config.w_num = 0 THEN windows
                  ELSE [windows EXCEPT ![e.window] =
                          WindowInsert(config.w_type, windows[e.window], e.ready)]
  BY <1>5, <1>9
<1> QED
  BY <1>3, <1>4, <1>5, <1>6, <1>8, <1>9, <1>11, <1>12 DEF srcs, stack

----------------------------------------------------------------------------
\* Registers and memory.

\* What is looked up for a register, or a byte, was produced by the last to write it, if any.
KnownReg(r) ==
    \/ \E i \in Scheduled : LastToWrite(i, r) /\ Produced(reg_info[r], i)
    \/ reg_info[r] = Unwritten /\ \A k \in Scheduled : r \notin log[k].oper.writes

KnownByte(b) ==
    \/ \E i \in Scheduled : LastToStore(i, b) /\ Produced(mem_info[b], i)
    \/ mem_info[b] = Unwritten /\ \A k \in Scheduled : b \notin log[k].oper.stores

WritersInv ==
    /\ \A r \in Regs \ config.ignore_regs : KnownReg(r)
    /\ \A b \in Bytes : KnownByte(b)

\* update_dst_regs_ready and update_dst_mems_ready make the new instruction the last to write.
LEMMA ScheduleNextWriters ==
    ASSUME ScheduleInv, WritersInv, log \in Seq(LogEntry), ScheduleNext
    PROVE  WritersInv'
<1>1. PICK e \in LogEntry :
        /\ log' \in Seq(LogEntry) /\ Len(log') = Len(log) + 1
        /\ log'[Len(log) + 1] = e
        /\ \A k \in 1..Len(log) : log'[k] = log[k]
        /\ \A r \in Regs \ config.ignore_regs :
             IF r \in e.oper.writes
             THEN reg_info'[r].ready = e.ready /\ reg_info'[r].thread_id = e.window
             ELSE reg_info'[r] = reg_info[r]
        /\ \A b \in Bytes :
             IF b \in e.oper.stores
             THEN mem_info'[b].ready = e.ready /\ mem_info'[b].thread_id = e.window
             ELSE mem_info'[b] = mem_info[b]
  BY ScheduledEntry
<1>2. PICK n \in Nat : n = Len(log)
  BY LenProperties
<1>3. config' = config /\ Scheduled = 1..n /\ Scheduled' = 1..(n + 1)
  BY <1>1, <1>2 DEF ScheduleNext, Scheduled
<1>4. n + 1 \in 1..(n + 1) /\ \A i \in 1..(n + 1) : i \in 1..n \/ i = n + 1
  BY <1>2
<1>5. ((n + 1) + 1)..(n + 1) = {}
  BY <1>2
<1>6. ASSUME NEW r \in Regs \ config.ignore_regs
      PROVE  KnownReg(r)'
  <2>1. CASE r \in e.oper.writes
    <3>1. LastToWrite(n + 1, r)' /\ Produced(reg_info[r], n + 1)'
      BY <1>1, <1>2, <1>5, <2>1 DEF LastToWrite, Produced
    <3> QED
      BY <1>3, <1>4, <3>1 DEF KnownReg
  <2>2. CASE r \notin e.oper.writes
    <3>1. reg_info'[r] = reg_info[r]
      BY <1>1, <2>2
    <3>2. CASE \E i \in Scheduled : LastToWrite(i, r) /\ Produced(reg_info[r], i)
      <4>1. PICK i \in 1..n : LastToWrite(i, r) /\ Produced(reg_info[r], i)
        BY <1>3, <3>2
      <4>2. \A k \in (i + 1)..(n + 1) : k \in (i + 1)..n \/ k = n + 1
        BY <4>1
      <4>3. LastToWrite(i, r)' /\ Produced(reg_info[r], i)'
        BY <1>1, <1>2, <2>2, <3>1, <4>1, <4>2 DEF LastToWrite, Produced
      <4> QED
        BY <1>3, <4>3 DEF KnownReg
    <3>3. CASE reg_info[r] = Unwritten /\ \A k \in Scheduled : r \notin log[k].oper.writes
      <4>1. \A k \in 1..(n + 1) : r \notin log'[k].oper.writes
        BY <1>1, <1>2, <1>3, <1>4, <2>2, <3>3
      <4> QED
        BY <1>3, <3>1, <3>3, <4>1 DEF KnownReg, Unwritten
    <3> QED
      BY <3>2, <3>3 DEF WritersInv, KnownReg
  <2> QED
    BY <2>1, <2>2
<1>7. ASSUME NEW b \in Bytes
      PROVE  KnownByte(b)'
  <2>1. CASE b \in e.oper.stores
    <3>1. LastToStore(n + 1, b)' /\ Produced(mem_info[b], n + 1)'
      BY <1>1, <1>2, <1>5, <2>1 DEF LastToStore, Produced
    <3> QED
      BY <1>3, <1>4, <3>1 DEF KnownByte
  <2>2. CASE b \notin e.oper.stores
    <3>1. mem_info'[b] = mem_info[b]
      BY <1>1, <2>2
    <3>2. CASE \E i \in Scheduled : LastToStore(i, b) /\ Produced(mem_info[b], i)
      <4>1. PICK i \in 1..n : LastToStore(i, b) /\ Produced(mem_info[b], i)
        BY <1>3, <3>2
      <4>2. \A k \in (i + 1)..(n + 1) : k \in (i + 1)..n \/ k = n + 1
        BY <4>1
      <4>3. LastToStore(i, b)' /\ Produced(mem_info[b], i)'
        BY <1>1, <1>2, <2>2, <3>1, <4>1, <4>2 DEF LastToStore, Produced
      <4> QED
        BY <1>3, <4>3 DEF KnownByte
    <3>3. CASE mem_info[b] = Unwritten /\ \A k \in Scheduled : b \notin log[k].oper.stores
      <4>1. \A k \in 1..(n + 1) : b \notin log'[k].oper.stores
        BY <1>1, <1>2, <1>3, <1>4, <2>2, <3>3
      <4> QED
        BY <1>3, <3>1, <3>3, <4>1 DEF KnownByte, Unwritten
    <3> QED
      BY <3>2, <3>3 DEF WritersInv, KnownByte
  <2> QED
    BY <2>1, <2>2
<1> QED
  BY <1>3, <1>6, <1>7 DEF WritersInv

----------------------------------------------------------------------------
\* Windows.

\* The instructions after the i-th in window w.
Later(w, i) == {l \in (i + 1)..Len(log) : log[l].window = w}

\* Slot k of window w frees at t with an instruction that many others have followed.
KnownSlot(w, t, k) ==
    \/ t = 0
    \/ \E i \in Scheduled :
          /\ log[i].window = w /\ log[i].ready = t
          /\ config.w_type = "ooo" \/ Cardinality(Later(w, i)) >= WindowSize - k

SlotsInv ==
    \A w \in Windows : \A k \in Slots : \A t \in Nat : t = windows[w][k] => KnownSlot(w, t, k)

\* One more instruction follows those in its window.
LEMMA LaterAdded ==
    ASSUME NEW n, NEW e, Adds(n, e), NEW w, NEW i \in 1..n
    PROVE  /\ Cardinality(Later(w, i)) \in Nat
           /\ Cardinality(Later(w, i)') =
                Cardinality(Later(w, i)) + (IF e.window = w THEN 1 ELSE 0)
<1>1. n \in Nat /\ n = Len(log) /\ Len(log') = n + 1
  BY DEF Adds
<1>2. IsFiniteSet((i + 1)..n)
  BY <1>1, FS_Interval, i + 1 \in Int, n \in Int
<1>3. IsFiniteSet(Later(w, i)) /\ Cardinality(Later(w, i)) \in Nat
  <2>1. Later(w, i) \subseteq (i + 1)..n
    BY <1>1 DEF Later
  <2> QED
    BY <1>2, <2>1, FS_Subset, FS_CardinalityType
<1>4. (i + 1)..(n + 1) = (i + 1)..n \cup {n + 1} /\ n + 1 \notin (i + 1)..n
  BY <1>1
<1>5. \A l \in (i + 1)..n : log'[l] = log[l]
  BY <1>1 DEF Adds
<1>6. log'[n + 1] = e
  BY DEF Adds
<1>7. Later(w, i)' = Later(w, i) \cup (IF e.window = w THEN {n + 1} ELSE {})
  BY <1>1, <1>4, <1>5, <1>6 DEF Later
<1>8. n + 1 \notin Later(w, i)
  BY <1>1, <1>4 DEF Later
<1>9. CASE e.window = w
  BY <1>3, <1>7, <1>8, <1>9, FS_AddElement
<1>10. CASE e.window # w
  <2>1. Later(w, i)' = Later(w, i)
    BY <1>7, <1>10
  <2> QED
    BY <1>3, <1>10, <2>1
<1> QED
  BY <1>9, <1>10

\* So what frees a slot may free the one in front of it, too.
LEMMA KnownSlotMoves ==
    ASSUME NEW n, NEW e, Adds(n, e), NEW w, NEW t, NEW k \in Slots, NEW m \in Slots,
           KnownSlot(w, t, k),
           \/ config.w_type = "ooo"
           \/ m >= k
           \/ e.window = w /\ k = m + 1
    PROVE  KnownSlot(w, t, m)'
<1>1. CASE t = 0
  BY <1>1 DEF KnownSlot
<1>2. CASE \E i \in Scheduled :
             /\ log[i].window = w /\ log[i].ready = t
             /\ config.w_type = "ooo" \/ Cardinality(Later(w, i)) >= WindowSize - k
  <2>1. PICK i \in 1..n :
          /\ log[i].window = w /\ log[i].ready = t
          /\ config.w_type = "ooo" \/ Cardinality(Later(w, i)) >= WindowSize - k
    BY <1>2 DEF Adds, Scheduled
  <2>2. i \in 1..(n + 1) /\ log'[i] = log[i] /\ Scheduled' = 1..(n + 1) /\ config' = config
    BY <2>1 DEF Adds, Scheduled
  <2>3. config.w_type = "ooo" \/ Cardinality(Later(w, i)') >= WindowSize - m
    <3> DEFINE c == Cardinality(Later(w, i))
               d == Cardinality(Later(w, i)')
    <3>1. c \in Nat /\ d = c + (IF e.window = w THEN 1 ELSE 0)
      BY LaterAdded
    <3>2. config.w_type = "ooo" \/ c >= WindowSize - k
      BY <2>1
    <3>3. k \in Nat /\ m \in Nat /\ WindowSize \in Nat
      BY WindowSizeAssumption DEF Slots
    <3> HIDE DEF c, d
    <3>4. config.w_type = "ooo" \/ d >= WindowSize - m
      BY <3>1, <3>2, <3>3
    <3> QED
      BY <3>4 DEF d
  <2>4. Cardinality(Later(w, i))' = Cardinality(Later(w, i)')
    OBVIOUS
  <2> QED
    BY <2>1, <2>2, <2>3 DEF KnownSlot
<1> QED
  BY <1>1, <1>2 DEF KnownSlot

\* The new instruction frees the last slot, or any in an issue window.
LEMMA KnownSlotNew ==
    ASSUME NEW n, NEW e, Adds(n, e), NEW k \in Slots,
           config.w_type = "ooo" \/ k = WindowSize
    PROVE  \A w, t : w = e.window /\ t = e.ready => KnownSlot(w, t, k)'
<1> TAKE w, t
<1> HAVE w = e.window /\ t = e.ready
<1>1. n + 1 \in Scheduled' /\ log'[n + 1] = e /\ config' = config
  BY DEF Adds, Scheduled
<1>2. Cardinality(Later(w, n + 1)') = 0
  <2>1. ((n + 1) + 1)..(n + 1) = {}
    BY DEF Adds
  <2>2. Later(w, n + 1)' = {}
    BY <2>1 DEF Adds, Later
  <2> QED
    BY <2>2, FS_EmptySet
<1>3. config.w_type = "ooo" \/ Cardinality(Later(w, n + 1)') >= WindowSize - k
  BY <1>2, WindowSizeAssumption
<1> QED
  BY <1>1, <1>3 DEF KnownSlot

\* Every slot of every window still frees with an instruction far enough back.
LEMMA ScheduleNextSlotsKnown ==
    ASSUME ScheduleInv, SlotsInv, NEW n, NEW e, Adds(n, e),
           windows' = IF config.w_num = 0 THEN windows
                      ELSE [windows EXCEPT ![e.window] =
                              WindowInsert(config.w_type, windows[e.window], e.ready)]
    PROVE  SlotsInv'
<1>1. /\ Windows' = Windows /\ config.w_type \in {"ooo", "rob"} /\ e.ready \in Nat
      /\ config.w_num \in Nat
  BY ConfigFact DEF Adds, Windows, ConfigType, WindowTypes, LogEntry
<1> SUFFICES ASSUME NEW w \in Windows, NEW k \in Slots, NEW t \in Nat, t = windows'[w][k]
             PROVE  KnownSlot(w, t, k)'
  BY <1>1 DEF SlotsInv
<1>2. config.w_num # 0 /\ w \in DOMAIN windows
  BY <1>1 DEF Windows, ScheduleInv, TypeOK
<1>3. IsWindow(windows[w]) /\ windows[w] \in [Slots -> Nat] /\ WindowTail(windows[w]) \in Nat
  BY HeadTailFact DEF ScheduleInv, WindowsOrdered, IsWindow
<1>4. \A m \in Slots : KnownSlot(w, windows[w][m], m)
  BY <1>3 DEF SlotsInv
<1>5. CASE w # e.window
  <2>1. t = windows[w][k]
    BY <1>2, <1>5
  <2>2. k >= k /\ KnownSlot(w, t, k)
    BY <1>4, <2>1 DEF Slots
  <2> QED
    BY <2>2, KnownSlotMoves
<1>6. CASE w = e.window
  <2> DEFINE L == windows[w]
             v == Leaves(config.w_type, L, e.ready)
  <2>1. t = Slide(L, v)[k]
    BY <1>2, <1>6 DEF WindowInsert
  <2>2. /\ v \in Nat /\ (v = e.ready \/ (v = WindowTail(L) /\ config.w_type = "rob"))
        /\ config.w_type = "rob" => v >= WindowTail(L)
    BY <1>1, <1>3 DEF Leaves, MAX
  <2> HIDE DEF v
  <2>3. CASE k < WindowSize /\ L[k + 1] <= v
    <3>1. k + 1 \in Slots /\ t = L[k + 1]
      BY <2>1, <2>3, WindowSizeAssumption DEF Slide, Slots
    <3>2. KnownSlot(w, t, k + 1)
      BY <1>4, <3>1
    <3> QED
      BY <1>6, <3>1, <3>2, KnownSlotMoves
  <2>4. CASE ~(k < WindowSize /\ L[k + 1] <= v) /\ config.w_type = "rob"
    <3>1. k = WindowSize
      <4>1. k < WindowSize => k + 1 \in Slots /\ L[k + 1] <= WindowTail(L)
        BY <1>3, HeadTailFact, WindowSizeAssumption DEF Slots
      <4>2. k < WindowSize => L[k + 1] \in Nat /\ L[k + 1] <= v
        BY <1>3, <2>2, <2>4, <4>1
      <4> QED
        BY <2>4, <4>2, WindowSizeAssumption DEF Slots
    <3>2. L[k] <= v /\ t = v
      BY <1>3, <2>1, <2>2, <2>4, <3>1, WindowSizeAssumption DEF Slide, WindowTail, Slots
    <3>3. CASE v = e.ready
      BY <1>6, <3>1, <3>2, <3>3, KnownSlotNew
    <3>4. CASE v = WindowTail(L)
      <4>1. KnownSlot(w, t, k) /\ k >= k
        BY <1>4, <3>1, <3>2, <3>4 DEF WindowTail, Slots
      <4> QED
        BY <4>1, KnownSlotMoves
    <3> QED
      BY <2>2, <3>3, <3>4
  <2>5. CASE ~(k < WindowSize /\ L[k + 1] <= v) /\ config.w_type = "ooo"
    <3>1. v = e.ready
      BY <2>2, <2>5
    <3>2. t = v \/ t = L[k]
      BY <2>1, <2>5 DEF Slide
    <3>3. CASE t = v
      BY <1>6, <2>5, <3>1, <3>3, KnownSlotNew
    <3>4. CASE t = L[k]
      BY <1>4, <2>5, <3>4, KnownSlotMoves
    <3> QED
      BY <3>2, <3>3, <3>4
  <2> QED
    BY <1>1, <2>3, <2>4, <2>5
<1> QED
  BY <1>5, <1>6

(***************************************************************************)
(* A window is held up by one of its own mispredicted branches.            *)
(***************************************************************************)
KnownBranch(w, t) ==
    \/ t = 0
    \/ /\ config.respect_control /\ config.inorder_branches
       /\ \E i \in Scheduled : Mispredicted(i) /\ log[i].window = w /\ log[i].ready = t

HoldsInv == \A w \in WindowIds : \A t \in Nat : t = mispredicted[w].ready => KnownBranch(w, t)

\* Only a mispredicted branch, with in-order branches, holds up its window.
LEMMA ScheduleNextHolds ==
    ASSUME ScheduleInv, HoldsInv, NEW n, NEW e, Adds(n, e), e.oper = next_oper,
           e.window \in WindowIds,
           UpdateControl(next_oper, e.window, e.ready, e.predicted, Preupdated(next_oper))
    PROVE  HoldsInv'
<1>1. WindowIds' = WindowIds /\ config' = config
  BY DEF Adds, WindowIds, Windows
<1> SUFFICES ASSUME NEW w \in WindowIds, NEW t \in Nat, t = mispredicted'[w].ready
             PROVE  KnownBranch(w, t)'
  BY <1>1 DEF HoldsInv
<1>2. /\ Scheduled = 1..n /\ Scheduled' = 1..(n + 1) /\ n \in Nat /\ e \in LogEntry
      /\ log'[n + 1] = e /\ \A i \in 1..n : i \in 1..(n + 1) /\ log'[i] = log[i]
  BY DEF Adds, Scheduled
<1>3. ASSUME t = mispredicted[w].ready
      PROVE  KnownBranch(w, t)'
  <2>1. KnownBranch(w, t)
    BY <1>3 DEF HoldsInv
  <2> QED
    BY <1>1, <1>2, <2>1 DEF KnownBranch, Mispredicted
<1>4. CASE config.respect_control /\ config.inorder_branches
  <2>1. t = IF w = e.window /\ next_oper.branch /\ ~e.predicted THEN e.ready
            ELSE mispredicted[w].ready
    BY <1>2, <1>4, MispredictedUpdate
  <2>2. CASE w = e.window /\ next_oper.branch /\ ~e.predicted
    <3>1. n + 1 \in 1..(n + 1) /\ t = e.ready
      BY <1>2, <2>1, <2>2
    <3> QED
      BY <1>1, <1>2, <1>4, <2>2, <3>1 DEF KnownBranch, Mispredicted
  <2>3. CASE ~(w = e.window /\ next_oper.branch /\ ~e.predicted)
    BY <1>3, <2>1, <2>3
  <2> QED
    BY <2>2, <2>3
<1>5. CASE ~(config.respect_control /\ config.inorder_branches)
  <2>1. mispredicted' = mispredicted
    BY <1>5 DEF UpdateControl
  <2> QED
    BY <1>3, <2>1
<1> QED
  BY <1>4, <1>5

----------------------------------------------------------------------------
\* What governs an instruction.

\* In a step setjmp may be entered.
MayEnter == setjmps' = setjmps \/ \E a : Entered(Len(log), a, setjmps, setjmps')

SetjmpEntry == [at : Nat, ip : Nat]

\* Then the call on top of the stack has entered it.
LEMMA EnterFact ==
    ASSUME setjmps \in Seq(SetjmpEntry), log \in Seq(LogEntry), ScheduleInv,
           ~PreupdateFails(next_oper), EnterSetjmp(next_oper)
    PROVE  /\ setjmps' \in Seq(SetjmpEntry) /\ Len(setjmps) \in Nat
           /\ IF config.respect_control /\ IsSetjmp(next_oper)
              THEN Entered(Len(log), cdstack[1].ip, setjmps, setjmps')
              ELSE setjmps' = setjmps
<1>1. Len(setjmps) \in Nat /\ Len(log) \in Nat
  BY LenProperties
<1>2. CASE config.respect_control /\ IsSetjmp(next_oper)
  <2>1. PICK r : r = [at |-> Len(log), ip |-> cdstack[1].ip]
    OBVIOUS
  <2>2. cdstack[1] \in CDItem
    <3>1. cdstack # <<>> /\ cdstack \in Seq(CDItem)
      BY <1>2 DEF PreupdateFails, ScheduleInv, TypeOK
    <3>2. 1 \in 1..Len(cdstack)
      BY <3>1, LenProperties, EmptySeq
    <3> QED
      BY <3>1, <3>2, ElementOfSeq
  <2>3. r \in SetjmpEntry
    BY <1>1, <2>1, <2>2 DEF SetjmpEntry, CDItem
  <2>4. setjmps' = Append(setjmps, r)
    BY <1>2, <2>1 DEF EnterSetjmp
  <2>5. PICK sj \in Seq(SetjmpEntry) : sj = setjmps
    OBVIOUS
  <2>6. /\ Append(sj, r) \in Seq(SetjmpEntry) /\ Len(Append(sj, r)) = Len(sj) + 1
        /\ \A l \in 1..Len(sj) : Append(sj, r)[l] = sj[l]
        /\ Append(sj, r)[Len(sj) + 1] = r
    BY <2>3, AppendProperties
  <2> QED
    BY <1>1, <1>2, <2>1, <2>4, <2>5, <2>6 DEF Entered
<1>3. CASE ~(config.respect_control /\ IsSetjmp(next_oper))
  BY <1>1, <1>3 DEF EnterSetjmp
<1> QED
  BY <1>2, <1>3

\* The step, as the past and the future of the schedule see it.
LEMMA AddedPast ==
    ASSUME NEW n, NEW e, Adds(n, e), MayEnter
    PROVE  /\ n \in Nat /\ n = Len(log) /\ SamePast(n, log, log', setjmps, setjmps')
           /\ \A j \in 1..n : /\ Governors(j)' = Governors(j)
                             /\ \A i \in 1..(j - 1) : Governs(i, j)' <=> Governs(i, j)
<1>1. n \in Nat /\ n = Len(log) /\ config' = config
  BY DEF Adds
<1>2. SamePast(n, log, log', setjmps, setjmps')
  <2>1. \A k \in 1..n : log'[k] = log[k]
    BY DEF Adds
  <2> QED
    BY <1>1, <2>1 DEF MayEnter, SamePast
<1>3. ASSUME NEW j \in 1..n, NEW i \in 1..(j - 1)
      PROVE  Governs(i, j)' <=> Governs(i, j)
  <2> DEFINE x == config.x86_translate
  <2>1. /\ Governs(i, j) <=> GovernsIn(log, x, setjmps, i, j)
        /\ Governs(i, j)' <=> GovernsIn(log', x, setjmps', i, j)
    BY <1>1, GovernsIs
  <2> HIDE DEF x
  <2>2. GovernsIn(log', x, setjmps', i, j) <=> GovernsIn(log, x, setjmps, i, j)
    BY <1>1, <1>2, GovernsSame
  <2> QED
    BY <2>1, <2>2
<1>4. \A j \in 1..n : Governors(j)' = Governors(j)
  BY <1>3 DEF Governors
<1> QED
  BY <1>1, <1>2, <1>3, <1>4

\* The times released so far stay; a new branch passes on those of its governors.
LEMMA ScheduleNextReleased ==
    ASSUME ReleasedInv, NEW n, NEW e, Adds(n, e), MayEnter
    PROVE  /\ ReleasedInv'
           /\ \A m \in 1..n : Released'[m] = Released[m]
           /\ Released'[n + 1] =
                IF e.predicted THEN {0} \cup UNION {Released'[i] : i \in Governors(n + 1)'}
                ELSE {e.ready}
<1> DEFINE gov == [m \in Scheduled |-> Governors(m)]
           gov2 == [m \in 1..(n + 1) |-> Governors(m)']
<1>1. /\ n \in Nat /\ n = Len(log) /\ Len(log') = n + 1 /\ log'[n + 1] = e
      /\ \A k \in 1..n : log'[k] = log[k]
      /\ Scheduled = 1..n /\ Scheduled' = 1..(n + 1)
  BY DEF Adds, Scheduled
<1>2. \A m \in 1..n : Governors(m)' = Governors(m)
  BY AddedPast
<1>3. \A m \in 1..n : gov[m] = Governors(m) /\ gov2[m] = Governors(m)'
  BY <1>1
<1>4. gov2[n + 1] = Governors(n + 1)' /\ Governors(n + 1)' \subseteq 1..n
  <2>1. Governors(n + 1)' \subseteq 1..((n + 1) - 1)
    BY DEF Governors
  <2> QED
    BY <1>1, <2>1
<1>5. \A m \in 1..n : Governors(m) \subseteq 1..(m - 1)
  BY DEF Governors
<1>6. Passes(n, gov, log, Released)
  BY <1>1 DEF ReleasedInv, HasTimes
<1>7. \A f : HasTimes(f)' <=> Passes(n + 1, gov2, log', f)
  BY <1>1 DEF HasTimes
<1> HIDE DEF gov, gov2
<1>8. Lengthened(n, gov, log, gov2, log')
  BY <1>1, <1>2, <1>3, <1>5 DEF Lengthened
<1>9. \E f : Passes(n + 1, gov2, log', f)
  BY <1>1, <1>4, <1>6, <1>8, PassesExtended
<1>10. (\E f : HasTimes(f))'
  BY <1>7, <1>9
<1>11. ((\E f : HasTimes(f)) => ReleasedInv)'
  BY ReleasedExists, PTL
<1>12. ReleasedInv'
  BY <1>10, <1>11
<1>13. Passes(n + 1, gov2, log', Released')
  BY <1>1, <1>12 DEF ReleasedInv, HasTimes, gov2
<1>14. \A m \in 1..n : Released'[m] = Released[m]
  BY <1>1, <1>6, <1>8, <1>13, PassesKept
<1>15. Released'[n + 1] = PassedOn(gov2, log', Released', n + 1)
  <2>1. n + 1 \in 1..(n + 1)
    BY <1>1
  <2> QED
    BY <1>13, <2>1, Zenon DEF Passes
<1>16. Released'[n + 1] =
         IF e.predicted THEN {0} \cup UNION {Released'[i] : i \in Governors(n + 1)'}
         ELSE {e.ready}
  BY <1>1, <1>4, <1>15, Zenon DEF PassedOn
<1> QED
  BY <1>12, <1>14, <1>16

----------------------------------------------------------------------------
\* The table of branches and the call stack.

\* What is looked up for a branch was left by the last instance of it.
DepsInv ==
    config.respect_control =>
        \A b \in Branches :
            /\ \A k \in Scheduled :
                  log[k].oper.branch /\ log[k].oper.ip = b => k - 1 <= cd_times[b].cd_din_src
            /\ cd_times[b].cd_din_src > 0 =>
                  \E i \in Scheduled :
                     /\ i - 1 = cd_times[b].cd_din_src
                     /\ log[i].oper.branch /\ log[i].oper.ip = b
                     /\ Carries(log, Released, cd_times[b].info, i)

\* The call stack holds the calls the next instruction may be inside.
StackInv ==
    /\ setjmps \in Seq(SetjmpEntry)
    /\ config.respect_control =>
          Owned(log, config.x86_translate, setjmps, Len(log), Released,
                cdstack, dopop, next_oper.ip)

\* The step that schedules next_oper, as far as control dependences go.
Controls(n, e) ==
    /\ Adds(n, e) /\ e.oper = next_oper /\ next_oper \in Opers
    /\ ~PreupdateFails(next_oper) /\ CoveredStack(Preupdated(next_oper))
    /\ EnterSetjmp(next_oper) /\ MayEnter /\ log \in Seq(LogEntry)
    /\ config.respect_control /\ opcount = n

\* The stack it finds.
LEMMA StackFound ==
    ASSUME ScheduleInv, StackInv, NEW n, NEW e, Controls(n, e)
    PROVE  /\ setjmps' \in Seq(SetjmpEntry) /\ Len(setjmps') \in Nat
           /\ Owned(log, config.x86_translate, setjmps', n, Released,
                    Preupdated(next_oper), FALSE, next_oper.ip)
<1>1. /\ n \in Nat /\ n = Len(log) /\ config.respect_control /\ ~PreupdateFails(next_oper)
  BY DEF Controls, Adds
<1>2. /\ setjmps' \in Seq(SetjmpEntry) /\ Len(setjmps) \in Nat
      /\ IF IsSetjmp(next_oper) THEN Entered(n, cdstack[1].ip, setjmps, setjmps')
         ELSE setjmps' = setjmps
  BY <1>1, EnterFact DEF Controls, StackInv
<1>3. Owned(log, config.x86_translate, setjmps, n, Released, cdstack, dopop, next_oper.ip)
  BY <1>1 DEF StackInv
<1>4. PICK sj : sj = setjmps
  OBVIOUS
<1>5. PICK sj2 : sj2 = setjmps'
  OBVIOUS
<1>6. PICK x : x = config.x86_translate
  OBVIOUS
<1>7. PICK rel : rel = Released
  OBVIOUS
<1>8. PICK lg : lg = log
  OBVIOUS
<1>9. Owned(lg, x, sj, n, rel, cdstack, dopop, next_oper.ip)
  BY <1>3, <1>4, <1>6, <1>7, <1>8
<1>10. /\ Len(sj) \in Nat
       /\ IF IsSetjmp(next_oper) THEN Entered(n, cdstack[1].ip, sj, sj2) ELSE sj2 = sj
  BY <1>2, <1>4, <1>5
<1>11. Owned(lg, x, sj2, n, rel, Preupdated(next_oper), FALSE, next_oper.ip)
  BY <1>1, <1>9, <1>10, OwnedPreupdated
<1> QED
  BY <1>2, <1>5, <1>6, <1>7, <1>8, <1>11, LenProperties

(***************************************************************************)
(* What check_control_deps finds is what some branch that governs the new  *)
(* instruction has left.                                                   *)
(***************************************************************************)
LEMMA ControlGoverns ==
    ASSUME ScheduleInv, DepsInv, StackInv, NEW n, NEW e, Controls(n, e),
           NEW c \in ControlSource(next_oper, Preupdated(next_oper))
    PROVE  \E i \in 1..n : Carries(log, Released, c, i) /\ Governs(i, n + 1)'
<1> DEFINE o == next_oper
           stack == Preupdated(o)
           x == config.x86_translate
<1>1. /\ n \in Nat /\ n = Len(log) /\ config' = config /\ config.respect_control
      /\ \A k \in 1..n : log'[k] = log[k]
      /\ log'[n + 1].oper = o /\ o \in Opers
  BY DEF Controls, Adds
<1>2. \A i : Governs(i, n + 1)' <=> GovernsIn(log', x, setjmps', i, n + 1)
  BY <1>1, GovernsIs
<1>3. CASE ExecutedDeps(o) # {} /\ c = LastDep(o)
  <2>1. PICK b \in ExecutedDeps(o) :
          /\ c = cd_times[b].info
          /\ \A d \in ExecutedDeps(o) : cd_times[d].cd_din_src <= cd_times[b].cd_din_src
    BY <1>1, <1>3, LastDepFact
  <2>2. o.ip \in DOMAIN ControlDeps /\ b \in ControlDeps[o.ip] /\ cd_times[b].cd_din_src > 0
    BY <2>1 DEF ExecutedDeps
  <2>3. \A d \in ControlDeps[o.ip] : d \in Branches /\ cd_times[d].cd_din_src \in Nat
    BY <2>2 DEF Branches, ScheduleInv, TypeOK
  <2>4. PICK i \in 1..n : /\ i - 1 = cd_times[b].cd_din_src
                          /\ log[i].oper.branch /\ log[i].oper.ip = b
                          /\ Carries(log, Released, cd_times[b].info, i)
    BY <1>1, <2>2, <2>3 DEF DepsInv, Scheduled
  <2>5. log'[i] = log[i]
    BY <1>1
  <2> HIDE DEF x
  <2>6. ASSUME NEW k \in (i + 1)..n, log'[k].oper.branch, DependsIn(log', n + 1, k)
        PROVE  FALSE
    <3> DEFINE d == log[k].oper.ip
    <3>1. k \in 1..n /\ log'[k] = log[k]
      BY <1>1
    <3>2. d \in ControlDeps[o.ip]
      BY <1>1, <2>6, <3>1 DEF DependsIn
    <3>3. k - 1 <= cd_times[d].cd_din_src
      BY <1>1, <2>3, <2>6, <3>1, <3>2 DEF DepsInv, Scheduled
    <3> HIDE DEF d
    <3>4. cd_times[d].cd_din_src > i - 1
      BY <1>1, <2>3, <3>1, <3>2, <3>3
    <3>5. d \in ExecutedDeps(o)
      BY <1>1, <2>2, <2>3, <3>2, <3>4 DEF ExecutedDeps
    <3> QED
      BY <1>1, <2>1, <2>2, <2>3, <2>4, <3>2, <3>4, <3>5
  <2>7. GovernsIn(log', x, setjmps', i, n + 1)
    <3>1. (n + 1) - 1 = n
      BY <1>1
    <3>2. DependsIn(log', n + 1, i)
      BY <1>1, <2>2, <2>4, <2>5 DEF DependsIn
    <3> QED
      BY <2>4, <2>5, <2>6, <3>1, <3>2, Zenon DEF GovernsIn
  <2> QED
    BY <1>2, <2>1, <2>4, <2>7
<1>4. CASE stack # <<>> /\ c = stack[1].info
  <2> DEFINE f == Len(stack)
             p == At(stack, f)
             r == Room(stack, f, FALSE, o.ip)
  <2>1. stack \in Seq(CDItem) /\ f \in Nat /\ f \in 1..f
    BY <1>4, LenProperties, EmptySeq DEF CoveredStack, Controls
  <2>2. p = stack[1]
    BY <2>1 DEF At
  <2>3. Cardinality(Same(stack, p.ip, f)) >= 1 /\ Cardinality(Same(stack, p.ip, f)) \in Nat
    BY <2>1, SameFact
  <2>4. r >= 1 /\ r \in Nat
    BY <2>3 DEF Room
  <2>5. /\ Len(setjmps') \in Nat
        /\ Owned(log, x, setjmps', n, Released, stack, FALSE, o.ip)
    BY StackFound
  <2>6. PICK i : FrameOf(log, x, setjmps', n, Released, p, i, r)
    BY <2>1, <2>5 DEF Owned
  <2> HIDE DEF f, p, r, x
  <2>7. /\ i \in 1..n /\ IsCall(log[i].oper, x) /\ log[i].oper.next = p.ip
        /\ Carries(log, Released, p.info, i)
        /\ Counted(log, x, setjmps', n, p.ip, i, r)
    BY <2>6 DEF FrameOf
  <2>8. log'[i] = log[i] /\ log[i].oper.branch
    BY <1>1, <2>7 DEF IsCall
  <2>9. ASSUME NEW k \in (i + 1)..n
        PROVE  More(log', x, setjmps', p.ip, i, k)
    <3>2. k \in 1..n /\ i \in Nat
      BY <2>7
    <3>3. /\ Cardinality(CallsIn(log, x, p.ip, i, n)) \in Nat
          /\ Cardinality(ReturnsIn(log, x, p.ip, i, n)) \in Nat
          /\ Cardinality(SetjmpsIn(setjmps', p.ip, i, n)) \in Nat
      BY <1>1, <2>5, <3>2, CountsFact, SetjmpsFact
    <3>4. More(log, x, setjmps', p.ip, i, k)
      <4>1. CASE k \in (i + 1)..(n - 1)
        BY <2>7, <4>1 DEF Counted
      <4>2. CASE k = n
        BY <2>4, <2>7, <3>3, <4>2 DEF Counted, More
      <4> QED
        BY <1>1, <2>7, <4>1, <4>2
    <3> QED
      BY <1>1, <2>7, <3>2, <3>4, CountsSame
  <2>11. InsideIn(log', x, setjmps', i, n + 1)
    <3>1. (n + 1) - 1 = n
      BY <1>1
    <3> QED
      BY <2>7, <2>8, <2>9, <3>1, Zenon DEF InsideIn
  <2>12. GovernsIn(log', x, setjmps', i, n + 1)
    BY <2>8, <2>11, Zenon DEF GovernsIn
  <2> QED
    BY <1>2, <1>4, <2>2, <2>7, <2>12 DEF x
<1>5. \/ ExecutedDeps(o) # {} /\ c = LastDep(o)
      \/ stack # <<>> /\ c = stack[1].info
  <2> HIDE DEF stack
  <2> QED
    BY <1>1, Zenon DEF ControlSource, stack
<1> QED
  BY <1>3, <1>4, <1>5

\* update_cdinfo leaves what the branch releases.
LEMMA BranchCarries ==
    ASSUME ScheduleInv, DepsInv, StackInv, ReleasedInv, NEW n, NEW e, Controls(n, e)
    PROVE  LET control == ControlSource(next_oper, Preupdated(next_oper))
           IN  Carries(log', Released', BranchInfo(next_oper, e.window, e.ready,
                                                   e.predicted, control), n + 1)
<1> DEFINE control == ControlSource(next_oper, Preupdated(next_oper))
           waited == IF control = {} THEN Unwritten ELSE CHOOSE c \in control : TRUE
           info == BranchInfo(next_oper, e.window, e.ready, e.predicted, control)
<1>1. /\ Adds(n, e) /\ MayEnter /\ log'[n + 1] = e
  BY DEF Controls, Adds
<1>2. /\ \A m \in 1..n : Released'[m] = Released[m]
      /\ Released'[n + 1] =
           IF e.predicted THEN {0} \cup UNION {Released'[i] : i \in Governors(n + 1)'}
           ELSE {e.ready}
  BY <1>1, ScheduleNextReleased
<1>3. info.thread_id = e.window /\ info.ready = IF e.predicted THEN waited.ready ELSE e.ready
  BY DEF BranchInfo
<1>4. waited.ready = 0 \/ \E i \in Governors(n + 1)' : waited.ready \in Released'[i]
  <2>1. CASE control = {}
    BY <2>1 DEF Unwritten
  <2>2. CASE control # {}
    <3>1. waited \in control
      BY <2>2
    <3> HIDE DEF waited, control
    <3>2. PICK i \in 1..n : Carries(log, Released, waited, i) /\ Governs(i, n + 1)'
      BY <3>1, ControlGoverns DEF control
    <3>3. i \in Governors(n + 1)'
      <4>1. 1..((n + 1) - 1) = 1..n
        BY <1>1 DEF Adds
      <4> QED
        BY <3>2, <4>1 DEF Governors
    <3>4. waited.ready \in Released'[i]
      BY <1>2, <3>2 DEF Carries
    <3> QED
      BY <3>3, <3>4
  <2> QED
    BY <2>1, <2>2
<1> HIDE DEF waited, control
<1>5. info.ready \in Released'[n + 1]
  <2>1. CASE e.predicted
    BY <1>2, <1>3, <1>4, <2>1
  <2>2. CASE ~e.predicted
    BY <1>2, <1>3, <2>2
  <2> QED
    BY <2>1, <2>2
<1> QED
  BY <1>1, <1>3, <1>5 DEF Carries, control

\* The entry of a branch is that of its last instance.
LEMMA ScheduleNextDeps ==
    ASSUME ScheduleInv, DepsInv, StackInv, ReleasedInv, NEW n, NEW e, Controls(n, e),
           UpdateControl(next_oper, e.window, e.ready, e.predicted, Preupdated(next_oper))
    PROVE  DepsInv'
<1> DEFINE info == BranchInfo(next_oper, e.window, e.ready, e.predicted,
                              ControlSource(next_oper, Preupdated(next_oper)))
           new == [cd_din_src |-> opcount, info |-> info]
<1>1. /\ n \in Nat /\ Scheduled = 1..n /\ Scheduled' = 1..(n + 1) /\ config.respect_control
      /\ log'[n + 1] = e /\ e.oper = next_oper /\ \A i \in 1..n : log'[i] = log[i]
  BY DEF Controls, Adds, Scheduled
<1>2. \A m \in 1..n : Released'[m] = Released[m]
  BY ScheduleNextReleased DEF Controls
<1>3. Carries(log', Released', info, n + 1)
  BY BranchCarries
<1>4. cd_times \in [Branches -> [cd_din_src : Nat, info : SchedInfo]]
  BY DEF ScheduleInv, TypeOK
<1>5. cd_times' = IF next_oper.branch /\ next_oper.ip \in Branches
                  THEN [cd_times EXCEPT ![next_oper.ip] = new] ELSE cd_times
  BY <1>1 DEF UpdateControl
<1>6. new.info = info
  OBVIOUS
<1>number. new.cd_din_src = n
  BY DEF Controls, new
<1> HIDE DEF new, info
<1> SUFFICES ASSUME NEW b \in Branches
             PROVE  /\ \A k \in 1..(n + 1) : log'[k].oper.branch /\ log'[k].oper.ip = b
                          => k - 1 <= cd_times'[b].cd_din_src
                    /\ cd_times'[b].cd_din_src > 0 =>
                          \E i \in 1..(n + 1) : /\ i - 1 = cd_times'[b].cd_din_src
                                               /\ log'[i].oper.branch /\ log'[i].oper.ip = b
                                               /\ Carries(log', Released', cd_times'[b].info, i)
  BY <1>1 DEF DepsInv
<1>7. CASE next_oper.branch /\ b = next_oper.ip
  <2>1. cd_times'[b] = new
    BY <1>4, <1>5, <1>7
  <2>2. n + 1 \in 1..(n + 1) /\ (n + 1) - 1 = n /\ \A k \in 1..(n + 1) : k - 1 <= n
    BY <1>1
  <2> QED
    BY <1>number, <1>1, <1>3, <1>6, <1>7, <2>1, <2>2
<1>8. CASE ~(next_oper.branch /\ b = next_oper.ip)
  <2>1. cd_times'[b] = cd_times[b]
    BY <1>4, <1>5, <1>8
  <2>2. ASSUME NEW k \in 1..(n + 1), log'[k].oper.branch, log'[k].oper.ip = b
        PROVE  k - 1 <= cd_times[b].cd_din_src
    <3>1. k \in 1..n
      BY <1>1, <1>8, <2>2
    <3> QED
      BY <1>1, <2>2, <3>1 DEF DepsInv
  <2>3. ASSUME cd_times[b].cd_din_src > 0
        PROVE  \E i \in 1..(n + 1) : /\ i - 1 = cd_times[b].cd_din_src
                                     /\ log'[i].oper.branch /\ log'[i].oper.ip = b
                                     /\ Carries(log', Released', cd_times[b].info, i)
    <3>1. PICK i \in 1..n : /\ i - 1 = cd_times[b].cd_din_src
                            /\ log[i].oper.branch /\ log[i].oper.ip = b
                            /\ Carries(log, Released, cd_times[b].info, i)
      BY <1>1, <2>3 DEF DepsInv
    <3>2. i \in 1..(n + 1) /\ log'[i] = log[i] /\ Released'[i] = Released[i]
      BY <1>1, <1>2
    <3> QED
      BY <3>1, <3>2 DEF Carries
  <2> QED
    BY <2>1, <2>2, <2>3
<1> QED
  BY <1>7, <1>8

\* What update_cdinfo does to the call stack.
LEMMA StackAfter ==
    ASSUME ScheduleInv, NEW n, NEW e, Controls(n, e),
           UpdateControl(next_oper, e.window, e.ready, e.predicted, Preupdated(next_oper))
    PROVE  LET stack == Preupdated(next_oper)
               top == [ip |-> next_oper.next,
                       info |-> BranchInfo(next_oper, e.window, e.ready, e.predicted,
                                           ControlSource(next_oper, stack))]
           IN  /\ dopop' = IsReturn(next_oper, config.x86_translate)
               /\ cdstack' \in Seq(CDItem)
               /\ IF IsCall(next_oper, config.x86_translate)
                  THEN /\ Len(cdstack') = 1 + Len(stack)
                       /\ \A m \in 1..(1 + Len(stack)) :
                             cdstack'[m] = IF m = 1 THEN top ELSE stack[m - 1]
                  ELSE cdstack' = stack
<1> DEFINE o == next_oper
           stack == Preupdated(o)
           info == BranchInfo(o, e.window, e.ready, e.predicted, ControlSource(o, stack))
           top == [ip |-> o.next, info |-> info]
<1>1. /\ o \in Opers /\ CoveredStack(stack) /\ config.respect_control
      /\ e.window \in Nat /\ e.ready \in Nat /\ e.predicted \in BOOLEAN
  BY DEF Controls, Adds, LogEntry
<1>2. stack \in Seq(CDItem)
  BY <1>1 DEF CoveredStack
<1>3. info \in SchedInfo
  BY <1>1, BranchInfoFact
<1>4. top \in CDItem
  <2>1. o.next \in Nat
    BY <1>1, ScheduleAssumption DEF OperType
  <2> HIDE DEF info
  <2> QED
    BY <1>3, <2>1 DEF CDItem
<1>5. o \in OperType /\ config.x86_translate \in BOOLEAN
  BY <1>1, ConfigFact, ScheduleAssumption DEF ConfigType
<1>6. /\ dopop' = IsReturn(o, config.x86_translate)
      /\ cdstack' = IF IsCall(o, config.x86_translate) THEN <<top>> \o stack ELSE stack
  <2>1. CASE ~o.branch
    BY <1>5, <2>1 DEF UpdateControl, IsReturn, IsCall
  <2>2. CASE o.branch
    <3> HIDE DEF info
    <3> QED
      BY <1>1, <1>5, <2>2 DEF UpdateControl, IsReturn, IsCall, Followed, OperType, info
  <2> QED
    BY <2>1, <2>2
<1> HIDE DEF top, stack
<1>7. /\ <<top>> \o stack \in Seq(CDItem) /\ Len(<<top>> \o stack) = 1 + Len(stack)
      /\ \A m \in 1..(1 + Len(stack)) :
            (<<top>> \o stack)[m] = IF m = 1 THEN top ELSE stack[m - 1]
  BY <1>2, <1>4, PushFact
<1> QED
  BY <1>2, <1>6, <1>7 DEF top, stack

\* A call is pushed with what it releases, and a return marks the stack for unwinding.
LEMMA ScheduleNextStack ==
    ASSUME ScheduleInv, DepsInv, StackInv, ReleasedInv, NEW n, NEW e, Controls(n, e),
           e.after = next_oper'.ip,
           UpdateControl(next_oper, e.window, e.ready, e.predicted, Preupdated(next_oper))
    PROVE  StackInv'
<1> DEFINE o == next_oper
           stack == Preupdated(o)
           info == BranchInfo(o, e.window, e.ready, e.predicted, ControlSource(o, stack))
           top == [ip |-> o.next, info |-> info]
<1>1. /\ n \in Nat /\ Len(log') = n + 1 /\ log'[n + 1] = e /\ e.oper = o
      /\ config' = config /\ \A i \in 1..n : log'[i] = log[i]
      /\ CoveredStack(stack)
  BY DEF Controls, Adds
<1>2. \A m \in 1..n : Released'[m] = Released[m]
  BY ScheduleNextReleased DEF Controls
<1>3. Carries(log', Released', info, n + 1)
  BY BranchCarries
<1>4. /\ setjmps' \in Seq(SetjmpEntry) /\ Len(setjmps') \in Nat
      /\ Owned(log, config.x86_translate, setjmps', n, Released, stack, FALSE, o.ip)
  BY StackFound
<1>5. /\ dopop' = IsReturn(o, config.x86_translate)
      /\ cdstack' \in Seq(CDItem)
      /\ IF IsCall(o, config.x86_translate)
         THEN /\ Len(cdstack') = 1 + Len(stack)
              /\ \A m \in 1..(1 + Len(stack)) :
                    cdstack'[m] = IF m = 1 THEN top ELSE stack[m - 1]
         ELSE cdstack' = stack
  BY StackAfter
<1>6. top.ip = o.next /\ top.info = info
  OBVIOUS
<1>7. stack \in Seq(CDItem)
  BY <1>1 DEF CoveredStack
<1> HIDE DEF top, info, stack
<1>8. PICK lg, lg2, rel, rel2 : lg = log /\ lg2 = log' /\ rel = Released /\ rel2 = Released'
  OBVIOUS
<1>9. PICK x, sj, t : x = config.x86_translate /\ sj = setjmps' /\ t = cdstack'
  OBVIOUS
<1>10. Owned(lg, x, sj, n, rel, stack, FALSE, o.ip)
  BY <1>4, <1>8, <1>9
<1>11. lg2[n + 1].oper = o /\ lg2[n + 1].after = next_oper'.ip
  BY <1>1, <1>8
<1>12. SameUpTo(n, lg, lg2) /\ SameUpTo(n, rel, rel2) /\ t \in Seq(CDItem)
  BY <1>1, <1>2, <1>5, <1>8, <1>9 DEF SameUpTo
<1>13. Pushed(n, lg2, rel2, x, stack, t, top)
  BY <1>3, <1>5, <1>6, <1>8, <1>9, <1>11 DEF Pushed
<1>14. Owned(lg2, x, sj, n + 1, rel2, t, IsReturn(lg2[n + 1].oper, x), lg2[n + 1].after)
  <2>1. Len(sj) \in Nat
    BY <1>4, <1>9
  <2> QED
    BY <1>1, <1>7, <1>10, <1>12, <1>13, <2>1, OwnedScheduled
<1>15. dopop' = IsReturn(lg2[n + 1].oper, x)
  BY <1>5, <1>9, <1>11
<1>16. Owned(log', config'.x86_translate, setjmps', n + 1, Released', cdstack', dopop',
             next_oper'.ip)
  BY <1>1, <1>8, <1>9, <1>11, <1>14, <1>15
<1> QED
  BY <1>1, <1>4, <1>16 DEF StackInv

----------------------------------------------------------------------------
(***************************************************************************)
(* A step that schedules nothing: setjmp may be entered by an instruction  *)
(* that does not count.                                                    *)
(***************************************************************************)
Quiet == UNCHANGED <<config, log>> /\ MayEnter

\* It changes neither who governs whom nor what is released.
LEMMA QuietReleased ==
    ASSUME ReleasedInv, log \in Seq(LogEntry), Quiet
    PROVE  /\ ReleasedInv'
           /\ \A m \in Scheduled : Released'[m] = Released[m]
           /\ \A j \in Scheduled : \A i \in 1..(j - 1) : Governs(i, j)' <=> Governs(i, j)
<1> DEFINE gov == [m \in Scheduled |-> Governors(m)]
<1>1. PICK n \in Nat : n = Len(log)
  BY LenProperties
<1>2. /\ Scheduled = 1..n /\ Scheduled' = Scheduled /\ config' = config /\ log' = log
      /\ SamePast(n, log, log', setjmps, setjmps')
  BY <1>1 DEF Quiet, MayEnter, Scheduled, SamePast
<1>3. ASSUME NEW j \in Scheduled, NEW i \in 1..(j - 1)
      PROVE  Governs(i, j)' <=> Governs(i, j)
  <2> DEFINE x == config.x86_translate
  <2>1. /\ Governs(i, j) <=> GovernsIn(log, x, setjmps, i, j)
        /\ Governs(i, j)' <=> GovernsIn(log', x, setjmps', i, j)
    BY <1>2, GovernsIs
  <2> HIDE DEF x
  <2>2. GovernsIn(log', x, setjmps', i, j) <=> GovernsIn(log, x, setjmps, i, j)
    BY <1>2, GovernsSame
  <2> QED
    BY <2>1, <2>2
<1>4. \A m \in Scheduled : Governors(m)' = Governors(m) /\ Governors(m) \subseteq 1..(m - 1)
  BY <1>3 DEF Governors
<1>5. gov' = gov
  BY <1>2, <1>4
<1>6. \A f : HasTimes(f)' <=> HasTimes(f)
  BY <1>2, <1>5 DEF HasTimes
<1>7. \A f : HasTimes(f) <=> Passes(n, gov, log, f)
  BY <1>1 DEF HasTimes
<1>8. \A m \in 1..n : gov[m] \subseteq 1..(m - 1)
  BY <1>2, <1>4
<1> HIDE DEF gov
<1>9. HasTimes(Released)
  BY DEF ReleasedInv
<1>10. (\E f : HasTimes(f))'
  BY <1>6, <1>9
<1>11. ((\E f : HasTimes(f)) => ReleasedInv)'
  BY ReleasedExists, PTL
<1>12. ReleasedInv'
  BY <1>10, <1>11
<1>13. HasTimes(Released)'
  BY <1>12 DEF ReleasedInv
<1>14. Passes(n, gov, log, Released')
  BY <1>2, <1>5, <1>1, <1>13 DEF HasTimes, gov
<1>15. Lengthened(n, gov, log, gov, log)
  BY <1>8 DEF Lengthened
<1>16. \A m \in 1..n : Released'[m] = Released[m]
  BY <1>1, <1>7, <1>9, <1>14, <1>15, PassesKept, n <= n
<1> QED
  BY <1>2, <1>3, <1>12, <1>16

\* Nor the calls that are open.
LEMMA OwnedSame ==
    ASSUME NEW n \in Nat, NEW lg, NEW x, NEW sj, NEW rel, NEW rel2, SameUpTo(n, rel, rel2),
           NEW s \in Seq(CDItem), NEW pending, NEW ip, Owned(lg, x, sj, n, rel, s, pending, ip)
    PROVE  Owned(lg, x, sj, n, rel2, s, pending, ip)
<1>1. ASSUME NEW e \in 1..Len(s)
      PROVE  \E i : FrameOf(lg, x, sj, n, rel2, At(s, e), i, Room(s, e, pending, ip))
  <2>1. PICK i : FrameOf(lg, x, sj, n, rel, At(s, e), i, Room(s, e, pending, ip))
    BY DEF Owned
  <2>2. i \in 1..n /\ rel2[i] = rel[i]
    BY <2>1 DEF FrameOf, SameUpTo
  <2> QED
    BY <2>1, <2>2 DEF FrameOf, Carries
<1> QED
  BY <1>1 DEF Owned

\* Nor what is looked up for a branch.
LEMMA QuietDeps ==
    ASSUME ReleasedInv, DepsInv, log \in Seq(LogEntry), Quiet, cd_times' = cd_times
    PROVE  DepsInv'
<1>1. Scheduled' = Scheduled /\ config' = config /\ log' = log
  BY DEF Quiet, Scheduled
<1>2. \A m \in Scheduled : Released'[m] = Released[m]
  BY QuietReleased
<1> QED
  BY <1>1, <1>2 DEF DepsInv, Carries

\* An instruction that does not count unwinds the stack all the same.
LEMMA SkipNextStack ==
    ASSUME ScheduleInv, ReleasedInv, StackInv, log \in Seq(LogEntry), SkipNext
    PROVE  StackInv'
<1>1. /\ log' = log /\ config' = config /\ dopop' = FALSE
      /\ cdstack' = Preupdated(next_oper) /\ ~PreupdateFails(next_oper)
      /\ EnterSetjmp(next_oper)
  BY DEF SkipNext, tables
<1>2. PICK n \in Nat : n = Len(log)
  BY LenProperties
<1>4. /\ setjmps' \in Seq(SetjmpEntry) /\ Len(setjmps) \in Nat
      /\ IF config.respect_control /\ IsSetjmp(next_oper)
         THEN Entered(n, cdstack[1].ip, setjmps, setjmps')
         ELSE setjmps' = setjmps
  BY <1>1, <1>2, EnterFact DEF StackInv
<1>3. Quiet
  BY <1>1, <1>2, <1>4 DEF Quiet, MayEnter
<1>5. ASSUME config.respect_control
      PROVE  Owned(log, config.x86_translate, setjmps', n, Released', cdstack', FALSE,
                   next_oper'.ip)
  <2>1. next_oper \in Opers
    BY DEF ScheduleInv, TypeOK
  <2>2. Preupdated(next_oper) \in Seq(CDItem)
    BY <1>1, <2>1, PreupdatedCovered DEF CoveredStack
  <2>3. SameUpTo(n, Released, Released')
    BY <1>2, <1>3, QuietReleased DEF SameUpTo, Scheduled
  <2>4. Owned(log, config.x86_translate, setjmps, n, Released, cdstack, dopop, next_oper.ip)
    BY <1>2, <1>5 DEF StackInv
  <2>5. PICK lg, x, sj, rel : /\ lg = log /\ x = config.x86_translate
                              /\ sj = setjmps /\ rel = Released
    OBVIOUS
  <2>6. PICK sj2, rel2, t : sj2 = setjmps' /\ rel2 = Released' /\ t = cdstack'
    OBVIOUS
  <2>7. Owned(lg, x, sj, n, rel, cdstack, dopop, next_oper.ip)
    BY <2>4, <2>5
  <2>8. /\ Len(sj) \in Nat
        /\ IF IsSetjmp(next_oper) THEN Entered(n, cdstack[1].ip, sj, sj2) ELSE sj2 = sj
    BY <1>4, <1>5, <2>5, <2>6
  <2>9. Owned(lg, x, sj2, n, rel, Preupdated(next_oper), FALSE, next_oper.ip)
    BY <1>1, <1>5, <2>7, <2>8, OwnedPreupdated
  <2>10. t = Preupdated(next_oper) /\ t \in Seq(CDItem)
    BY <1>1, <2>2, <2>6
  <2>11. Owned(lg, x, sj2, n, rel, t, FALSE, next_oper.ip)
    BY <2>9, <2>10
  <2>12. SameUpTo(n, rel, rel2)
    BY <2>3, <2>5, <2>6
  <2>13. Owned(lg, x, sj2, n, rel2, t, FALSE, next_oper.ip)
    BY <2>10, <2>11, <2>12, OwnedSame
  <2>14. Owned(lg, x, sj2, n, rel2, t, FALSE, next_oper'.ip)
    BY <2>13 DEF Owned, Room
  <2> QED
    BY <2>5, <2>6, <2>14
<1> QED
  BY <1>1, <1>2, <1>4, <1>5 DEF StackInv

\* What does not touch the stack leaves it, whatever else is told of the instructions.
LEMMA QuietStack ==
    ASSUME ReleasedInv, StackInv, log \in Seq(LogEntry), cdstack \in Seq(CDItem),
           UNCHANGED <<config, log, setjmps, cdstack, dopop, next_oper>>
    PROVE  StackInv'
<1>1. PICK n \in Nat : n = Len(log)
  BY LenProperties
<1>2. Quiet
  BY DEF Quiet, MayEnter
<1>3. ASSUME config.respect_control
      PROVE  Owned(log, config.x86_translate, setjmps, n, Released', cdstack, dopop, next_oper.ip)
  <2>1. SameUpTo(n, Released, Released')
    BY <1>1, <1>2, QuietReleased DEF SameUpTo, Scheduled
  <2>2. Owned(log, config.x86_translate, setjmps, n, Released, cdstack, dopop, next_oper.ip)
    BY <1>1, <1>3 DEF StackInv
  <2>3. PICK rel, rel2 : rel = Released /\ rel2 = Released'
    OBVIOUS
  <2>4. Owned(log, config.x86_translate, setjmps, n, rel2, cdstack, dopop, next_oper.ip)
    BY <2>1, <2>2, <2>3, OwnedSame
  <2> QED
    BY <2>3, <2>4
<1> QED
  BY <1>1, <1>3 DEF StackInv

----------------------------------------------------------------------------
\* What an instruction waits for.

\* Instruction j is held up until t by something it has to wait for.
HeldUntil(j, t) ==
    \/ t = 0
    \/ t = config.communication_latency /\ log[j].window # 0 /\ ReadsInitial(j)
    \/ \E i \in 1..(j - 1) : Delays(i, j, t)

HeldInv == \A j \in Scheduled : \A t : t = Start(j) => HeldUntil(j, t)

\* That is what NoSpuriousDelay says.
LEMMA HeldIs == HeldInv <=> NoSpuriousDelay
BY DEF HeldInv, HeldUntil, NoSpuriousDelay

\* The past does not change.
LEMMA HeldSame ==
    ASSUME NEW j \in Nat, NEW t, HeldUntil(j, t), config' = config,
           \A k \in 1..j : log'[k] = log[k],
           \A i \in 1..(j - 1) : Governs(i, j)' <=> Governs(i, j),
           \A i \in 1..(j - 1) : Released'[i] = Released[i], j > 0
    PROVE  HeldUntil(j, t)'
<1>1. log'[j] = log[j] /\ \A k \in 1..(j - 1) : log'[k] = log[k] /\ k \in 1..j
  OBVIOUS
<1>2. CASE t = 0
  BY <1>2 DEF HeldUntil
<1>3. CASE t = config.communication_latency /\ log[j].window # 0 /\ ReadsInitial(j)
  <2>1. ReadsInitial(j)'
    BY <1>1, <1>3 DEF ReadsInitial
  <2> QED
    BY <1>1, <1>3, <2>1 DEF HeldUntil
<1>4. CASE \E i \in 1..(j - 1) : Delays(i, j, t)
  <2>1. PICK i \in 1..(j - 1) : Delays(i, j, t)
    BY <1>4
  <2>2. /\ log'[i] = log[i] /\ i < j
        /\ \A k \in (i + 1)..(j - 1) : log'[k] = log[k]
    BY <1>1
  <2>3. Feeds(i, j) => Feeds(i, j)'
    BY <1>1, <2>2 DEF Feeds
  <2>4. Travel(i, j)' = Travel(i, j)
    BY <1>1, <2>2 DEF Travel
  <2>5. Between(i, j)' = Between(i, j)
    BY <1>1, <2>2 DEF Between
  <2>6. Mispredicted(i)' <=> Mispredicted(i)
    BY <2>2 DEF Mispredicted
  <2>7. Governs(i, j)' <=> Governs(i, j)
    OBVIOUS
  <2>8. Released'[i] = Released[i]
    OBVIOUS
  <2>9. Delays(i, j, t)'
    <3>1. CASE Feeds(i, j) /\ t = log[i].ready + Travel(i, j)
      BY <2>2, <2>3, <2>4, <3>1 DEF Delays
    <3>2. CASE /\ config.w_num > 0
               /\ log[i].window = log[j].window /\ t = log[i].ready
               /\ config.w_type = "ooo" \/ Cardinality(Between(i, j)) >= WindowSize - 1
      BY <1>1, <2>2, <2>5, <3>2 DEF Delays
    <3>3. CASE /\ config.respect_control /\ config.inorder_branches /\ Mispredicted(i)
               /\ log[i].window = log[j].window /\ t = log[i].ready
      BY <1>1, <2>2, <2>6, <3>3 DEF Delays
    <3>4. CASE /\ config.respect_control /\ Governs(i, j)
               /\ \E r \in Released[i] : t = r + Travel(i, j)
      BY <2>4, <2>7, <2>8, <3>4 DEF Delays
    <3> QED
      BY <2>1, <3>1, <3>2, <3>3, <3>4 DEF Delays
  <2> QED
    BY <2>9 DEF HeldUntil
<1> QED
  BY <1>2, <1>3, <1>4 DEF HeldUntil

\* A value looked up for a register or a byte travels from where it was produced.
LEMMA ReadsWait ==
    ASSUME ScheduleInv, WritersInv, NEW n, NEW e, Adds(n, e), e.oper = next_oper,
           next_oper \in Opers,
           NEW s \in RegSources(next_oper) \cup MemSources(next_oper)
    PROVE  \A t : t = Arrival(s, e.window) => HeldUntil(n + 1, t)'
<1> TAKE t
<1> HAVE t = Arrival(s, e.window)
<1>1. /\ n \in Nat /\ Scheduled = 1..n /\ (n + 1) - 1 = n /\ config' = config
      /\ log'[n + 1] = e /\ \A k \in 1..n : log'[k] = log[k]
  BY DEF Adds, Scheduled
<1>2. t = s.ready + (IF s.thread_id # e.window THEN config.communication_latency ELSE 0)
  BY DEF Arrival
<1>3. config.communication_latency \in Nat
  BY ConfigFact DEF ConfigType
<1>4. ASSUME s = Unwritten, ReadsInitial(n + 1)'
      PROVE  HeldUntil(n + 1, t)'
  <2>1. t = IF e.window # 0 THEN config.communication_latency ELSE 0
    BY <1>2, <1>3, <1>4 DEF Unwritten
  <2> QED
    BY <1>1, <1>4, <2>1 DEF HeldUntil
<1>5. ASSUME NEW i \in 1..n, Produced(s, i), Feeds(i, n + 1)'
      PROVE  HeldUntil(n + 1, t)'
  <2>1. Travel(i, n + 1)' = IF log[i].window # e.window THEN config.communication_latency ELSE 0
    BY <1>1 DEF Travel
  <2>2. t = log'[i].ready + Travel(i, n + 1)'
    BY <1>1, <1>2, <1>5, <2>1 DEF Produced
  <2>3. Delays(i, n + 1, t)'
    BY <1>5, <2>2 DEF Delays
  <2> QED
    BY <1>1, <2>3 DEF HeldUntil
<1>6. CASE s \in RegSources(next_oper)
  <2>1. PICK r \in next_oper.reads \ config.ignore_regs : s = reg_info[r]
    BY <1>6 DEF RegSources
  <2>2. r \in Regs \ config.ignore_regs
    BY ScheduleAssumption DEF OperType
  <2>3. KnownReg(r)
    BY <2>2 DEF WritersInv
  <2>4. CASE \E i \in Scheduled : LastToWrite(i, r) /\ Produced(reg_info[r], i)
    <3>1. PICK i \in 1..n : LastToWrite(i, r) /\ Produced(s, i)
      BY <1>1, <2>1, <2>4
    <3>2. /\ i < n + 1 /\ r \in log'[i].oper.writes
          /\ \A k \in (i + 1)..n : r \notin log'[k].oper.writes
      BY <1>1, <3>1 DEF LastToWrite, Adds
    <3>3. Feeds(i, n + 1)'
      BY <1>1, <2>1, <3>2 DEF Feeds
    <3> QED
      BY <1>5, <3>1, <3>3
  <2>5. CASE reg_info[r] = Unwritten /\ \A k \in Scheduled : r \notin log[k].oper.writes
    <3>1. ReadsInitial(n + 1)'
      BY <1>1, <2>1, <2>5 DEF ReadsInitial
    <3> QED
      BY <1>4, <2>1, <2>5, <3>1
  <2> QED
    BY <2>3, <2>4, <2>5 DEF KnownReg
<1>7. CASE s \in MemSources(next_oper)
  <2>1. PICK b \in next_oper.loads : s = mem_info[b]
    BY <1>7 DEF MemSources
  <2>2. b \in Bytes
    BY ScheduleAssumption DEF OperType
  <2>3. KnownByte(b)
    BY <2>2 DEF WritersInv
  <2>4. CASE \E i \in Scheduled : LastToStore(i, b) /\ Produced(mem_info[b], i)
    <3>1. PICK i \in 1..n : LastToStore(i, b) /\ Produced(s, i)
      BY <1>1, <2>1, <2>4
    <3>2. /\ i < n + 1 /\ b \in log'[i].oper.stores
          /\ \A k \in (i + 1)..n : b \notin log'[k].oper.stores
      BY <1>1, <3>1 DEF LastToStore, Adds
    <3>3. Feeds(i, n + 1)'
      BY <1>1, <2>1, <3>2 DEF Feeds
    <3> QED
      BY <1>5, <3>1, <3>3
  <2>5. CASE mem_info[b] = Unwritten /\ \A k \in Scheduled : b \notin log[k].oper.stores
    <3>1. ReadsInitial(n + 1)'
      BY <1>1, <2>1, <2>5 DEF ReadsInitial
    <3> QED
      BY <1>4, <2>1, <2>5, <3>1
  <2> QED
    BY <2>3, <2>4, <2>5 DEF KnownByte
<1> QED
  BY <1>6, <1>7

\* What a branch releases travels from the window of the branch.
LEMMA ControlWaits ==
    ASSUME ScheduleInv, DepsInv, StackInv, ReleasedInv, NEW n, NEW e, Controls(n, e),
           NEW c \in ControlSource(next_oper, Preupdated(next_oper))
    PROVE  \A t : t = Arrival(c, e.window) => HeldUntil(n + 1, t)'
<1> TAKE t
<1> HAVE t = Arrival(c, e.window)
<1>1. /\ n \in Nat /\ (n + 1) - 1 = n /\ config' = config /\ config.respect_control
      /\ log'[n + 1] = e /\ \A k \in 1..n : log'[k] = log[k]
  BY DEF Controls, Adds
<1>2. PICK i \in 1..n : Carries(log, Released, c, i) /\ Governs(i, n + 1)'
  BY ControlGoverns
<1>3. Released'[i] = Released[i]
  BY ScheduleNextReleased DEF Controls
<1>4. Travel(i, n + 1)' = IF log[i].window # e.window THEN config.communication_latency ELSE 0
  BY <1>1 DEF Travel
<1>5. t = c.ready + (IF c.thread_id # e.window THEN config.communication_latency ELSE 0)
  BY DEF Arrival
<1>6. t = c.ready + Travel(i, n + 1)' /\ c.ready \in Released'[i]
  BY <1>2, <1>3, <1>4, <1>5 DEF Carries
<1>7. Delays(i, n + 1, t)'
  BY <1>1, <1>2, <1>6 DEF Delays
<1> QED
  BY <1>1, <1>7 DEF HeldUntil

\* A window holds up what enters it for one of its instructions.
LEMMA WindowWaits ==
    ASSUME ScheduleInv, SlotsInv, HoldsInv, NEW n, NEW e, Adds(n, e), e.window \in WindowIds
    PROVE  \A t : t = WindowTime(e.window) => HeldUntil(n + 1, t)'
<1> TAKE t
<1> HAVE t = WindowTime(e.window)
<1> DEFINE w == e.window
           head == IF config.w_num = 0 THEN 0 ELSE WindowHead(windows[w])
<1>1. /\ n \in Nat /\ n = Len(log) /\ (n + 1) - 1 = n /\ config' = config /\ Scheduled = 1..n
      /\ log'[n + 1] = e /\ \A k \in 1..n : log'[k] = log[k]
  BY DEF Adds, Scheduled
<1>2. config.w_num \in Nat /\ (config.w_num > 0 => w \in Windows)
  BY ConfigFact DEF Adds
<1>3. mispredicted[w].ready \in Nat /\ head \in Nat
  BY <1>2, HeadTailFact DEF ScheduleInv, TypeOK, SchedInfo, WindowsOrdered
<1>4. t = MAX(head, mispredicted[w].ready)
  BY DEF WindowTime
<1>5. t \in Nat /\ (t = head \/ t = mispredicted[w].ready)
  <2> HIDE DEF head
  <2> QED
    BY <1>3, <1>4 DEF MAX
<1>6. CASE t = mispredicted[w].ready
  <2>1. KnownBranch(w, t)
    BY <1>5, <1>6 DEF HoldsInv
  <2>2. CASE t = 0
    BY <2>2 DEF HeldUntil
  <2>3. CASE /\ config.respect_control /\ config.inorder_branches
             /\ \E i \in Scheduled : Mispredicted(i) /\ log[i].window = w /\ log[i].ready = t
    <3>1. PICK i \in 1..n : Mispredicted(i) /\ log[i].window = w /\ log[i].ready = t
      BY <1>1, <2>3
    <3>2. Delays(i, n + 1, t)'
      BY <1>1, <2>3, <3>1 DEF Delays, Mispredicted
    <3> QED
      BY <1>1, <3>2 DEF HeldUntil
  <2> QED
    BY <2>1, <2>2, <2>3 DEF KnownBranch
<1>7. CASE t = head
  <2>1. CASE config.w_num = 0
    BY <1>7, <2>1 DEF HeldUntil
  <2>2. CASE config.w_num # 0
    <3>1. w \in Windows /\ t = windows[w][1] /\ 1 \in Slots
      BY <1>2, <1>7, <2>2, WindowSizeAssumption DEF WindowHead, Slots
    <3>2. KnownSlot(w, t, 1)
      BY <1>5, <3>1 DEF SlotsInv
    <3>3. CASE t = 0
      BY <3>3 DEF HeldUntil
    <3>4. CASE \E i \in Scheduled :
                  /\ log[i].window = w /\ log[i].ready = t
                  /\ config.w_type = "ooo" \/ Cardinality(Later(w, i)) >= WindowSize - 1
      <4>1. PICK i \in 1..n :
                  /\ log[i].window = w /\ log[i].ready = t
                  /\ config.w_type = "ooo" \/ Cardinality(Later(w, i)) >= WindowSize - 1
        BY <1>1, <3>4
      <4>2. Between(i, n + 1)' = Later(w, i)
        <5>1. \A k \in (i + 1)..n : log'[k] = log[k]
          BY <1>1
        <5> QED
          BY <1>1, <5>1 DEF Between, Later
      <4>3. Delays(i, n + 1, t)'
        BY <1>1, <1>2, <2>2, <4>1, <4>2 DEF Delays
      <4> QED
        BY <1>1, <4>3 DEF HeldUntil
    <3> QED
      BY <3>2, <3>3, <3>4 DEF KnownSlot
  <2> QED
    BY <2>1, <2>2
<1> QED
  BY <1>5, <1>6, <1>7

----------------------------------------------------------------------------
(***************************************************************************)
(* The inductive invariant: every time in a table or a window has a cause  *)
(* in the schedule so far, as the next instruction will see it.            *)
(***************************************************************************)
CauseInv ==
    /\ log \in Seq(LogEntry)
    /\ WritersInv /\ SlotsInv /\ HoldsInv
    /\ ReleasedInv /\ DepsInv /\ StackInv
    /\ HeldInv

\* At the start every time is 0, and there is nothing to explain.
LEMMA InitCause == Init => CauseInv
<1> SUFFICES ASSUME Init PROVE CauseInv
  OBVIOUS
<1>1. log = <<>> /\ log \in Seq(LogEntry) /\ Len(log) = 0 /\ Scheduled = {}
  BY EmptySeq DEF Init, Scheduled
<1>2. WritersInv
  BY <1>1 DEF Init, WritersInv, KnownReg, KnownByte
<1>3. SlotsInv
  <2>1. \A k \in Slots : EmptyWindow[k] = 0
    BY DEF EmptyWindow
  <2> QED
    BY <2>1 DEF Init, SlotsInv, KnownSlot
<1>4. HoldsInv
  BY DEF Init, HoldsInv, KnownBranch, Unwritten
<1>5. ReleasedInv
  <2> DEFINE f == [m \in {} |-> 0]
             gov == [m \in Scheduled |-> Governors(m)]
  <2>1. 1..0 = {}
    OBVIOUS
  <2>2. f = [m \in {} |-> PassedOn(gov, log, f, m)]
    OBVIOUS
  <2> HIDE DEF f, gov
  <2>3. Passes(0, gov, log, f)
    BY <2>1, <2>2 DEF Passes
  <2>4. HasTimes(f)
    BY <1>1, <2>3 DEF HasTimes, gov
  <2> QED
    BY <2>4, ReleasedExists
<1>6. DepsInv
  BY <1>1 DEF Init, DepsInv
<1>7. StackInv
  <2>1. Len(cdstack) = 0 /\ setjmps \in Seq(SetjmpEntry) /\ 1..0 = {}
    BY EmptySeq DEF Init
  <2> QED
    BY <2>1 DEF StackInv, Owned
<1>8. HeldInv
  BY <1>1 DEF HeldInv
<1> QED
  BY <1>1, <1>2, <1>3, <1>4, <1>5, <1>6, <1>7, <1>8 DEF CauseInv

\* What the new instruction waited for is what it has to wait for.
LEMMA ScheduleNextCause == ScheduleInv /\ CountInv /\ CauseInv /\ ScheduleNext => CauseInv'
<1> SUFFICES ASSUME ScheduleInv, CountInv, CauseInv, ScheduleNext PROVE CauseInv'
  OBVIOUS
<1>1. /\ log \in Seq(LogEntry) /\ WritersInv /\ SlotsInv /\ HoldsInv
      /\ ReleasedInv /\ DepsInv /\ StackInv /\ HeldInv /\ EnterSetjmp(next_oper)
  BY DEF CauseInv, ScheduleNext
<1>2. PICK n, e :
        /\ Adds(n, e)
        /\ e.oper = next_oper /\ next_oper \in Opers /\ ~PreupdateFails(next_oper)
        /\ e.window \in WindowIds /\ e.after = next_oper'.ip
        /\ CoveredStack(Preupdated(next_oper))
        /\ \/ e.ready - Latency(next_oper) = WindowTime(e.window)
           \/ \E s \in Sources(next_oper, Preupdated(next_oper)) :
                 e.ready - Latency(next_oper) = Arrival(s, e.window)
        /\ windows' = IF config.w_num = 0 THEN windows
                      ELSE [windows EXCEPT ![e.window] =
                              WindowInsert(config.w_type, windows[e.window], e.ready)]
        /\ UpdateControl(next_oper, e.window, e.ready, e.predicted, Preupdated(next_oper))
  BY <1>1, AddedEntry
<1>3. /\ n \in Nat /\ n = Len(log) /\ log' \in Seq(LogEntry) /\ config' = config
      /\ log'[n + 1] = e /\ \A k \in 1..n : log'[k] = log[k]
      /\ Scheduled = 1..n /\ Scheduled' = 1..(n + 1)
  BY <1>2 DEF Adds, Scheduled
<1>enter. /\ setjmps' \in Seq(SetjmpEntry) /\ MayEnter
  BY <1>1, <1>2, EnterFact DEF MayEnter, StackInv
<1>4. config.respect_control => Controls(n, e)
  BY <1>enter, <1>1, <1>2, <1>3 DEF Controls, CountInv, OpNumbers
<1>5. WritersInv'
  BY <1>1, ScheduleNextWriters
<1>6. SlotsInv'
  BY <1>1, <1>2, ScheduleNextSlotsKnown
<1>7. HoldsInv'
  BY <1>1, <1>2, ScheduleNextHolds
<1>8. ReleasedInv' /\ \A m \in 1..n : Released'[m] = Released[m]
  BY <1>enter, <1>1, <1>2, ScheduleNextReleased
<1>9. DepsInv'
  <2>1. CASE config.respect_control
    BY <1>1, <1>2, <1>4, <2>1, ScheduleNextDeps
  <2>2. CASE ~config.respect_control
    BY <1>3, <2>2 DEF DepsInv
  <2> QED
    BY <2>1, <2>2
<1>10. StackInv'
  <2>1. CASE config.respect_control
    BY <1>1, <1>2, <1>4, <2>1, ScheduleNextStack
  <2>2. CASE ~config.respect_control
    BY <1>enter, <1>3, <2>2 DEF StackInv
  <2> QED
    BY <2>1, <2>2
<1>11. ASSUME NEW t, t = e.ready - Latency(next_oper)
       PROVE  HeldUntil(n + 1, t)'
  <2>1. CASE t = WindowTime(e.window)
    BY <1>1, <1>2, <2>1, WindowWaits
  <2>2. CASE \E s \in Sources(next_oper, Preupdated(next_oper)) : t = Arrival(s, e.window)
    <3>1. PICK s \in Sources(next_oper, Preupdated(next_oper)) : t = Arrival(s, e.window)
      BY <2>2
    <3>2. CASE s \in RegSources(next_oper) \cup MemSources(next_oper)
      BY <1>1, <1>2, <3>1, <3>2, ReadsWait
    <3>3. CASE s \in ControlSource(next_oper, Preupdated(next_oper))
      <4>1. config.respect_control
        BY <3>3 DEF ControlSource
      <4> QED
        BY <1>1, <1>4, <3>1, <3>3, <4>1, ControlWaits
    <3> QED
      BY <3>1, <3>2, <3>3 DEF Sources
  <2> QED
    BY <1>2, <1>11, <2>1, <2>2
<1>12. ASSUME NEW j \in 1..(n + 1), NEW t, t = Start(j)'
       PROVE  HeldUntil(j, t)'
  <2>1. CASE j = n + 1
    <3>1. t = e.ready - Latency(next_oper)
      BY <1>2, <1>3, <1>12, <2>1 DEF Start, LatencyOf, Latency
    <3> QED
      BY <1>11, <2>1, <3>1
  <2>2. CASE j \in 1..n
    <3>1. Start(j)' = Start(j)
      BY <1>3, <2>2 DEF Start, LatencyOf, Latency
    <3>2. HeldUntil(j, t)
      BY <1>1, <1>3, <1>12, <2>2, <3>1 DEF HeldInv
    <3>3. /\ j \in Nat /\ j > 0 /\ \A k \in 1..j : log'[k] = log[k]
          /\ \A i \in 1..(j - 1) : Released'[i] = Released[i]
      BY <1>3, <1>8, <2>2
    <3>4. \A i \in 1..(j - 1) : Governs(i, j)' <=> Governs(i, j)
      BY <1>enter, <1>1, <1>2, <2>2, AddedPast
    <3> QED
      BY <1>3, <3>2, <3>3, <3>4, HeldSame
  <2> QED
    BY <1>3, <2>1, <2>2
<1>13. HeldInv'
  BY <1>3, <1>12 DEF HeldInv
<1> QED
  BY <1>3, <1>5, <1>6, <1>7, <1>8, <1>9, <1>10, <1>13 DEF CauseInv

\* A step that schedules nothing explains as much as before.
LEMMA QuietHeld ==
    ASSUME ReleasedInv, HeldInv, log \in Seq(LogEntry), Quiet
    PROVE  HeldInv'
<1>1. PICK n \in Nat : n = Len(log)
  BY LenProperties
<1>2. Scheduled = 1..n /\ Scheduled' = 1..n /\ config' = config /\ log' = log
  BY <1>1 DEF Quiet, Scheduled
<1>3. /\ \A m \in 1..n : Released'[m] = Released[m]
      /\ \A j \in 1..n : \A i \in 1..(j - 1) : Governs(i, j)' <=> Governs(i, j)
  BY <1>2, QuietReleased
<1>4. ASSUME NEW j \in 1..n, NEW t, t = Start(j)'
      PROVE  HeldUntil(j, t)'
  <2>1. t = Start(j)
    BY <1>2, <1>4 DEF Start, LatencyOf, Latency
  <2>2. HeldUntil(j, t)
    BY <1>2, <2>1 DEF HeldInv
  <2>3. j \in Nat /\ j > 0 /\ \A i \in 1..(j - 1) : i \in 1..n
    OBVIOUS
  <2> QED
    BY <1>2, <1>3, <2>2, <2>3, HeldSame
<1> QED
  BY <1>2, <1>4 DEF HeldInv

\* Every step of the loop keeps the causes.
LEMMA NextCause == ScheduleInv /\ CountInv /\ CauseInv /\ [Next]_vars => CauseInv'
<1> SUFFICES ASSUME ScheduleInv, CountInv, CauseInv, [Next]_vars PROVE CauseInv'
  OBVIOUS
<1>1. /\ log \in Seq(LogEntry) /\ WritersInv /\ SlotsInv /\ HoldsInv
      /\ ReleasedInv /\ DepsInv /\ StackInv /\ HeldInv
  BY DEF CauseInv
<1>2. CASE ScheduleNext
  BY <1>2, ScheduleNextCause
<1>3. ASSUME UNCHANGED <<config, tables>>, Quiet, StackInv'
      PROVE  CauseInv'
  <2>1. /\ log' = log /\ config' = config /\ reg_info' = reg_info /\ mem_info' = mem_info
        /\ windows' = windows /\ mispredicted' = mispredicted /\ cd_times' = cd_times
    BY <1>3 DEF tables
  <2>2. WritersInv'
    BY <1>1, <2>1 DEF WritersInv, KnownReg, KnownByte, LastToWrite, LastToStore, Produced,
                      Scheduled
  <2>3. SlotsInv'
    <3>1. \A w, i : Later(w, i)' = Later(w, i)
      BY <2>1 DEF Later
    <3>2. ASSUME NEW w, NEW t, NEW k, KnownSlot(w, t, k)
          PROVE  KnownSlot(w, t, k)'
      <4>1. \A i : Cardinality(Later(w, i))' = Cardinality(Later(w, i))
        BY <3>1
      <4> QED
        BY <2>1, <3>2, <4>1 DEF KnownSlot, Scheduled
    <3> QED
      BY <1>1, <2>1, <3>2 DEF SlotsInv, Windows
  <2>4. HoldsInv'
    BY <1>1, <2>1 DEF HoldsInv, KnownBranch, Mispredicted, Scheduled, WindowIds, Windows
  <2>5. ReleasedInv' /\ DepsInv' /\ HeldInv'
    BY <1>1, <1>3, <2>1, QuietReleased, QuietDeps, QuietHeld
  <2> QED
    BY <1>1, <1>3, <2>1, <2>2, <2>3, <2>4, <2>5 DEF CauseInv
<1>4. CASE SkipNext
  <2>1. UNCHANGED <<config, tables>> /\ Quiet
    BY <1>1, <1>4, EnterFact DEF SkipNext, StackInv, Quiet, MayEnter, tables
  <2>2. StackInv'
    BY <1>1, <1>4, SkipNextStack
  <2> QED
    BY <1>3, <2>1, <2>2
<1>5. CASE UNCHANGED <<config, next_oper, tables, cdstack, dopop, setjmps>>
  <2>1. UNCHANGED <<config, tables>> /\ Quiet
    BY <1>5 DEF Quiet, MayEnter, tables
  <2>2. UNCHANGED <<config, log, setjmps, cdstack, dopop, next_oper>>
    BY <1>5 DEF tables
  <2>3. StackInv'
    BY <1>1, <2>2, QuietStack DEF ScheduleInv, TypeOK
  <2> QED
    BY <1>3, <2>1, <2>3
<1> QED
  BY <1>2, <1>4, <1>5 DEF Next, Abort, EndOfTrace, vars

(***************************************************************************)
(* Nothing delays an instruction without a cause, whatever the trace, the  *)
(* windows and the command line: it starts at cycle 0 or at the very       *)
(* moment something it has to wait for arrives.  No table keeps a time     *)
(* longer than it matters, no call holds up what runs after it has         *)
(* returned, and a predicted branch holds up nothing by itself.            *)
(***************************************************************************)
THEOREM NoSpuriousDelayHolds == Spec => []NoSpuriousDelay
<1>1. Init => ScheduleInv /\ CountInv /\ CauseInv
  BY InitScheduleInv, InitCountInv, InitCause
<1>2. (ScheduleInv /\ CountInv /\ CauseInv) /\ [Next]_vars
         => (ScheduleInv /\ CountInv /\ CauseInv)'
  BY NextScheduleInv, NextCountInv, NextCause
<1>3. CauseInv => NoSpuriousDelay
  BY HeldIs DEF CauseInv
<1> QED
  BY <1>1, <1>2, <1>3, PTL DEF Spec
============================================================================
