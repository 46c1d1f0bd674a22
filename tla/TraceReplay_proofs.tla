-------------------------- MODULE TraceReplay_proofs --------------------------
(***************************************************************************)
(* A trace of any length, of any instructions, with any hash functions and *)
(* any size of the tables, is read back as it was written.                 *)
(***************************************************************************)
EXTENDS TraceReplay, FiniteSetTheorems, TLAPS

(***************************************************************************)
(* Complete induction up to n, with a set in the place of a predicate:     *)
(* of the intervals up to a number that is not in it, none is the least.   *)
(***************************************************************************)
LEMMA IntervalInduction ==
    ASSUME NEW a \in Nat, NEW n \in Nat, NEW G,
           \A m \in a..n : a..(m - 1) \subseteq G => m \in G
    PROVE  a..n \subseteq G
  <1> DEFINE Bad == (a..n) \ G
             Downs == {a..m : m \in Bad}
  <1> SUFFICES ASSUME Bad # {} PROVE FALSE
    OBVIOUS
  <1>1. IsWellFoundedOn(StrictSubsetOrdering(a..n), FiniteSubsetsOf(a..n))
    BY FS_StrictSubsetOrderingWellFounded
  <1>2. Downs \subseteq FiniteSubsetsOf(a..n) /\ Downs # {}
    <2>1. \A m \in Bad : a..m \subseteq a..n /\ IsFiniteSet(a..m)
      BY FS_Interval
    <2> HIDE DEF Bad
    <2> QED BY <2>1 DEF FiniteSubsetsOf
  <1>3. PICK D \in Downs : \A E \in Downs : ~ (<<E, D>> \in StrictSubsetOrdering(a..n))
    <2> HIDE DEF Downs
    <2> QED BY <1>1, <1>2, WFMin
  <1>4. PICK m \in Bad : D = a..m
    OBVIOUS
  <1>5. ASSUME NEW k \in a..(m - 1) PROVE k \in G
    <2> SUFFICES ASSUME k \notin G PROVE FALSE
      OBVIOUS
    <2>1. k \in Bad
      OBVIOUS
    <2>2. a..k \in Downs
      BY <2>1
    <2>3. a..k \subseteq a..m /\ a..k # a..m /\ a..m \subseteq a..n
      <3>1. m \in a..m /\ m \notin a..k
        OBVIOUS
      <3>2. a..k # a..m
        BY <3>1
      <3>3. a..k \subseteq a..m
        OBVIOUS
      <3>4. a..m \subseteq a..n
        OBVIOUS
      <3> QED BY <3>2, <3>3, <3>4
    <2> QED BY <1>3, <1>4, <2>2, <2>3 DEF StrictSubsetOrdering
  <1> QED BY <1>4, <1>5

(***************************************************************************)
(* A line has one target that is the last of the most frequent.            *)
(***************************************************************************)
AtMost(f, j, k) == f[j] < f[k] \/ (f[j] = f[k] /\ j <= k)

LEMMA AMostFrequent ==
    ASSUME NEW n \in Nat \ {0}, NEW f \in [1..n -> Nat]
    PROVE  \E k \in 1..n : \A j \in 1..n : AtMost(f, j, k)
  <1> DEFINE G == {m \in 1..n : \E k \in 1..m : \A j \in 1..m : AtMost(f, j, k)}
  <1>1. ASSUME NEW m \in 1..n, 1..(m - 1) \subseteq G
        PROVE  m \in G
    <2>1. CASE m = 1
      <3>1. \A j \in 1..1 : AtMost(f, j, 1)
        BY DEF AtMost
      <3> QED BY <2>1, <3>1
    <2>2. CASE m # 1
      <3>1. PICK k \in 1..(m - 1) : \A j \in 1..(m - 1) : AtMost(f, j, k)
        <4>1. m - 1 \in 1..(m - 1)
          BY <2>2
        <4>2. m - 1 \in G
          BY <1>1, <4>1
        <4> QED BY <4>2
      <3>2. \A j \in 1..m : j \in 1..(m - 1) \/ j = m
        OBVIOUS
      <3>3. k \in 1..n /\ f[k] \in Nat /\ f[m] \in Nat
        BY <3>1
      <3>4. \A j \in 1..(m - 1) : f[j] \in Nat
        OBVIOUS
      <3>5. CASE f[m] >= f[k]
        <4>1. \A j \in 1..m : AtMost(f, j, m)
          BY <3>1, <3>2, <3>3, <3>4, <3>5 DEF AtMost
        <4> QED BY <4>1
      <3>6. CASE f[m] < f[k]
        <4>1. \A j \in 1..m : AtMost(f, j, k)
          BY <3>1, <3>2, <3>3, <3>6 DEF AtMost
        <4> QED BY <3>1, <4>1
      <3> QED BY <3>3, <3>5, <3>6
    <2> QED BY <2>1, <2>2
  <1> HIDE DEF G
  <1>2. 1..n \subseteq G
    BY <1>1, IntervalInduction
  <1>3. n \in G
    BY <1>2
  <1> QED BY <1>3 DEF G

LEMMA MostFrequentIsHeaviest ==
    ASSUME NEW ip \in DOMAIN annotations, NEW target
    PROVE  MostFrequent(annotations[ip]) = target <=> Heaviest(ip, target)
  <1> DEFINE line == annotations[ip]
             n == Len(line)
             f == [p \in 1..n |-> line[p].frequency]
             Best(k) == \A j \in 1..n : AtMost(f, j, k)
             best == CHOOSE k \in 1..n : Best(k)
  <1>1. n \in Nat \ {0} /\ f \in [1..n -> Nat]
    BY PredictionAssumption DEF PredictionAssumption
  <1>2. MostFrequent(line) = line[best].target
    BY DEF MostFrequent, AtMost
  <1>3. \A k \in 1..n : Best(k) <=>
           \A q \in 1..n : q # k => line[q].frequency <
                               line[k].frequency + (IF q < k THEN 1 ELSE 0)
    <2> SUFFICES ASSUME NEW k \in 1..n
                 PROVE  Best(k) <=> \A q \in 1..n : q # k =>
                            f[q] < f[k] + (IF q < k THEN 1 ELSE 0)
      OBVIOUS
    <2> HIDE DEF f
    <2>1. ASSUME NEW q \in 1..n
          PROVE  AtMost(f, q, k) <=> (q # k => f[q] < f[k] + (IF q < k THEN 1 ELSE 0))
      <3>1. f[q] \in Nat /\ f[k] \in Nat /\ q \in Nat /\ k \in Nat
        BY <1>1
      <3> QED BY <3>1 DEF AtMost
    <2> QED BY <2>1
  <1>4. \E k \in 1..n : Best(k)
    <2> HIDE DEF n, f
    <2> QED BY <1>1, AMostFrequent
  <1>5. ASSUME NEW j \in 1..n, NEW k \in 1..n, Best(j), Best(k)
        PROVE  j = k
    <2> HIDE DEF f
    <2>1. f[j] \in Nat /\ f[k] \in Nat /\ AtMost(f, j, k) /\ AtMost(f, k, j)
      BY <1>1, <1>5
    <2> QED BY <2>1 DEF AtMost
  <1>6. Heaviest(ip, target) <=> \E k \in 1..n : line[k].target = target /\ Best(k)
    BY <1>3 DEF Heaviest
  <1> HIDE DEF Best, n
  <1>7. best \in 1..n /\ Best(best)
    BY <1>4
  <1> HIDE DEF best
  <1>8. Heaviest(ip, target) <=> line[best].target = target
    BY <1>5, <1>6, <1>7
  <1> QED BY <1>2, <1>8

-----------------------------------------------------------------------------
USE CodecAssumption, TraceAssumption

(***************************************************************************)
(* Unsigned differences can be added up again.                             *)
(***************************************************************************)
LEMMA WrapAround ==
    ASSUME NEW a \in Word, NEW b \in Word
    PROVE  /\ Minus(a, b) \in Word /\ Plus(a, b) \in Word
           /\ Plus(Minus(a, b), b) = a
  BY DEF Word, Minus, Plus

(***************************************************************************)
(* Stride stays within a word, and a row within the table.                 *)
(***************************************************************************)
LEMMA StrideType ==
    ASSUME NEW f \in Fields, NEW p \in Predictor(f), NEW i \in Rows, NEW v \in Word
    PROVE  Stride(f, p, i, v) \in Word
  <1>1. p.lv[i] \in Word
    BY DEF Predictor
  <1> QED BY <1>1, WrapAround DEF Stride

LEMMA RowType ==
    ASSUME NEW f \in Fields, NEW id \in Nat
    PROVE  Row(f, id) \in Rows
  BY DEF Row, Rows

(***************************************************************************)
(* Learning keeps the types of the tables, and leaves the counts alone.    *)
(***************************************************************************)
LEMMA LearnType ==
    ASSUME NEW f \in Fields, NEW p \in Predictor(f), NEW i \in Rows, NEW v \in Word
    PROVE  Learn(f, p, i, v) \in Predictor(f)
  <1> DEFINE s == Stride(f, p, i, v)
             old == p.fhash[i]
             row == Guess(p, i)
             newRow == IF row[0] = s THEN row
                       ELSE [j \in Guesses(f) |-> IF j = 0 THEN s ELSE row[j - 1]]
             newOld == [j \in 0..2 |-> IF j = 0 THEN hash[s]
                                       ELSE mix[<<old[j - 1], hash[s]>>]]
             newLast == IF f \in Strided THEN v ELSE p.lv[i]
  <1>1. s \in Word
    BY StrideType
  <1>2. old \in [0..2 -> Contexts] /\ old[2] \in Contexts
    BY DEF Predictor
  <1>3. row \in [Guesses(f) -> Word]
    BY <1>2 DEF Predictor, Guess
  <1>4. newRow \in [Guesses(f) -> Word]
    <2>1. ASSUME NEW j \in Guesses(f), j # 0
          PROVE  row[j - 1] \in Word
      BY <2>1, <1>3 DEF Guesses
    <2> QED BY <2>1, <1>1, <1>3
  <1>5. newOld \in [0..2 -> Contexts]
    <2>1. ASSUME NEW j \in 0..2, j # 0
          PROVE  mix[<<old[j - 1], hash[s]>>] \in Contexts
      <3>1. old[j - 1] \in Contexts
        BY <2>1, <1>2
      <3>2. hash[s] \in Contexts
        BY <1>1
      <3> QED BY <3>1, <3>2
    <2>2. hash[s] \in Contexts
      BY <1>1
    <2> QED BY <2>1, <2>2
  <1>6. newLast \in Word
    BY DEF Predictor
  <1>7. Learn(f, p, i, v) = [p EXCEPT !.fcm2[old[2]] = newRow, !.fhash[i] = newOld,
                                      !.lv[i] = newLast]
    BY DEF Learn
  <1> HIDE DEF s, row, newRow, newOld, newLast, old
  <1>8. p = [fhash |-> p.fhash, fcm2 |-> p.fcm2, lv |-> p.lv, usecnt |-> p.usecnt]
    BY DEF Predictor
  <1>9. Learn(f, p, i, v) = [fhash |-> [p.fhash EXCEPT ![i] = newOld],
                             fcm2 |-> [p.fcm2 EXCEPT ![old[2]] = newRow],
                             lv |-> [p.lv EXCEPT ![i] = newLast],
                             usecnt |-> p.usecnt]
    BY <1>7, <1>8
  <1>10. [p.fhash EXCEPT ![i] = newOld] \in [Rows -> [0..2 -> Contexts]]
    BY <1>5 DEF Predictor
  <1>11. [p.fcm2 EXCEPT ![old[2]] = newRow] \in [Contexts -> [Guesses(f) -> Word]]
    BY <1>4 DEF Predictor
  <1>12. [p.lv EXCEPT ![i] = newLast] \in [Rows -> Word]
    BY <1>6 DEF Predictor
  <1> QED BY <1>9, <1>10, <1>11, <1>12 DEF Predictor

LEMMA EncodedType ==
    ASSUME NEW f \in Fields, NEW p \in Predictor(f), NEW i \in Rows, NEW v \in Word
    PROVE  Encoded(f, p, i, v) \in Predictor(f)
  <1>1. Learn(f, p, i, v) \in Predictor(f)
    BY LearnType
  <1>2. Code(f, p, i, v) \in Guesses(f) \cup {Literal(f)}
    BY DEF Code, Guesses
  <1>3. Guesses(f) \cup {Literal(f)} \subseteq Nat
    BY DEF Guesses, Literal
  <1> DEFINE q == Learn(f, p, i, v)
             c == Code(f, p, i, v)
  <1>4. /\ q = [fhash |-> q.fhash, fcm2 |-> q.fcm2, lv |-> q.lv, usecnt |-> q.usecnt]
        /\ q.usecnt \in [Guesses(f) \cup {Literal(f)} -> Nat]
    BY <1>1 DEF Predictor
  <1>5. [q.usecnt EXCEPT ![c] = @ + 1] \in [Guesses(f) \cup {Literal(f)} -> Nat]
    BY <1>2, <1>4
  <1>6. Encoded(f, p, i, v) = [q EXCEPT !.usecnt[c] = @ + 1]
    BY DEF Encoded
  <1> HIDE DEF q, c
  <1>7. Encoded(f, p, i, v) =
            [q EXCEPT !.usecnt = [q.usecnt EXCEPT ![c] = @ + 1]]
    BY <1>4, <1>6
  <1> QED BY <1>1, <1>5, <1>7 DEF Predictor, q

(***************************************************************************)
(* Both sides learn the same from the same value.                          *)
(***************************************************************************)
LEMMA LearnAlike ==
    ASSUME NEW f \in Fields, NEW p \in Predictor(f), NEW q \in Predictor(f),
           NEW i \in Rows, NEW v \in Word, SameTables(q, p)
    PROVE  SameTables(Learn(f, q, i, v), Encoded(f, p, i, v))
  <1>1. Stride(f, q, i, v) = Stride(f, p, i, v) /\ Guess(q, i) = Guess(p, i)
    BY DEF SameTables, Stride, Guess
  <1>2. SameTables(Learn(f, q, i, v), Learn(f, p, i, v))
    BY <1>1 DEF Learn, SameTables, Predictor
  <1>3. Learn(f, p, i, v) \in Predictor(f)
    BY LearnType
  <1>4. SameTables(Learn(f, p, i, v), Encoded(f, p, i, v))
    BY <1>3 DEF Encoded, SameTables, Predictor
  <1> QED BY <1>2, <1>4 DEF SameTables

(***************************************************************************)
(* F0..F7Decode undoes F0..F7Encode, as long as the tables are the same.   *)
(***************************************************************************)
THEOREM RoundTrip ==
    ASSUME NEW f \in Fields, NEW p \in Predictor(f), NEW q \in Predictor(f),
           NEW i \in Rows, NEW v \in Word, SameTables(q, p)
    PROVE  Decode(f, q, i, Encode(f, p, i, v)) = v
  <1> DEFINE s == Stride(f, p, i, v)
             c == Code(f, p, i, v)
  <1>1. Guess(q, i) = Guess(p, i) /\ q.lv[i] = p.lv[i] /\ p.lv[i] \in Word
    BY DEF SameTables, Guess, Predictor
  <1>2. CASE c = Literal(f)
    BY <1>2 DEF Encode, Decode
  <1>3. CASE c # Literal(f)
    <2>1. c \in Guesses(f) /\ Guess(p, i)[c] = s
      BY <1>3 DEF Code, Guesses
    <2>2. f \in Strided => Plus(s, p.lv[i]) = v
      BY <1>1, WrapAround DEF Stride
    <2>3. f \notin Strided => s = v
      BY DEF Stride
    <2>4. Encode(f, p, i, v).code = c
      BY DEF Encode
    <2> QED BY <1>1, <1>3, <2>1, <2>2, <2>3, <2>4 DEF Decode
  <1> QED BY <1>2, <1>3

-----------------------------------------------------------------------------
(***************************************************************************)
(* What the files hold, told from the tables as they were: every record is *)
(* packed by the tables its writer had, of values its instruction has.     *)
(***************************************************************************)
Tables == {e \in [Fields -> UNION {Predictor(f) : f \in Fields}] :
              \A f \in Fields : e[f] \in Predictor(f)}
Values == UNION {[S -> Word] : S \in SUBSET Fields}

Item == [code : Nat, literal : Word]
Records == UNION {[S -> Item] : S \in SUBSET Fields}

FieldsWritten(soper) == IF soper = Link THEN LinkFields ELSE FieldsOf(soper)

Describes(table, vals) ==
    /\ vals \in Values /\ "oper_id" \in DOMAIN vals
    /\ vals["oper_id"] < Len(table)
    /\ DOMAIN vals = FieldsWritten(table[vals["oper_id"] + 1])

Coded(table, es, rs, ss) ==
    /\ table \in Seq(Ips \cup {Link}) /\ Len(table) <= Modulus
    /\ ss \in Seq(Values) /\ Len(rs) = Len(ss)
    /\ rs \in Seq(Records)
    /\ es \in Seq(Tables) /\ Len(es) = Len(ss) + 1
    /\ \A k \in 1..Len(ss) : /\ Describes(table, ss[k])
                              /\ rs[k] = Packed(es[k], ss[k])
                              /\ es[k + 1] = Trained(es[k], ss[k])

(***************************************************************************)
(* Packing a record and training the tables keep the types.                *)
(***************************************************************************)
LEMMA TrainedType ==
    ASSUME NEW e \in Tables, NEW vals \in Values, "oper_id" \in DOMAIN vals
    PROVE  Trained(e, vals) \in Tables
  <1>1. /\ DOMAIN vals \subseteq Fields
        /\ \A f \in DOMAIN vals : vals[f] \in Word
    BY DEF Values
  <1>2. vals["oper_id"] \in Nat
    BY <1>1 DEF Word
  <1>3. ASSUME NEW f \in Fields
        PROVE  Trained(e, vals)[f] \in Predictor(f)
    <2>1. e[f] \in Predictor(f)
      BY DEF Tables
    <2>2. Row(f, vals["oper_id"]) \in Rows
      BY <1>2, RowType
    <2>3. CASE f \in DOMAIN vals
      BY <2>1, <2>2, <2>3, <1>1, EncodedType DEF Trained
    <2>4. CASE f \notin DOMAIN vals
      BY <2>1, <2>4 DEF Trained
    <2> QED BY <2>3, <2>4
  <1>4. Trained(e, vals) = [f \in Fields |-> Trained(e, vals)[f]]
    BY DEF Trained
  <1> HIDE DEF Trained
  <1>5. \A f \in Fields : Trained(e, vals)[f] \in UNION {Predictor(g) : g \in Fields}
    BY <1>3
  <1>6. Trained(e, vals) \in [Fields -> UNION {Predictor(g) : g \in Fields}]
    BY <1>4, <1>5
  <1> QED BY <1>3, <1>6 DEF Tables

LEMMA EncodeType ==
    ASSUME NEW f \in Fields, NEW p, NEW i, NEW v \in Word
    PROVE  Encode(f, p, i, v) \in Item
  <1>1. Code(f, p, i, v) \in Nat
    BY DEF Code, Literal
  <1>2. 0 \in Word
    BY DEF Word
  <1> QED BY <1>1, <1>2 DEF Encode, Item

LEMMA PackedType ==
    ASSUME NEW e \in Tables, NEW vals \in Values, "oper_id" \in DOMAIN vals
    PROVE  Packed(e, vals) \in Records
  <1>1. /\ DOMAIN vals \subseteq Fields
        /\ \A f \in DOMAIN vals : vals[f] \in Word
    BY DEF Values
  <1>2. \A f \in DOMAIN vals :
           Encode(f, e[f], Row(f, vals["oper_id"]), vals[f]) \in Item
    BY <1>1, EncodeType
  <1>3. Packed(e, vals) \in [DOMAIN vals -> Item]
    BY <1>2 DEF Packed
  <1> QED BY <1>1, <1>3 DEF Records

(***************************************************************************)
(* The number of an instruction that is known is a word, and is its entry. *)
(***************************************************************************)
LEMMA IdOfType ==
    ASSUME NEW ip, Known(ip), oper_table \in Seq(Ips \cup {Link}),
           Len(oper_table) <= Modulus
    PROVE  /\ IdOf(ip) \in Word /\ IdOf(ip) < Len(oper_table)
           /\ oper_table[IdOf(ip) + 1] = ip
  <1> DEFINE k == CHOOSE k \in 1..Len(oper_table) : oper_table[k] = ip
  <1>1. k \in 1..Len(oper_table) /\ oper_table[k] = ip
    BY DEF Known
  <1>2. IdOf(ip) = k - 1
    BY DEF IdOf
  <1> HIDE DEF k
  <1> QED BY <1>1, <1>2 DEF Word

LEMMA ValuesDescribed ==
    ASSUME NEW d \in Dynamics, Known(d.ip), oper_table \in Seq(Ips \cup {Link}),
           Len(oper_table) <= Modulus
    PROVE  Describes(oper_table, ValuesOf(d))
  <1>1. /\ d.ip \in Ips /\ d.ip # Link
        /\ d.vals \in [operands[d.ip] \cup {"attr"} -> Word]
        /\ operands[d.ip] \subseteq Fields /\ "oper_id" \notin operands[d.ip]
    BY DEF TraceAssumption
  <1>2. /\ IdOf(d.ip) \in Word /\ IdOf(d.ip) < Len(oper_table)
        /\ oper_table[IdOf(d.ip) + 1] = d.ip
    BY IdOfType
  <1>3. /\ DOMAIN ValuesOf(d) = operands[d.ip] \cup {"attr", "oper_id"}
        /\ ValuesOf(d)["oper_id"] = IdOf(d.ip)
    BY <1>1 DEF ValuesOf
  <1>4. DOMAIN ValuesOf(d) \subseteq Fields
    BY <1>1, <1>3 DEF TraceAssumption
  <1>5. ValuesOf(d) \in [DOMAIN ValuesOf(d) -> Word]
    BY <1>1, <1>2, <1>3 DEF ValuesOf
  <1>6. DOMAIN ValuesOf(d) = FieldsWritten(oper_table[ValuesOf(d)["oper_id"] + 1])
    BY <1>1, <1>2, <1>3 DEF FieldsWritten, FieldsOf
  <1> QED BY <1>2, <1>3, <1>4, <1>5, <1>6 DEF Describes, Values

(***************************************************************************)
(* A record more, and static instructions more.                            *)
(***************************************************************************)
LEMMA CodedAppend ==
    ASSUME NEW table, NEW es, NEW rs, NEW ss, NEW vals,
           Coded(table, es, rs, ss), Describes(table, vals)
    PROVE  LET e == es[Len(es)]
           IN  Coded(table, Append(es, Trained(e, vals)),
                     Append(rs, Packed(e, vals)), Append(ss, vals))
  <1> DEFINE e == es[Len(es)]
             es1 == Append(es, Trained(e, vals))
             rs1 == Append(rs, Packed(e, vals))
             ss1 == Append(ss, vals)
             n == Len(ss)
  <1>1. /\ vals \in Values /\ "oper_id" \in DOMAIN vals
        /\ es \in Seq(Tables) /\ rs \in Seq(Records) /\ ss \in Seq(Values)
        /\ Len(es) = n + 1 /\ Len(rs) = n /\ n \in Nat
    BY DEF Coded, Describes
  <1>2. e \in Tables
    BY <1>1
  <1>3. Trained(e, vals) \in Tables /\ Packed(e, vals) \in Records
    BY <1>1, <1>2, TrainedType, PackedType
  <1> HIDE DEF e
  <1>4. /\ es1 \in Seq(Tables) /\ Len(es1) = n + 2
        /\ \A k \in 1..(n + 1) : es1[k] = es[k]
        /\ es1[n + 2] = Trained(e, vals)
    BY <1>1, <1>3
  <1>5. /\ rs1 \in Seq(Records) /\ Len(rs1) = n + 1
        /\ \A k \in 1..n : rs1[k] = rs[k]
        /\ rs1[n + 1] = Packed(e, vals)
    BY <1>1, <1>3
  <1>6. /\ ss1 \in Seq(Values) /\ Len(ss1) = n + 1
        /\ \A k \in 1..n : ss1[k] = ss[k]
        /\ ss1[n + 1] = vals
    BY <1>1
  <1>7. e = es[n + 1]
    BY <1>1 DEF e
  <1> HIDE DEF es1, rs1, ss1
  <1>8. ASSUME NEW k \in 1..(n + 1)
        PROVE  /\ Describes(table, ss1[k])
               /\ rs1[k] = Packed(es1[k], ss1[k])
               /\ es1[k + 1] = Trained(es1[k], ss1[k])
    <2>1. CASE k \in 1..n
      <3>1. k + 1 \in 1..(n + 1)
        BY <2>1, <1>1
      <3> QED BY <2>1, <3>1, <1>4, <1>5, <1>6 DEF Coded
    <2>2. CASE k = n + 1
      <3>1. k + 1 = n + 2
        BY <2>2, <1>1
      <3> QED BY <2>2, <3>1, <1>4, <1>5, <1>6, <1>7
    <2> QED BY <2>1, <2>2, <1>1
  <1>9. Coded(table, es1, rs1, ss1)
    BY <1>4, <1>5, <1>6, <1>8, <1>1 DEF Coded
  <1> QED BY <1>9 DEF e, es1, rs1, ss1

LEMMA CodedTable ==
    ASSUME NEW table, NEW es, NEW rs, NEW ss, NEW more \in Seq(Ips \cup {Link}),
           Coded(table, es, rs, ss), Len(table) + Len(more) <= Modulus
    PROVE  Coded(table \o more, es, rs, ss)
  <1> DEFINE wider == table \o more
  <1>1. table \in Seq(Ips \cup {Link}) /\ Len(table) \in Nat
    BY DEF Coded
  <1>2. /\ wider \in Seq(Ips \cup {Link}) /\ Len(wider) = Len(table) + Len(more)
        /\ Len(wider) \in Nat /\ Len(wider) >= Len(table)
        /\ \A k \in 1..Len(table) : wider[k] = table[k]
    BY <1>1
  <1> HIDE DEF wider
  <1>3. ASSUME NEW vals, Describes(table, vals)
        PROVE  Describes(wider, vals)
    <2>1. vals["oper_id"] \in Nat
      BY <1>3 DEF Describes, Values, Word
    <2>2. vals["oper_id"] + 1 \in 1..Len(table)
      BY <2>1, <1>1, <1>3 DEF Describes
    <2>3. vals["oper_id"] < Len(wider)
      BY <2>1, <2>2, <1>1, <1>2
    <2> QED BY <2>2, <2>3, <1>2, <1>3 DEF Describes
  <1>4. Coded(wider, es, rs, ss)
    BY <1>2, <1>3 DEF Coded
  <1> QED BY <1>4 DEF wider

-----------------------------------------------------------------------------
(***************************************************************************)
(* The inductive invariant: the files are coded by the writer's tables;    *)
(* what was read is what was written, and the reader's tables are those of *)
(* the writer at that place.                                               *)
(***************************************************************************)
Read1 == decoded \in Seq(Values) /\ dec \in Tables

\* Only what a tracer left on exit gets a reader past the program file.
ProgramInv ==
    /\ tracer = "running" => reader = "new"
    /\ program = IF tracer = "exited" THEN oper_table ELSE <<>>
    /\ reader \notin {"new", "refused"} => program = oper_table

CodecInv ==
    /\ Coded(oper_table, encs, records, sent)
    /\ Read1 /\ ProgramInv
    /\ Lossless /\ InStep

LEMMA FreshType == TCgen_Init \in Tables
  <1>1. ASSUME NEW f \in Fields
        PROVE  Fresh(f) \in Predictor(f)
    <2>1. 0 \in Word /\ 0 \in Contexts /\ Guesses(f) \subseteq Word
      BY DEF Word, Guesses
    <2> QED BY <2>1 DEF Fresh, Predictor
  <1>2. TCgen_Init = [f \in Fields |-> Fresh(f)]
    BY DEF TCgen_Init
  <1> QED BY <1>1, <1>2 DEF Tables

LEMMA InitCodec == Init => CodecInv
  <1> SUFFICES ASSUME Init PROVE CodecInv
    OBVIOUS
  <1> USE DEF Init, TraceInit
  <1>1. Coded(oper_table, encs, records, sent)
    BY FreshType DEF Coded
  <1>2. Read1
    BY FreshType DEF Read1
  <1>3. Lossless
    BY DEF Lossless, pos
  <1>4. InStep
    <2>1. pos = 0 /\ encs[pos + 1] = TCgen_Init /\ dec = TCgen_Init
      BY DEF pos
    <2> QED BY <2>1 DEF InStep, SameTables
  <1>5. ProgramInv
    BY DEF ProgramInv
  <1> QED BY <1>1, <1>2, <1>3, <1>4, <1>5 DEF CodecInv

(***************************************************************************)
(* The writer only adds to what is there.                                  *)
(***************************************************************************)
LEMMA WriterAdds ==
    ASSUME CodecInv, tracer = "running", UNCHANGED <<tracer, program, readerVars>>,
           Coded(oper_table', encs', records', sent'),
           Len(sent') >= Len(sent),
           \A k \in 1..Len(sent) : sent'[k] = sent[k],
           \A k \in 1..(Len(sent) + 1) : encs'[k] = encs[k]
    PROVE  CodecInv'
  <1> USE DEF readerVars
  <1>1. pos \in Nat /\ pos <= Len(sent) /\ Len(sent) \in Nat /\ pos' = pos
    BY DEF CodecInv, Coded, Lossless, Read1, pos
  <1>2. Lossless'
    <2>1. pos' <= Len(sent')
      BY <1>1 DEF CodecInv, Coded
    <2>2. ASSUME NEW k \in 1..pos
          PROVE  sent'[k] = sent[k]
      BY <1>1
    <2>3. ASSUME NEW k \in 1..pos
          PROVE  /\ \A f \in DOMAIN decoded[k] :
                       f \in DOMAIN sent'[k] /\ decoded[k][f] = sent'[k][f]
                 /\ \/ DOMAIN decoded[k] = DOMAIN sent'[k]
                    \/ reader = "aborted" /\ k = pos
      BY <2>2 DEF Lossless, CodecInv
    <2> QED BY <2>1, <2>3, <1>1 DEF Lossless
  <1>3. InStep'
    <2>1. encs'[pos + 1] = encs[pos + 1]
      BY <1>1
    <2> QED BY <2>1, <1>1 DEF InStep, CodecInv
  <1>4. ProgramInv'
    BY DEF CodecInv, ProgramInv
  <1> QED BY <1>2, <1>3, <1>4 DEF CodecInv, Read1

LEMMA LoadImageCodec ==
    ASSUME CodecInv, NEW img \in Images, LoadImage(img)
    PROVE  CodecInv'
  <1>1. img \in Seq(Ips \cup {Link})
    BY DEF TraceAssumption
  <1>2. Coded(oper_table', encs', records', sent')
    BY <1>1, CodedTable DEF CodecInv, LoadImage
  <1> QED BY <1>2, WriterAdds DEF LoadImage, CodecInv, Coded

LEMMA WriteDynamicCodec ==
    ASSUME CodecInv, NEW d \in Dynamics, WriteDynamic(d)
    PROVE  CodecInv'
  <1>1. Describes(oper_table, ValuesOf(d))
    BY ValuesDescribed DEF CodecInv, Coded, WriteDynamic
  <1>2. Coded(oper_table', encs', records', sent')
    BY <1>1, CodedAppend DEF CodecInv, WriteDynamic, Put
  <1>3. /\ sent \in Seq(Values) /\ encs \in Seq(Tables) /\ Len(encs) = Len(sent) + 1
    BY DEF CodecInv, Coded
  <1>4. \E x, y : sent' = Append(sent, x) /\ encs' = Append(encs, y)
    BY DEF WriteDynamic, Put
  <1>5. /\ Len(sent') >= Len(sent)
        /\ \A k \in 1..Len(sent) : sent'[k] = sent[k]
        /\ \A k \in 1..(Len(sent) + 1) : encs'[k] = encs[k]
    BY <1>3, <1>4
  <1> QED BY <1>2, <1>5, WriterAdds DEF WriteDynamic

LEMMA WriteAndLinkCodec ==
    ASSUME CodecInv, NEW d \in Dynamics, WriteAndLink(d)
    PROVE  CodecInv'
  <1> DEFINE vals == ValuesOf(d)
             linked == LinkValues(Len(oper_table))
             e == encs[Len(encs)]
             f == Trained(e, vals)
             es1 == Append(encs, f)
             rs1 == Append(records, Packed(e, vals))
             ss1 == Append(sent, vals)
  <1>1. /\ oper_table \in Seq(Ips \cup {Link}) /\ Len(oper_table) < Modulus
        /\ Len(oper_table) \in Nat
        /\ oper_table' = oper_table \o <<Link>>
    BY DEF CodecInv, Coded, WriteAndLink
  <1>2. Coded(oper_table', encs, records, sent)
    <2>1. <<Link>> \in Seq(Ips \cup {Link}) /\ Len(<<Link>>) = 1
      OBVIOUS
    <2>2. Len(oper_table) + Len(<<Link>>) <= Modulus
      BY <1>1, <2>1
    <2> QED BY <1>1, <2>1, <2>2, CodedTable DEF CodecInv
  <1>3. Describes(oper_table', vals)
    <2>1. Describes(oper_table, vals)
      <3>1. Known(d.ip) /\ Len(oper_table) <= Modulus
        BY <1>1 DEF WriteAndLink
      <3> QED BY <1>1, <3>1, ValuesDescribed
    <2>2. vals["oper_id"] \in 0..(Len(oper_table) - 1)
      BY <2>1, <1>1 DEF Describes, Values, Word
    <2>3. vals["oper_id"] + 1 \in 1..Len(oper_table)
      BY <2>2, <1>1
    <2>4. /\ oper_table'[vals["oper_id"] + 1] = oper_table[vals["oper_id"] + 1]
          /\ vals["oper_id"] < Len(oper_table')
      BY <1>1, <2>2, <2>3
    <2> QED BY <2>1, <2>4 DEF Describes
  <1>4. Describes(oper_table', linked)
    <2>1. /\ DOMAIN linked = LinkFields /\ linked["oper_id"] = Len(oper_table)
          /\ LinkFields \subseteq Fields /\ "oper_id" \in LinkFields
      BY DEF LinkValues, LinkFields, TraceAssumption
    <2>2. Len(oper_table) \in Word /\ 0 \in Word
      BY <1>1 DEF Word
    <2>3. linked \in [LinkFields -> Word]
      BY <2>1, <2>2 DEF LinkValues
    <2>4. oper_table'[Len(oper_table) + 1] = Link /\ Len(oper_table) < Len(oper_table')
      BY <1>1
    <2> QED BY <2>1, <2>3, <2>4 DEF Describes, Values, FieldsWritten
  <1>5. Coded(oper_table', es1, rs1, ss1)
    BY <1>2, <1>3, CodedAppend
  <1>6. /\ encs \in Seq(Tables) /\ f \in Tables /\ sent \in Seq(Values) /\ vals \in Values
        /\ records \in Seq(Records) /\ Packed(e, vals) \in Records
        /\ Len(encs) = Len(sent) + 1
    <2>1. /\ encs \in Seq(Tables) /\ sent \in Seq(Values) /\ records \in Seq(Records)
          /\ Len(encs) = Len(sent) + 1
      BY DEF CodecInv, Coded
    <2>2. vals \in Values /\ "oper_id" \in DOMAIN vals /\ e \in Tables
      BY <2>1, <1>3 DEF Describes
    <2> QED BY <2>1, <2>2, TrainedType, PackedType
  <1>7. es1[Len(es1)] = f
    BY <1>6
  <1>8. Coded(oper_table', Append(es1, Trained(f, linked)),
              Append(rs1, Packed(f, linked)), Append(ss1, linked))
    <2> HIDE DEF es1, rs1, ss1, f, linked
    <2> QED BY <1>4, <1>5, <1>7, CodedAppend
  <1>9. /\ encs' = encs \o <<f, Trained(f, linked)>>
        /\ records' = records \o <<Packed(e, vals), Packed(f, linked)>>
        /\ sent' = sent \o <<vals, linked>>
    BY DEF WriteAndLink, PutTwo
  <1> HIDE DEF vals, linked, e, f
  <1>10. /\ encs' = Append(es1, Trained(f, linked))
         /\ records' = Append(rs1, Packed(f, linked))
         /\ sent' = Append(ss1, linked)
    BY <1>6, <1>9, SMTT(20)
  <1>11. /\ Len(sent') >= Len(sent)
         /\ \A k \in 1..Len(sent) : sent'[k] = sent[k]
         /\ \A k \in 1..(Len(sent) + 1) : encs'[k] = encs[k]
    BY <1>6, <1>9
  <1>12. Coded(oper_table', encs', records', sent')
    BY <1>8, <1>10
  <1> QED BY <1>11, <1>12, WriterAdds DEF WriteAndLink

(***************************************************************************)
(* Reading a record: its number tells the static instruction, which tells  *)
(* the fields; each comes out as it went in, and teaches both sides alike. *)
(***************************************************************************)
LEMMA NextRecord ==
    ASSUME CodecInv, reader \in {"opened", "reading"}, ~AtEnd
    PROVE  /\ pos + 1 \in 1..Len(sent)
           /\ encs[pos + 1] \in Tables /\ dec \in Tables
           /\ Describes(oper_table, sent[pos + 1])
           /\ NextId = sent[pos + 1]["oper_id"] /\ NextId \in Nat
           /\ FieldsOf(NextSoper) \subseteq DOMAIN sent[pos + 1]
           /\ DOMAIN records[pos + 1] = DOMAIN sent[pos + 1]
           /\ \A f \in FieldsOf(NextSoper) : NextValues[f] = sent[pos + 1][f]
           /\ encs[pos + 2] = Trained(encs[pos + 1], sent[pos + 1])
  <1> DEFINE e == encs[pos + 1]
             v == sent[pos + 1]
             r == records[pos + 1]
  <1>1. /\ pos \in Nat /\ pos + 1 \in 1..Len(sent) /\ pos + 2 = (pos + 1) + 1
        /\ pos + 1 \in 1..Len(encs)
    BY DEF CodecInv, Coded, Lossless, Read1, pos, AtEnd
  <1>2. /\ e \in Tables /\ Describes(oper_table, v)
        /\ r = Packed(e, v) /\ encs[(pos + 1) + 1] = Trained(e, v)
    BY <1>1 DEF CodecInv, Coded
  <1>3. dec \in Tables /\ \A f \in Fields : SameTables(dec[f], e[f])
    BY DEF CodecInv, Read1, InStep
  <1>4. /\ DOMAIN v \subseteq Fields /\ "oper_id" \in DOMAIN v
        /\ \A f \in DOMAIN v : v[f] \in Word
    BY <1>2 DEF Describes, Values
  <1>5. v["oper_id"] \in Nat
    BY <1>4 DEF Word
  <1> HIDE DEF e, v, r
  <1>6. ASSUME NEW f \in DOMAIN v
        PROVE  Decode(f, dec[f], Row(f, v["oper_id"]), r[f]) = v[f]
    <2>1. f \in Fields /\ dec[f] \in Predictor(f) /\ e[f] \in Predictor(f) /\ v[f] \in Word
      BY <1>2, <1>3, <1>4 DEF Tables
    <2>2. r[f] = Encode(f, e[f], Row(f, v["oper_id"]), v[f])
      BY <1>2 DEF Packed
    <2>3. Row(f, v["oper_id"]) \in Rows
      BY <2>1, <1>5, RowType
    <2> QED BY <2>1, <2>2, <2>3, <1>3, RoundTrip
  <1>7. NextId = v["oper_id"]
    <2>1. Row("oper_id", v["oper_id"]) = 0
      BY DEF Row
    <2> QED BY <2>1, <1>4, <1>6 DEF NextId, r
  <1>8. DOMAIN v = FieldsWritten(NextSoper)
    <2>1. program = oper_table
      BY DEF CodecInv, ProgramInv
    <2> QED BY <1>2, <1>7, <2>1 DEF Describes, NextSoper
  <1>9. FieldsOf(NextSoper) \subseteq DOMAIN v
    BY <1>8 DEF FieldsWritten, LinkFields, FieldsOf
  <1>10. \A f \in FieldsOf(NextSoper) : NextValues[f] = v[f]
    BY <1>6, <1>7, <1>9 DEF NextValues, r
  <1>11. DOMAIN r = DOMAIN v
    BY <1>2 DEF Packed
  <1> QED BY <1>1, <1>2, <1>3, <1>5, <1>7, <1>9, <1>10, <1>11 DEF e, v, r

LEMMA ReadCodec ==
    ASSUME CodecInv, reader \in {"opened", "reading"}, Read, UNCHANGED writerVars,
           Aborts <=> reader' = "aborted"
    PROVE  CodecInv'
  <1> USE DEF writerVars
  <1>3. ProgramInv'
    BY DEF CodecInv, ProgramInv
  <1>1. CASE AtEnd
    <2>1. UNCHANGED <<dec, decoded>> /\ reader' # "aborted"
      BY <1>1 DEF Read, Aborts
    <2>2. Lossless'
      BY <2>1 DEF CodecInv, Lossless, pos
    <2>3. InStep'
      BY <2>1 DEF CodecInv, InStep, pos
    <2> QED BY <1>3, <2>1, <2>2, <2>3 DEF CodecInv, Read1
  <1>2. CASE ~AtEnd
    <2> DEFINE e == encs[pos + 1]
               v == sent[pos + 1]
               fields == FieldsOf(NextSoper)
               values == NextValues
    <2>1. /\ pos + 1 \in 1..Len(sent) /\ pos \in Nat
          /\ e \in Tables /\ dec \in Tables
          /\ Describes(oper_table, v) /\ v \in Values
          /\ NextId = v["oper_id"] /\ NextId \in Nat
          /\ fields \subseteq DOMAIN v /\ DOMAIN records[pos + 1] = DOMAIN v
          /\ \A f \in fields : values[f] = v[f]
          /\ encs[pos + 2] = Trained(e, v)
      <3>1. pos \in Nat
        BY DEF CodecInv, Read1, pos
      <3> QED BY <1>2, <3>1, NextRecord DEF Describes
    <2>2. /\ decoded' = Append(decoded, values)
          /\ dec' = [f \in Fields |->
                        IF f \in fields THEN Learn(f, dec[f], Row(f, NextId), values[f])
                        ELSE dec[f]]
      BY <1>2 DEF Read
    <2>3. DOMAIN values = fields
      BY DEF NextValues
    <2>4. Aborts <=> fields # DOMAIN v
      BY <1>2, <2>1 DEF Aborts, Consumed
    <2>5. DOMAIN v \subseteq Fields /\ \A f \in DOMAIN v : v[f] \in Word
      BY <2>1 DEF Values
    <2>6. values \in Values
      <3>1. values = [f \in fields |-> values[f]]
        BY DEF NextValues
      <3> HIDE DEF values, fields
      <3>2. values \in [fields -> Word]
        BY <3>1, <2>1, <2>5
      <3> QED BY <3>2, <2>1, <2>5 DEF Values
    <2> HIDE DEF e, v, fields, values
    <2>7. ASSUME NEW f \in Fields
          PROVE  /\ dec[f] \in Predictor(f) /\ e[f] \in Predictor(f)
                 /\ Row(f, NextId) \in Rows
      BY <2>1, RowType DEF Tables
    <2>8. ASSUME NEW f \in Fields
          PROVE  dec'[f] \in Predictor(f)
      <3>1. CASE f \in fields
        <4>1. values[f] \in Word
          BY <3>1, <2>1, <2>5
        <4>2. dec'[f] = Learn(f, dec[f], Row(f, NextId), values[f])
          BY <3>1, <2>2
        <4> QED BY <4>1, <4>2, <2>7, LearnType
      <3>2. CASE f \notin fields
        BY <3>2, <2>2, <2>7
      <3> QED BY <3>1, <3>2
    <2>9. dec' \in Tables
      <3>1. \A f \in Fields : dec'[f] \in UNION {Predictor(g) : g \in Fields}
        BY <2>8
      <3>2. dec' = [f \in Fields |-> dec'[f]]
        BY <2>2
      <3> QED BY <2>8, <3>1, <3>2 DEF Tables
    <2>10. decoded \in Seq(Values) /\ Len(decoded) = pos
      BY DEF CodecInv, Read1, pos
    <2>11. /\ decoded' \in Seq(Values) /\ Len(decoded') = pos + 1
           /\ \A k \in 1..pos : decoded'[k] = decoded[k]
           /\ decoded'[pos + 1] = values
      BY <2>2, <2>6, <2>10
    <2>12. pos' = pos + 1
      BY <2>11 DEF pos
    <2>13. Lossless'
      <3>1. pos' <= Len(sent')
        BY <2>1, <2>12
      <3>2. ASSUME NEW k \in 1..(pos + 1)
            PROVE  /\ \A f \in DOMAIN decoded'[k] :
                         f \in DOMAIN sent[k] /\ decoded'[k][f] = sent[k][f]
                   /\ \/ DOMAIN decoded'[k] = DOMAIN sent[k]
                      \/ reader' = "aborted" /\ k = pos + 1
        <4>1. CASE k \in 1..pos
          BY <4>1, <2>11 DEF CodecInv, Lossless
        <4>2. CASE k = pos + 1
          BY <4>2, <2>1, <2>3, <2>4, <2>11 DEF v, values
        <4> QED BY <4>1, <4>2, <2>1
      <3> QED BY <3>1, <3>2, <2>12 DEF Lossless
    <2>14. InStep'
      <3> SUFFICES ASSUME reader' # "aborted", NEW f \in Fields
                   PROVE  SameTables(dec'[f], encs[pos + 2][f])
        <4>1. (pos + 1) + 1 = pos + 2
          BY <2>1
        <4> QED BY <4>1, <2>12 DEF InStep
      <3>1. fields = DOMAIN v
        BY <2>4
      <3>2. SameTables(dec[f], e[f])
        BY DEF CodecInv, InStep, e
      <3>3. CASE f \in fields
        <4>1. dec'[f] = Learn(f, dec[f], Row(f, NextId), v[f])
          BY <3>3, <2>1, <2>2
        <4>2. encs[pos + 2][f] = Encoded(f, e[f], Row(f, NextId), v[f])
          BY <3>1, <3>3, <2>1 DEF Trained
        <4>3. v[f] \in Word
          BY <3>1, <3>3, <2>5
        <4> QED BY <4>1, <4>2, <4>3, <3>2, <2>7, LearnAlike
      <3>4. CASE f \notin fields
        <4>1. dec'[f] = dec[f]
          BY <3>4, <2>2
        <4>2. encs[pos + 2][f] = e[f]
          BY <3>1, <3>4, <2>1 DEF Trained
        <4> QED BY <4>1, <4>2, <3>2
      <3> QED BY <3>3, <3>4
    <2> QED BY <1>3, <2>9, <2>11, <2>13, <2>14 DEF CodecInv, Read1
  <1> QED BY <1>1, <1>2

LEMMA NextCodec == CodecInv /\ [Next]_vars => CodecInv'
  <1> SUFFICES ASSUME CodecInv, [Next]_vars PROVE CodecInv'
    OBVIOUS
  <1>2. CASE Write
    <2>1. CASE \E img \in Images : LoadImage(img)
      BY <2>1, LoadImageCodec
    <2>2. CASE \E d \in Dynamics : WriteDynamic(d) \/ WriteAndLink(d)
      BY <2>2, WriteDynamicCodec, WriteAndLinkCodec
    <2>3. CASE Exit \/ Crash
      <3>1. ProgramInv'
        BY <2>3 DEF Exit, Crash, readerVars, CodecInv, ProgramInv
      <3> QED BY <2>3, <3>1 DEF Exit, Crash, readerVars, CodecInv, Read1, Lossless, InStep, pos
    <2> QED BY <1>2, <2>1, <2>2, <2>3 DEF Write
  <1>3. CASE Open
    <2>1. UNCHANGED <<writerVars, dec, decoded>> /\ reader = "new" /\ reader' # "aborted"
      BY <1>3 DEF Open, OpenTrace
    <2>2. ProgramInv'
      BY <1>3, <2>1 DEF Open, OpenTrace, Unreadable, writerVars, CodecInv, ProgramInv
    <2> QED BY <2>1, <2>2 DEF writerVars, CodecInv, Read1, Lossless, InStep, pos
  <1>4. CASE First
    BY <1>4, ReadCodec DEF First, ReadFirst
  <1>5. CASE Schedule
    <2>1. /\ Read /\ reader = "reading" /\ UNCHANGED writerVars
          /\ Aborts <=> reader' = "aborted"
      BY <1>5 DEF Schedule, Iterate
    <2> QED BY <2>1, ReadCodec
  <1>6. CASE Stop
    <2>1. UNCHANGED <<writerVars, dec, decoded>> /\ reader = "reading"
      BY <1>6 DEF Stop, Finish
    <2> QED BY <2>1 DEF writerVars, CodecInv, ProgramInv, Read1, Lossless, InStep, pos
  <1>7. CASE UNCHANGED vars
    BY <1>7 DEF vars, traceVars, CodecInv, ProgramInv, Read1, Lossless, InStep, pos
  <1> QED BY <1>2, <1>3, <1>4, <1>5, <1>6, <1>7 DEF Next

THEOREM CodecInvariant == Spec => []CodecInv
BY InitCodec, NextCodec, PTL DEF Spec

(***************************************************************************)
(* A reader gets back what the tracer wrote, however much that is and      *)
(* whenever the tracer stops. (tmt_writecontext_write_dynamic against      *)
(* tmt_readcontext_read)                                                   *)
(***************************************************************************)
THEOREM TraceIsLossless == Spec => []Lossless
BY CodecInvariant, PTL DEF CodecInv

(***************************************************************************)
(* The tables of the two processes agree at every record, although nothing *)
(* but the numbers of guesses passes between them. (TCgen.c)               *)
(***************************************************************************)
THEOREM TablesInStep == Spec => []InStep
BY CodecInvariant, PTL DEF CodecInv

(***************************************************************************)
(* Whoever gets past opening the program file knows the instruction of     *)
(* every record, whatever the program does and whenever the tracer dies.   *)
(* (tmt_writecontext_free against tmt_readcontext_build_oper_table)        *)
(***************************************************************************)
THEOREM ProgramIsComplete == Spec => []ProgramTellsAll
  <1>1. CodecInv => ProgramTellsAll
    <2> SUFFICES ASSUME CodecInv, reader \notin {"new", "refused"},
                        NEW k \in 1..Len(sent)
                 PROVE  /\ sent[k]["oper_id"] < Len(program)
                        /\ ReadSoper(sent[k]) = Soper(sent[k])
      BY DEF ProgramTellsAll
    <2>1. program = oper_table
      BY DEF CodecInv, ProgramInv
    <2>2. Describes(oper_table, sent[k])
      BY DEF CodecInv, Coded
    <2> QED BY <2>1, <2>2 DEF Describes, ReadSoper, Soper
  <1> QED BY <1>1, CodecInvariant, PTL

-----------------------------------------------------------------------------
(***************************************************************************)
(* The loop: where it is in the trace, and how it came to its end.         *)
(***************************************************************************)
Reading == reader \in {"reading", "finished"}

LoopInv ==
    /\ reader \in ReaderStates /\ late \in BOOLEAN
    /\ tracer = "running" => reader = "new"
    /\ reader \in {"new", "refused", "opened"} => decoded = <<>> /\ scheduled = <<>>
    /\ scheduled \in Seq(Values) /\ Len(scheduled) <= pos
    /\ \A k \in 1..Len(scheduled) : scheduled[k] = decoded[k]
    /\ Reading =>
          /\ tmterr \in {"TMTIO_OK", "TMTIO_EOF", "TMTIO_ERROR"}
          /\ Len(scheduled) = IF tmterr = "TMTIO_ERROR" THEN pos ELSE pos - 1
          /\ tmterr # "TMTIO_OK" => pos = Len(sent)
          /\ pos = Len(sent) /\ sent # <<>> => (tmterr = "TMTIO_EOF" <=> ~late)
          /\ \A k \in 1..pos : Soper(sent[k]) # Link
    /\ reader = "finished" => tmterr # "TMTIO_OK"
    /\ reader = "aborted" => pos > Len(scheduled) /\ Soper(sent[pos]) = Link

(***************************************************************************)
(* What is known of a read: the reader gives up at a link and nowhere      *)
(* else, and is told of the end with the last record or after it.          *)
(***************************************************************************)
LEMMA ReadStatus ==
    ASSUME CodecInv, reader \in {"opened", "reading"}, Read
    PROVE  /\ pos \in Nat /\ Len(sent) \in Nat /\ pos <= Len(sent)
           /\ AtEnd <=> pos = Len(sent)
           /\ AtEnd => pos' = pos /\ decoded' = decoded /\ tmterr' = "TMTIO_ERROR"
           /\ ~AtEnd => /\ pos' = pos + 1 /\ decoded \in Seq(Values)
                        /\ \A k \in 1..pos : decoded'[k] = decoded[k]
                        /\ Aborts <=> Soper(sent[pos + 1]) = Link
                        /\ Aborts => tmterr' = "TMTIO_OK"
                        /\ ~Aborts => tmterr' = IF pos + 1 = Len(sent) /\ ~late
                                                THEN "TMTIO_EOF" ELSE "TMTIO_OK"
  <1>1. /\ decoded \in Seq(Values) /\ pos = Len(decoded) /\ pos \in Nat
        /\ Len(sent) \in Nat /\ Len(records) = Len(sent) /\ pos <= Len(sent)
    BY DEF CodecInv, Coded, Read1, Lossless, pos
  <1>2. AtEnd <=> pos = Len(sent)
    BY <1>1 DEF AtEnd
  <1>3. CASE AtEnd
    BY <1>1, <1>2, <1>3 DEF Read, Status, pos
  <1>4. CASE ~AtEnd
    <2>1. /\ Describes(oper_table, sent[pos + 1])
          /\ NextId = sent[pos + 1]["oper_id"]
          /\ DOMAIN records[pos + 1] = DOMAIN sent[pos + 1]
      BY <1>4, NextRecord
    <2>2. /\ NextSoper = Soper(sent[pos + 1])
          /\ DOMAIN sent[pos + 1] = FieldsWritten(NextSoper)
      <3>1. program = oper_table
        BY DEF CodecInv, ProgramInv
      <3> QED BY <2>1, <3>1 DEF NextSoper, Soper, Describes
    <2>3. Aborts <=> FieldsOf(NextSoper) # FieldsWritten(NextSoper)
      BY <1>4, <2>1, <2>2 DEF Aborts, Consumed
    <2>4. Aborts <=> NextSoper = Link
      <3>1. CASE NextSoper = Link
        <4>1. "sys" \in FieldsWritten(NextSoper)
          BY <3>1 DEF FieldsWritten, LinkFields
        <4>2. "sys" \notin FieldsOf(NextSoper)
          BY <3>1 DEF FieldsOf
        <4> QED BY <2>3, <3>1, <4>1, <4>2
      <3>2. CASE NextSoper # Link
        <4>1. FieldsWritten(NextSoper) = FieldsOf(NextSoper)
          BY <3>2 DEF FieldsWritten
        <4> QED BY <2>3, <3>2, <4>1
      <3> QED BY <3>1, <3>2
    <2>5. decoded' = Append(decoded, NextValues)
      BY <1>4 DEF Read
    <2>6. pos' = pos + 1 /\ \A k \in 1..pos : decoded'[k] = decoded[k]
      BY <1>1, <2>5 DEF pos
    <2>7. ~Aborts => tmterr' = IF pos + 1 = Len(sent) /\ ~late
                              THEN "TMTIO_EOF" ELSE "TMTIO_OK"
      BY <1>1, <1>4, <2>4 DEF Read, Status
    <2>8. Aborts => tmterr' = "TMTIO_OK"
      BY <1>4, <2>4 DEF Read, Status
    <2> QED BY <1>1, <1>2, <1>4, <2>2, <2>4, <2>6, <2>7, <2>8
  <1> QED BY <1>3, <1>4

LEMMA InitLoop == Init => LoopInv
  <1> SUFFICES ASSUME Init PROVE LoopInv
    OBVIOUS
  <1>1. /\ reader = "new" /\ late \in BOOLEAN /\ decoded = <<>> /\ scheduled = <<>>
    BY DEF Init, TraceInit
  <1>2. /\ pos = 0 /\ scheduled \in Seq(Values) /\ Len(scheduled) = 0
    BY <1>1 DEF pos
  <1> QED BY <1>1, <1>2 DEF LoopInv, ReaderStates, Reading

LEMMA FirstLoop ==
    ASSUME CodecInv, LoopInv, ReadFirst
    PROVE  LoopInv'
  <1> USE DEF ReadFirst, writerVars
  <1>1. /\ reader = "opened" /\ tracer # "running" /\ tracer' = tracer
        /\ decoded = <<>> /\ scheduled = <<>> /\ scheduled' = <<>> /\ pos = 0
        /\ sent' = sent /\ late' = late /\ oper_table' = oper_table
        /\ reader' = IF Aborts THEN "aborted" ELSE "reading"
    BY DEF LoopInv, pos
  <1>2. \A k : Soper(sent[k])' = Soper(sent[k])
    BY <1>1 DEF Soper
  <1>3. sent \in Seq(Values)
    BY DEF CodecInv, Coded
  <1>4. CASE AtEnd
    <2>1. /\ reader' = "reading" /\ pos' = 0 /\ tmterr' = "TMTIO_ERROR"
          /\ Len(sent) = 0
      BY <1>1, <1>4, ReadStatus DEF Aborts
    <2>2. sent = <<>>
      BY <1>3, <2>1
    <2> QED BY <1>1, <2>1, <2>2 DEF LoopInv, Reading, ReaderStates
  <1>5. CASE ~AtEnd
    <2>1. /\ pos' = 1 /\ Len(sent) \in Nat /\ Len(sent) # 0
          /\ Aborts <=> Soper(sent[1]) = Link
          /\ ~Aborts => tmterr' = IF 1 = Len(sent) /\ ~late
                                  THEN "TMTIO_EOF" ELSE "TMTIO_OK"
      BY <1>1, <1>5, ReadStatus
    <2>2. CASE Aborts
      BY <1>1, <1>2, <2>1, <2>2 DEF LoopInv, Reading, ReaderStates
    <2>3. CASE ~Aborts
      <3>1. \A k \in 1..1 : Soper(sent[k])' # Link
        BY <1>2, <2>1, <2>3
      <3> QED BY <1>1, <2>1, <2>3, <3>1 DEF LoopInv, Reading, ReaderStates, Soper
    <2> QED BY <2>2, <2>3
  <1> QED BY <1>4, <1>5

LEMMA IterateLoop ==
    ASSUME CodecInv, LoopInv, Iterate
    PROVE  LoopInv'
  <1> USE DEF Iterate, writerVars
  <1>1. /\ reader = "reading" /\ tmterr = "TMTIO_OK" /\ tracer # "running"
        /\ Len(scheduled) = pos - 1 /\ pos \in Nat /\ pos > 0
        /\ scheduled \in Seq(Values)
        /\ \A k \in 1..Len(scheduled) : scheduled[k] = decoded[k]
        /\ \A k \in 1..pos : Soper(sent[k]) # Link
        /\ pos = Len(sent) /\ sent # <<>> => late
    <2>1. pos \in Nat /\ Len(scheduled) \in Nat
      BY DEF CodecInv, Read1, LoopInv, pos
    <2> QED BY <2>1 DEF LoopInv, Reading
  <1>2. /\ sent' = sent /\ late' = late /\ oper_table' = oper_table /\ tracer' = tracer
        /\ \A k : Soper(sent[k])' = Soper(sent[k])
    BY DEF Soper
  <1>3. sent \in Seq(Values) /\ decoded \in Seq(Values) /\ Len(decoded) = pos
    BY DEF CodecInv, Coded, Read1, pos
  <1>4. CASE Aborts
    <2>1. /\ pos' = pos + 1 /\ reader' = "aborted" /\ scheduled' = scheduled
          /\ Soper(sent[pos + 1]) = Link
          /\ \A k \in 1..pos : decoded'[k] = decoded[k]
      BY <1>1, <1>4, ReadStatus DEF Aborts
    <2>2. \A k \in 1..Len(scheduled) : scheduled'[k] = decoded'[k]
      BY <1>1, <2>1
    <2> QED BY <1>1, <1>2, <2>1, <2>2 DEF LoopInv, Reading, ReaderStates
  <1>5. CASE ~Aborts
    <2>1. /\ reader' = "reading" /\ scheduled' = Append(scheduled, decoded[pos])
          /\ decoded[pos] \in Values
      BY <1>1, <1>3, <1>5
    <2>2. /\ scheduled' \in Seq(Values) /\ Len(scheduled') = pos
          /\ \A k \in 1..pos : scheduled'[k] = decoded[k]
      BY <1>1, <2>1
    <2>3. CASE AtEnd
      <3>1. /\ pos' = pos /\ decoded' = decoded /\ tmterr' = "TMTIO_ERROR"
            /\ pos = Len(sent) /\ sent # <<>>
        BY <1>1, <1>3, <2>3, ReadStatus
      <3> QED BY <1>1, <1>2, <2>1, <2>2, <3>1, SMTT(60) DEF LoopInv, Reading, ReaderStates
    <2>4. CASE ~AtEnd
      <3>1. /\ pos' = pos + 1 /\ \A k \in 1..pos : decoded'[k] = decoded[k]
            /\ Soper(sent[pos + 1]) # Link
            /\ tmterr' = IF pos + 1 = Len(sent) /\ ~late THEN "TMTIO_EOF" ELSE "TMTIO_OK"
        BY <1>1, <1>5, <2>4, ReadStatus
      <3>2. \A k \in 1..(pos + 1) : Soper(sent[k])' # Link
        <4>1. \A k \in 1..(pos + 1) : k \in 1..pos \/ k = pos + 1
          BY <1>1
        <4> QED BY <1>1, <1>2, <3>1, <4>1
      <3>3. \A k \in 1..Len(scheduled') : scheduled'[k] = decoded'[k]
        BY <2>2, <3>1
      <3> QED BY <1>1, <1>2, <2>1, <2>2, <3>1, <3>2, <3>3
              DEF LoopInv, Reading, ReaderStates
    <2> QED BY <2>3, <2>4
  <1> QED BY <1>4, <1>5

LEMMA NextLoop == CodecInv /\ LoopInv /\ [Next]_vars => LoopInv'
  <1> SUFFICES ASSUME CodecInv, LoopInv, [Next]_vars PROVE LoopInv'
    OBVIOUS
  <1>1. CASE Write
    <2>1. /\ tracer = "running" /\ UNCHANGED readerVars
      BY <1>1 DEF Write, LoadImage, WriteDynamic, WriteAndLink, Exit, Crash
    <2>2. reader = "new"
      BY <2>1 DEF LoopInv
    <2>3. late' \in BOOLEAN
      BY <1>1 DEF Write, LoadImage, WriteDynamic, WriteAndLink, Exit, Crash, LoopInv
    <2>4. /\ reader' = "new" /\ decoded' = <<>> /\ scheduled' = <<>> /\ pos' = 0
          /\ scheduled' \in Seq(Values) /\ Len(scheduled') = 0
      BY <2>1, <2>2 DEF LoopInv, readerVars, pos
    <2> QED BY <2>3, <2>4 DEF LoopInv, Reading, ReaderStates
  <1>2. CASE Open
    BY <1>2 DEF Open, OpenTrace, LoopInv, Reading, ReaderStates, writerVars, pos
  <1>3. CASE First
    BY <1>3, FirstLoop DEF First
  <1>4. CASE Schedule
    BY <1>4, IterateLoop DEF Schedule
  <1>5. CASE Stop
    <2>1. /\ reader = "reading" /\ reader' = "finished" /\ tmterr # "TMTIO_OK"
          /\ UNCHANGED <<writerVars, dec, decoded, tmterr, scheduled>>
      BY <1>5 DEF Stop, Finish
    <2>2. \A k : Soper(sent[k])' = Soper(sent[k])
      BY <2>1 DEF Soper, writerVars
    <2> QED BY <2>1, <2>2 DEF LoopInv, Reading, ReaderStates, writerVars, pos, Soper
  <1>6. CASE UNCHANGED vars
    BY <1>6 DEF vars, traceVars, LoopInv, Reading, ReaderStates, pos, Soper
  <1> QED BY <1>1, <1>2, <1>3, <1>4, <1>5, <1>6 DEF Next

THEOREM LoopInvariant == Spec => [](CodecInv /\ LoopInv)
  <1>1. Init => CodecInv /\ LoopInv
    BY InitCodec, InitLoop
  <1>2. (CodecInv /\ LoopInv) /\ [Next]_vars => (CodecInv /\ LoopInv)'
    BY NextCodec, NextLoop
  <1> QED BY <1>1, <1>2, PTL DEF Spec

LEMMA LoopWholeTrace == CodecInv /\ LoopInv => WholeTrace
  <1> SUFFICES ASSUME CodecInv, LoopInv PROVE WholeTrace
    OBVIOUS
  <1>1. /\ pos \in Nat /\ pos <= Len(sent) /\ Len(sent) \in Nat /\ sent \in Seq(Values)
        /\ decoded \in Seq(Values) /\ pos = Len(decoded)
    BY DEF CodecInv, Coded, Read1, Lossless, pos
  <1>2. Len(scheduled) \in Nat /\ Len(scheduled) <= pos
    BY DEF LoopInv
  <1>3. ASSUME NEW k \in 1..Len(scheduled)
        PROVE  scheduled[k] = sent[k]
    <2>1. k \in 1..pos /\ k \in 1..Len(sent)
      BY <1>1, <1>2
    <2>2. ~(reader = "aborted" /\ k = pos)
      BY <1>2 DEF LoopInv
    <2>3. /\ DOMAIN decoded[k] = DOMAIN sent[k]
          /\ \A f \in DOMAIN decoded[k] : decoded[k][f] = sent[k][f]
      BY <2>1, <2>2 DEF CodecInv, Lossless
    <2>4. decoded[k] \in Values /\ sent[k] \in Values
      BY <1>1, <2>1
    <2>5. \A v \in Values : v = [f \in DOMAIN v |-> v[f]]
      BY DEF Values
    <2>6. decoded[k] = sent[k]
      BY <2>3, <2>4, <2>5
    <2> QED BY <2>6 DEF LoopInv
  <1>4. ASSUME reader = "finished"
        PROVE  /\ Len(scheduled) = IF tmterr = "TMTIO_EOF" THEN Len(sent) - 1 ELSE Len(sent)
               /\ sent # <<>> => (tmterr = "TMTIO_ERROR") = late
    <2>1. /\ late \in BOOLEAN /\ tmterr \in {"TMTIO_EOF", "TMTIO_ERROR"} /\ pos = Len(sent)
          /\ Len(scheduled) = IF tmterr = "TMTIO_ERROR" THEN pos ELSE pos - 1
          /\ sent # <<>> => (tmterr = "TMTIO_EOF" <=> ~late)
      BY <1>4 DEF LoopInv, Reading
    <2> QED BY <2>1
  <1>5. Len(scheduled) <= Len(sent)
    BY <1>1, <1>2
  <1>6. \A k \in 1..Len(scheduled) : scheduled[k] = sent[k]
    BY <1>3
  <1>7. reader = "finished" =>
            Len(scheduled) = IF tmterr = "TMTIO_EOF" THEN Len(sent) - 1 ELSE Len(sent)
    BY <1>4
  <1>8. reader = "finished" /\ sent # <<>> => (tmterr = "TMTIO_ERROR") = late
    BY <1>4
  <1> QED BY <1>5, <1>6, <1>7, <1>8, Zenon DEF WholeTrace

LEMMA LoopAborts == CodecInv /\ LoopInv => AbortsAtLink
  <1> SUFFICES ASSUME CodecInv, LoopInv PROVE AbortsAtLink
    OBVIOUS
  <1>1. pos \in Nat /\ Len(scheduled) \in Nat
    BY DEF CodecInv, Read1, LoopInv, pos
  <1>2. CASE reader = "aborted"
    <2>1. pos \in 1..pos /\ Soper(sent[pos]) = Link
      BY <1>1, <1>2 DEF LoopInv
    <2> QED BY <1>2, <2>1 DEF AbortsAtLink
  <1>3. CASE Reading
    BY <1>3 DEF LoopInv, Reading, AbortsAtLink
  <1>4. CASE reader \in {"new", "refused", "opened"}
    <2>1. pos = 0
      BY <1>4 DEF LoopInv, pos
    <2> QED BY <1>4, <2>1 DEF AbortsAtLink
  <1> QED BY <1>2, <1>3, <1>4 DEF LoopInv, ReaderStates, Reading

(***************************************************************************)
(* The loop of adamant_schedule_program processes the trace in order and   *)
(* to its end, but for the instruction that comes with TMTIO_EOF.          *)
(***************************************************************************)
THEOREM LoopProcessesTrace == Spec => []WholeTrace
BY LoopInvariant, LoopWholeTrace, PTL

(***************************************************************************)
(* tmt_readcontext_read aborts at a link to a next file and nowhere else.  *)
(***************************************************************************)
THEOREM ReaderAbortsAtLinks == Spec => []AbortsAtLink
BY LoopInvariant, LoopAborts, PTL
-----------------------------------------------------------------------------
(***************************************************************************)
(* The history register, as a function of the set of direct branches and   *)
(* the set of those that were entered as taken.                            *)
(***************************************************************************)
PathOf(D, T, k) ==
    [i \in 1..BHR_LENGTH |->
        \E j \in D : j < k /\ Cardinality(D \cap (j..(k - 1))) = i /\ j \in T]

LEMMA PathType ==
    ASSUME NEW D, NEW T, NEW k
    PROVE  PathOf(D, T, k) \in Histories
BY DEF PathOf, Histories

\* What comes later does not change a path.
LEMMA PathKeeps ==
    ASSUME NEW D \in SUBSET Nat, NEW T, NEW D1 \in SUBSET Nat, NEW T1, NEW k \in Nat,
           \A j \in Nat : j < k => (j \in D <=> j \in D1) /\ (j \in T <=> j \in T1)
    PROVE  PathOf(D, T, k) = PathOf(D1, T1, k)
  <1>1. ASSUME NEW j \in Nat, j < k
        PROVE  D \cap (j..(k - 1)) = D1 \cap (j..(k - 1))
    BY <1>1
  <1>2. ASSUME NEW i \in 1..BHR_LENGTH
        PROVE  (\E j \in D : j < k /\ Cardinality(D \cap (j..(k - 1))) = i /\ j \in T) <=>
               (\E j \in D1 : j < k /\ Cardinality(D1 \cap (j..(k - 1))) = i /\ j \in T1)
    BY <1>1
  <1> QED BY <1>2 DEF PathOf

\* An instruction that is not entered leaves the path to the next as it was.
LEMMA PathSkips ==
    ASSUME NEW k \in Nat, NEW D \in SUBSET (1..k), NEW T, k \notin D
    PROVE  PathOf(D, T, k + 1) = PathOf(D, T, k)
  <1>1. \A j \in D : j < k + 1 /\ j < k
    OBVIOUS
  <1>2. ASSUME NEW j \in D
        PROVE  D \cap (j..((k + 1) - 1)) = D \cap (j..(k - 1))
    OBVIOUS
  <1> QED BY <1>1, <1>2 DEF PathOf

\* A direct branch moves the path on by one.
Moved(path, taken) == [i \in 1..BHR_LENGTH |-> IF i = 1 THEN taken ELSE path[i - 1]]

LEMMA PathShifts ==
    ASSUME NEW k \in Nat, NEW D \in SUBSET (1..(k - 1)), NEW T, NEW T1,
           \A j \in D : j \in T <=> j \in T1
    PROVE  PathOf(D \cup {k}, T1, k + 1) = Moved(PathOf(D, T, k), k \in T1)
  <1> DEFINE D1 == D \cup {k}
             N(j) == Cardinality(D \cap (j..(k - 1)))
             N1(j) == Cardinality(D1 \cap (j..((k + 1) - 1)))
             Old == PathOf(D, T, k)
  <1>1. /\ \A j \in D : j < k /\ j < k + 1
        /\ k < k + 1 /\ BHR_LENGTH \in Nat
    BY PredictionAssumption DEF PredictionAssumption
  <1>2. N1(k) = 1
    <2>1. D1 \cap (k..((k + 1) - 1)) = {k}
      BY <1>1
    <2> QED BY <2>1, FS_Singleton
  <1>3. ASSUME NEW j \in D
        PROVE  N(j) \in Nat /\ N(j) # 0 /\ N1(j) = N(j) + 1
    <2> DEFINE S == D \cap (j..(k - 1))
    <2>1. IsFiniteSet(S)
      <3>1. S \subseteq j..(k - 1)
        OBVIOUS
      <3>2. j \in Int /\ k - 1 \in Int
        BY <1>1
      <3> HIDE DEF S
      <3>3. IsFiniteSet(j..(k - 1))
        BY <3>2, FS_Interval
      <3> QED BY <3>1, <3>3, FS_Subset
    <2>2. D1 \cap (j..((k + 1) - 1)) = S \cup {k} /\ k \notin S
      OBVIOUS
    <2>3. j \in S
      OBVIOUS
    <2>4. N(j) = Cardinality(S) /\ N1(j) = Cardinality(S \cup {k})
      BY <2>2
    <2> HIDE DEF S, N, N1
    <2>5. Cardinality(S \cup {k}) = Cardinality(S) + 1
      BY <2>1, <2>2, FS_AddElement
    <2>6. Cardinality(S) \in Nat /\ Cardinality(S) # 0
      BY <2>1, <2>3, FS_CardinalityType, FS_EmptySet
    <2> QED BY <2>4, <2>5, <2>6
  <1>4. /\ Old \in [1..BHR_LENGTH -> BOOLEAN]
        /\ \A i \in 1..BHR_LENGTH : Old[i] <=> \E j \in D : j < k /\ N(j) = i /\ j \in T
    BY DEF PathOf
  <1>5. \A j \in D1 : j \in D \/ j = k
    OBVIOUS
  <1>6. D \subseteq D1 /\ k \in D1
    OBVIOUS
  <1> DEFINE New(i) == \E j \in D1 : j < k + 1 /\ N1(j) = i /\ j \in T1
             Expected(i) == IF i = 1 THEN k \in T1 ELSE Old[i - 1]
  <1>7. PathOf(D1, T1, k + 1) = [i \in 1..BHR_LENGTH |-> New(i)]
    BY DEF PathOf
  <1> HIDE DEF D1, N, N1, Old
  <1>8. ASSUME NEW i \in 1..BHR_LENGTH
        PROVE  New(i) = Expected(i)
    <2>1. CASE i = 1
      <3>1. ASSUME NEW j \in D PROVE N1(j) # 1
        BY <1>3
      <3>2. New(i) <=> k \in T1
        BY <1>1, <1>2, <1>5, <1>6, <2>1, <3>1
      <3> HIDE DEF New
      <3>3. New(i) \in BOOLEAN
        BY DEF New
      <3> QED BY <2>1, <3>2, <3>3
    <2>2. CASE i # 1
      <3>1. i - 1 \in 1..BHR_LENGTH
        BY <1>1, <2>2
      <3>2. ASSUME NEW j \in D PROVE N1(j) = i <=> N(j) = i - 1
        BY <1>3
      <3>3. New(i) <=> \E j \in D : j < k /\ N(j) = i - 1 /\ j \in T
        BY <1>1, <1>2, <1>5, <1>6, <2>2, <3>2
      <3>4. Old[i - 1] \in BOOLEAN /\ (New(i) <=> Old[i - 1])
        BY <1>4, <3>1, <3>3
      <3> HIDE DEF New
      <3>5. New(i) \in BOOLEAN
        BY DEF New
      <3> QED BY <2>2, <3>4, <3>5
    <2> QED BY <2>1, <2>2
  <1> HIDE DEF New, Expected
  <1>9. PathOf(D1, T1, k + 1) = [i \in 1..BHR_LENGTH |-> Expected(i)]
    BY <1>7, <1>8
  <1> QED BY <1>9 DEF Expected, D1, Old, Moved

-----------------------------------------------------------------------------
(***************************************************************************)
(* The counters, told from who used them: the last two say at least so     *)
(* much about the counter that a third can be relied on.                   *)
(***************************************************************************)
UsersOf(ips, D, T, i) == {k \in D : Index(ips[k], PathOf(D, T, k)) = i}

Learnt(S, T, cnt) ==
    /\ cnt \in 0..3
    /\ S = {} => cnt = 2
    /\ \A k \in S : (\A m \in S : m <= k) => (IF k \in T THEN cnt >= 1 ELSE cnt <= 2)
    /\ \A j, k \in S : LastTwo(j, k, S) /\ (j \in T <=> k \in T) => (cnt >= 2 <=> k \in T)

\* One more use of a counter.
LEMMA LearnsOne ==
    ASSUME NEW m \in Nat, NEW S \in SUBSET (1..(m - 1)), NEW T, NEW T1, NEW cnt,
           \A j \in S : j \in T <=> j \in T1, Learnt(S, T, cnt)
    PROVE  Learnt(S \cup {m}, T1,
                  IF m \in T1 THEN counter_inc(cnt) ELSE counter_dec(cnt))
  <1> DEFINE S1 == S \cup {m}
             new == IF m \in T1 THEN counter_inc(cnt) ELSE counter_dec(cnt)
  <1>1. /\ new \in 0..3
        /\ m \in T1 => new >= 1 /\ (cnt >= 1 => new >= 2)
        /\ m \notin T1 => new <= 2 /\ (cnt <= 2 => ~(new >= 2))
    BY DEF Learnt, counter_inc, counter_dec
  <1>2. \A j \in S1 : j \in Nat /\ (j \in S \/ j = m)
    OBVIOUS
  <1>3. \A j \in S : j \in Nat /\ j < m /\ ~(m <= j)
    OBVIOUS
  <1>4. m \in S1 /\ S \subseteq S1
    OBVIOUS
  <1> HIDE DEF S1, new
  <1>5. ASSUME NEW k \in S1, \A j \in S1 : j <= k
        PROVE  k = m
    BY <1>2, <1>3, <1>4, <1>5
  <1>6. ASSUME NEW j \in S1, NEW k \in S1, LastTwo(j, k, S1), j \in T1 <=> k \in T1
        PROVE  new >= 2 <=> k \in T1
    <2>1. k = m /\ j \in S
      BY <1>2, <1>3, <1>4, <1>6 DEF LastTwo
    <2>2. \A i \in S : i <= j
      BY <1>3, <1>4, <1>6, <2>1 DEF LastTwo
    <2>3. IF j \in T1 THEN cnt >= 1 ELSE cnt <= 2
      BY <2>1, <2>2 DEF Learnt
    <2> QED BY <1>1, <1>6, <2>1, <2>3
  <1>7. Learnt(S1, T1, new)
    BY <1>1, <1>4, <1>5, <1>6 DEF Learnt
  <1> QED BY <1>7 DEF S1, new
-----------------------------------------------------------------------------
(***************************************************************************)
(* The predictor: what it remembers is told from what was processed.       *)
(***************************************************************************)
Processed == [k \in 1..Len(scheduled) |-> Ip(k)]
Takens == {k \in 1..Len(scheduled) : EnteredTaken(k)}

PredictInv ==
    /\ branch_target_dist = [ip \in DOMAIN annotations |-> MostFrequent(annotations[ip])]
    /\ bhr = PathOf(Direct, Takens, Len(scheduled) + 1)
    /\ pht \in [Histories -> 0..3]
    /\ \A i \in Histories : Learnt(UsersOf(Processed, Direct, Takens, i), Takens, pht[i])
    /\ branch_pred_accuracy \in [Branches -> [correct : Nat, total : Nat]]
    /\ AccuracyCounts

\* What the reader takes for the instruction of a record is what was traced.
LEMMA KnowsSoper ==
    ASSUME CodecInv, reader \notin {"new", "refused"}
    PROVE  \A vals : ReadSoper(vals) = Soper(vals)
BY DEF CodecInv, ProgramInv, ReadSoper, Soper

\* An iteration adds one instruction to what was processed, its m-th.
LEMMA Advances ==
    ASSUME CodecInv, LoopInv, Iterate, reader' # "aborted",
           NEW m, m = Len(scheduled) + 1
    PROVE  /\ m \in Nat \ {0} /\ m = pos /\ Len(scheduled) = m - 1 /\ Len(scheduled') = m
           /\ \A k \in 1..(m - 1) : scheduled'[k] = scheduled[k] /\ ~Last(k) /\ ~Last(k)'
           /\ scheduled'[m] = decoded[pos]
           /\ Last(m)' <=> tmterr' # "TMTIO_OK"
           /\ UNCHANGED <<oper_table, sent>>
           /\ Successor = None <=> tmterr' # "TMTIO_OK"
           /\ tmterr' = "TMTIO_OK" => Successor = Soper(sent[m + 1])
  <1> USE DEF Iterate, writerVars
  <1>1. /\ reader = "reading" /\ tmterr = "TMTIO_OK" /\ ~Aborts
        /\ pos \in Nat /\ Len(scheduled) \in Nat /\ Len(scheduled) = pos - 1
        /\ scheduled \in Seq(Values) /\ decoded \in Seq(Values) /\ Len(decoded) = pos
    BY DEF LoopInv, Reading, CodecInv, Read1, pos
  <1>2. m = pos /\ m \in 1..Len(decoded) /\ scheduled' = Append(scheduled, decoded[m])
    BY <1>1
  <1>3. decoded[m] \in Values
    BY <1>1, <1>2
  <1>4. /\ Len(scheduled') = m /\ scheduled'[m] = decoded[m]
        /\ \A k \in 1..(m - 1) : scheduled'[k] = scheduled[k] /\ k # m
    BY <1>1, <1>2, <1>3
  <1>5. \A k \in 1..(m - 1) : ~Last(k) /\ ~Last(k)'
    BY <1>1, <1>4 DEF Last
  <1>6. Last(m)' <=> tmterr' # "TMTIO_OK"
    BY <1>4 DEF Last
  <1>7. CASE AtEnd
    <2>1. tmterr' = "TMTIO_ERROR"
      BY <1>1, <1>7, ReadStatus
    <2> QED BY <1>1, <1>2, <1>4, <1>5, <1>6, <2>1 DEF Successor
  <1>8. CASE ~AtEnd
    <2>1. /\ Describes(oper_table, sent[m + 1]) /\ NextValues["oper_id"] = sent[m + 1]["oper_id"]
          /\ oper_table \in Seq(Ips \cup {Link})
      <3>1. "oper_id" \in FieldsOf(NextSoper)
        BY DEF FieldsOf
      <3> QED BY <1>1, <1>2, <1>8, <3>1, NextRecord DEF CodecInv, Coded
    <2>2. decoded' = Append(decoded, NextValues)
      BY <1>8 DEF Read
    <2>3. ReadSoper(decoded'[Len(decoded')]) = Soper(sent[m + 1])
      <3>1. decoded'[Len(decoded')] = NextValues
        BY <1>1, <2>2
      <3> QED BY <1>1, <2>1, <3>1, KnowsSoper DEF Soper
    <2>4. Soper(sent[m + 1]) # Link
      BY <1>1, <1>2, <1>8, ReadStatus
    <2>5. Soper(sent[m + 1]) \in Ips \cup {Link}
      <3>1. sent[m + 1]["oper_id"] \in Nat
        BY <2>1 DEF Describes, Values, Word
      <3>2. sent[m + 1]["oper_id"] + 1 \in 1..Len(oper_table)
        BY <2>1, <3>1 DEF Describes
      <3> QED BY <2>1, <3>2 DEF Soper
    <2>6. Soper(sent[m + 1]) # None
      BY <2>4, <2>5, ReplayAssumption, PredictionAssumption DEF PredictionAssumption
    <2> QED BY <1>1, <1>2, <1>4, <1>5, <1>6, <2>3, <2>6 DEF Successor
  <1> QED BY <1>7, <1>8

\* What adamant_predict_branch enters for a branch is what the trace tells.
LEMMA Enters ==
    ASSUME CodecInv, LoopInv, PredictInv, Schedule, reader' # "aborted",
           NEW m, m = Len(scheduled) + 1, NEW ip, ip = Soper(decoded[pos]), ip \in Branches
    PROVE  \E correct, taken \in BOOLEAN :
               /\ Update(ip, correct, taken)
               /\ kind[ip] # "indirect" => (taken <=> EnteredTaken(m)')
               /\ ip \notin DOMAIN annotations \/ kind[ip] = "indirect" =>
                     (correct <=> ~Last(m)' /\ (ip \in DOMAIN annotations =>
                                                   Heaviest(ip, Soper(sent[m + 1]))))
  <1>1. Iterate /\ Predict(ip, Taken(decoded[pos]), Successor)
    BY KnowsSoper DEF Schedule, Iterate
  <1>2. /\ scheduled'[m] = decoded[pos] /\ UNCHANGED oper_table
        /\ Last(m)' <=> tmterr' # "TMTIO_OK"
        /\ Successor = None <=> tmterr' # "TMTIO_OK"
        /\ tmterr' = "TMTIO_OK" => Successor = Soper(sent[m + 1])
    BY <1>1, Advances
  <1>3. EnteredTaken(m)' <=> /\ ~Last(m)'
                            /\ \/ ip \notin DOMAIN annotations
                               \/ kind[ip] \in {"call", "return"} /\ x86_translate
                               \/ Taken(decoded[pos])
    BY <1>2 DEF EnteredTaken, Ip, Soper, Taken
  <1>4. DOMAIN branch_target_dist = DOMAIN annotations
    BY DEF PredictInv
  <1>5. Taken(decoded[pos]) \in BOOLEAN
    BY DEF Taken
  <1> DEFINE taken == Taken(decoded[pos])
             next == Successor
  <1> HIDE DEF taken, next
  <1>6. CASE next = None
    BY <1>1, <1>2, <1>3, <1>6 DEF Predict, next
  <1>7. CASE next # None /\ ip \notin DOMAIN annotations
    BY <1>1, <1>2, <1>3, <1>4, <1>7 DEF Predict, next
  <1>8. CASE next # None /\ ip \in DOMAIN annotations /\ kind[ip] = "indirect"
    <2>1. branch_target_dist[ip] = next <=> Heaviest(ip, Soper(sent[m + 1]))
      BY <1>2, <1>8, MostFrequentIsHeaviest DEF PredictInv, next
    <2>2. Update(ip, branch_target_dist[ip] = next, taken)
      BY <1>1, <1>4, <1>8 DEF Predict, next, taken
    <2>3. (branch_target_dist[ip] = next) \in BOOLEAN
      OBVIOUS
    <2> QED BY <1>2, <1>5, <1>8, <2>1, <2>2, <2>3 DEF next, taken
  <1>9. CASE /\ next # None /\ ip \in DOMAIN annotations /\ kind[ip] # "indirect"
             /\ kind[ip] \in {"call", "return"} /\ x86_translate
    BY <1>1, <1>2, <1>3, <1>4, <1>9 DEF Predict, next
  <1>10. CASE /\ next # None /\ ip \in DOMAIN annotations /\ kind[ip] # "indirect"
              /\ ~(kind[ip] \in {"call", "return"} /\ x86_translate)
    <2>1. Update(ip, get_prediction(ip) = taken, taken)
      BY <1>1, <1>4, <1>10 DEF Predict, next, taken
    <2>2. (get_prediction(ip) = taken) \in BOOLEAN
      OBVIOUS
    <2> QED BY <1>2, <1>3, <1>5, <1>10, <2>1, <2>2 DEF next, taken
  <1> QED BY <1>6, <1>7, <1>8, <1>9, <1>10

\* What was processed before stays as it was.
LEMMA KeepsPast ==
    ASSUME CodecInv, LoopInv, Iterate, reader' # "aborted",
           NEW m, m = Len(scheduled) + 1, NEW ip, ip = Soper(decoded[pos])
    PROVE  /\ m \in Nat \ {0} /\ Ip(m)' = ip
           /\ \A k \in 1..(m - 1) : Ip(k)' = Ip(k) /\ (EnteredTaken(k)' <=> EnteredTaken(k))
           /\ Direct \subseteq 1..(m - 1)
           /\ Direct' = IF ip \in Branches /\ kind[ip] # "indirect"
                        THEN Direct \cup {m} ELSE Direct
           /\ \A k \in 1..(m - 1) : k \in Takens <=> k \in Takens'
           /\ m \in Takens' <=> EnteredTaken(m)'
           /\ \A x : Of(x)' = (IF x = ip THEN Of(x) \cup {m} ELSE Of(x))
           /\ \A x : Of(x) \subseteq 1..(m - 1)
  <1>1. /\ m \in Nat \ {0} /\ Len(scheduled) = m - 1 /\ Len(scheduled') = m
        /\ \A k \in 1..(m - 1) : scheduled'[k] = scheduled[k] /\ ~Last(k) /\ ~Last(k)'
        /\ scheduled'[m] = decoded[pos]
        /\ UNCHANGED <<oper_table, sent>>
    BY Advances
  <1>2. \A k \in 1..(m - 1) : Ip(k)' = Ip(k)
    BY <1>1 DEF Ip, Soper
  <1>3. Ip(m)' = ip
    BY <1>1 DEF Ip, Soper
  <1>4. \A k \in 1..(m - 1) : EnteredTaken(k)' <=> EnteredTaken(k)
    BY <1>1, <1>2 DEF EnteredTaken, Taken
  <1>5. \A k : k \in 1..m <=> k \in 1..(m - 1) \/ k = m
    BY <1>1
  <1>6. m \notin 1..(m - 1)
    BY <1>1
  <1>7. Direct = {k \in 1..(m - 1) : Ip(k) \in Branches /\ kind[Ip(k)] # "indirect"}
    BY <1>1 DEF Direct
  <1>8. Direct' = {k \in 1..m : Ip(k)' \in Branches /\ kind[Ip(k)'] # "indirect"}
    BY <1>1 DEF Direct
  <1>9. Takens = {k \in 1..(m - 1) : EnteredTaken(k)}
    BY <1>1 DEF Takens
  <1>10. Takens' = {k \in 1..m : EnteredTaken(k)'}
    BY <1>1 DEF Takens
  <1>11. \A x : Of(x) = {k \in 1..(m - 1) : Ip(k) = x}
    BY <1>1 DEF Of
  <1>12. \A x : Of(x)' = {k \in 1..m : Ip(k)' = x}
    BY <1>1 DEF Of
  <1>13. Direct' = IF ip \in Branches /\ kind[ip] # "indirect"
                   THEN Direct \cup {m} ELSE Direct
    BY <1>2, <1>3, <1>5, <1>6, <1>7, <1>8
  <1>14. /\ \A k \in 1..(m - 1) : k \in Takens <=> k \in Takens'
         /\ m \in Takens' <=> EnteredTaken(m)'
    BY <1>4, <1>5, <1>9, <1>10
  <1>15. \A x : Of(x)' = (IF x = ip THEN Of(x) \cup {m} ELSE Of(x))
    BY <1>2, <1>3, <1>5, <1>6, <1>11, <1>12
  <1> QED BY <1>1, <1>2, <1>3, <1>4, <1>7, <1>11, <1>13, <1>14, <1>15

\* The table and the history register, when nothing is entered in them.
LEMMA NotEntered ==
    ASSUME CodecInv, LoopInv, PredictInv, Iterate, reader' # "aborted",
           NEW ip, ip = Soper(decoded[pos]), ~(ip \in Branches /\ kind[ip] # "indirect"),
           UNCHANGED <<pht, bhr>>
    PROVE  /\ bhr' = PathOf(Direct', Takens', Len(scheduled') + 1)
           /\ pht' \in [Histories -> 0..3]
           /\ \A i \in Histories :
                 Learnt(UsersOf(Processed', Direct', Takens', i), Takens', pht'[i])
  <1> DEFINE m == Len(scheduled) + 1
             D == Direct
             T == Takens
             T1 == Takens'
  <1>1. /\ m \in Nat \ {0} /\ D \subseteq 1..(m - 1) /\ Direct' = D
        /\ \A k \in 1..(m - 1) : Ip(k)' = Ip(k)
        /\ \A k \in 1..(m - 1) : k \in T <=> k \in T1
        /\ Len(scheduled) = m - 1 /\ Len(scheduled') = m
    BY KeepsPast, Advances
  <1> HIDE DEF m, D, T, T1
  <1>2. \A k \in D : Processed'[k] = Processed[k]
    BY <1>1 DEF Processed
  <1>3. \A k \in 1..m : PathOf(D, T1, k) = PathOf(D, T, k)
    <2> SUFFICES ASSUME NEW k \in 1..m PROVE PathOf(D, T1, k) = PathOf(D, T, k)
      OBVIOUS
    <2>1. \A j \in Nat : j \in D => j \in 1..(m - 1)
      BY <1>1
    <2>2. PathOf(D, T1, k) = PathOf(D, T1 \cap D, k)
      BY DEF PathOf
    <2>3. PathOf(D, T, k) = PathOf(D, T \cap D, k)
      BY DEF PathOf
    <2>4. T1 \cap D = T \cap D
      BY <1>1
    <2> QED BY <2>2, <2>3, <2>4
  <1>4. PathOf(D, T1, m + 1) = PathOf(D, T1, m)
    <2>1. m \in Nat /\ D \in SUBSET (1..m) /\ m \notin D
      BY <1>1
    <2> QED BY <2>1, PathSkips
  <1>5. \A i : UsersOf(Processed', D, T1, i) = UsersOf(Processed, D, T, i)
    <2>1. \A k \in D : k \in 1..m
      BY <1>1
    <2> QED BY <1>2, <1>3, <2>1 DEF UsersOf
  <1>6. ASSUME NEW S \in SUBSET D, NEW cnt, Learnt(S, T, cnt)
        PROVE  Learnt(S, T1, cnt)
    <2>1. \A k \in S : k \in T <=> k \in T1
      BY <1>1
    <2> QED BY <1>6, <2>1 DEF Learnt
  <1>7. \A i : UsersOf(Processed, D, T, i) \in SUBSET D
    BY DEF UsersOf
  <1>8. bhr' = PathOf(D, T1, m + 1)
    <2>1. bhr = PathOf(D, T, m)
      BY DEF PredictInv, D, T, m
    <2>2. m \in 1..m
      BY <1>1
    <2> QED BY <1>3, <1>4, <2>1, <2>2
  <1>9. ASSUME NEW i \in Histories
        PROVE  Learnt(UsersOf(Processed', D, T1, i), T1, pht'[i])
    <2>1. Learnt(UsersOf(Processed, D, T, i), T, pht[i]) /\ pht'[i] = pht[i]
      BY DEF PredictInv, D, T
    <2> QED BY <1>5, <1>6, <1>7, <2>1
  <1> QED BY <1>1, <1>8, <1>9 DEF PredictInv, T1

\* A direct branch moves the history on, and one counter.
LEMMA Entered ==
    ASSUME CodecInv, LoopInv, PredictInv, Iterate, reader' # "aborted",
           NEW ip, ip = Soper(decoded[pos]), ip \in Branches, kind[ip] # "indirect",
           NEW m, m = Len(scheduled) + 1, NEW taken \in BOOLEAN, taken <=> EnteredTaken(m)',
           NEW correct, Update(ip, correct, taken)
    PROVE  /\ bhr' = PathOf(Direct', Takens', Len(scheduled') + 1)
           /\ pht' \in [Histories -> 0..3]
           /\ \A i \in Histories :
                 Learnt(UsersOf(Processed', Direct', Takens', i), Takens', pht'[i])
  <1> DEFINE D == Direct
             D1 == Direct'
             T == Takens
             T1 == Takens'
             index == Index(ip, bhr)
  <1>1. /\ m \in Nat \ {0} /\ D \subseteq 1..(m - 1) /\ D1 = D \cup {m}
        /\ \A k \in 1..(m - 1) : Ip(k)' = Ip(k)
        /\ Ip(m)' = ip
        /\ \A k \in 1..(m - 1) : k \in T <=> k \in T1
        /\ m \in T1 <=> taken
        /\ Len(scheduled) = m - 1 /\ Len(scheduled') = m
    BY KeepsPast, Advances
  <1>2. /\ bhr = PathOf(D, T, m) /\ bhr \in Histories
        /\ pht \in [Histories -> 0..3]
    BY PathType DEF PredictInv
  <1>3. index \in Histories
    <2>1. ip \in DOMAIN kind
      BY DEF Branches
    <2> QED BY <1>2, <2>1, PredictionAssumption DEF PredictionAssumption, Index
  <1>4. /\ bhr' = Shifted(taken)
        /\ pht' = [pht EXCEPT ![index] = IF taken THEN counter_inc(@) ELSE counter_dec(@)]
    BY DEF Update
  <1> HIDE DEF D, D1, T, T1, index
  <1>5. \A k \in D : Processed'[k] = Processed[k]
    BY <1>1 DEF Processed
  <1>6. Processed'[m] = ip
    BY <1>1 DEF Processed
  <1>7. \A k \in 1..m : PathOf(D1, T1, k) = PathOf(D, T, k)
    <2> SUFFICES ASSUME NEW k \in 1..m PROVE PathOf(D1, T1, k) = PathOf(D, T, k)
      OBVIOUS
    <2>0. m \in Nat /\ k \in Nat /\ k <= m
      BY <1>1
    <2>1. D \in SUBSET Nat /\ D1 \in SUBSET Nat
      <3>1. 1..(m - 1) \subseteq Nat /\ {m} \subseteq Nat
        BY <2>0
      <3> QED BY <1>1, <3>1
    <2>2. ASSUME NEW j \in Nat, j < k PROVE j \in D <=> j \in D1
      <3>1. j # m
        BY <2>0, <2>2
      <3> QED BY <1>1, <3>1
    <2>3. \A j \in D1 : j < k => (j \in T <=> j \in T1)
      BY <1>1
    <2>4. PathOf(D, T, k) = PathOf(D, T \cap D, k)
      BY DEF PathOf
    <2>5. PathOf(D1, T1, k) = PathOf(D1, T1 \cap D1, k)
      BY DEF PathOf
    <2>6. \A j \in Nat : j < k => (j \in T \cap D <=> j \in T1 \cap D1)
      BY <2>2, <2>3
    <2>7. PathOf(D, T \cap D, k) = PathOf(D1, T1 \cap D1, k)
      BY <2>0, <2>1, <2>2, <2>6, PathKeeps
    <2> QED BY <2>4, <2>5, <2>7
  <1>8. bhr' = PathOf(D1, T1, m + 1)
    <2>1. PathOf(D \cup {m}, T1, m + 1) = Moved(PathOf(D, T, m), m \in T1)
      <3>1. m \in Nat /\ D \in SUBSET (1..(m - 1)) /\ \A j \in D : j \in T <=> j \in T1
        BY <1>1
      <3> QED BY <3>1, PathShifts
    <2>2. (m \in T1) = taken
      <3>1. (m \in T1) \in BOOLEAN
        OBVIOUS
      <3> QED BY <1>1, <3>1
    <2>3. bhr' = Moved(bhr, taken)
      BY <1>4 DEF Shifted, Moved
    <2> QED BY <1>1, <1>2, <2>1, <2>2, <2>3
  <1>9. pht' \in [Histories -> 0..3]
    <2>1. \A cnt \in 0..3 : counter_inc(cnt) \in 0..3 /\ counter_dec(cnt) \in 0..3
      BY DEF counter_inc, counter_dec
    <2>2. pht[index] \in 0..3
      BY <1>2, <1>3
    <2> QED BY <1>2, <1>4, <2>1, <2>2
  <1>10. ASSUME NEW i \in Histories
         PROVE  Learnt(UsersOf(Processed', D1, T1, i), T1, pht'[i])
    <2> DEFINE S == UsersOf(Processed, D, T, i)
    <2>1. Learnt(S, T, pht[i])
      BY DEF PredictInv, D, T
    <2>2. S \in SUBSET D /\ m \notin D
      BY <1>1 DEF UsersOf
    <2>3. \A k \in D : k \in UsersOf(Processed', D1, T1, i) <=> k \in S
      <3>1. \A k \in D : k \in 1..m /\ k \in D1
        BY <1>1
      <3> QED BY <1>5, <1>7, <3>1 DEF UsersOf
    <2>4. m \in UsersOf(Processed', D1, T1, i) <=> index = i
      <3>1. m \in D1 /\ m \in 1..m
        BY <1>1
      <3> QED BY <1>2, <1>6, <1>7, <3>1 DEF UsersOf, index
    <2>5. UsersOf(Processed', D1, T1, i) = IF index = i THEN S \cup {m} ELSE S
      <3> DEFINE users == UsersOf(Processed', D1, T1, i)
      <3>1. users \subseteq D \cup {m}
        BY <1>1 DEF UsersOf
      <3> HIDE DEF S, users
      <3>2. \A k : k \in users <=> k \in S \/ (k = m /\ index = i)
        BY <2>2, <2>3, <2>4, <3>1 DEF users
      <3>3. CASE index = i
        <4>1. users = S \cup {m}
          BY <3>2, <3>3
        <4> QED BY <3>3, <4>1 DEF users
      <3>4. CASE index # i
        <4>1. users = S
          BY <3>2, <3>4
        <4> QED BY <3>4, <4>1 DEF users
      <3> QED BY <3>3, <3>4
    <2> HIDE DEF S
    <2>6. \A k \in S : k \in T <=> k \in T1
      BY <1>1, <2>2
    <2>7. CASE index = i
      <3>1. pht'[i] = IF m \in T1 THEN counter_inc(pht[i]) ELSE counter_dec(pht[i])
        BY <1>1, <1>2, <1>4, <2>7
      <3>2. m \in Nat /\ S \in SUBSET (1..(m - 1))
        BY <1>1, <2>2
      <3>3. Learnt(S \cup {m}, T1,
                   IF m \in T1 THEN counter_inc(pht[i]) ELSE counter_dec(pht[i]))
        BY <2>1, <2>6, <3>2, LearnsOne
      <3> QED BY <2>5, <2>7, <3>1, <3>3
    <2>8. CASE index # i
      <3>1. pht'[i] = pht[i]
        BY <1>2, <1>4, <2>8
      <3>2. Learnt(S, T1, pht[i])
        BY <2>1, <2>6 DEF Learnt
      <3> QED BY <2>5, <2>8, <3>1, <3>2
    <2> QED BY <2>7, <2>8
  <1> QED BY <1>1, <1>8, <1>9, <1>10 DEF D1, T1

\* The accuracy counts one execution more of the branch that was processed.
LEMMA Counted ==
    ASSUME CodecInv, LoopInv, PredictInv, Iterate, reader' # "aborted",
           NEW m, m = Len(scheduled) + 1, NEW ip, ip = Soper(decoded[pos]),
           NEW correct \in BOOLEAN, NEW taken,
           ip \in Branches => Update(ip, correct, taken),
           ip \notin Branches => UNCHANGED branch_pred_accuracy,
           ip \notin DOMAIN annotations \/ kind[ip] = "indirect" =>
               (correct <=> ~Last(m)' /\ (ip \in DOMAIN annotations =>
                                             Heaviest(ip, Soper(sent[m + 1]))))
    PROVE  /\ branch_pred_accuracy' \in [Branches -> [correct : Nat, total : Nat]]
           /\ AccuracyCounts'
  <1> DEFINE acc == branch_pred_accuracy
  <1>1. /\ m \in Nat \ {0} /\ Ip(m)' = ip
        /\ \A x : Of(x)' = (IF x = ip THEN Of(x) \cup {m} ELSE Of(x))
        /\ \A x : Of(x) \subseteq 1..(m - 1)
    BY KeepsPast
  <1>2. /\ \A k \in 1..(m - 1) : ~Last(k) /\ ~Last(k)'
        /\ UNCHANGED <<oper_table, sent>>
    BY Advances
  <1>3. \A k : Soper(sent[k])' = Soper(sent[k])
    BY <1>2 DEF Soper
  <1> DEFINE Good(x, k) == x \in DOMAIN annotations => Heaviest(x, Soper(sent[k + 1]))
  <1>4. \A x : Right(x) = {k \in Of(x) : Good(x, k)}
    BY <1>1, <1>2 DEF Right
  <1>5. \A x : Right(x)' = {k \in Of(x)' : ~Last(k)' /\ Good(x, k)}
    BY <1>3 DEF Right, Heaviest
  <1>6. \A k : k \in 1..(m - 1) => k # m
    BY <1>1
  <1> HIDE DEF Good
  <1>7. \A x : Right(x)' = IF x = ip /\ ~Last(m)' /\ Good(x, m)
                           THEN Right(x) \cup {m} ELSE Right(x)
    <2> SUFFICES ASSUME NEW x
                 PROVE  Right(x)' = IF x = ip /\ ~Last(m)' /\ Good(x, m)
                                    THEN Right(x) \cup {m} ELSE Right(x)
      OBVIOUS
    <2> DEFINE of1 == Of(x)'
               right1 == Right(x)'
    <2>1. of1 = IF x = ip THEN Of(x) \cup {m} ELSE Of(x)
      BY <1>1
    <2>2. \A k : k \in right1 <=> k \in of1 /\ ~Last(k)' /\ Good(x, k)
      BY <1>5
    <2>3. \A k \in Of(x) : ~Last(k)'
      BY <1>1, <1>2
    <2>4. \A k : k \in Right(x) <=> k \in Of(x) /\ Good(x, k)
      BY <1>4
    <2> HIDE DEF of1, right1
    <2>5. CASE x = ip /\ ~Last(m)' /\ Good(x, m)
      <3>1. right1 = Right(x) \cup {m}
        BY <2>1, <2>2, <2>3, <2>4, <2>5, ZenonT(60)
      <3> QED BY <2>5, <3>1 DEF right1
    <2>6. CASE ~(x = ip /\ ~Last(m)' /\ Good(x, m))
      <3>1. right1 = Right(x)
        BY <2>1, <2>2, <2>3, <2>4, <2>6, ZenonT(60)
      <3> QED BY <2>6, <3>1 DEF right1
    <2> QED BY <2>5, <2>6
  <1>8. ASSUME NEW S \in SUBSET (1..(m - 1))
        PROVE  /\ Cardinality(S) \in Nat
               /\ Cardinality(S \cup {m}) = Cardinality(S) + 1
    <2>1. IsFiniteSet(1..(m - 1)) /\ m \notin S
      <3>1. 1 \in Int /\ m - 1 \in Int /\ m \notin 1..(m - 1)
        BY <1>1
      <3>2. IsFiniteSet(1..(m - 1))
        BY <3>1, FS_Interval
      <3> QED BY <3>1, <3>2
    <2>2. IsFiniteSet(S)
      BY <2>1, FS_Subset
    <2> QED BY <2>1, <2>2, FS_AddElement, FS_CardinalityType
  <1>9. acc \in [Branches -> [correct : Nat, total : Nat]]
    BY DEF PredictInv
  <1>10. ASSUME NEW x \in Branches
         PROVE  /\ acc[x].correct \in Nat /\ acc[x].total \in Nat
                /\ acc[x].total = Cardinality(Of(x))
                /\ x \notin DOMAIN annotations \/ kind[x] = "indirect" =>
                      acc[x].correct = Cardinality(Right(x))
    BY <1>9 DEF PredictInv, AccuracyCounts
  <1>11. CASE ip \notin Branches
    <2>1. acc' = acc
      BY <1>11
    <2>2. \A x \in Branches : Of(x)' = Of(x) /\ Right(x)' = Right(x)
      BY <1>1, <1>7, <1>11
    <2> QED BY <1>9, <1>10, <2>1, <2>2 DEF AccuracyCounts
  <1>12. CASE ip \in Branches
    <2> DEFINE one == [correct |-> acc[ip].correct + (IF correct THEN 1 ELSE 0),
                       total |-> acc[ip].total + 1]
    <2>1. acc' = [acc EXCEPT ![ip] = one]
      BY <1>12 DEF Update, Count
    <2>2. one \in [correct : Nat, total : Nat]
      BY <1>10, <1>12
    <2>3. acc' \in [Branches -> [correct : Nat, total : Nat]]
      BY <1>9, <2>1, <2>2
    <2>4. ASSUME NEW x \in Branches
          PROVE  /\ acc'[x].total = Cardinality(Of(x)')
                 /\ x \notin DOMAIN annotations \/ kind[x] = "indirect" =>
                       acc'[x].correct = Cardinality(Right(x)')
      <3>1. CASE x # ip
        <4>1. acc'[x] = acc[x] /\ Of(x)' = Of(x) /\ Right(x)' = Right(x)
          BY <1>1, <1>7, <1>9, <2>1, <3>1
        <4> QED BY <1>10, <4>1
      <3>2. CASE x = ip
        <4>1. acc'[x] = one
          BY <1>9, <2>1, <3>2
        <4>2. Cardinality(Of(x)') = Cardinality(Of(x)) + 1
          BY <1>1, <1>8, <3>2
        <4>3. ASSUME x \notin DOMAIN annotations \/ kind[x] = "indirect"
              PROVE  acc'[x].correct = Cardinality(Right(x)')
          <5>1. correct <=> ~Last(m)' /\ Good(x, m)
            BY <3>2, <4>3 DEF Good
          <5>2. Right(x) \in SUBSET (1..(m - 1))
            BY <1>1, <1>4
          <5>3. Cardinality(Right(x)') = Cardinality(Right(x)) + (IF correct THEN 1 ELSE 0)
            <6>1. Cardinality(Right(x)) \in Nat /\ Cardinality(Right(x) \cup {m}) =
                                                   Cardinality(Right(x)) + 1
              BY <1>8, <5>2
            <6>2. Right(x)' = IF correct THEN Right(x) \cup {m} ELSE Right(x)
              BY <1>7, <3>2, <5>1
            <6> QED BY <6>1, <6>2
          <5> QED BY <1>10, <3>2, <4>1, <4>3, <5>3
        <4> QED BY <1>10, <3>2, <4>1, <4>2, <4>3
      <3> QED BY <3>1, <3>2
    <2> QED BY <2>3, <2>4 DEF AccuracyCounts
  <1> QED BY <1>11, <1>12

LEMMA SchedulePredict ==
    ASSUME CodecInv, LoopInv, PredictInv, Schedule, reader' # "aborted"
    PROVE  PredictInv'
  <1>1. PICK m : m = Len(scheduled) + 1
    OBVIOUS
  <1>2. PICK ip : ip = Soper(decoded[pos])
    OBVIOUS
  <1>3. Iterate /\ Predict(ip, Taken(decoded[pos]), Successor)
    BY <1>2, KnowsSoper DEF Schedule, Iterate
  <1>4. CASE ip \notin Branches
    <2>1. UNCHANGED <<branch_target_dist, pht, bhr, branch_pred_accuracy>>
      BY <1>3, <1>4 DEF Predict, predictionVars
    <2>2. PICK correct \in BOOLEAN :
              correct <=> ~Last(m)' /\ (ip \in DOMAIN annotations =>
                                           Heaviest(ip, Soper(sent[m + 1])))
      OBVIOUS
    <2>3. /\ branch_pred_accuracy' \in [Branches -> [correct : Nat, total : Nat]]
          /\ AccuracyCounts'
      BY <1>1, <1>2, <1>3, <1>4, <2>1, <2>2, Counted
    <2>4. /\ bhr' = PathOf(Direct', Takens', Len(scheduled') + 1)
          /\ pht' \in [Histories -> 0..3]
          /\ \A i \in Histories :
                Learnt(UsersOf(Processed', Direct', Takens', i), Takens', pht'[i])
      BY <1>2, <1>3, <1>4, <2>1, NotEntered
    <2> QED BY <2>1, <2>3, <2>4 DEF PredictInv
  <1>5. CASE ip \in Branches
    <2>1. PICK correct \in BOOLEAN, taken \in BOOLEAN :
              /\ Update(ip, correct, taken)
              /\ kind[ip] # "indirect" => (taken <=> EnteredTaken(m)')
              /\ ip \notin DOMAIN annotations \/ kind[ip] = "indirect" =>
                    (correct <=> ~Last(m)' /\ (ip \in DOMAIN annotations =>
                                                  Heaviest(ip, Soper(sent[m + 1]))))
      BY <1>1, <1>2, <1>5, Enters
    <2>2. /\ branch_pred_accuracy' \in [Branches -> [correct : Nat, total : Nat]]
          /\ AccuracyCounts'
      BY <1>1, <1>2, <1>3, <1>5, <2>1, Counted
    <2>3. branch_target_dist' = branch_target_dist
      BY <2>1 DEF Update
    <2>4. /\ bhr' = PathOf(Direct', Takens', Len(scheduled') + 1)
          /\ pht' \in [Histories -> 0..3]
          /\ \A i \in Histories :
                Learnt(UsersOf(Processed', Direct', Takens', i), Takens', pht'[i])
      <3>1. CASE kind[ip] = "indirect"
        <4>1. UNCHANGED <<pht, bhr>>
          BY <2>1, <3>1 DEF Update
        <4> QED BY <1>2, <1>3, <3>1, <4>1, NotEntered
      <3>2. CASE kind[ip] # "indirect"
        BY <1>1, <1>2, <1>3, <1>5, <2>1, <3>2, Entered
      <3> QED BY <3>1, <3>2
    <2> QED BY <2>2, <2>3, <2>4 DEF PredictInv
  <1> QED BY <1>4, <1>5

\* Nothing else touches the predictor, or what it has been told.
LEMMA Unmoved ==
    ASSUME PredictInv, UNCHANGED predictionVars, scheduled' = scheduled,
           scheduled = <<>> \/ UNCHANGED <<oper_table, sent, tmterr>>
    PROVE  PredictInv'
  <1>1. /\ Direct' = Direct /\ Takens' = Takens /\ Processed' = Processed
        /\ \A x : Of(x)' = Of(x)
        /\ \A x : Right(x)' = Right(x)
    <2>1. CASE scheduled = <<>>
      <3>1. 1..Len(scheduled) = {} /\ 1..Len(scheduled') = {}
        BY <2>1
      <3>2. Direct' = Direct /\ Takens' = Takens /\ Processed' = Processed
        BY <3>1 DEF Direct, Takens, Processed
      <3>3. /\ \A x : Of(x)' = Of(x) /\ Of(x) = {}
            /\ \A x : Of(x)' = {}
        BY <3>1 DEF Of
      <3>4. \A x : Right(x)' = Right(x)
        BY <3>3 DEF Right
      <3> QED BY <3>2, <3>3, <3>4
    <2>2. CASE UNCHANGED <<oper_table, sent, tmterr>>
      BY <2>2 DEF Direct, Takens, Processed, Of, Right, Ip, Soper, EnteredTaken, Last,
                  Taken, Heaviest
    <2> QED BY <2>1, <2>2
  <1>2. AccuracyCounts'
    BY <1>1 DEF PredictInv, AccuracyCounts, predictionVars
  <1> QED BY <1>1, <1>2 DEF PredictInv, predictionVars

LEMMA NextPredict == CodecInv /\ LoopInv /\ PredictInv /\ [Next]_vars => PredictInv'
  <1> SUFFICES ASSUME CodecInv, LoopInv, PredictInv, [Next]_vars PROVE PredictInv'
    OBVIOUS
  <1>1. CASE Write
    <2>1. /\ tracer = "running" /\ UNCHANGED readerVars /\ UNCHANGED predictionVars
      BY <1>1 DEF Write, LoadImage, WriteDynamic, WriteAndLink, Exit, Crash
    <2>2. scheduled = <<>> /\ scheduled' = scheduled
      BY <2>1 DEF LoopInv, readerVars
    <2> QED BY <2>1, <2>2, Unmoved
  <1>2. CASE Open
    BY <1>2, Unmoved DEF Open, OpenTrace, writerVars
  <1>3. CASE First
    <2>1. /\ reader = "opened" /\ scheduled' = scheduled /\ UNCHANGED predictionVars
      BY <1>3 DEF First, ReadFirst
    <2>2. scheduled = <<>>
      BY <2>1 DEF LoopInv
    <2> QED BY <2>1, <2>2, Unmoved
  <1>4. CASE Schedule /\ reader' = "aborted"
    <2>1. /\ Read /\ Aborts /\ scheduled' = scheduled /\ UNCHANGED predictionVars
          /\ UNCHANGED writerVars /\ tmterr = "TMTIO_OK" /\ reader = "reading"
      BY <1>4 DEF Schedule, Iterate
    <2>2. tmterr' = "TMTIO_OK"
      <3>1. ~AtEnd
        BY <2>1 DEF Aborts
      <3> QED BY <2>1, <3>1, ReadStatus
    <2> QED BY <2>1, <2>2, Unmoved DEF writerVars
  <1>5. CASE Schedule /\ reader' # "aborted"
    BY <1>5, SchedulePredict
  <1>6. CASE Stop
    BY <1>6, Unmoved DEF Stop, Finish, writerVars
  <1>7. CASE UNCHANGED vars
    BY <1>7, Unmoved DEF vars, traceVars
  <1> QED BY <1>1, <1>2, <1>3, <1>4, <1>5, <1>6, <1>7 DEF Next

LEMMA InitPredict == Init => PredictInv
  <1> SUFFICES ASSUME Init PROVE PredictInv
    OBVIOUS
  <1>1. /\ scheduled = <<>> /\ PredictionInit
    BY DEF Init, TraceInit
  <1>2. 1..Len(scheduled) = {} /\ Len(scheduled) + 1 = 1
    BY <1>1
  <1>3. Direct = {} /\ \A x : Of(x) = {} /\ Right(x) = {}
    BY <1>2 DEF Direct, Of, Right
  <1>4. bhr = PathOf(Direct, Takens, Len(scheduled) + 1)
    BY <1>1, <1>3 DEF PredictionInit, PathOf
  <1>5. \A i \in Histories : Learnt(UsersOf(Processed, Direct, Takens, i), Takens, pht[i])
    BY <1>1, <1>3 DEF PredictionInit, UsersOf, Learnt
  <1>6. AccuracyCounts
    BY <1>1, <1>3, FS_EmptySet DEF PredictionInit, AccuracyCounts
  <1> QED BY <1>1, <1>4, <1>5, <1>6 DEF PredictInv, PredictionInit

(***************************************************************************)
(* The predictor's state is told by what was processed, at any time.       *)
(***************************************************************************)
THEOREM PredictInvariant == Spec => [](CodecInv /\ LoopInv /\ PredictInv)
  <1>1. Init => CodecInv /\ LoopInv /\ PredictInv
    BY InitCodec, InitLoop, InitPredict
  <1>2. (CodecInv /\ LoopInv /\ PredictInv) /\ [Next]_vars
            => (CodecInv /\ LoopInv /\ PredictInv)'
    BY NextCodec, NextLoop, NextPredict
  <1> QED BY <1>1, <1>2, PTL DEF Spec

\* The paths and the counters of the properties are those of the invariant.
LEMMA PathIsPathOf == \A k : PathBefore(k) = PathOf(Direct, Takens, k)
  <1>1. \A j \in Direct : EnteredTaken(j) <=> j \in Takens
    BY DEF Direct, Takens
  <1> QED BY <1>1 DEF PathBefore, PathOf

LEMMA PredictHistory == PredictInv => HistoryIsPath
BY PathIsPathOf DEF PredictInv, HistoryIsPath

LEMMA PredictLearns == PredictInv => LearnsTwice
  <1> SUFFICES ASSUME PredictInv, NEW i \in Histories,
                      NEW S, S = {k \in DOMAIN Counter : Counter[k] = i}
               PROVE  /\ S = {} => pht[i] = 2
                      /\ \A j, k \in S :
                            LastTwo(j, k, S) /\ (EnteredTaken(j) <=> EnteredTaken(k))
                                => (pht[i] >= 2 <=> EnteredTaken(k))
    BY DEF LearnsTwice
  <1>1. \A k \in Direct : Processed[k] = Ip(k) /\ (EnteredTaken(k) <=> k \in Takens)
    BY DEF Direct, Processed, Takens
  <1>2. S = UsersOf(Processed, Direct, Takens, i)
    BY <1>1, PathIsPathOf DEF Counter, UsersOf
  <1>3. Learnt(S, Takens, pht[i]) /\ S \subseteq Direct
    BY <1>2 DEF PredictInv, UsersOf
  <1> QED BY <1>1, <1>3 DEF Learnt

(***************************************************************************)
(* The history register holds the outcomes of the direct branches that     *)
(* were processed last, however long the register is. (update_bp_accuracy) *)
(***************************************************************************)
THEOREM HistoryHoldsPath == Spec => []HistoryIsPath
BY PredictInvariant, PredictHistory, PTL

(***************************************************************************)
(* What happened twice in a row on a path is predicted the third time,     *)
(* with any hashing of addresses and paths. (get_prediction)               *)
(***************************************************************************)
THEOREM PredictorLearnsTwice == Spec => []LearnsTwice
BY PredictInvariant, PredictLearns, PTL

(***************************************************************************)
(* The accuracy that is reported counts every execution of a branch once,  *)
(* and as right those of indirect branches whose successor was foreseen.   *)
(***************************************************************************)
THEOREM AccuracyIsExact == Spec => []AccuracyCounts
  <1>1. PredictInv => AccuracyCounts
    BY DEF PredictInv
  <1> QED BY <1>1, PredictInvariant, PTL

\* The rest of the types.
RestType ==
    /\ tracer \in {"running", "exited", "crashed"} /\ writes \in Nat
    /\ tmterr \in {"TMTIO_OK", "TMTIO_EOF", "TMTIO_ERROR"}

LEMMA NextRest == RestType /\ [Next]_vars => RestType'
  <1> SUFFICES ASSUME RestType, [Next]_vars PROVE RestType'
    OBVIOUS
  <1> USE DEF RestType, readerVars, writerVars
  <1>1. CASE Write
    BY <1>1 DEF Write, LoadImage, WriteDynamic, WriteAndLink, Exit, Crash
  <1>2. ASSUME Read, UNCHANGED writerVars
        PROVE  RestType'
    BY <1>2 DEF Read, Status
  <1>3. CASE Open \/ Stop
    BY <1>3 DEF Open, OpenTrace, Stop, Finish
  <1>4. CASE First \/ Schedule
    BY <1>2, <1>4 DEF First, ReadFirst, Schedule, Iterate
  <1>5. CASE UNCHANGED vars
    BY <1>5 DEF vars, traceVars
  <1> QED BY <1>1, <1>3, <1>4, <1>5 DEF Next

(***************************************************************************)
(* Type correctness: the tables of both processes stay within their rows,  *)
(* the counters of the predictor within two bits.                          *)
(***************************************************************************)
THEOREM ReplayTypeCorrect == Spec => []TypeOK
  <1>1. Init => RestType
    BY DEF Init, TraceInit, RestType
  <1>2. CodecInv /\ LoopInv /\ PredictInv /\ RestType => TypeOK
    <2> SUFFICES ASSUME CodecInv, LoopInv, PredictInv, RestType PROVE TypeOK
      OBVIOUS
    <2>1. /\ encs \in Seq(Tables) /\ Len(encs) \in 1..Len(encs)
          /\ oper_table \in Seq(Ips \cup {Link}) /\ Len(oper_table) <= Modulus
          /\ dec \in Tables
      BY DEF CodecInv, Coded, Read1
    <2>5. program \in Seq(Ips \cup {Link})
      BY <2>1 DEF CodecInv, ProgramInv
    <2>2. encs[Len(encs)] \in Tables
      BY <2>1
    <2>3. TraceTypeOK
      BY <2>1, <2>2, <2>5 DEF TraceTypeOK, LoopInv, RestType, Tables
    <2>4. bhr \in Histories
      BY PathType DEF PredictInv
    <2> QED BY <2>3, <2>4 DEF TypeOK, PredictInv
  <1> QED BY <1>1, <1>2, NextRest, PredictInvariant, PTL DEF Spec
=============================================================================
