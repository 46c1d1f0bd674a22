--------------------------- MODULE DdOutput_proofs ---------------------------
(***************************************************************************)
(* Runs of any length and number, saved at any interval and broken off     *)
(* anywhere: a single diagram is never continued with a gap.               *)
(***************************************************************************)
EXTENDS DdOutput, TLAPS

LEMMA RankType == \A k \in Kinds : rank[k] \in 1..4
BY DEF Kinds, rank

LEMMA RankInjective ==
    ASSUME NEW j \in Kinds, NEW k \in Kinds, rank[j] <= rank[k], rank[k] <= rank[j]
    PROVE  j = k
  <1>1. /\ rank["dinrdy"] = 1 /\ rank["dinsys"] = 2
        /\ rank["dinsin"] = 3 /\ rank["dindin"] = 4
    BY DEF Kinds, rank
  <1>2. j \in {"dinrdy", "dinsys", "dinsin", "dindin"}
        /\ k \in {"dinrdy", "dinsys", "dinsin", "dindin"}
    BY DEF Kinds
  <1> QED BY <1>1, <1>2

(***************************************************************************)
(* Types.                                                                  *)
(***************************************************************************)
FileType == [is : {"absent", "torn", "saved"}, dins : SUBSET Nat, stop : Nat]

\* Between runs nothing is left of the diagrams.
TypeInv == TypeOK /\ (phase = "idle" => doit = {})

LEMMA InitType == Init => TypeInv
  <1> SUFFICES ASSUME Init PROVE TypeInv
    OBVIOUS
  <1>1. files \in [Kinds -> FileType]
    BY DEF Init, Absent, FileType
  <1>2. dd \in [Kinds -> SUBSET Nat]
    BY DEF Init
  <1>3. done \in BOOLEAN /\ foreign \in BOOLEAN /\ broken \in BOOLEAN
    BY DEF Init
  <1> QED BY <1>1, <1>2, <1>3 DEF Init, TypeOK, TypeInv, FileType

LEMMA AfterType ==
    ASSUME TypeOK, NEW start \in Nat, NEW k \in Kinds, NEW loads
    PROVE  AfterIf(loads, start, k) \in Nat
  <1>1. files[k].stop \in Nat
    BY DEF TypeOK
  <1> QED BY <1>1 DEF AfterIf, After

LEMMA StartDinType ==
    ASSUME TypeOK, NEW loads
    PROVE  StartDin(loads) \in Nat
  <1>1. g_dinstart \in Nat
    BY DEF TypeOK
  <1>2. AfterIf(loads, g_dinstart, "dinrdy") \in Nat
    BY <1>1, AfterType DEF Kinds
  <1>3. AfterIf(loads, AfterIf(loads, g_dinstart, "dinrdy"), "dinsys") \in Nat
    BY <1>2, AfterType DEF Kinds
  <1>4. AfterIf(loads, AfterIf(loads, AfterIf(loads, g_dinstart, "dinrdy"), "dinsys"),
                "dinsin") \in Nat
    BY <1>3, AfterType DEF Kinds
  <1> QED BY <1>4, AfterType DEF Kinds, StartDin

LEMMA StartType ==
    ASSUME TypeInv, NEW kinds \in Choices, NEW ops \in 0..MaxOps,
           NEW restart, Start(kinds, restart, ops)
    PROVE  TypeInv'
  <1> USE DEF TypeInv
  <1> DEFINE loads == {k \in IF use_zdds THEN restart ELSE kinds : Readable(k)}
  <1>1. kinds \subseteq Kinds /\ ops \in Nat
    BY DdAssumption DEF DdAssumption
  <1>2. StartDin(loads) \in Nat
    BY StartDinType
  <1>3. Loaded(loads) \in [Kinds -> SUBSET Nat]
    BY DEF Loaded, TypeOK
  <1>4. /\ phase' = "schedule" /\ limit' = ops /\ doit' = kinds
        /\ dd' = Loaded(loads) /\ g_dd_start_din' = StartDin(loads)
        /\ opcount' = 0 /\ bdd_tick_time' = 0 /\ done' = FALSE
        /\ runs' = runs + 1 /\ built' = built \cup {kinds}
        /\ foreign' = (foreign \/ ~(loads \subseteq kinds))
        /\ phase = "idle"
        /\ UNCHANGED <<use_zdds, g_dinstart, files, opening, storing, broken>>
    BY DEF Start, optionVars
  <1> HIDE DEF loads
  <1>5. opening' \subseteq doit' /\ storing' \subseteq doit'
    BY <1>4 DEF TypeOK
  <1>6. built' \subseteq SUBSET Kinds /\ runs' \in Nat /\ foreign' \in BOOLEAN
    BY <1>1, <1>4 DEF TypeOK
  <1>7. done' \in BOOLEAN /\ broken' \in BOOLEAN
    BY <1>4 DEF TypeOK
  <1>8. files' \in [Kinds -> FileType] /\ use_zdds' \in BOOLEAN /\ g_dinstart' \in {0, 1}
    BY <1>4 DEF TypeOK, FileType
  <1> QED BY <1>1, <1>2, <1>3, <1>4, <1>5, <1>6, <1>7, <1>8 DEF TypeOK, FileType

LEMMA AddTuplesType ==
    ASSUME TypeOK, NEW kinds, AddTuples(kinds)
    PROVE  dd' \in [Kinds -> SUBSET Nat]
BY DEF AddTuples, TypeOK

LEMMA CountOpType ==
    ASSUME TypeOK, NEW kinds, CountOp(kinds), Pending = {}
    PROVE  /\ opcount' \in Nat /\ bdd_tick_time' \in Nat
           /\ opening' \subseteq kinds /\ storing' \subseteq kinds
BY DEF CountOp, Save, Last, Pending, TypeOK

LEMMA NextType == TypeInv /\ [Next]_ddVars => TypeInv'
  <1> SUFFICES ASSUME TypeInv, [Next]_ddVars PROVE TypeInv'
    OBVIOUS
  <1> USE DEF TypeInv, optionVars, historyVars
  <1>1. ASSUME NEW kinds \in Choices, NEW ops \in 0..MaxOps, NEW restart,
               Start(kinds, restart, ops)
        PROVE  TypeInv'
    BY <1>1, StartType
  <1>2. CASE Schedule
    <2>1. dd' \in [Kinds -> SUBSET Nat]
      BY <1>2, AddTuplesType DEF Schedule
    <2>2. /\ opcount' \in Nat /\ bdd_tick_time' \in Nat
          /\ opening' \subseteq doit /\ storing' \subseteq doit
      BY <1>2, CountOpType DEF Schedule, Scheduling
    <2> QED BY <1>2, <2>1, <2>2 DEF Schedule, TypeOK
  <1>3. ASSUME NEW k \in Kinds, OutOfMemory(k)
        PROVE  TypeInv'
    <2>1. dd' \in [Kinds -> SUBSET Nat]
      BY <1>3, AddTuplesType DEF OutOfMemory
    <2>2. /\ opcount' \in Nat /\ bdd_tick_time' \in Nat
          /\ opening' \subseteq doit' /\ storing' \subseteq doit'
      BY <1>3, CountOpType DEF OutOfMemory, Scheduling
    <2>3. Cleared(k) \subseteq doit
      BY DEF Cleared
    <2>4. done' \in BOOLEAN /\ broken' \in BOOLEAN
      BY <1>3 DEF OutOfMemory
    <2>5. /\ phase = "schedule" /\ doit' = Cleared(k)
          /\ UNCHANGED <<use_zdds, g_dinstart, files, phase, limit, g_dd_start_din,
                         runs, built, foreign>>
      BY <1>3 DEF OutOfMemory, Scheduling
    <2> QED BY <2>1, <2>2, <2>3, <2>4, <2>5 DEF TypeOK
  <1>4. CASE MemoryCap
    <2>1. dd' \in [Kinds -> SUBSET Nat]
      BY <1>4, AddTuplesType DEF MemoryCap
    <2>2. /\ opcount' \in Nat /\ bdd_tick_time' \in Nat
          /\ opening' \subseteq {} /\ storing' \subseteq {}
      BY <1>4, CountOpType DEF MemoryCap, Scheduling
    <2>3. done' \in BOOLEAN /\ broken' \in BOOLEAN
      BY <1>4 DEF MemoryCap
    <2> QED BY <1>4, <2>1, <2>2, <2>3 DEF MemoryCap, TypeOK
  <1>5. CASE Finalize
    BY <1>5 DEF Finalize, Scheduling, Last, TypeOK
  <1>6. ASSUME NEW k \in Kinds, OpenFile(k)
        PROVE  TypeInv'
    <2>1. files' \in [Kinds -> FileType]
      BY <1>6 DEF OpenFile, Torn, TypeOK, FileType
    <2> QED BY <1>6, <2>1 DEF OpenFile, TypeOK, FileType
  <1>7. ASSUME NEW k \in Kinds, Store(k)
        PROVE  TypeInv'
    <2>1. files' \in [Kinds -> FileType]
      BY <1>7 DEF Store, Saved, TypeOK, FileType
    <2> QED BY <1>7, <2>1 DEF Store, TypeOK, FileType
  <1>8. CASE Exit \/ Crash
    <2>1. Gone /\ broken' \in BOOLEAN
      BY <1>8 DEF Exit, Crash, TypeOK
    <2>2. dd' \in [Kinds -> SUBSET Nat] /\ done' \in BOOLEAN
      BY <2>1 DEF Gone
    <2> QED BY <2>1, <2>2 DEF Gone, TypeOK
  <1>9. CASE UNCHANGED ddVars
    BY <1>9 DEF ddVars, TypeOK
  <1> QED BY <1>1, <1>2, <1>3, <1>4, <1>5, <1>6, <1>7, <1>8, <1>9 DEF Next

(***************************************************************************)
(* Type correctness: at any time a saving has to do with diagrams of this  *)
(* run, and a file holds a diagram and the number of an instruction.       *)
(***************************************************************************)
THEOREM TypeCorrect == Spec => []TypeOK
BY InitType, NextType, PTL DEF Spec, TypeInv

-----------------------------------------------------------------------------
(***************************************************************************)
(* The inductive invariant: neither a file nor the diagram being built     *)
(* lacks an instruction, and the run began no later than the diagram ends. *)
(***************************************************************************)
OneInv ==
    Alone =>
        /\ \A k \in Kinds : Complete(k)
        /\ \A k \in doit : g_dinstart..(opcount - 1) \subseteq dd[k]
        /\ \A k \in doit : g_dinstart..(g_dd_start_din - 1) \subseteq dd[k]
        /\ \E k \in Kinds \ {"dinsys"} : doit \subseteq {k}

\* A file that is not touched stays complete.
LEMMA StaysComplete ==
    ASSUME NEW k, Complete(k), files'[k] = files[k], g_dinstart' = g_dinstart
    PROVE  Complete(k)'
BY DEF Complete, Readable

LEMMA StartOne ==
    ASSUME TypeInv, OneInv, NEW kinds \in Choices, NEW ops, NEW restart,
           Start(kinds, restart, ops)
    PROVE  OneInv'
  <1> USE DEF TypeInv, TypeOK
  <1> DEFINE loads == {k \in IF use_zdds THEN restart ELSE kinds : Readable(k)}
  <1> SUFFICES ASSUME Alone' PROVE OneInv'
    BY DEF OneInv
  <1>1. /\ doit' = kinds /\ dd' = Loaded(loads) /\ g_dd_start_din' = StartDin(loads)
        /\ opcount' = 0 /\ built' = built \cup {kinds}
        /\ foreign' = (foreign \/ ~(loads \subseteq kinds))
        /\ files' = files /\ g_dinstart' = g_dinstart
    BY DEF Start, optionVars
  <1>2. \A k \in loads : Readable(k)
    OBVIOUS
  <1> HIDE DEF loads
  <1>3. Alone /\ loads \subseteq kinds
    BY <1>1 DEF Alone
  <1>4. PICK k \in Kinds \ {"dinsys"} : kinds = {k}
    BY <1>1 DEF Alone
  <1>5. \A j \in Kinds : Complete(j)
    BY <1>3 DEF OneInv
  <1>6. \A j \in Kinds : Complete(j)'
    BY <1>1, <1>5, StaysComplete
  <1>7. g_dinstart..(0 - 1) = {}
    OBVIOUS
  <1>8. g_dinstart..(StartDin(loads) - 1) \subseteq Loaded(loads)[k]
    <2>1. CASE loads = {}
      <3>1. StartDin(loads) = g_dinstart
        BY <2>1 DEF StartDin, AfterIf
      <3> QED BY <3>1
    <2>2. CASE loads = {k}
      <3>1. StartDin(loads) = After(g_dinstart, k)
        BY <2>2 DEF StartDin, AfterIf, Kinds
      <3>2. Loaded(loads)[k] = files[k].dins
        BY <2>2 DEF Loaded
      <3>3. g_dinstart..(files[k].stop - 1) \subseteq files[k].dins
        BY <1>2, <1>5, <2>2 DEF Complete
      <3>4. /\ StartDin(loads) \in Nat /\ files[k].stop \in Nat /\ g_dinstart \in Nat
            /\ StartDin(loads) <= files[k].stop \/ StartDin(loads) <= g_dinstart
        BY <3>1 DEF After
      <3>5. \A n \in g_dinstart..(StartDin(loads) - 1) : n \in g_dinstart..(files[k].stop - 1)
        BY <3>4
      <3> QED BY <3>2, <3>3, <3>5
    <2> QED BY <1>3, <1>4, <2>1, <2>2
  <1> QED BY <1>1, <1>4, <1>6, <1>7, <1>8 DEF OneInv

LEMMA NextOne == TypeInv /\ OneInv /\ [Next]_ddVars => OneInv'
  <1> SUFFICES ASSUME TypeInv, OneInv, [Next]_ddVars PROVE OneInv'
    OBVIOUS
  <1> USE DEF TypeInv, optionVars, historyVars
  <1>1. ASSUME NEW kinds \in Choices, NEW ops \in 0..MaxOps, NEW restart,
               Start(kinds, restart, ops)
        PROVE  OneInv'
    BY <1>1, StartOne
  <1>2. CASE Schedule
    <2> SUFFICES ASSUME Alone' PROVE OneInv'
      BY DEF OneInv
    <2>1. /\ UNCHANGED <<g_dinstart, files, doit, g_dd_start_din, built, foreign>>
          /\ opcount' = opcount + 1 /\ AddTuples(doit)
      BY <1>2 DEF Schedule, CountOp
    <2>2. Alone
      BY <2>1 DEF Alone
    <2>3. ASSUME NEW k \in doit
          PROVE  /\ g_dinstart..(opcount' - 1) \subseteq dd'[k]
                 /\ dd[k] \subseteq dd'[k]
      <3>1. /\ k \in Kinds /\ opcount \in Nat /\ g_dinstart \in Nat /\ g_dd_start_din \in Nat
            /\ dd'[k] = IF opcount >= g_dd_start_din THEN dd[k] \cup {opcount} ELSE dd[k]
        <4>1. k \in Kinds /\ opcount \in Nat /\ g_dd_start_din \in Nat
          BY DEF TypeOK
        <4>2. g_dinstart \in Nat
          BY DEF TypeOK
        <4>3. dd' = [j \in Kinds |-> IF j \in doit /\ opcount >= g_dd_start_din
                                     THEN dd[j] \cup {opcount} ELSE dd[j]]
          BY <2>1 DEF AddTuples
        <4>4. dd'[k] = IF opcount >= g_dd_start_din THEN dd[k] \cup {opcount} ELSE dd[k]
          BY <4>1, <4>3
        <4> QED BY <4>1, <4>2, <4>4
      <3>2. /\ g_dinstart..(opcount - 1) \subseteq dd[k]
            /\ g_dinstart..(g_dd_start_din - 1) \subseteq dd[k]
        BY <2>2 DEF OneInv
      <3>3. ASSUME NEW n \in g_dinstart..(opcount' - 1)
            PROVE  n \in dd'[k]
        <4>1. n \in g_dinstart..(opcount - 1) \/ n = opcount
          BY <2>1, <3>1
        <4>2. CASE n = opcount /\ opcount < g_dd_start_din
          <5>1. n \in g_dinstart..(g_dd_start_din - 1)
            BY <3>1, <4>2
          <5> QED BY <3>1, <3>2, <5>1
        <4> QED BY <3>1, <3>2, <4>1, <4>2
      <3> QED BY <3>1, <3>3
    <2>4. \A k \in Kinds : Complete(k)'
      BY <2>1, <2>2, StaysComplete DEF OneInv
    <2>5. \A k \in doit : g_dinstart..(g_dd_start_din - 1) \subseteq dd'[k]
      BY <2>2, <2>3 DEF OneInv
    <2> QED BY <2>1, <2>2, <2>3, <2>4, <2>5 DEF OneInv
  <1>3. ASSUME UNCHANGED <<g_dinstart, files, built, foreign>>, doit' = {}
        PROVE  OneInv'
    <2> SUFFICES ASSUME Alone' PROVE OneInv'
      BY DEF OneInv
    <2>1. Alone
      BY <1>3 DEF Alone
    <2>2. \A k \in Kinds : Complete(k)'
      BY <1>3, <2>1, StaysComplete DEF OneInv
    <2> QED BY <1>3, <2>2 DEF OneInv, Kinds
  <1>4. ASSUME NEW k \in Kinds, OutOfMemory(k)
        PROVE  OneInv'
    <2> SUFFICES ASSUME Alone' PROVE OneInv'
      BY DEF OneInv
    <2>1. /\ UNCHANGED <<g_dinstart, files, built, foreign>> /\ doit' = Cleared(k)
          /\ k \in doit
      BY <1>4 DEF OutOfMemory
    <2>2. Alone
      BY <2>1 DEF Alone
    <2>3. doit' = {}
      BY <2>1, <2>2 DEF OneInv, Cleared
    <2> QED BY <1>3, <2>1, <2>3
  <1>5. CASE MemoryCap
    BY <1>3, <1>5 DEF MemoryCap
  <1>6. CASE Finalize
    <2> SUFFICES ASSUME Alone' PROVE OneInv'
      BY DEF OneInv
    <2>1. UNCHANGED <<g_dinstart, files, doit, dd, g_dd_start_din, opcount, built, foreign>>
      BY <1>6 DEF Finalize
    <2>2. Alone
      BY <2>1 DEF Alone
    <2>3. \A k \in Kinds : Complete(k)'
      BY <2>1, <2>2, StaysComplete DEF OneInv
    <2> QED BY <2>1, <2>2, <2>3 DEF OneInv
  <1>7. ASSUME NEW k \in Kinds, OpenFile(k) \/ Store(k)
        PROVE  OneInv'
    <2> SUFFICES ASSUME Alone' PROVE OneInv'
      BY DEF OneInv
    <2>1. UNCHANGED <<g_dinstart, doit, dd, g_dd_start_din, opcount, built, foreign>>
      BY <1>7 DEF OpenFile, Store
    <2>2. Alone
      BY <2>1 DEF Alone
    <2>3. ASSUME NEW j \in Kinds, j # k
          PROVE  files'[j] = files[j]
      BY <1>7, <2>3 DEF OpenFile, Store, TypeOK
    <2>4. Complete(k)'
      <3>1. CASE OpenFile(k)
        <4>1. files'[k] = Torn
          BY <3>1 DEF OpenFile, TypeOK
        <4> QED BY <4>1 DEF Complete, Readable, Torn
      <3>2. CASE Store(k)
        <4>1. files'[k] = Saved(dd[k], opcount) /\ k \in doit
          BY <3>2 DEF Store, First, Pending, TypeOK
        <4>2. g_dinstart..(opcount - 1) \subseteq dd[k]
          BY <2>2, <4>1 DEF OneInv
        <4> QED BY <2>1, <4>1, <4>2 DEF Complete, Readable, Saved
      <3> QED BY <1>7, <3>1, <3>2
    <2>5. \A j \in Kinds : Complete(j)'
      BY <2>1, <2>2, <2>3, <2>4, StaysComplete DEF OneInv
    <2> QED BY <2>1, <2>2, <2>5 DEF OneInv
  <1>8. CASE Exit \/ Crash
    BY <1>3, <1>8 DEF Exit, Crash, Gone
  <1>9. CASE UNCHANGED ddVars
    <2> SUFFICES ASSUME Alone' PROVE OneInv'
      BY DEF OneInv
    <2>1. Alone
      BY <1>9 DEF Alone, ddVars
    <2>2. \A k \in Kinds : Complete(k)'
      BY <1>9, <2>1, StaysComplete DEF OneInv, ddVars
    <2> QED BY <1>9, <2>1, <2>2 DEF OneInv, ddVars
  <1> QED BY <1>1, <1>2, <1>4, <1>5, <1>6, <1>7, <1>8, <1>9 DEF Next

LEMMA InitOne == Init => OneInv
  <1> SUFFICES ASSUME Init PROVE OneInv
    OBVIOUS
  <1>1. \A k \in Kinds : ~Readable(k)
    BY DEF Init, Readable, Absent
  <1> QED BY <1>1 DEF Init, OneInv, Complete, Kinds

(***************************************************************************)
(* A file of a diagram that is built alone has all the instructions its    *)
(* header says, over any number of runs, crashes and exhausted memories.   *)
(***************************************************************************)
THEOREM SingleDiagramsAreSafe == Spec => []OneDiagramIsSafe
  <1>1. Init => TypeInv /\ OneInv
    BY InitType, InitOne
  <1>2. (TypeInv /\ OneInv) /\ [Next]_ddVars => (TypeInv /\ OneInv)'
    BY NextType, NextOne
  <1>3. OneInv => OneDiagramIsSafe
    BY DEF OneInv, OneDiagramIsSafe
  <1> QED BY <1>1, <1>2, <1>3, PTL DEF Spec

-----------------------------------------------------------------------------
(***************************************************************************)
(* The start is at most the end of each file that is read, as long as none *)
(* of the ends is the 0 that stands for unset.                             *)
(***************************************************************************)
LEMMA EarliestEnd ==
    ASSUME TypeOK, NEW loads \in SUBSET Kinds, "dinsys" \notin loads,
           \A k \in loads : files[k].stop > 0, NEW k \in loads
    PROVE  StartDin(loads) <= files[k].stop
  <1> DEFINE v == g_dinstart
             w == AfterIf(loads, v, "dinrdy")
             x == AfterIf(loads, w, "dinsys")
             y == AfterIf(loads, x, "dinsin")
             z == AfterIf(loads, y, "dindin")
  <1>1. /\ v \in Nat
        /\ \A j \in Kinds : files[j].stop \in Nat
    BY DEF TypeOK
  <1>2. \A j \in loads : files[j].stop \in Nat /\ files[j].stop > 0
    BY <1>1
  <1>3. ASSUME NEW start \in Nat, NEW j \in Kinds
        PROVE  /\ AfterIf(loads, start, j) \in Nat
               /\ start > 0 => /\ AfterIf(loads, start, j) > 0
                               /\ AfterIf(loads, start, j) <= start
               /\ j \in loads => /\ AfterIf(loads, start, j) > 0
                                 /\ AfterIf(loads, start, j) <= files[j].stop
    BY <1>1, <1>2 DEF AfterIf, After
  <1>4. {"dinrdy", "dinsys", "dinsin", "dindin"} \subseteq Kinds
    BY DEF Kinds
  <1>5. StartDin(loads) = z
    BY DEF StartDin
  <1>6. w \in Nat /\ (v > 0 => w > 0 /\ w <= v)
        /\ ("dinrdy" \in loads => w > 0 /\ w <= files["dinrdy"].stop)
    BY <1>1, <1>3, <1>4
  <1> HIDE DEF w
  <1>7. x \in Nat /\ (w > 0 => x > 0 /\ x <= w)
    BY <1>3, <1>4, <1>6
  <1> HIDE DEF x
  <1>8. y \in Nat /\ (x > 0 => y > 0 /\ y <= x)
        /\ ("dinsin" \in loads => y > 0 /\ y <= files["dinsin"].stop)
    BY <1>3, <1>4, <1>7
  <1> HIDE DEF y
  <1>9. z \in Nat /\ (y > 0 => z > 0 /\ z <= y)
        /\ ("dindin" \in loads => z > 0 /\ z <= files["dindin"].stop)
    BY <1>3, <1>4, <1>8
  <1> HIDE DEF z
  <1>10. k \in {"dinrdy", "dinsin", "dindin"}
    BY DEF Kinds
  <1>11. files[k].stop \in Nat
    BY <1>2
  <1>12. CASE k = "dinrdy"
    BY <1>5, <1>6, <1>7, <1>8, <1>9, <1>11, <1>12
  <1>13. CASE k = "dinsin"
    BY <1>5, <1>8, <1>9, <1>11, <1>13
  <1>14. CASE k = "dindin"
    BY <1>5, <1>9, <1>11, <1>14
  <1> QED BY <1>10, <1>12, <1>13, <1>14

\* Until the first instruction is scheduled, nothing has been written.
ResumeInv ==
    /\ ResumesEarlyEnough
    /\ phase = "schedule" /\ opcount = 0 => Pending = {}

LEMMA StartResume ==
    ASSUME TypeInv, NEW kinds \in Choices, NEW ops, NEW restart,
           Start(kinds, restart, ops)
    PROVE  ResumeInv'
  <1> DEFINE loads == {k \in IF use_zdds THEN restart ELSE kinds : Readable(k)}
  <1>1. /\ doit' = kinds /\ dd' = Loaded(loads) /\ g_dd_start_din' = StartDin(loads)
        /\ UNCHANGED <<use_zdds, g_dinstart, files, opening, storing>>
        /\ "dinsys" \in kinds => use_zdds
        /\ kinds \subseteq Kinds
    BY DdAssumption DEF Start, optionVars, DdAssumption
  <1>2. Pending' = {}
    BY <1>1 DEF Start, TypeInv, TypeOK, Pending
  <1>3. ASSUME ~use_zdds, \A k \in kinds : Readable(k) => files[k].stop > 0,
               NEW k \in kinds, Readable(k), Complete(k)
        PROVE  g_dinstart..(StartDin(loads) - 1) \subseteq Loaded(loads)[k]
    <2>1. /\ k \in loads /\ loads \subseteq Kinds \ {"dinsys"}
          /\ \A j \in loads : files[j].stop > 0
      BY <1>1, <1>3
    <2> HIDE DEF loads
    <2>2. StartDin(loads) <= files[k].stop
      BY <1>1, <1>3, <2>1, EarliestEnd DEF TypeInv
    <2>3. Loaded(loads)[k] = files[k].dins
      BY <1>1, <2>1 DEF Loaded
    <2>4. g_dinstart..(files[k].stop - 1) \subseteq files[k].dins
      BY <1>3 DEF Complete
    <2>5. StartDin(loads) \in Nat /\ files[k].stop \in Nat /\ g_dinstart \in Nat
      BY <1>1, StartDinType DEF TypeInv, TypeOK
    <2>6. \A n \in g_dinstart..(StartDin(loads) - 1) : n \in g_dinstart..(files[k].stop - 1)
      BY <2>2, <2>5
    <2> QED BY <2>3, <2>4, <2>6
  <1> HIDE DEF loads
  <1>4. ResumesEarlyEnough'
    BY <1>1, <1>3 DEF ResumesEarlyEnough, Complete, Readable
  <1> QED BY <1>2, <1>4 DEF ResumeInv

LEMMA NextResume == TypeInv /\ ResumeInv /\ [Next]_ddVars => ResumeInv'
  <1> SUFFICES ASSUME TypeInv, ResumeInv, [Next]_ddVars PROVE ResumeInv'
    OBVIOUS
  <1> USE DEF TypeInv, optionVars, historyVars
  <1>1. ASSUME NEW kinds \in Choices, NEW ops \in 0..MaxOps, NEW restart,
               Start(kinds, restart, ops)
        PROVE  ResumeInv'
    BY <1>1, StartResume
  <1>2. ASSUME ~(phase' = "schedule" /\ opcount' = 0)
        PROVE  ResumeInv'
    BY <1>2 DEF ResumeInv, ResumesEarlyEnough
  <1>3. ASSUME CountOp(doit')
        PROVE  ResumeInv'
    <2>1. opcount' = opcount + 1 /\ opcount \in Nat
      BY <1>3 DEF CountOp, TypeOK
    <2> QED BY <1>2, <2>1
  <1>4. CASE Schedule
    BY <1>3, <1>4 DEF Schedule
  <1>5. ASSUME NEW k \in Kinds, OutOfMemory(k)
        PROVE  ResumeInv'
    BY <1>3, <1>5 DEF OutOfMemory
  <1>6. CASE MemoryCap
    BY <1>3, <1>6 DEF MemoryCap
  <1>7. CASE Finalize
    BY <1>2, <1>7 DEF Finalize
  <1>8. ASSUME NEW k \in Kinds, OpenFile(k) \/ Store(k)
        PROVE  ResumeInv'
    <2>1. k \in Pending /\ UNCHANGED <<phase, opcount>>
      BY <1>8 DEF OpenFile, Store, First
    <2> QED BY <1>2, <2>1 DEF ResumeInv
  <1>9. CASE Exit \/ Crash
    BY <1>2, <1>9 DEF Exit, Crash, Gone
  <1>10. CASE UNCHANGED ddVars
    BY <1>10 DEF ddVars, ResumeInv, ResumesEarlyEnough, Readable, Complete, Pending
  <1> QED BY <1>1, <1>4, <1>5, <1>6, <1>7, <1>8, <1>9, <1>10 DEF Next

(***************************************************************************)
(* BDDs go on from the earliest end of the files that are there.           *)
(***************************************************************************)
THEOREM RunsResumeEarlyEnough == Spec => []ResumesEarlyEnough
  <1>1. Init => TypeInv /\ ResumeInv
    BY InitType DEF Init, ResumeInv, ResumesEarlyEnough
  <1>2. (TypeInv /\ ResumeInv) /\ [Next]_ddVars => (TypeInv /\ ResumeInv)'
    BY NextType, NextResume
  <1>3. ResumeInv => ResumesEarlyEnough
    BY DEF ResumeInv
  <1> QED BY <1>1, <1>2, <1>3, PTL DEF Spec
-----------------------------------------------------------------------------
\* What a whole run leaves of its diagrams: all BDDs, the last ZDD.
Kept(kinds) == IF use_zdds THEN Last(kinds) ELSE kinds

\* Between runs: the kept ones are whole, and end at the same instruction.
Settled(kinds) ==
    /\ \A k \in kinds \ Kept(kinds) : files[k] = Torn
    /\ \A k \in Kept(kinds) : Readable(k) /\ Complete(k)
    /\ \E stop \in Nat : \A k \in Kept(kinds) : files[k].stop = stop

\* While a run goes on: no kept diagram that is built has a gap.
Growing(kinds) ==
    /\ doit = kinds
    /\ \A k \in Kept(kinds) : /\ g_dinstart..(opcount - 1) \subseteq dd[k]
                              /\ g_dinstart..(g_dd_start_din - 1) \subseteq dd[k]

\* While its diagrams are saved: each is still to do, or is done for good.
Saving(kinds) ==
    /\ opening \cap Kept(kinds) \subseteq storing /\ storing \subseteq Kept(kinds)
    /\ \A k \in kinds \ Kept(kinds) : k \in opening \/ files[k] = Torn
    /\ \A k \in Kept(kinds) : k \in storing \/ files[k] = Saved(dd[k], opcount)

SteadyInv ==
    /\ built = {} => phase = "idle" /\ \A k \in Kinds : files[k] = Absent
    /\ Steady => \A kinds \in built :
          /\ phase = "idle" => Settled(kinds)
          /\ phase # "idle" => Growing(kinds)
          /\ phase = "final" => Saving(kinds)

\* Files that end at the same instruction are continued from there at the latest.
LEMMA SameEnd ==
    ASSUME TypeOK, NEW loads, NEW stop \in Nat, \A k \in loads : files[k].stop = stop
    PROVE  /\ StartDin(loads) \in Nat
           /\ StartDin(loads) <= stop \/ StartDin(loads) <= g_dinstart
  <1> DEFINE Fits(start) == start \in Nat /\ (start <= stop \/ start <= g_dinstart)
  <1>1. ASSUME NEW start, Fits(start), NEW k
        PROVE  Fits(AfterIf(loads, start, k))
    BY <1>1 DEF AfterIf, After
  <1>2. Fits(g_dinstart)
    BY DEF TypeOK
  <1> HIDE DEF Fits
  <1>3. Fits(AfterIf(loads, g_dinstart, "dinrdy"))
    BY <1>1, <1>2
  <1>4. Fits(AfterIf(loads, AfterIf(loads, g_dinstart, "dinrdy"), "dinsys"))
    BY <1>1, <1>3
  <1>5. Fits(AfterIf(loads, AfterIf(loads, AfterIf(loads, g_dinstart, "dinrdy"), "dinsys"),
                     "dinsin"))
    BY <1>1, <1>4
  <1>6. Fits(StartDin(loads))
    BY <1>1, <1>5 DEF StartDin
  <1> QED BY <1>6 DEF Fits

\* A new run on what whole runs of the same diagrams have left, or on nothing.
LEMMA StartSteady ==
    ASSUME TypeInv, SteadyInv, NEW kinds \in Choices, NEW ops, NEW restart,
           Start(kinds, restart, ops)
    PROVE  SteadyInv'
  <1> USE DEF TypeInv
  <1> DEFINE loads == {k \in IF use_zdds THEN restart ELSE kinds : Readable(k)}
  <1> SUFFICES ASSUME Steady' PROVE \A these \in built' : these = kinds /\ Growing(kinds)'
    BY DEF Start, SteadyInv
  <1>1. /\ phase = "idle" /\ doit' = kinds /\ opcount' = 0
        /\ dd' = Loaded(loads) /\ g_dd_start_din' = StartDin(loads)
        /\ built' = built \cup {kinds} /\ foreign' = (foreign \/ ~(loads \subseteq kinds))
        /\ UNCHANGED <<use_zdds, g_dinstart, broken>>
        /\ use_zdds \/ loads = {k \in kinds : Readable(k)}
    BY DEF Start, optionVars
  <1>2. \A k \in loads : Readable(k)
    OBVIOUS
  <1> HIDE DEF loads
  <1>3. PICK these \in SUBSET (Kinds \ {"dinsys"}) : built' = {these}
    BY DEF Steady
  <1>4. kinds = these /\ built' = {kinds} /\ kinds \subseteq Kinds \ {"dinsys"}
    BY <1>1, <1>3
  <1>5. loads \subseteq kinds /\ ~foreign /\ ~broken
    BY <1>1 DEF Steady
  <1>6. built = {} \/ built = {kinds}
    BY <1>1, <1>4
  <1>7. Kept(kinds) \subseteq kinds
    BY DEF Kept, Last
  <1>8. g_dinstart \in Nat /\ g_dinstart..(0 - 1) = {}
    BY DEF TypeOK
  <1>9. ASSUME NEW k \in Kept(kinds)
        PROVE  g_dinstart..(StartDin(loads) - 1) \subseteq Loaded(loads)[k]
    <2>1. CASE loads = {}
      <3>1. StartDin(loads) = g_dinstart
        BY <2>1 DEF StartDin, AfterIf
      <3> QED BY <1>8, <3>1
    <2>2. CASE loads # {}
      <3>1. built # {}
        <4>1. PICK j \in loads : TRUE
          BY <2>2
        <4>2. j \in Kinds /\ files[j] # Absent
          BY <1>2, <1>4, <1>5, <4>1 DEF Readable, Absent
        <4> QED BY <4>2 DEF SteadyInv
      <3>2. Settled(kinds)
        <4>1. Steady /\ kinds \in built
          BY <1>4, <1>5, <1>6, <3>1 DEF Steady
        <4> QED BY <1>1, <4>1 DEF SteadyInv
      <3>3. loads \subseteq Kept(kinds)
        <4>1. \A j \in loads : files[j] # Torn
          BY <1>2 DEF Readable, Torn
        <4> QED BY <1>5, <3>2, <4>1 DEF Settled
      <3>4. k \in loads
        <4>1. CASE use_zdds
          <5>1. PICK j \in loads : j \in Kept(kinds)
            BY <2>2, <3>3
          <5>2. \A i \in Kept(kinds) : i \in Kinds /\ rank[i] <= rank[k] /\ rank[k] <= rank[i]
            BY <1>4, <1>7, <4>1 DEF Kept, Last
          <5>3. j = k
            BY <1>4, <1>7, <5>1, <5>2, RankInjective
          <5> QED BY <5>1, <5>3
        <4>2. CASE ~use_zdds
          BY <1>1, <1>7, <3>2, <4>2 DEF Settled
        <4> QED BY <4>1, <4>2
      <3>5. PICK stop \in Nat : \A j \in Kept(kinds) : files[j].stop = stop
        BY <3>2 DEF Settled
      <3>6. /\ StartDin(loads) \in Nat
            /\ StartDin(loads) <= stop \/ StartDin(loads) <= g_dinstart
        BY <3>3, <3>5, SameEnd
      <3>7. g_dinstart..(stop - 1) \subseteq files[k].dins
        BY <3>2, <3>5 DEF Settled, Complete
      <3>8. Loaded(loads)[k] = files[k].dins
        BY <1>4, <1>7, <3>4 DEF Loaded
      <3>9. \A n \in g_dinstart..(StartDin(loads) - 1) : n \in g_dinstart..(stop - 1)
        BY <1>8, <3>5, <3>6
      <3> QED BY <3>7, <3>8, <3>9
    <2> QED BY <2>1, <2>2
  <1>10. Kept(kinds)' = Kept(kinds)
    BY <1>1 DEF Kept
  <1> QED BY <1>1, <1>4, <1>8, <1>9, <1>10 DEF Growing

\* What a step in the middle of a run has to keep.
LEMMA WithinRun ==
    ASSUME SteadyInv, UNCHANGED <<use_zdds, g_dinstart, built, foreign, doit>>,
           broken' = broken, phase # "idle", phase' # "idle",
           \A kinds \in built : Steady /\ Growing(kinds) =>
               Growing(kinds)' /\ (phase' = "final" => Saving(kinds)')
    PROVE  SteadyInv'
BY DEF SteadyInv, Steady

LEMMA ScheduleSteady ==
    ASSUME TypeInv, SteadyInv, Schedule
    PROVE  SteadyInv'
  <1> USE DEF TypeInv
  <1>1. /\ UNCHANGED <<use_zdds, g_dinstart, files, phase, doit, g_dd_start_din,
                       built, foreign, broken>>
        /\ opcount' = opcount + 1 /\ AddTuples(doit) /\ phase = "schedule"
    BY DEF Schedule, CountOp, Scheduling, optionVars, historyVars
  <1>2. ASSUME NEW kinds \in built, Growing(kinds)
        PROVE  Growing(kinds)'
    <2>1. Kept(kinds)' = Kept(kinds)
      BY <1>1 DEF Kept
    <2>2. ASSUME NEW k \in Kept(kinds)
          PROVE  /\ g_dinstart..(opcount' - 1) \subseteq dd'[k]
                 /\ g_dinstart..(g_dd_start_din - 1) \subseteq dd'[k]
      <3>1. k \in doit
        BY <1>2 DEF Growing, Kept, Last
      <3>2. k \in Kinds /\ opcount \in Nat /\ g_dd_start_din \in Nat /\ g_dinstart \in Nat
        BY <3>1 DEF TypeOK
      <3>3. dd'[k] = IF opcount >= g_dd_start_din THEN dd[k] \cup {opcount} ELSE dd[k]
        BY <1>1, <3>1, <3>2 DEF AddTuples
      <3>4. /\ g_dinstart..(opcount - 1) \subseteq dd[k]
            /\ g_dinstart..(g_dd_start_din - 1) \subseteq dd[k]
        BY <1>2 DEF Growing
      <3>5. ASSUME NEW n \in g_dinstart..(opcount' - 1)
            PROVE  n \in dd'[k]
        <4>1. n \in g_dinstart..(opcount - 1) \/ n = opcount
          BY <1>1, <3>2
        <4>2. CASE n = opcount /\ opcount < g_dd_start_din
          <5>1. n \in g_dinstart..(g_dd_start_din - 1)
            BY <3>2, <4>2
          <5> QED BY <3>3, <3>4, <5>1
        <4> QED BY <3>2, <3>3, <3>4, <4>1, <4>2
      <3> QED BY <3>3, <3>4, <3>5
    <2> QED BY <1>1, <1>2, <2>1, <2>2 DEF Growing
  <1> QED BY <1>1, <1>2, WithinRun

LEMMA FinalizeSteady ==
    ASSUME TypeInv, SteadyInv, Finalize
    PROVE  SteadyInv'
  <1>1. /\ UNCHANGED <<use_zdds, g_dinstart, files, doit, dd, g_dd_start_din, opcount,
                       built, foreign, broken>>
        /\ opening' = doit /\ storing' = Kept(doit)
        /\ phase = "schedule" /\ phase' = "final"
    BY DEF Finalize, Scheduling, optionVars, historyVars, Kept
  <1>2. ASSUME NEW kinds \in built, Growing(kinds)
        PROVE  Growing(kinds)' /\ Saving(kinds)'
    <2>1. Kept(kinds)' = Kept(kinds)
      BY <1>1 DEF Kept
    <2> QED BY <1>1, <1>2, <2>1 DEF Growing, Saving
  <1> QED BY <1>1, <1>2, WithinRun

LEMMA SaveSteady ==
    ASSUME TypeInv, SteadyInv, NEW k \in Kinds, OpenFile(k) \/ Store(k)
    PROVE  SteadyInv'
  <1> USE DEF TypeInv
  <1>1. /\ UNCHANGED <<use_zdds, g_dinstart, phase, doit, dd, g_dd_start_din, opcount,
                       built, foreign, broken>>
        /\ k \in opening \cup storing /\ phase # "idle"
    BY DEF OpenFile, Store, First, Pending, optionVars, historyVars, TypeOK
  <1>2. \A j \in Kinds \ {k} : files'[j] = files[j]
    BY DEF OpenFile, Store, TypeOK
  <1>3. ASSUME NEW kinds \in built, Steady, Growing(kinds)
        PROVE  Growing(kinds)' /\ (phase' = "final" => Saving(kinds)')
    <2>1. Kept(kinds)' = Kept(kinds)
      BY <1>1 DEF Kept
    <2>2. Kept(kinds) \subseteq kinds /\ kinds \subseteq Kinds
      BY <1>3 DEF Kept, Last, Growing, TypeOK
    <2>3. Growing(kinds)'
      BY <1>1, <1>3, <2>1 DEF Growing
    <2>4. ASSUME phase = "final"
          PROVE  Saving(kinds)'
      <3>1. Saving(kinds)
        BY <1>3, <2>4, <1>1 DEF SteadyInv
      <3>2. CASE OpenFile(k)
        <4>1. files'[k] = Torn /\ k \in opening /\ opening' = opening \ {k}
              /\ storing' = storing
          BY <3>2 DEF OpenFile, TypeOK
        <4>2. k \in Kept(kinds) => k \in storing
          BY <3>1, <4>1 DEF Saving
        <4> QED BY <1>1, <1>2, <2>1, <2>2, <3>1, <4>1, <4>2 DEF Saving
      <3>3. CASE Store(k)
        <4>1. files'[k] = Saved(dd[k], opcount) /\ k \notin opening
              /\ opening' = opening /\ storing' = storing \ {k}
          BY <3>3 DEF Store, TypeOK
        <4>2. k \in Kept(kinds)
          BY <1>1, <3>1, <4>1 DEF Saving
        <4>3. \A j \in Kept(kinds) : j \in storing' \/ files'[j] = Saved(dd[j], opcount)
          BY <1>2, <2>2, <3>1, <4>1 DEF Saving
        <4> QED BY <1>1, <1>2, <2>1, <2>2, <3>1, <4>1, <4>2, <4>3 DEF Saving
      <3> QED BY <3>2, <3>3
    <2> QED BY <1>1, <2>3, <2>4
  <1> QED BY <1>1, <1>3, WithinRun

\* All that was to be saved is saved when the program ends.
LEMMA ExitSteady ==
    ASSUME TypeInv, SteadyInv, Exit
    PROVE  SteadyInv'
  <1> USE DEF TypeInv
  <1>1. /\ UNCHANGED <<use_zdds, g_dinstart, files, built, foreign, broken>>
        /\ phase = "final" /\ phase' = "idle" /\ opening = {} /\ storing = {}
    BY DEF Exit, Gone, optionVars, historyVars, Pending
  <1>2. ASSUME Steady, NEW kinds \in built
        PROVE  Settled(kinds)'
    <2>1. Growing(kinds) /\ Saving(kinds) /\ opcount \in Nat
      BY <1>1, <1>2 DEF SteadyInv, TypeOK
    <2>2. Kept(kinds)' = Kept(kinds)
      BY <1>1 DEF Kept
    <2>3. \A k \in kinds \ Kept(kinds) : files'[k] = Torn
      BY <1>1, <2>1 DEF Saving
    <2>4. ASSUME NEW k \in Kept(kinds)
          PROVE  files'[k].stop = opcount /\ Readable(k)' /\ Complete(k)'
      <3>1. files'[k] = Saved(dd[k], opcount)
        BY <1>1, <2>1 DEF Saving
      <3>2. g_dinstart..(opcount - 1) \subseteq dd[k]
        BY <2>1 DEF Growing
      <3> QED BY <1>1, <3>1, <3>2 DEF Readable, Complete, Saved
    <2> QED BY <2>1, <2>2, <2>3, <2>4 DEF Settled
  <1>3. built = {} => \A k \in Kinds : files'[k] = Absent
    BY <1>1 DEF SteadyInv
  <1> QED BY <1>1, <1>2, <1>3 DEF SteadyInv, Steady

LEMMA NextSteady == TypeInv /\ SteadyInv /\ [Next]_ddVars => SteadyInv'
  <1> SUFFICES ASSUME TypeInv, SteadyInv, [Next]_ddVars PROVE SteadyInv'
    OBVIOUS
  <1> USE DEF optionVars, historyVars
  <1>1. ASSUME broken', UNCHANGED built, built # {} \/ UNCHANGED <<phase, files>>
        PROVE  SteadyInv'
    BY <1>1 DEF SteadyInv, Steady
  <1>2. built = {} => phase = "idle"
    BY DEF SteadyInv
  <1>3. CASE MemoryCap \/ Crash \/ \E k \in Kinds : OutOfMemory(k)
    <2>1. broken' /\ UNCHANGED built /\ phase # "idle"
      BY <1>3 DEF MemoryCap, Crash, OutOfMemory, Gone, Scheduling
    <2> QED BY <1>1, <1>2, <2>1
  <1>4. CASE UNCHANGED ddVars
    BY <1>4 DEF ddVars, SteadyInv, Steady, Settled, Growing, Saving, Kept, Complete, Readable
  <1> QED BY <1>3, <1>4, StartSteady, ScheduleSteady, FinalizeSteady, SaveSteady,
             ExitSteady DEF Next

(***************************************************************************)
(* Runs that build the same diagrams and never break off leave every BDD   *)
(* complete, and of the ZDDs the last one; the others only as torn files.  *)
(***************************************************************************)
THEOREM SteadyRunsLeaveCompleteFiles == Spec => []SteadyRunsAreSafe
  <1>1. Init => TypeInv /\ SteadyInv
    BY InitType DEF Init, SteadyInv, Steady
  <1>2. (TypeInv /\ SteadyInv) /\ [Next]_ddVars => (TypeInv /\ SteadyInv)'
    BY NextType, NextSteady
  <1>3. SteadyInv => SteadyRunsAreSafe
    BY DEF SteadyInv, SteadyRunsAreSafe, Settled, Kept, Steady
  <1> QED BY <1>1, <1>2, <1>3, PTL DEF Spec
==============================================================================
