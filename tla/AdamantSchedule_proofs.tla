------------------------ MODULE AdamantSchedule_proofs ------------------------
(***************************************************************************)
(* What holds of every schedule, whatever the trace, the window size and   *)
(* the command line.                                                       *)
(***************************************************************************)
EXTENDS AdamantSchedule, WindowOps_proofs, SequenceTheorems

\* Oldest first, in every window.
WindowsOrdered == \A w \in Windows : IsWindow(windows[w])

(***************************************************************************)
(* The inductive invariant.  The ready time of an instruction is a maximum *)
(* over times read from every table, so the typing of one table rests on   *)
(* that of all; WindowInsert only keeps its promises for ordered windows.  *)
(***************************************************************************)
ScheduleInv == TypeOK /\ WindowsOrdered /\ FinishTimeCovers

\* A time that finish_time covers.
Covered(info) == info \in SchedInfo /\ info.ready <= finish_time

CoveredStack(stack) ==
    stack \in Seq(CDItem) /\ \A k \in 1..Len(stack) : Covered(stack[k].info)

\* A push puts one element in front of the others.
LEMMA PushFact ==
    ASSUME NEW S, NEW x \in S, NEW s \in Seq(S)
    PROVE  /\ <<x>> \o s \in Seq(S)
           /\ Len(<<x>> \o s) = 1 + Len(s)
           /\ \A k \in 1..(1 + Len(s)) :
                (<<x>> \o s)[k] = IF k = 1 THEN x ELSE s[k - 1]
<1> DEFINE one == <<x>>
<1>1. one \in Seq(S) /\ Len(one) = 1 /\ one[1] = x
  OBVIOUS
<1>2. Len(s) \in Nat
  BY LenProperties
<1> HIDE DEF one
<1>3. /\ one \o s \in Seq(S)
      /\ Len(one \o s) = Len(one) + Len(s)
      /\ \A k \in 1..(Len(one) + Len(s)) :
           (one \o s)[k] = IF k <= Len(one) THEN one[k] ELSE s[k - Len(one)]
  BY <1>1, ConcatProperties
<1>4. \A k \in 1..(1 + Len(s)) : (one \o s)[k] = IF k = 1 THEN x ELSE s[k - 1]
  BY <1>1, <1>2, <1>3
<1> QED
  BY <1>1, <1>3, <1>4 DEF one

----------------------------------------------------------------------------
\* The stack before an instruction is scheduled.

\* Every call on the stack is covered by finish_time.
LEMMA CdstackCovered ==
    ASSUME ScheduleInv
    PROVE  CoveredStack(cdstack)
<1>1. cdstack \in Seq(CDItem)
  BY DEF ScheduleInv, TypeOK
<1>2. ASSUME NEW k \in 1..Len(cdstack)
      PROVE  Covered(cdstack[k].info)
  <2>1. cdstack[k] \in CDItem
    BY <1>1, <1>2, ElementOfSeq
  <2>2. cdstack[k].info.ready <= finish_time
    BY <1>2 DEF ScheduleInv, FinishTimeCovers
  <2> QED
    BY <2>1, <2>2 DEF Covered, CDItem
<1> QED
  BY <1>1, <1>2 DEF CoveredStack

\* Unwinding only takes frames off the stack.
LEMMA UnwoundCovered ==
    ASSUME ScheduleInv, NEW o \in Opers, Frames(o) # {}
    PROVE  CoveredStack(Unwound(o))
<1>1. cdstack \in Seq(CDItem) /\ Len(cdstack) \in Nat
  BY LenProperties DEF ScheduleInv, TypeOK
<1> DEFINE k == CHOOSE k \in Frames(o) : \A l \in Frames(o) : k <= l
<1>2. Frames(o) \subseteq 1..Len(cdstack) /\ Frames(o) \subseteq Nat
  BY <1>1 DEF Frames
<1>3. k \in Frames(o)
  BY <1>2, MinFact
<1>4. k \in 1..Len(cdstack) /\ k + 1 \in Int /\ Len(cdstack) \in Int
  BY <1>1, <1>2, <1>3
<1> DEFINE s == SubSeq(cdstack, k + 1, Len(cdstack))
<1> HIDE DEF k
<1>5. \A i \in (k + 1)..Len(cdstack) : cdstack[i] \in CDItem
  BY <1>1, <1>4, ElementOfSeq
<1>6. /\ s \in Seq(CDItem)
      /\ Len(s) = IF k + 1 <= Len(cdstack) THEN Len(cdstack) - (k + 1) + 1 ELSE 0
      /\ \A i \in 1..(Len(cdstack) - (k + 1) + 1) : s[i] = cdstack[(k + 1) + i - 1]
  BY <1>4, <1>5, SubSeqProperties
<1>7. ASSUME NEW i \in 1..Len(s)
      PROVE  Covered(s[i].info)
  <2>1. /\ i \in 1..(Len(cdstack) - (k + 1) + 1)
        /\ (k + 1) + i - 1 \in 1..Len(cdstack)
    BY <1>1, <1>4, <1>6, <1>7
  <2>2. s[i] = cdstack[(k + 1) + i - 1]
    BY <1>6, <2>1
  <2> QED
    BY <2>1, <2>2, CdstackCovered DEF CoveredStack
<1>8. Unwound(o) = s
  BY DEF Unwound, k
<1> QED
  BY <1>6, <1>7, <1>8 DEF CoveredStack

\* preupdate_cdstack, where it does not abort.
LEMMA PreupdatedCovered ==
    ASSUME ScheduleInv, NEW o \in Opers, ~PreupdateFails(o)
    PROVE  CoveredStack(Preupdated(o))
<1>1. CoveredStack(cdstack)
  BY CdstackCovered
<1>2. CASE config.respect_control /\ IsSetjmp(o)
  <2> DEFINE s == <<cdstack[1]>> \o cdstack
  <2>1. cdstack \in Seq(CDItem) /\ cdstack # <<>> /\ Len(cdstack) \in Nat
    BY <1>1, <1>2, LenProperties DEF CoveredStack, PreupdateFails
  <2>2. 1 \in 1..Len(cdstack)
    BY <2>1, EmptySeq
  <2>3. cdstack[1] \in CDItem
    BY <2>1, <2>2, ElementOfSeq
  <2>4. /\ s \in Seq(CDItem) /\ Len(s) = 1 + Len(cdstack)
        /\ \A i \in 1..(1 + Len(cdstack)) : s[i] = IF i = 1 THEN cdstack[1] ELSE cdstack[i - 1]
    BY <2>1, <2>3, PushFact
  <2>5. Preupdated(o) = s
    BY <1>2 DEF Preupdated
  <2> HIDE DEF s
  <2>6. ASSUME NEW i \in 1..Len(s)
        PROVE  Covered(s[i].info)
    <3>1. CASE i = 1
      BY <1>1, <2>1, <2>2, <2>4, <3>1 DEF CoveredStack
    <3>2. CASE i # 1
      <4>1. i - 1 \in 1..Len(cdstack) /\ s[i] = cdstack[i - 1]
        BY <2>1, <2>4, <2>6, <3>2
      <4> QED
        BY <1>1, <4>1 DEF CoveredStack
    <3> QED
      BY <3>1, <3>2
  <2> QED
    BY <2>4, <2>5, <2>6 DEF CoveredStack
<1>3. CASE config.respect_control /\ ~IsSetjmp(o) /\ dopop
  <2>1. Frames(o) # {}
    BY <1>3 DEF PreupdateFails
  <2> QED
    BY <1>3, <2>1, UnwoundCovered DEF Preupdated
<1>4. CASE ~config.respect_control \/ (~IsSetjmp(o) /\ ~dopop)
  BY <1>1, <1>4 DEF Preupdated
<1> QED
  BY <1>2, <1>3, <1>4

----------------------------------------------------------------------------
\* The sources of an instruction.

\* The branch executed last has left a covered time behind.
LEMMA LastDepCovered ==
    ASSUME ScheduleInv, NEW o \in Opers, ExecutedDeps(o) # {}
    PROVE  Covered(LastDep(o))
<1> DEFINE D == ExecutedDeps(o)
           f == [b \in D |-> cd_times[b].cd_din_src]
           Nums == {f[b] : b \in D}
           last == CHOOSE b \in D : \A c \in D : cd_times[c].cd_din_src <= cd_times[b].cd_din_src
<1>1. /\ o.ip \in DOMAIN ControlDeps /\ D \subseteq ControlDeps[o.ip]
      /\ IsFiniteSet(ControlDeps[o.ip])
  BY ScheduleAssumption DEF ExecutedDeps
<1>2. IsFiniteSet(D) /\ D \subseteq Branches
  BY <1>1, FS_Subset DEF Branches
<1>3. \A b \in D : cd_times[b] \in [cd_din_src : Nat, info : SchedInfo]
  BY <1>2 DEF ScheduleInv, TypeOK
<1>4. Nums \subseteq Nat /\ Nums # {}
  BY <1>3
<1>5. IsFiniteSet(Nums)
  <2> HIDE DEF D
  <2>1. DOMAIN f = D /\ f = [b \in D |-> f[b]]
    OBVIOUS
  <2> HIDE DEF f
  <2> QED
    BY <1>2, <2>1, ImageFact
<1>6. PICK n \in Nums : \A m \in Nums : m <= n
  <2> HIDE DEF Nums
  <2> QED
    BY <1>4, <1>5, MaxOfFact
<1>7. \E b \in D : \A c \in D : cd_times[c].cd_din_src <= cd_times[b].cd_din_src
  <2> HIDE DEF D
  <2>1. PICK b \in D : n = cd_times[b].cd_din_src
    OBVIOUS
  <2> QED
    BY <1>6, <2>1
<1>8. last \in D
  <2> HIDE DEF D
  <2> QED
    BY <1>7
<1>9. LastDep(o) = cd_times[last].info
  BY DEF LastDep
<1> HIDE DEF last, D
<1>10. cd_times[last].info.ready <= finish_time
  BY <1>2, <1>8 DEF ScheduleInv, FinishTimeCovers
<1> QED
  BY <1>3, <1>8, <1>9, <1>10 DEF Covered

\* A control dependence, if any, is a time recorded before.
LEMMA ControlSourceCovered ==
    ASSUME ScheduleInv, NEW o \in Opers, NEW stack, CoveredStack(stack)
    PROVE  /\ \A s \in ControlSource(o, stack) : Covered(s)
           /\ IsFiniteSet(ControlSource(o, stack))
<1>1. ASSUME stack # <<>>
      PROVE  Covered(stack[1].info)
  <2>1. 1 \in 1..Len(stack)
    BY <1>1, EmptySeq, LenProperties DEF CoveredStack
  <2> QED
    BY <2>1 DEF CoveredStack
<1>2. ControlSource(o, stack) = {} \/ \E s : ControlSource(o, stack) = {s} /\ Covered(s)
  <2>1. CASE ExecutedDeps(o) = {}
    BY <1>1, <2>1, Zenon DEF ControlSource
  <2>2. CASE ExecutedDeps(o) # {}
    <3>1. Covered(LastDep(o))
      BY <2>2, LastDepCovered
    <3> QED
      BY <1>1, <3>1, Zenon DEF ControlSource
  <2> QED
    BY <2>1, <2>2
<1> QED
  BY <1>2, FS_EmptySet, FS_Singleton

\* The sources of an instruction are recorded results, and finitely many.
LEMMA SourcesFact ==
    ASSUME ScheduleInv, NEW o \in Opers, NEW stack, CoveredStack(stack)
    PROVE  Sources(o, stack) \subseteq SchedInfo /\ IsFiniteSet(Sources(o, stack))
<1> DEFINE Loaded == {c \in o.loads : LineOf[c] \in mapped}
<1>1. /\ o \in OperType
      /\ IsFiniteSet(o.reads) /\ IsFiniteSet(o.loads)
  BY ScheduleAssumption
<1>2. o.reads \subseteq Regs /\ o.loads \subseteq Bytes
  BY <1>1 DEF OperType
<1>3. RegSources(o) \subseteq SchedInfo /\ MemSources(o) \subseteq SchedInfo
  BY <1>2 DEF RegSources, MemSources, ScheduleInv, TypeOK
<1>4. IsFiniteSet(RegSources(o))
  <2> DEFINE R == o.reads \ config.ignore_regs
             f == [r \in R |-> reg_info[r]]
  <2>1. IsFiniteSet(R)
    BY <1>1, FS_Subset
  <2>2. DOMAIN f = R /\ f = [r \in R |-> f[r]] /\ RegSources(o) = {f[r] : r \in R}
    BY DEF RegSources
  <2> HIDE DEF f, R
  <2> QED
    BY <2>1, <2>2, ImageFact
<1>5. IsFiniteSet(MemSources(o))
  <2> DEFINE f == [b \in Loaded |-> mem_info[b]]
  <2>1. IsFiniteSet(Loaded)
    BY <1>1, FS_Subset
  <2>2. DOMAIN f = Loaded /\ f = [b \in Loaded |-> f[b]]
        /\ MemSources(o) = {f[b] : b \in Loaded}
    BY DEF MemSources
  <2> HIDE DEF f, Loaded
  <2> QED
    BY <2>1, <2>2, ImageFact
<1>6. /\ \A s \in ControlSource(o, stack) : s \in SchedInfo
      /\ IsFiniteSet(ControlSource(o, stack))
  BY ControlSourceCovered DEF Covered
<1>7. Sources(o, stack) = RegSources(o) \cup MemSources(o) \cup ControlSource(o, stack)
  BY DEF Sources
<1>8. IsFiniteSet(Sources(o, stack))
  BY <1>4, <1>5, <1>6, <1>7, FS_Union
<1> QED
  BY <1>3, <1>6, <1>7, <1>8

----------------------------------------------------------------------------
\* The ready time, and the window that is chosen for it.

\* What the typing of the command line gives.
LEMMA ConfigFact ==
    ASSUME ScheduleInv
    PROVE  /\ config \in ConfigType
           /\ config.w_num \in Nat /\ config.communication_latency \in Nat
           /\ Windows \subseteq Nat /\ WindowIds \subseteq Nat /\ Windows \subseteq WindowIds
           /\ 0 \in WindowIds
           /\ config.w_num > 0 => WindowIds = Windows
<1>1. config \in ConfigType
  BY ScheduleAssumption DEF ScheduleInv, TypeOK
<1>2. config.w_num \in Nat /\ config.communication_latency \in Nat
  BY <1>1 DEF ConfigType
<1> QED
  BY <1>1, <1>2 DEF Windows, WindowIds

\* The earliest insertion into a window is a time, no earlier than its head.
LEMMA WindowTimeFact ==
    ASSUME ScheduleInv, NEW w \in WindowIds
    PROVE  /\ WindowTime(w) \in Nat
           /\ config.w_num > 0 => WindowTime(w) >= WindowHead(windows[w])
<1>1. config.w_num \in Nat /\ (config.w_num > 0 => w \in Windows)
  BY ConfigFact
<1>2. config.w_num > 0 => WindowHead(windows[w]) \in Nat
  BY <1>1, HeadTailFact DEF ScheduleInv, WindowsOrdered
<1>3. mispredicted[w].ready \in Nat
  BY DEF ScheduleInv, TypeOK, SchedInfo
<1> DEFINE h == IF config.w_num = 0 THEN 0 ELSE WindowHead(windows[w])
<1>4. h \in Nat /\ (config.w_num > 0 => h = WindowHead(windows[w]))
  BY <1>1, <1>2
<1>5. WindowTime(w) = MAX(h, mispredicted[w].ready)
  BY DEF WindowTime
<1> HIDE DEF h
<1> QED
  BY <1>3, <1>4, <1>5, MaxFact

\* The cost of a window is no less than any of the times it is the maximum of.
LEMMA ReadyCostFact ==
    ASSUME ScheduleInv, NEW w \in WindowIds,
           NEW srcs, srcs \subseteq SchedInfo, IsFiniteSet(srcs)
    PROVE  /\ ReadyCost(w, srcs) \in Nat
           /\ ReadyCost(w, srcs) >= WindowTime(w)
           /\ \A s \in srcs : ReadyCost(w, srcs) >= Arrival(s, w)
<1> DEFINE f == [s \in srcs |-> Arrival(s, w)]
           Arrivals == {f[s] : s \in srcs}
           Times == {WindowTime(w)} \cup Arrivals
<1>1. WindowTime(w) \in Nat
  BY WindowTimeFact
<1>2. Arrivals \subseteq Nat
  BY ConfigFact DEF Arrival, SchedInfo
<1>3. /\ DOMAIN f = srcs /\ f = [s \in srcs |-> f[s]]
      /\ \A s \in srcs : Arrival(s, w) \in Arrivals
  OBVIOUS
<1>4. ReadyCost(w, srcs) = MaxOf(Times)
  <2>1. Arrivals = {Arrival(s, w) : s \in srcs}
    OBVIOUS
  <2> QED
    BY <2>1 DEF ReadyCost
<1> HIDE DEF f
<1>5. IsFiniteSet(Arrivals)
  BY <1>3, ImageFact
<1> HIDE DEF Arrivals
<1>6. IsFiniteSet(Times)
  BY <1>5, FS_Union, FS_Singleton
<1>7. Times \subseteq Nat /\ Times # {} /\ WindowTime(w) \in Times
  BY <1>1, <1>2
<1>8. \A s \in srcs : Arrival(s, w) \in Times
  BY <1>3
<1> HIDE DEF Times
<1>9. MaxOf(Times) \in Times /\ \A y \in Times : y <= MaxOf(Times)
  BY <1>6, <1>7, MaxOfFact
<1> QED
  BY <1>4, <1>7, <1>8, <1>9

\* adamant_window_runtime_choose finds a window, and one of the least cost.
LEMMA ChooseFact ==
    ASSUME ScheduleInv, NEW srcs, srcs \subseteq SchedInfo, IsFiniteSet(srcs)
    PROVE  /\ Choose(srcs) \in WindowIds
           /\ \A v \in WindowIds : ReadyCost(Choose(srcs), srcs) <= ReadyCost(v, srcs)
<1>1. \A v \in WindowIds : ReadyCost(v, srcs) \in Nat
  BY ReadyCostFact
<1>2. CASE config.w_num <= 1
  <2>1. Choose(srcs) = 0 /\ WindowIds = {0}
    BY <1>2, ConfigFact DEF Choose, WindowIds, Windows
  <2> QED
    BY <1>1, <2>1
<1>3. CASE config.w_num > 1
  <2>1. WindowIds = Windows /\ Windows \subseteq Nat /\ 0 \in Windows
    BY <1>3, ConfigFact DEF Windows
  <2> DEFINE Costs == {ReadyCost(v, srcs) : v \in Windows}
             Least(w) == \A v \in Windows :
                           /\ ReadyCost(w, srcs) <= ReadyCost(v, srcs)
                           /\ v < w => ReadyCost(w, srcs) < ReadyCost(v, srcs)
  <2>2. PICK c \in Costs : \A d \in Costs : c <= d
    <3>1. Costs \subseteq Nat /\ Costs # {}
      BY <1>1, <2>1
    <3> HIDE DEF Costs
    <3> QED
      BY <3>1, MinFact
  <2> DEFINE Cheapest == {w \in Windows : ReadyCost(w, srcs) = c}
  <2>3. PICK w \in Cheapest : \A v \in Cheapest : w <= v
    <3>1. Cheapest \subseteq Nat /\ Cheapest # {}
      BY <2>1, <2>2
    <3> HIDE DEF Cheapest
    <3> QED
      BY <3>1, MinFact
  <2>4. Least(w)
    <3>0. w \in Windows /\ ReadyCost(w, srcs) = c
      BY <2>3
    <3> SUFFICES ASSUME NEW v \in Windows
                 PROVE  /\ ReadyCost(w, srcs) <= ReadyCost(v, srcs)
                        /\ v < w => ReadyCost(w, srcs) < ReadyCost(v, srcs)
      OBVIOUS
    <3>1. c <= ReadyCost(v, srcs)
      BY <2>2
    <3>2. v \in Cheapest => w <= v
      BY <2>3
    <3>3. w \in Nat /\ v \in Nat /\ ReadyCost(v, srcs) \in Nat /\ c \in Nat
      BY <1>1, <2>1, <3>0
    <3> QED
      BY <3>0, <3>1, <3>2, <3>3
  <2>5. Choose(srcs) = CHOOSE x \in Windows : Least(x)
    BY <1>3, ConfigFact DEF Choose
  <2> HIDE DEF Least
  <2>6. Choose(srcs) \in Windows /\ Least(Choose(srcs))
    BY <2>3, <2>4, <2>5
  <2> QED
    BY <2>1, <2>6 DEF Least
<1> QED
  BY <1>2, <1>3, ConfigFact

\* An instruction is not ready before its window takes it in.
LEMMA ReadyTimeFact ==
    ASSUME ScheduleInv, NEW o, NEW w \in WindowIds,
           NEW srcs, srcs \subseteq SchedInfo, IsFiniteSet(srcs)
    PROVE  /\ ReadyTime(o, w, srcs) = ReadyCost(w, srcs) + Latency(o)
           /\ Latency(o) \in {0, 1}
           /\ ReadyTime(o, w, srcs) \in Nat
           /\ config.w_num > 0 => ReadyTime(o, w, srcs) >= WindowHead(windows[w])
<1>1. ReadyTime(o, w, srcs) = ReadyCost(w, srcs) + Latency(o)
  BY DEF ReadyTime, ReadyCost
<1>2. Latency(o) \in {0, 1}
  BY DEF Latency
<1>3. ReadyCost(w, srcs) \in Nat /\ ReadyCost(w, srcs) >= WindowTime(w)
  BY ReadyCostFact
<1>4. config.w_num > 0 => WindowHead(windows[w]) \in Nat
  BY ConfigFact, HeadTailFact DEF ScheduleInv, WindowsOrdered
<1> QED
  BY <1>1, <1>2, <1>3, <1>4, WindowTimeFact

----------------------------------------------------------------------------
\* The invariant is inductive.

\* Every table starts at cycle 0.
LEMMA InitScheduleInv == Init => ScheduleInv
<1> SUFFICES ASSUME Init PROVE ScheduleInv
  OBVIOUS
<1>1. config \in ConfigType
  BY ScheduleAssumption DEF Init
<1>2. Unwritten \in SchedInfo /\ Unwritten.ready = 0
  BY DEF Unwritten, SchedInfo
<1>3. EmptyWindow \in [Slots -> Nat] /\ WindowTail(EmptyWindow) = 0
  BY WindowSizeAssumption DEF EmptyWindow, WindowTail, Slots
<1>4. cdstack = <<>> /\ cdstack \in Seq(CDItem) /\ Len(cdstack) = 0
  BY EmptySeq DEF Init
<1>5. TypeOK
  BY <1>1, <1>2, <1>3, <1>4 DEF Init, TypeOK, ConfigType
<1>6. WindowsOrdered
  BY EmptyWindowIsWindow DEF Init, WindowsOrdered
<1>7. FinishTimeCovers
  BY <1>2, <1>3, <1>4 DEF Init, FinishTimeCovers
<1> QED
  BY <1>5, <1>6, <1>7 DEF ScheduleInv

\* What a branch leaves behind for what depends on it is covered, too.
LEMMA BranchInfoFact ==
    ASSUME ScheduleInv, NEW o \in Opers, NEW stack, CoveredStack(stack),
           NEW w \in Nat, NEW ready \in Nat, NEW predicted
    PROVE  LET info == BranchInfo(o, w, ready, predicted, ControlSource(o, stack))
           IN  /\ info \in SchedInfo
               /\ info.ready <= finish_time \/ info.ready <= ready
<1> DEFINE control == ControlSource(o, stack)
           waited == IF control = {} THEN Unwritten ELSE CHOOSE c \in control : TRUE
<1>1. waited \in SchedInfo /\ waited.ready <= finish_time
  <2>1. CASE control = {}
    BY <2>1 DEF Unwritten, SchedInfo, ScheduleInv, TypeOK
  <2>2. CASE control # {}
    <3>1. waited \in control
      BY <2>2
    <3> QED
      BY <3>1, ControlSourceCovered DEF Covered
  <2> QED
    BY <2>1, <2>2
<1>2. opcount \in Nat /\ finish_time \in Nat
  BY DEF ScheduleInv, TypeOK
<1> DEFINE info == [ready |-> IF predicted THEN waited.ready ELSE ready,
                    din_src |-> IF predicted THEN waited.din_src ELSE opcount,
                    thread_id |-> w]
<1>3. BranchInfo(o, w, ready, predicted, control) = info
  BY DEF BranchInfo
<1> HIDE DEF waited, control
<1>4. info \in SchedInfo /\ (info.ready <= finish_time \/ info.ready <= ready)
  BY <1>1, <1>2 DEF SchedInfo
<1> QED
  BY <1>3, <1>4 DEF control

(***************************************************************************)
(* adamant_schedule_oper, for the instruction read ahead: every table is   *)
(* updated with times that finish_time covers.                             *)
(***************************************************************************)
LEMMA ScheduleOperFact ==
    ASSUME ScheduleInv, config' = config, ~PreupdateFails(next_oper), NEW predicted,
           ScheduleOper(next_oper, predicted, Preupdated(next_oper))
    PROVE  /\ finish_time' \in Nat
           /\ reg_info' \in [Regs -> SchedInfo]
           /\ \A r \in Regs : reg_info'[r].ready <= finish_time'
           /\ mem_info' \in [Bytes -> SchedInfo]
           /\ \A b \in Bytes : mem_info'[b].ready <= finish_time'
           /\ mapped' \subseteq Lines
           /\ windows' \in [Windows -> [Slots -> Nat]]
           /\ \A v \in Windows : /\ IsWindow(windows'[v])
                                 /\ WindowTail(windows'[v]) <= finish_time'
                                 /\ WindowHead(windows'[v]) >= WindowHead(windows[v])
           /\ mispredicted' \in [WindowIds -> SchedInfo]
           /\ \A v \in WindowIds : mispredicted'[v].ready <= finish_time'
           /\ cd_times' \in [Branches -> [cd_din_src : Nat, info : SchedInfo]]
           /\ \A b \in Branches : cd_times'[b].info.ready <= finish_time'
           /\ cdstack' \in Seq(CDItem)
           /\ \A k \in 1..Len(cdstack') : cdstack'[k].info.ready <= finish_time'
           /\ dopop' \in BOOLEAN
<1> DEFINE o == next_oper
           stack == Preupdated(o)
           srcs == Sources(o, stack)
           w == Choose(srcs)
           ready == ReadyTime(o, w, srcs)
           result == [ready |-> ready, din_src |-> opcount, thread_id |-> w]
           info == BranchInfo(o, w, ready, predicted, ControlSource(o, stack))
<1>1. o \in Opers /\ o \in OperType /\ opcount \in Nat /\ finish_time \in Nat
  BY ScheduleAssumption DEF ScheduleInv, TypeOK
<1>2. CoveredStack(stack)
  BY <1>1, PreupdatedCovered
<1>3. srcs \subseteq SchedInfo /\ IsFiniteSet(srcs)
  BY <1>1, <1>2, SourcesFact
<1> HIDE DEF stack, srcs
<1>4. w \in WindowIds /\ w \in Nat
  BY <1>3, ChooseFact, ConfigFact
<1> HIDE DEF w
<1>5. ready \in Nat /\ (config.w_num > 0 => ready >= WindowHead(windows[w]))
  BY <1>3, <1>4, ReadyTimeFact
<1> HIDE DEF ready
<1>6. result \in SchedInfo /\ result.ready = ready
  BY <1>1, <1>4, <1>5 DEF SchedInfo
<1>7. /\ finish_time' = FinishTime(ready)
      /\ reg_info' = [r \in Regs |->
            IF r \in o.writes \ config.ignore_regs THEN result ELSE reg_info[r]]
      /\ mem_info' = [b \in Bytes |-> IF b \in o.stores THEN result ELSE mem_info[b]]
      /\ mapped' = mapped \cup {LineOf[b] : b \in o.stores}
      /\ windows' = IF config.w_num = 0 THEN windows
                    ELSE [windows EXCEPT ![w] = WindowInsert(config.w_type, @, ready)]
      /\ UpdateControl(o, w, ready, predicted, stack)
  BY DEF ScheduleOper, UpdateRegs, UpdateMems, stack, srcs, w, ready
<1> HIDE DEF result
<1>8. finish_time' \in Nat /\ finish_time <= finish_time' /\ ready <= finish_time'
  BY <1>1, <1>5, <1>7 DEF FinishTime
<1>9. /\ reg_info' \in [Regs -> SchedInfo]
      /\ \A r \in Regs : reg_info'[r].ready <= finish_time'
  <2>1. reg_info \in [Regs -> SchedInfo] /\ \A r \in Regs : reg_info[r].ready <= finish_time
    BY DEF ScheduleInv, TypeOK, FinishTimeCovers
  <2>2. \A r \in Regs : reg_info[r].ready \in Nat
    BY <2>1 DEF SchedInfo
  <2> QED
    BY <1>1, <1>6, <1>7, <1>8, <2>1, <2>2
<1>10. /\ mem_info' \in [Bytes -> SchedInfo]
       /\ \A b \in Bytes : mem_info'[b].ready <= finish_time'
  <2>1. mem_info \in [Bytes -> SchedInfo] /\ \A b \in Bytes : mem_info[b].ready <= finish_time
    BY DEF ScheduleInv, TypeOK, FinishTimeCovers
  <2>2. \A b \in Bytes : mem_info[b].ready \in Nat
    BY <2>1 DEF SchedInfo
  <2> QED
    BY <1>1, <1>6, <1>7, <1>8, <2>1, <2>2
<1>11. mapped' \subseteq Lines
  BY <1>1, <1>7, ScheduleAssumption DEF ScheduleInv, TypeOK, OperType
<1>12. /\ windows' \in [Windows -> [Slots -> Nat]]
       /\ \A v \in Windows : /\ IsWindow(windows'[v])
                             /\ WindowTail(windows'[v]) <= finish_time'
                             /\ WindowHead(windows'[v]) >= WindowHead(windows[v])
  <2>1. /\ windows \in [Windows -> [Slots -> Nat]]
        /\ \A v \in Windows : IsWindow(windows[v]) /\ WindowTail(windows[v]) <= finish_time
    BY DEF ScheduleInv, TypeOK, WindowsOrdered, FinishTimeCovers
  <2>2. \A v \in Windows : WindowHead(windows[v]) \in Nat /\ WindowTail(windows[v]) \in Nat
    BY <2>1, HeadTailFact
  <2>3. CASE config.w_num = 0
    BY <1>1, <1>7, <1>8, <2>1, <2>2, <2>3
  <2>4. CASE config.w_num > 0
    <3> DEFINE new == WindowInsert(config.w_type, windows[w], ready)
    <3>1. w \in Windows /\ ready >= WindowHead(windows[w])
      BY <1>4, <1>5, <2>4, ConfigFact
    <3>2. /\ IsWindow(new)
          /\ WindowHead(new) >= WindowHead(windows[w])
          /\ WindowTail(new) = MAX(ready, WindowTail(windows[w]))
      BY <1>5, <2>1, <3>1, WindowInsertFact
    <3>3. new \in [Slots -> Nat] /\ WindowTail(new) <= finish_time'
      BY <1>1, <1>5, <1>8, <2>1, <2>2, <3>1, <3>2 DEF IsWindow, MAX
    <3> HIDE DEF new
    <3>4. windows' = [windows EXCEPT ![w] = new]
      BY <1>7, <2>4 DEF new
    <3> QED
      BY <1>1, <1>8, <2>1, <2>2, <3>1, <3>2, <3>3, <3>4
  <2> QED
    BY <2>3, <2>4, ConfigFact
<1>13. /\ mispredicted \in [WindowIds -> SchedInfo]
       /\ \A v \in WindowIds : mispredicted[v].ready <= finish_time
       /\ \A v \in WindowIds : mispredicted[v].ready \in Nat
       /\ cd_times \in [Branches -> [cd_din_src : Nat, info : SchedInfo]]
       /\ \A b \in Branches : cd_times[b].info.ready <= finish_time
       /\ \A b \in Branches : cd_times[b].info.ready \in Nat
  BY DEF ScheduleInv, TypeOK, FinishTimeCovers, SchedInfo
<1>14. /\ stack \in Seq(CDItem) /\ Len(stack) \in Nat
       /\ \A k \in 1..Len(stack) : stack[k].info.ready \in Nat
       /\ \A k \in 1..Len(stack) : stack[k].info.ready <= finish_time
  BY <1>2, LenProperties DEF CoveredStack, Covered, SchedInfo
<1>15. info \in SchedInfo /\ info.ready \in Nat /\ info.ready <= finish_time'
  <2>1. info \in SchedInfo /\ (info.ready <= finish_time \/ info.ready <= ready)
    BY <1>1, <1>2, <1>4, <1>5, BranchInfoFact
  <2>2. info.ready \in Nat
    BY <2>1 DEF SchedInfo
  <2> QED
    BY <1>1, <1>5, <1>8, <2>1, <2>2
<1> HIDE DEF info
<1> DEFINE last == [ready |-> ready, din_src |-> opcount, thread_id |-> w]
<1>16. /\ mispredicted' \in [WindowIds -> SchedInfo]
       /\ \A v \in WindowIds : mispredicted'[v].ready <= finish_time'
  <2>1. last \in SchedInfo /\ last.ready = ready
    BY <1>1, <1>4, <1>5 DEF SchedInfo
  <2>2. \/ mispredicted' = mispredicted
        \/ mispredicted' = [mispredicted EXCEPT ![w] = last]
    BY <1>7 DEF UpdateControl
  <2> HIDE DEF last
  <2> QED
    BY <1>1, <1>4, <1>5, <1>8, <1>13, <2>1, <2>2
<1>17. /\ cd_times' \in [Branches -> [cd_din_src : Nat, info : SchedInfo]]
       /\ \A b \in Branches : cd_times'[b].info.ready <= finish_time'
  <2> DEFINE new == [cd_din_src |-> opcount, info |-> info]
  <2>1. new \in [cd_din_src : Nat, info : SchedInfo] /\ new.info = info
    BY <1>1, <1>15
  <2>2. \/ cd_times' = cd_times
        \/ cd_times' = [cd_times EXCEPT ![o.ip] = new] /\ o.ip \in Branches
    BY <1>7 DEF UpdateControl, info
  <2> HIDE DEF new
  <2> QED
    BY <1>1, <1>8, <1>13, <1>15, <2>1, <2>2
<1>18. /\ cdstack' \in Seq(CDItem)
       /\ \A k \in 1..Len(cdstack') : cdstack'[k].info.ready <= finish_time'
  <2> DEFINE top == [ip |-> o.next, info |-> info]
             pushed == <<top>> \o stack
  <2>1. top \in CDItem /\ top.info = info
    BY <1>1, <1>15 DEF CDItem, OperType
  <2>2. cdstack' = stack \/ cdstack' = pushed
    BY <1>7 DEF UpdateControl, info
  <2> HIDE DEF top
  <2>3. /\ pushed \in Seq(CDItem) /\ Len(pushed) = 1 + Len(stack)
        /\ \A k \in 1..(1 + Len(stack)) : pushed[k] = IF k = 1 THEN top ELSE stack[k - 1]
    BY <1>14, <2>1, PushFact
  <2> HIDE DEF pushed
  <2>4. \A k \in 1..Len(stack) : stack[k].info.ready <= finish_time'
    BY <1>1, <1>8, <1>14
  <2>5. ASSUME NEW k \in 1..Len(pushed)
        PROVE  pushed[k].info.ready <= finish_time'
    <3>1. CASE k = 1
      BY <1>14, <1>15, <2>1, <2>3, <3>1
    <3>2. CASE k # 1
      <4>1. k - 1 \in 1..Len(stack) /\ pushed[k] = stack[k - 1]
        BY <1>14, <2>3, <2>5, <3>2
      <4> QED
        BY <2>4, <4>1
    <3> QED
      BY <3>1, <3>2
  <2> QED
    BY <1>14, <2>2, <2>3, <2>4, <2>5
<1>19. dopop' \in BOOLEAN
  BY <1>7, Zenon DEF UpdateControl
<1> QED
  BY <1>8, <1>9, <1>10, <1>11, <1>12, <1>16, <1>17, <1>18, <1>19

\* The scheduling of an instruction, with the counters of the loop.
LEMMA ScheduleNextInv == ScheduleInv /\ ScheduleNext => ScheduleInv'
<1> SUFFICES ASSUME ScheduleInv, ScheduleNext PROVE ScheduleInv'
  OBVIOUS
<1>1. PICK predicted : ScheduleOper(next_oper, predicted, Preupdated(next_oper))
  BY DEF ScheduleNext
<1>2. config' = config /\ ~PreupdateFails(next_oper)
  BY DEF ScheduleNext
<1>3. Windows' = Windows /\ WindowIds' = WindowIds
  BY <1>2 DEF Windows, WindowIds
<1>4. /\ finish_time' \in Nat
      /\ reg_info' \in [Regs -> SchedInfo]
      /\ mem_info' \in [Bytes -> SchedInfo]
      /\ mapped' \subseteq Lines
      /\ windows' \in [Windows -> [Slots -> Nat]]
      /\ mispredicted' \in [WindowIds -> SchedInfo]
      /\ cd_times' \in [Branches -> [cd_din_src : Nat, info : SchedInfo]]
      /\ cdstack' \in Seq(CDItem)
      /\ dopop' \in BOOLEAN
  BY <1>1, <1>2, ScheduleOperFact
<1>5. /\ config' \in Configs /\ next_oper' \in Opers /\ tmterr' \in TmtErr
      /\ done' \in BOOLEAN
      /\ status' \in {"running", "done", "failed", "aborted"}
  BY <1>2 DEF ScheduleInv, TypeOK, ScheduleNext, ReadAhead, EndOfIteration, Outcome
<1>6. /\ opcount' \in Nat /\ bdd_tick_time' \in Nat
      /\ config'.dd_tick_interval > 0 => bdd_tick_time' < config'.dd_tick_interval
  <2>1. config.dd_tick_interval \in Nat
    BY ConfigFact DEF ConfigType
  <2>2. /\ opcount \in Nat /\ bdd_tick_time \in Nat
        /\ config.dd_tick_interval > 0 => bdd_tick_time < config.dd_tick_interval
    BY DEF ScheduleInv, TypeOK
  <2>3. opcount' = opcount + 1 /\ bdd_tick_time' = BddTick
    BY DEF ScheduleNext
  <2> QED
    BY <1>2, <2>1, <2>2, <2>3 DEF BddTick
<1>7. TypeOK'
  BY <1>3, <1>4, <1>5, <1>6 DEF TypeOK
<1>8. WindowsOrdered'
  BY <1>1, <1>2, <1>3, ScheduleOperFact DEF WindowsOrdered
<1>9. FinishTimeCovers'
  BY <1>1, <1>2, <1>3, ScheduleOperFact DEF FinishTimeCovers
<1> QED
  BY <1>7, <1>8, <1>9 DEF ScheduleInv

\* A nop leaves every table alone; only the stack may have been unwound.
LEMMA SkipNextInv == ScheduleInv /\ SkipNext => ScheduleInv'
<1> SUFFICES ASSUME ScheduleInv, SkipNext PROVE ScheduleInv'
  OBVIOUS
<1>1. /\ UNCHANGED <<config, tables>>
      /\ cdstack' = Preupdated(next_oper) /\ dopop' = FALSE
      /\ next_oper \in Opers /\ ~PreupdateFails(next_oper)
  BY DEF SkipNext, ScheduleInv, TypeOK
<1>2. CoveredStack(Preupdated(next_oper))
  BY <1>1, PreupdatedCovered
<1>3. /\ cdstack' \in Seq(CDItem)
      /\ \A k \in 1..Len(cdstack') : cdstack'[k].info.ready <= finish_time'
  BY <1>1, <1>2 DEF CoveredStack, Covered, tables
<1>4. Windows' = Windows /\ WindowIds' = WindowIds
  BY <1>1 DEF Windows, WindowIds
<1>5. /\ next_oper' \in Opers /\ tmterr' \in TmtErr
      /\ status' \in {"running", "done", "failed", "aborted"}
  BY DEF ScheduleInv, TypeOK, SkipNext, ReadAhead, EndOfIteration, Outcome
<1>6. TypeOK'
  BY <1>1, <1>3, <1>4, <1>5 DEF ScheduleInv, TypeOK, tables
<1>7. WindowsOrdered'
  BY <1>1, <1>4 DEF ScheduleInv, WindowsOrdered, tables
<1>8. FinishTimeCovers'
  BY <1>1, <1>3, <1>4 DEF ScheduleInv, FinishTimeCovers, tables
<1> QED
  BY <1>6, <1>7, <1>8 DEF ScheduleInv

\* Steps that change nothing but the status.
LEMMA TablesUnchangedInv ==
    ASSUME ScheduleInv, UNCHANGED <<config, next_oper, tmterr, tables, cdstack, dopop>>,
           status' \in {"running", "done", "failed", "aborted"}
    PROVE  ScheduleInv'
<1>1. Windows' = Windows /\ WindowIds' = WindowIds
  BY DEF Windows, WindowIds
<1>2. TypeOK'
  BY <1>1 DEF ScheduleInv, TypeOK, tables
<1>3. WindowsOrdered'
  BY <1>1 DEF ScheduleInv, WindowsOrdered, tables
<1>4. FinishTimeCovers'
  BY <1>1 DEF ScheduleInv, FinishTimeCovers, tables
<1> QED
  BY <1>2, <1>3, <1>4 DEF ScheduleInv

\* Every step of the loop keeps the invariant.
LEMMA NextScheduleInv == ScheduleInv /\ [Next]_vars => ScheduleInv'
<1> SUFFICES ASSUME ScheduleInv, [Next]_vars PROVE ScheduleInv'
  OBVIOUS
<1>1. CASE ScheduleNext
  BY <1>1, ScheduleNextInv
<1>2. CASE SkipNext
  BY <1>2, SkipNextInv
<1>3. CASE Abort
  BY <1>3, TablesUnchangedInv DEF Abort
<1>4. CASE EndOfTrace
  BY <1>4, TablesUnchangedInv DEF EndOfTrace, Outcome
<1>5. CASE UNCHANGED vars
  BY <1>5, TablesUnchangedInv DEF vars, ScheduleInv, TypeOK
<1> QED
  BY <1>1, <1>2, <1>3, <1>4, <1>5 DEF Next

\* The invariant the theorems rest on.
THEOREM ScheduleInvariant == Spec => []ScheduleInv
BY InitScheduleInv, NextScheduleInv, PTL DEF Spec

(***************************************************************************)
(* Type correctness: whatever the trace, every table of the scheduler      *)
(* holds values of its type; no ready time is a maximum over nothing or    *)
(* over an unbounded set of sources.                                       *)
(***************************************************************************)
THEOREM TypeCorrect == Spec => []TypeOK
BY ScheduleInvariant, PTL DEF ScheduleInv

(***************************************************************************)
(* The length of the schedule that adamantium reports is no less than any  *)
(* time in its tables.                                                     *)
(***************************************************************************)
THEOREM FinishTimeCoversAll == Spec => []FinishTimeCovers
BY ScheduleInvariant, PTL DEF ScheduleInv

----------------------------------------------------------------------------
\* An instruction enters its window no earlier than its head, so the head stays or advances.
LEMMA StepMovesForward ==
    ScheduleInv /\ [Next]_vars =>
        [\A w \in Windows : WindowHead(windows'[w]) >= WindowHead(windows[w])]_vars
<1> SUFFICES ASSUME ScheduleInv, [Next]_vars
             PROVE  \A w \in Windows : WindowHead(windows'[w]) >= WindowHead(windows[w])
  OBVIOUS
<1>1. CASE ScheduleNext
  <2>1. PICK predicted : ScheduleOper(next_oper, predicted, Preupdated(next_oper))
    BY <1>1 DEF ScheduleNext
  <2> QED
    BY <1>1, <2>1, ScheduleOperFact DEF ScheduleNext
<1>2. CASE UNCHANGED windows
  <2>1. \A w \in Windows : WindowHead(windows[w]) \in Nat
    BY HeadTailFact DEF ScheduleInv, WindowsOrdered
  <2> QED
    BY <1>2, <2>1
<1> QED
  BY <1>1, <1>2 DEF Next, SkipNext, Abort, EndOfTrace, tables, vars

(***************************************************************************)
(* A slot a window has given away is never offered again for an earlier    *)
(* cycle, for either type of window, every size and every trace.           *)
(***************************************************************************)
THEOREM WindowsOnlyMoveForward == Spec => WindowsMoveForward
BY ScheduleInvariant, StepMovesForward, PTL DEF Spec, WindowsMoveForward

----------------------------------------------------------------------------
\* The schedule so far, and the limit on its length.

LogEntry ==
    [oper : Opers, din : Nat, ready : Nat, window : Nat, predicted : BOOLEAN, after : Nat]

(***************************************************************************)
(* OpNumbers is not inductive: it allows a run that goes on at maxopcount. *)
(* EndOfIteration stops such a run in the very step that reaches it.       *)
(***************************************************************************)
CountInv ==
    /\ log \in Seq(LogEntry)
    /\ OpNumbers
    /\ config.maxopcount > 0 /\ status = "running" => opcount < config.maxopcount

\* Nothing has been scheduled at the start.
LEMMA InitCountInv == Init => CountInv
<1> SUFFICES ASSUME Init PROVE CountInv
  OBVIOUS
<1>1. log = <<>> /\ log \in Seq(LogEntry) /\ Len(log) = 0
  BY EmptySeq DEF Init
<1>2. config \in ConfigType /\ config.maxopcount \in Nat
  BY ScheduleAssumption DEF Init, ConfigType
<1> QED
  BY <1>1, <1>2 DEF Init, CountInv, OpNumbers, Scheduled

\* What the log holds after an instruction is scheduled.
LEMMA LogStep ==
    ASSUME ScheduleInv, log \in Seq(LogEntry), ScheduleNext
    PROVE  \E e \in LogEntry :
             /\ e.oper = next_oper /\ e.din = opcount
             /\ LET srcs == Sources(next_oper, Preupdated(next_oper))
                IN  /\ e.window = Choose(srcs)
                    /\ e.ready = ReadyTime(next_oper, Choose(srcs), srcs)
             /\ log' \in Seq(LogEntry) /\ Len(log') = Len(log) + 1
             /\ log'[Len(log) + 1] = e
             /\ \A k \in 1..Len(log) : log'[k] = log[k]
<1> DEFINE o == next_oper
           srcs == Sources(o, Preupdated(o))
           w == Choose(srcs)
           ready == ReadyTime(o, w, srcs)
<1>1. PICK predicted \in Predictions(o, tmterr' # "TMTIO_OK") :
        ScheduleOper(o, predicted, Preupdated(o))
  BY DEF ScheduleNext
<1>2. predicted \in BOOLEAN
  BY <1>1 DEF Predictions
<1>3. o \in Opers /\ opcount \in Nat /\ ~PreupdateFails(o) /\ next_oper'.ip \in Nat
  BY ScheduleAssumption DEF ScheduleNext, ReadAhead, ScheduleInv, TypeOK, OperType
<1>4. srcs \subseteq SchedInfo /\ IsFiniteSet(srcs)
  BY <1>3, PreupdatedCovered, SourcesFact
<1>5. w \in WindowIds /\ w \in Nat /\ ready \in Nat
  <2> HIDE DEF srcs
  <2>1. w \in WindowIds /\ w \in Nat
    BY <1>4, ChooseFact, ConfigFact
  <2> HIDE DEF w
  <2> QED
    BY <1>4, <2>1, ReadyTimeFact
<1> DEFINE e == [oper |-> o, din |-> opcount, ready |-> ready, window |-> w,
                 predicted |-> predicted, after |-> next_oper'.ip]
<1>6. log' = Append(log, e)
  BY <1>1 DEF ScheduleOper
<1>7. e.oper = o /\ e.din = opcount /\ e.ready = ready /\ e.window = w
  OBVIOUS
<1> HIDE DEF ready, w
<1>8. e \in LogEntry
  BY <1>2, <1>3, <1>5 DEF LogEntry
<1> HIDE DEF e
<1>9. /\ log' \in Seq(LogEntry) /\ Len(log') = Len(log) + 1
      /\ log'[Len(log) + 1] = e
      /\ \A k \in 1..Len(log) : log'[k] = log[k]
  BY <1>6, <1>8
<1> QED
  BY <1>7, <1>8, <1>9 DEF ready, w

\* The step that reaches maxopcount also leaves the loop.
LEMMA NextCountInv == ScheduleInv /\ CountInv /\ [Next]_vars => CountInv'
<1> SUFFICES ASSUME ScheduleInv, CountInv, [Next]_vars PROVE CountInv'
  OBVIOUS
<1>1. config.maxopcount \in Nat /\ opcount \in Nat
  BY ConfigFact DEF ConfigType, ScheduleInv, TypeOK
<1>2. log \in Seq(LogEntry) /\ Len(log) \in Nat
  BY LenProperties DEF CountInv
<1>3. CASE ScheduleNext
  <2>1. PICK e \in LogEntry :
          /\ e.din = opcount
          /\ log' \in Seq(LogEntry) /\ Len(log') = Len(log) + 1
          /\ log'[Len(log) + 1] = e
          /\ \A k \in 1..Len(log) : log'[k] = log[k]
    BY <1>2, <1>3, LogStep
  <2>2. opcount' = opcount + 1 /\ config' = config /\ status = "running"
    BY <1>3 DEF ScheduleNext
  <2>3. opcount' = Len(log')
    BY <1>2, <2>1, <2>2 DEF CountInv, OpNumbers
  <2>4. ASSUME NEW j \in 1..Len(log')
        PROVE  log'[j].din = j - 1
    <3>1. CASE j \in 1..Len(log)
      BY <2>1, <3>1 DEF CountInv, OpNumbers, Scheduled
    <3>2. CASE j = Len(log) + 1
      BY <1>2, <2>1, <3>2 DEF CountInv, OpNumbers
    <3> QED
      BY <1>2, <2>1, <2>4, <3>1, <3>2
  <2>5. config.maxopcount > 0 => opcount' <= config.maxopcount
    BY <1>1, <2>2 DEF CountInv
  <2>6. status' = IF opcount' = config.maxopcount \/ done'
                  THEN Outcome(tmterr') ELSE "running"
    BY <1>3, <2>2 DEF ScheduleNext, EndOfIteration
  <2>7. Outcome(tmterr') # "running"
    BY DEF Outcome
  <2> QED
    BY <1>1, <2>1, <2>2, <2>3, <2>4, <2>5, <2>6, <2>7 DEF CountInv, OpNumbers, Scheduled
<1>4. CASE SkipNext
  <2>1. UNCHANGED <<config, opcount, done, log>> /\ status = "running"
    BY <1>4 DEF SkipNext, tables
  <2>2. status' = IF opcount' = config.maxopcount \/ done'
                  THEN Outcome(tmterr') ELSE "running"
    BY <1>4, <2>1 DEF SkipNext, EndOfIteration
  <2> QED
    BY <1>1, <2>1, <2>2 DEF CountInv, OpNumbers, Scheduled
<1>5. CASE Abort
  BY <1>5 DEF Abort, tables, CountInv, OpNumbers, Scheduled
<1>6. CASE EndOfTrace
  BY <1>6 DEF EndOfTrace, Outcome, tables, CountInv, OpNumbers, Scheduled
<1>7. CASE UNCHANGED vars
  BY <1>7 DEF vars, tables, CountInv, OpNumbers, Scheduled
<1> QED
  BY <1>3, <1>4, <1>5, <1>6, <1>7 DEF Next

(***************************************************************************)
(* The numbers of the instructions count them without a gap, the schedule  *)
(* never runs past maxopcount, and only maxopcount or the DD code end it   *)
(* before the trace does.                                                  *)
(***************************************************************************)
THEOREM OpNumbersHold == Spec => []OpNumbers
<1>1. Init => ScheduleInv /\ CountInv
  BY InitScheduleInv, InitCountInv
<1>2. (ScheduleInv /\ CountInv) /\ [Next]_vars => (ScheduleInv /\ CountInv)'
  BY NextScheduleInv, NextCountInv
<1>3. CountInv => OpNumbers
  BY DEF CountInv
<1> QED
  BY <1>1, <1>2, <1>3, PTL DEF Spec

----------------------------------------------------------------------------
\* The entry a step appends has the ready time of the cheapest window.
LEMMA StepIsGreedy ==
    ScheduleInv /\ CountInv /\ [Next]_vars =>
        [Len(log') > Len(log) =>
            LET e == log'[Len(log')]
                srcs == Sources(e.oper, Preupdated(e.oper))
            IN  \A w \in WindowIds : e.ready <= ReadyTime(e.oper, w, srcs)]_vars
<1> SUFFICES ASSUME ScheduleInv, CountInv, [Next]_vars, Len(log') > Len(log),
                    NEW w \in WindowIds
             PROVE  LET e == log'[Len(log')]
                        srcs == Sources(e.oper, Preupdated(e.oper))
                    IN  e.ready <= ReadyTime(e.oper, w, srcs)
  BY DEF vars
<1>1. log \in Seq(LogEntry) /\ Len(log) \in Nat
  BY LenProperties DEF CountInv
<1>2. ScheduleNext
  BY <1>1 DEF Next, SkipNext, Abort, EndOfTrace, vars, tables
<1> DEFINE srcs == Sources(next_oper, Preupdated(next_oper))
           c == Choose(srcs)
<1>3. PICK e \in LogEntry :
        /\ e.oper = next_oper
        /\ e.ready = ReadyTime(next_oper, c, srcs)
        /\ Len(log') = Len(log) + 1 /\ log'[Len(log) + 1] = e
  BY <1>1, <1>2, LogStep
<1>4. next_oper \in Opers /\ ~PreupdateFails(next_oper)
  BY <1>2 DEF ScheduleNext, ScheduleInv, TypeOK
<1>5. srcs \subseteq SchedInfo /\ IsFiniteSet(srcs)
  BY <1>4, PreupdatedCovered, SourcesFact
<1> HIDE DEF srcs
<1>6. c \in WindowIds /\ ReadyCost(c, srcs) <= ReadyCost(w, srcs)
  BY <1>5, ChooseFact
<1> HIDE DEF c
<1>7. ReadyTime(next_oper, c, srcs) <= ReadyTime(next_oper, w, srcs)
  <2>1. ReadyCost(c, srcs) \in Nat /\ ReadyCost(w, srcs) \in Nat
    BY <1>5, <1>6, ReadyCostFact
  <2>2. /\ ReadyTime(next_oper, c, srcs) = ReadyCost(c, srcs) + Latency(next_oper)
        /\ ReadyTime(next_oper, w, srcs) = ReadyCost(w, srcs) + Latency(next_oper)
        /\ Latency(next_oper) \in {0, 1}
    BY <1>5, <1>6, ReadyTimeFact
  <2> QED
    BY <1>6, <2>1, <2>2
<1> QED
  BY <1>3, <1>7 DEF srcs

(***************************************************************************)
(* adamant_window_runtime_choose is greedy for any number of windows: no   *)
(* other window would have the instruction ready earlier.                  *)
(***************************************************************************)
THEOREM ChoiceIsGreedy == Spec => GreedyChoice
<1>1. Init => ScheduleInv /\ CountInv
  BY InitScheduleInv, InitCountInv
<1>2. (ScheduleInv /\ CountInv) /\ [Next]_vars => (ScheduleInv /\ CountInv)'
  BY NextScheduleInv, NextCountInv
<1> QED
  BY <1>1, <1>2, StepIsGreedy, PTL DEF Spec, GreedyChoice

----------------------------------------------------------------------------
\* Read-after-write order.

\* No instruction after the i-th has written register r, or byte b.
LastToWrite(i, r) ==
    r \in log[i].oper.writes /\ \A k \in (i + 1)..Len(log) : r \notin log[k].oper.writes

LastToStore(i, b) ==
    b \in log[i].oper.stores /\ \A k \in (i + 1)..Len(log) : b \notin log[k].oper.stores

Produced(info, i) == info.ready = log[i].ready /\ info.thread_id = log[i].window

(***************************************************************************)
(* What makes DataflowOrder inductive: the tables the sources are looked   *)
(* up in hold the result of the last writer of each register and byte, and *)
(* every line that was stored to is allocated.                             *)
(***************************************************************************)
LastWriterInv ==
    /\ log \in Seq(LogEntry)
    /\ \A r \in Regs \ config.ignore_regs : \A i \in Scheduled :
          LastToWrite(i, r) => Produced(reg_info[r], i)
    /\ \A b \in Bytes : \A i \in Scheduled :
          LastToStore(i, b) => Produced(mem_info[b], i)
    /\ \A i \in Scheduled : \A b \in log[i].oper.stores : LineOf[b] \in mapped
    /\ DataflowOrder

\* Before the first instruction nothing has been written.
LEMMA InitLastWriterInv == Init => LastWriterInv
<1> SUFFICES ASSUME Init PROVE LastWriterInv
  OBVIOUS
<1>1. log = <<>> /\ log \in Seq(LogEntry) /\ Len(log) = 0
  BY EmptySeq DEF Init
<1> QED
  BY <1>1 DEF LastWriterInv, Scheduled, DataflowOrder

\* The entry a step appends, with the updates of the tables it stands for.
LEMMA ScheduledEntry ==
    ASSUME ScheduleInv, log \in Seq(LogEntry), ScheduleNext
    PROVE  \E e \in LogEntry :
             /\ e.oper = next_oper
             /\ LET srcs == Sources(next_oper, Preupdated(next_oper))
                IN  /\ e.window = Choose(srcs)
                    /\ e.ready = ReadyTime(next_oper, Choose(srcs), srcs)
             /\ log' \in Seq(LogEntry) /\ Len(log') = Len(log) + 1
             /\ log'[Len(log) + 1] = e
             /\ \A k \in 1..Len(log) : log'[k] = log[k]
             /\ \A r \in Regs \ config.ignore_regs :
                  IF r \in e.oper.writes
                  THEN reg_info'[r].ready = e.ready /\ reg_info'[r].thread_id = e.window
                  ELSE reg_info'[r] = reg_info[r]
             /\ \A b \in Bytes :
                  IF b \in e.oper.stores
                  THEN mem_info'[b].ready = e.ready /\ mem_info'[b].thread_id = e.window
                  ELSE mem_info'[b] = mem_info[b]
             /\ mapped' = mapped \cup {LineOf[b] : b \in e.oper.stores}
<1> DEFINE o == next_oper
           srcs == Sources(o, Preupdated(o))
           w == Choose(srcs)
           ready == ReadyTime(o, w, srcs)
           result == [ready |-> ready, din_src |-> opcount, thread_id |-> w]
<1>1. PICK e \in LogEntry :
        /\ e.oper = o /\ e.window = w /\ e.ready = ready
        /\ log' \in Seq(LogEntry) /\ Len(log') = Len(log) + 1
        /\ log'[Len(log) + 1] = e
        /\ \A k \in 1..Len(log) : log'[k] = log[k]
  BY LogStep
<1>2. PICK predicted : ScheduleOper(o, predicted, Preupdated(o))
  BY DEF ScheduleNext
<1>3. /\ reg_info' = [r \in Regs |->
            IF r \in o.writes \ config.ignore_regs THEN result ELSE reg_info[r]]
      /\ mem_info' = [b \in Bytes |-> IF b \in o.stores THEN result ELSE mem_info[b]]
      /\ mapped' = mapped \cup {LineOf[b] : b \in o.stores}
  BY <1>2 DEF ScheduleOper, UpdateRegs, UpdateMems
<1> HIDE DEF srcs, w, ready
<1>4. result.ready = ready /\ result.thread_id = w
  OBVIOUS
<1> HIDE DEF result
<1>5. \A r \in Regs \ config.ignore_regs :
         IF r \in e.oper.writes
         THEN reg_info'[r].ready = e.ready /\ reg_info'[r].thread_id = e.window
         ELSE reg_info'[r] = reg_info[r]
  BY <1>1, <1>3, <1>4
<1>6. \A b \in Bytes :
         IF b \in e.oper.stores
         THEN mem_info'[b].ready = e.ready /\ mem_info'[b].thread_id = e.window
         ELSE mem_info'[b] = mem_info[b]
  BY <1>1, <1>3, <1>4
<1> QED
  BY <1>1, <1>3, <1>5, <1>6 DEF srcs, w, ready

\* The new instruction starts after every source it was looked up for.
LEMMA NewEntryWaits ==
    ASSUME ScheduleInv, LastWriterInv, ScheduleNext,
           NEW e \in LogEntry, e.oper = next_oper,
           LET srcs == Sources(next_oper, Preupdated(next_oper))
           IN  /\ e.window = Choose(srcs)
               /\ e.ready = ReadyTime(next_oper, Choose(srcs), srcs),
           NEW i \in Scheduled,
           \/ \E r \in (log[i].oper.writes \cap e.oper.reads) \ config.ignore_regs :
                LastToWrite(i, r)
           \/ \E b \in log[i].oper.stores \cap e.oper.loads : LastToStore(i, b)
    PROVE  e.ready - Latency(e.oper) >=
             log[i].ready + (IF log[i].window # e.window
                             THEN config.communication_latency ELSE 0)
<1> DEFINE o == next_oper
           srcs == Sources(o, Preupdated(o))
<1>1. o \in Opers /\ o \in OperType /\ ~PreupdateFails(o)
  BY ScheduleAssumption DEF ScheduleNext, ScheduleInv, TypeOK
<1>2. srcs \subseteq SchedInfo /\ IsFiniteSet(srcs)
  BY <1>1, PreupdatedCovered, SourcesFact
<1>3. \E s \in srcs : Produced(s, i)
  <2>1. CASE \E r \in (log[i].oper.writes \cap e.oper.reads) \ config.ignore_regs :
                LastToWrite(i, r)
    <3>1. PICK r \in o.reads \ config.ignore_regs : LastToWrite(i, r)
      BY <2>1
    <3>2. r \in Regs \ config.ignore_regs
      BY <1>1, <3>1 DEF OperType
    <3>3. Produced(reg_info[r], i)
      BY <3>1, <3>2 DEF LastWriterInv
    <3>4. reg_info[r] \in srcs
      BY <3>1 DEF Sources, RegSources
    <3> QED
      BY <3>3, <3>4
  <2>2. CASE \E b \in log[i].oper.stores \cap e.oper.loads : LastToStore(i, b)
    <3>1. PICK b \in o.loads : LastToStore(i, b) /\ b \in log[i].oper.stores
      BY <2>2
    <3>2. b \in Bytes
      BY <1>1, <3>1 DEF OperType
    <3>3. Produced(mem_info[b], i) /\ LineOf[b] \in mapped
      BY <3>1, <3>2 DEF LastWriterInv
    <3>4. mem_info[b] \in srcs
      BY <3>1, <3>3 DEF Sources, MemSources
    <3> QED
      BY <3>3, <3>4
  <2> QED
    BY <2>1, <2>2
<1> HIDE DEF srcs
<1>4. PICK s \in srcs : Produced(s, i)
  BY <1>3
<1>5. e.window = Choose(srcs) /\ e.window \in WindowIds
  BY <1>2, ChooseFact DEF srcs
<1>6. e.ready = ReadyCost(e.window, srcs) + Latency(o) /\ Latency(o) \in {0, 1}
  BY <1>2, <1>5, ReadyTimeFact DEF srcs
<1>7. /\ ReadyCost(e.window, srcs) \in Nat
      /\ ReadyCost(e.window, srcs) >= Arrival(s, e.window)
  BY <1>2, <1>5, ReadyCostFact
<1>8. Arrival(s, e.window) =
        log[i].ready + (IF log[i].window # e.window
                        THEN config.communication_latency ELSE 0)
  BY <1>4 DEF Arrival, Produced
<1>9. e.ready - Latency(o) = ReadyCost(e.window, srcs)
  BY <1>6, <1>7
<1> QED
  BY <1>7, <1>8, <1>9

\* A scheduled instruction becomes the last writer of all it writes, and of nothing else.
LEMMA ScheduleNextLastWriter ==
    ScheduleInv /\ LastWriterInv /\ ScheduleNext => LastWriterInv'
<1> SUFFICES ASSUME ScheduleInv, LastWriterInv, ScheduleNext PROVE LastWriterInv'
  OBVIOUS
<1> DEFINE n == Len(log)
<1>1. log \in Seq(LogEntry) /\ n \in Nat
  BY LenProperties DEF LastWriterInv
<1>2. config' = config
  BY DEF ScheduleNext
<1>3. PICK e \in LogEntry :
        /\ e.oper = next_oper
        /\ LET srcs == Sources(next_oper, Preupdated(next_oper))
           IN  /\ e.window = Choose(srcs)
               /\ e.ready = ReadyTime(next_oper, Choose(srcs), srcs)
        /\ log' \in Seq(LogEntry) /\ Len(log') = n + 1
        /\ log'[n + 1] = e
        /\ \A k \in 1..n : log'[k] = log[k]
        /\ \A r \in Regs \ config.ignore_regs :
             IF r \in e.oper.writes
             THEN reg_info'[r].ready = e.ready /\ reg_info'[r].thread_id = e.window
             ELSE reg_info'[r] = reg_info[r]
        /\ \A b \in Bytes :
             IF b \in e.oper.stores
             THEN mem_info'[b].ready = e.ready /\ mem_info'[b].thread_id = e.window
             ELSE mem_info'[b] = mem_info[b]
        /\ mapped' = mapped \cup {LineOf[b] : b \in e.oper.stores}
  BY <1>1, ScheduledEntry
<1> HIDE DEF n
<1>4. Len(log) = n
  BY DEF n
<1>5. \A i \in 1..(n + 1) : i \in 1..n \/ i = n + 1
  BY <1>1
<1>6. ASSUME NEW r \in Regs \ config.ignore_regs, NEW i \in 1..(n + 1),
             LastToWrite(i, r)'
      PROVE  Produced(reg_info[r], i)'
  <2>1. CASE i = n + 1
    BY <1>3, <1>6, <2>1 DEF LastToWrite, Produced
  <2>2. CASE i \in 1..n
    <3>1. r \notin e.oper.writes
      <4>1. n + 1 \in (i + 1)..Len(log')
        BY <1>1, <1>3, <2>2
      <4> QED
        BY <1>3, <1>6, <4>1 DEF LastToWrite
    <3>2. LastToWrite(i, r)
      <4>1. \A k \in (i + 1)..n : k \in 1..n /\ k \in (i + 1)..Len(log')
        BY <1>1, <1>3, <2>2
      <4> QED
        BY <1>3, <1>4, <1>6, <2>2, <4>1 DEF LastToWrite
    <3>3. Produced(reg_info[r], i)
      BY <1>4, <1>6, <2>2, <3>2 DEF LastWriterInv, Scheduled
    <3> QED
      BY <1>3, <1>6, <2>2, <3>1, <3>3 DEF Produced
  <2> QED
    BY <1>5, <2>1, <2>2
<1>7. ASSUME NEW b \in Bytes, NEW i \in 1..(n + 1), LastToStore(i, b)'
      PROVE  Produced(mem_info[b], i)'
  <2>1. CASE i = n + 1
    BY <1>3, <1>7, <2>1 DEF LastToStore, Produced
  <2>2. CASE i \in 1..n
    <3>1. b \notin e.oper.stores
      <4>1. n + 1 \in (i + 1)..Len(log')
        BY <1>1, <1>3, <2>2
      <4> QED
        BY <1>3, <1>7, <4>1 DEF LastToStore
    <3>2. LastToStore(i, b)
      <4>1. \A k \in (i + 1)..n : k \in 1..n /\ k \in (i + 1)..Len(log')
        BY <1>1, <1>3, <2>2
      <4> QED
        BY <1>3, <1>4, <1>7, <2>2, <4>1 DEF LastToStore
    <3>3. Produced(mem_info[b], i)
      BY <1>4, <1>7, <2>2, <3>2 DEF LastWriterInv, Scheduled
    <3> QED
      BY <1>3, <1>7, <2>2, <3>1, <3>3 DEF Produced
  <2> QED
    BY <1>5, <2>1, <2>2
<1>8. ASSUME NEW i \in 1..(n + 1), NEW b \in log'[i].oper.stores
      PROVE  LineOf[b] \in mapped'
  <2>1. CASE i = n + 1
    BY <1>3, <1>8, <2>1
  <2>2. CASE i \in 1..n
    BY <1>3, <1>4, <1>8, <2>2 DEF LastWriterInv, Scheduled
  <2> QED
    BY <1>5, <2>1, <2>2
<1>9. ASSUME NEW i \in 1..(n + 1), NEW j \in 1..(n + 1), Feeds(i, j)'
      PROVE  (Start(j) >= log[i].ready + Travel(i, j))'
  <2>1. i < j /\ i \in 1..n
    BY <1>1, <1>9 DEF Feeds
  <2>2. CASE j \in 1..n
    <3>1. \A k \in (i + 1)..(j - 1) : k \in 1..n
      BY <1>1, <2>1, <2>2
    <3>2. log'[i] = log[i] /\ log'[j] = log[j] /\ \A k \in (i + 1)..(j - 1) : log'[k] = log[k]
      BY <1>3, <2>1, <2>2, <3>1
    <3>3. Feeds(i, j)
      BY <1>2, <1>9, <3>2 DEF Feeds
    <3>4. Start(j) >= log[i].ready + Travel(i, j)
      BY <1>4, <2>1, <2>2, <3>3 DEF LastWriterInv, DataflowOrder, Scheduled
    <3> QED
      BY <1>2, <3>2, <3>4 DEF Start, Travel, LatencyOf, Latency
  <2>3. CASE j = n + 1
    <3>1. /\ log'[i] = log[i] /\ log'[j] = e
          /\ \A k \in (i + 1)..n : log'[k] = log[k] /\ k \in (i + 1)..(j - 1)
      BY <1>1, <1>3, <2>1, <2>3
    <3>2. \/ \E r \in (log[i].oper.writes \cap e.oper.reads) \ config.ignore_regs :
                LastToWrite(i, r)
          \/ \E b \in log[i].oper.stores \cap e.oper.loads : LastToStore(i, b)
      <4>1. \/ \E r \in (log[i].oper.writes \cap e.oper.reads) \ config.ignore_regs :
                 \A k \in (i + 1)..(j - 1) : r \notin log'[k].oper.writes
            \/ \E b \in log[i].oper.stores \cap e.oper.loads :
                 \A k \in (i + 1)..(j - 1) : b \notin log'[k].oper.stores
        BY <1>2, <1>9, <3>1 DEF Feeds
      <4> QED
        BY <1>4, <3>1, <4>1 DEF LastToWrite, LastToStore
    <3>3. e.ready - Latency(e.oper) >=
             log[i].ready + (IF log[i].window # e.window
                             THEN config.communication_latency ELSE 0)
      BY <1>3, <1>4, <2>1, <3>2, NewEntryWaits DEF Scheduled
    <3> QED
      BY <1>2, <3>1, <3>3 DEF Start, Travel, LatencyOf, Latency
  <2> QED
    BY <1>5, <2>2, <2>3
<1> QED
  BY <1>2, <1>3, <1>6, <1>7, <1>8, <1>9 DEF LastWriterInv, DataflowOrder, Scheduled

\* Every step of the loop keeps the last writers.
LEMMA NextLastWriterInv ==
    ScheduleInv /\ LastWriterInv /\ [Next]_vars => LastWriterInv'
<1> SUFFICES ASSUME ScheduleInv, LastWriterInv, [Next]_vars PROVE LastWriterInv'
  OBVIOUS
<1>1. CASE ScheduleNext
  BY <1>1, ScheduleNextLastWriter
<1>2. CASE UNCHANGED <<config, tables>>
  <2>1. UNCHANGED <<config, log, reg_info, mem_info, mapped>>
    BY <1>2 DEF tables
  <2>2. \A i, r : LastToWrite(i, r)' <=> LastToWrite(i, r)
    BY <2>1 DEF LastToWrite
  <2>3. \A i, b : LastToStore(i, b)' <=> LastToStore(i, b)
    BY <2>1 DEF LastToStore
  <2>4. \A i : /\ \A r \in Regs : Produced(reg_info[r], i)' <=> Produced(reg_info[r], i)
               /\ \A b \in Bytes : Produced(mem_info[b], i)' <=> Produced(mem_info[b], i)
    BY <2>1 DEF Produced
  <2>5. Scheduled' = Scheduled
    BY <2>1 DEF Scheduled
  <2>6. DataflowOrder'
    BY <2>1, <2>5 DEF LastWriterInv, DataflowOrder, Feeds, Start, Travel, LatencyOf, Latency
  <2> QED
    BY <2>1, <2>2, <2>3, <2>4, <2>5, <2>6 DEF LastWriterInv
<1> QED
  BY <1>1, <1>2 DEF Next, SkipNext, Abort, EndOfTrace, vars

(***************************************************************************)
(* The result adamantium is trusted for: whatever the trace, the windows   *)
(* and the options, no instruction starts before the last writers of the   *)
(* registers and memory it reads are ready and their values have arrived.  *)
(***************************************************************************)
THEOREM DataflowOrderHolds == Spec => []DataflowOrder
<1>1. Init => ScheduleInv /\ LastWriterInv
  BY InitScheduleInv, InitLastWriterInv
<1>2. (ScheduleInv /\ LastWriterInv) /\ [Next]_vars => (ScheduleInv /\ LastWriterInv)'
  BY NextScheduleInv, NextLastWriterInv
<1>3. LastWriterInv => DataflowOrder
  BY DEF LastWriterInv
<1> QED
  BY <1>1, <1>2, <1>3, PTL DEF Spec

----------------------------------------------------------------------------
(***************************************************************************)
(* What holds up an instruction, whatever the trace, the control           *)
(* dependences and the command line: windows that are full, mispredicted   *)
(* branches, and calls.                                                    *)
(***************************************************************************)

(***************************************************************************)
(* No window ever holds more instructions than it has slots.               *)
(***************************************************************************)

\* The entry a step appends, and the window it is inserted into.
LEMMA WindowEntry ==
    ASSUME ScheduleInv, log \in Seq(LogEntry), ScheduleNext, config.w_num > 0
    PROVE  \E e \in LogEntry :
             /\ e.oper = next_oper /\ e.window \in Windows
             /\ log' \in Seq(LogEntry) /\ Len(log') = Len(log) + 1
             /\ log'[Len(log) + 1] = e
             /\ \A k \in 1..Len(log) : log'[k] = log[k]
             /\ e.ready - Latency(next_oper) >= WindowHead(windows[e.window])
             /\ e.ready >= WindowHead(windows[e.window])
             /\ windows' = [windows EXCEPT ![e.window] =
                               WindowInsert(config.w_type, windows[e.window], e.ready)]
<1> DEFINE o == next_oper
           srcs == Sources(o, Preupdated(o))
           w == Choose(srcs)
           ready == ReadyTime(o, w, srcs)
<1>1. PICK predicted : ScheduleOper(o, predicted, Preupdated(o))
  BY DEF ScheduleNext
<1>2. PICK e \in LogEntry :
        /\ e.oper = o /\ e.window = w /\ e.ready = ready
        /\ log' \in Seq(LogEntry) /\ Len(log') = Len(log) + 1
        /\ log'[Len(log) + 1] = e
        /\ \A k \in 1..Len(log) : log'[k] = log[k]
  BY LogStep
<1>3. o \in Opers /\ ~PreupdateFails(o) /\ config.w_num # 0
  BY ConfigFact DEF ScheduleNext, ScheduleInv, TypeOK
<1>4. srcs \subseteq SchedInfo /\ IsFiniteSet(srcs)
  BY <1>3, PreupdatedCovered, SourcesFact
<1>5. windows' = [windows EXCEPT ![w] = WindowInsert(config.w_type, @, ready)]
  BY <1>1, <1>3 DEF ScheduleOper
<1> HIDE DEF srcs
<1>6. w \in Windows /\ w \in WindowIds
  BY <1>4, ChooseFact, ConfigFact
<1> HIDE DEF w
<1>7. /\ ready = ReadyCost(w, srcs) + Latency(o) /\ Latency(o) \in {0, 1}
      /\ ReadyCost(w, srcs) \in Nat /\ ReadyCost(w, srcs) >= WindowTime(w)
      /\ WindowTime(w) \in Nat /\ WindowTime(w) >= WindowHead(windows[w])
  BY <1>4, <1>6, ReadyTimeFact, ReadyCostFact, WindowTimeFact
<1> HIDE DEF ready
<1>8. WindowHead(windows[w]) \in Nat
  BY <1>6, HeadTailFact DEF ScheduleInv, WindowsOrdered
<1>9. ready - Latency(o) >= WindowHead(windows[w]) /\ ready >= WindowHead(windows[w])
  BY <1>7, <1>8
<1> QED
  BY <1>2, <1>5, <1>6, <1>9 DEF w

----------------------------------------------------------------------------
\* The ready times of the instructions in the window of the i-th, up to it.
Readies(i) == {log[k].ready : k \in {l \in 1..i : log[l].window = log[i].window}}

\* They are times, finitely many, and one of them is that of the i-th itself.
LEMMA ReadiesFact ==
    ASSUME log \in Seq(LogEntry), NEW i \in Scheduled
    PROVE  /\ Readies(i) \subseteq Nat /\ IsFiniteSet(Readies(i)) /\ Readies(i) # {}
           /\ Freed(i) \in Nat
<1> DEFINE K == {l \in 1..i : log[l].window = log[i].window}
           f == [k \in K |-> log[k].ready]
<1>1. Len(log) \in Nat /\ i \in 1..Len(log) /\ i \in Nat
  BY LenProperties DEF Scheduled
<1>2. K \subseteq 1..Len(log) /\ i \in K
  BY <1>1
<1>3. \A k \in 1..Len(log) : log[k].ready \in Nat
  <2>1. \A k \in 1..Len(log) : log[k] \in LogEntry
    BY ElementOfSeq
  <2> QED
    BY <2>1 DEF LogEntry
<1>4. IsFiniteSet(K)
  <2>1. IsFiniteSet(1..i)
    BY <1>1, FS_Interval
  <2> QED
    BY <2>1, FS_Subset
<1>5. DOMAIN f = K /\ f = [k \in K |-> f[k]] /\ Readies(i) = {f[k] : k \in K}
  BY DEF Readies
<1>6. IsFiniteSet(Readies(i))
  <2> HIDE DEF f, K
  <2> QED
    BY <1>4, <1>5, ImageFact
<1>7. Readies(i) \subseteq Nat /\ Readies(i) # {}
  BY <1>2, <1>3 DEF Readies
<1>8. MaxOf(Readies(i)) \in Nat
  BY <1>6, <1>7, MaxOfFact
<1>9. Freed(i) = IF config.w_type = "ooo" THEN log[i].ready ELSE MaxOf(Readies(i))
  BY DEF Freed, Readies
<1> QED
  BY <1>1, <1>3, <1>6, <1>7, <1>8, <1>9

\* When the slots free, instruction by instruction.
Frees == [i \in Scheduled |-> Freed(i)]

\* The instructions of window w whose slots are not free at time t.
Held(schedule, frees, w, t) ==
    {i \in DOMAIN frees : schedule[i].window = w /\ frees[i] > t}

(***************************************************************************)
(* The list of a window bounds what it holds: when its k-th slot is free,  *)
(* no more than those behind it are still taken.  With the head, the first *)
(* slot, that is the capacity.  Its tail is the latest ready time so far,  *)
(* by which a reorder buffer retires.                                      *)
(***************************************************************************)
TailIsLatest(w) ==
    /\ \A i \in Scheduled : log[i].window = w => log[i].ready <= WindowTail(windows[w])
    /\ \/ WindowTail(windows[w]) = 0
       \/ \E i \in Scheduled : log[i].window = w /\ log[i].ready = WindowTail(windows[w])

SlotsBound(w) ==
    \A k \in Slots : Cardinality(Held(log, Frees, w, windows[w][k])) <= WindowSize - k

CapacityInv ==
    /\ log \in Seq(LogEntry)
    /\ config.w_num > 0 => \A w \in Windows : TailIsLatest(w) /\ SlotsBound(w)
    /\ WindowCapacity

\* Nothing is held at the start.
LEMMA InitCapacity == Init => CapacityInv
<1> SUFFICES ASSUME Init PROVE CapacityInv
  OBVIOUS
<1>1. log = <<>> /\ log \in Seq(LogEntry) /\ Scheduled = {}
  BY EmptySeq DEF Init, Scheduled
<1>2. ASSUME NEW w \in Windows
      PROVE  TailIsLatest(w) /\ SlotsBound(w)
  <2>1. WindowTail(windows[w]) = 0
    BY <1>2, WindowSizeAssumption DEF Init, EmptyWindow, WindowTail, Slots
  <2>2. \A t : Held(log, Frees, w, t) = {}
    BY <1>1 DEF Held, Frees
  <2>3. Cardinality({}) = 0
    BY FS_EmptySet
  <2>4. ASSUME NEW k \in Slots
        PROVE  Cardinality(Held(log, Frees, w, windows[w][k])) <= WindowSize - k
    <3>1. Cardinality(Held(log, Frees, w, windows[w][k])) = 0
      BY <2>2, <2>3
    <3> QED
      BY <2>4, <3>1, WindowSizeAssumption DEF Slots
  <2> QED
    BY <1>1, <2>1, <2>4 DEF TailIsLatest, SlotsBound
<1> QED
  BY <1>1, <1>2 DEF CapacityInv, WindowCapacity

\* What is held is a finite set, and less of it the later one looks.
LEMMA HeldFact ==
    ASSUME NEW n \in Nat, NEW f \in [1..n -> Nat], NEW lg, NEW w, NEW t \in Nat
    PROVE  /\ IsFiniteSet(Held(lg, f, w, t)) /\ Cardinality(Held(lg, f, w, t)) \in Nat
           /\ \A u \in Nat :
                 t <= u => Cardinality(Held(lg, f, w, u)) <= Cardinality(Held(lg, f, w, t))
<1>1. IsFiniteSet(1..n)
  BY FS_Interval
<1>2. Held(lg, f, w, t) \subseteq 1..n
  BY DEF Held
<1>3. IsFiniteSet(Held(lg, f, w, t))
  BY <1>1, <1>2, FS_Subset
<1>4. ASSUME NEW u \in Nat, t <= u
      PROVE  Held(lg, f, w, u) \subseteq Held(lg, f, w, t)
  BY <1>4 DEF Held
<1> QED
  BY <1>3, <1>4, FS_Subset, FS_CardinalityType

----------------------------------------------------------------------------
(***************************************************************************)
(* The new instruction frees its slot when WindowInsert says so; those     *)
(* before it free theirs as before.                                        *)
(***************************************************************************)
LEMMA NewFreed ==
    ASSUME ScheduleInv, log \in Seq(LogEntry), log' \in Seq(LogEntry), config' = config,
           NEW n \in Nat, n = Len(log), NEW e \in LogEntry, e.window \in Windows,
           TailIsLatest(e.window),
           Len(log') = n + 1, log'[n + 1] = e, \A k \in 1..n : log'[k] = log[k]
    PROVE  /\ \A i \in Scheduled : Freed(i)' = Freed(i)
           /\ Freed(n + 1)' = Leaves(config.w_type, windows[e.window], e.ready)
<1> DEFINE w == e.window
           tail == WindowTail(windows[w])
<1>1. config.w_type \in {"ooo", "rob"} /\ e.ready \in Nat
  BY ConfigFact DEF ConfigType, WindowTypes, LogEntry
<1>2. tail \in Nat
  BY HeadTailFact DEF ScheduleInv, WindowsOrdered
<1>3. \A i \in Scheduled : i \in 1..n /\ \A l \in 1..i : l \in 1..n
  BY DEF Scheduled
<1>4. ASSUME NEW i \in Scheduled
      PROVE  Freed(i)' = Freed(i)
  <2>1. log'[i] = log[i] /\ \A l \in 1..i : log'[l] = log[l]
    BY <1>3
  <2>2. Readies(i)' = Readies(i)
    BY <2>1 DEF Readies
  <2> QED
    BY <2>1, <2>2 DEF Freed, Readies
<1> HIDE DEF tail
<1>5. Freed(n + 1)' = Leaves(config.w_type, windows[w], e.ready)
  <2>1. CASE config.w_type = "ooo"
    BY <2>1 DEF Freed, Leaves
  <2>2. CASE config.w_type = "rob"
    <3> DEFINE R == Readies(n + 1)'
               K == {l \in 1..n : log[l].window = w}
               m == MAX(e.ready, tail)
    <3>1. R = {e.ready} \cup {log[k].ready : k \in K}
      <4>1. 1..(n + 1) = 1..n \cup {n + 1}
        OBVIOUS
      <4>2. {l \in 1..(n + 1) : log'[l].window = log'[n + 1].window} = K \cup {n + 1}
        BY <4>1
      <4>3. R = {log'[k].ready : k \in K \cup {n + 1}}
        BY <4>2 DEF Readies
      <4>4. \A k \in K : log'[k] = log[k]
        OBVIOUS
      <4> HIDE DEF K, R
      <4> QED
        BY <4>3, <4>4
    <3>2. \A k \in K : log[k].ready <= tail
      BY DEF TailIsLatest, Scheduled, tail
    <3>3. tail = 0 \/ \E k \in K : log[k].ready = tail
      BY DEF TailIsLatest, Scheduled, tail
    <3>4. m \in Nat /\ m >= e.ready /\ m >= tail /\ (m = e.ready \/ m = tail)
      BY <1>1, <1>2 DEF MAX
    <3>5. \A k \in K : log[k].ready \in Nat
      <4>1. \A k \in 1..n : log[k] \in LogEntry
        BY ElementOfSeq
      <4> QED
        BY <4>1 DEF LogEntry
    <3>6. IsFiniteSet({log[k].ready : k \in K})
      <4> DEFINE f == [k \in K |-> log[k].ready]
      <4>1. IsFiniteSet(1..n)
        BY FS_Interval
      <4>2. IsFiniteSet(K)
        BY <4>1, FS_Subset
      <4>3. DOMAIN f = K /\ f = [k \in K |-> f[k]] /\ {f[k] : k \in K} = {log[k].ready : k \in K}
        OBVIOUS
      <4> HIDE DEF f, K
      <4> QED
        BY <4>2, <4>3, ImageFact
    <3> HIDE DEF R, m, K
    <3>7. R \subseteq Nat /\ IsFiniteSet(R) /\ R # {}
      <4>1. IsFiniteSet({log[k].ready : k \in K} \cup {e.ready})
        BY <3>6, FS_AddElement
      <4> QED
        BY <1>1, <3>1, <3>5, <4>1
    <3>8. \A y \in R : y <= m
      BY <1>1, <1>2, <3>1, <3>2, <3>4, <3>5
    <3>9. m \in R
      <4>1. m = tail /\ tail = 0 => m = e.ready
        BY <1>1, <3>4
      <4> QED
        BY <3>1, <3>3, <3>4, <4>1
    <3>10. MaxOf(R) = m
      <4> DEFINE x == MaxOf(R)
      <4>1. x \in R /\ \A y \in R : y <= x
        BY <3>7, MaxOfFact
      <4> HIDE DEF x
      <4>2. x \in Nat /\ x <= m /\ m <= x
        BY <3>7, <3>8, <3>9, <4>1
      <4>3. x = m
        BY <3>4, <4>2
      <4> QED
        BY <4>3 DEF x
    <3>11. Freed(n + 1)' = MaxOf(R)
      BY <2>2 DEF Freed, Readies, R
    <3> QED
      BY <2>2, <3>10, <3>11 DEF Leaves, m, tail
  <2> QED
    BY <1>1, <2>1, <2>2
<1> QED
  BY <1>4, <1>5

(***************************************************************************)
(* The schedule lg, whose slots free at the times f, is extended by an     *)
(* instruction of window x whose slot frees at time v: that window holds   *)
(* one more until then, the others hold what they held.                    *)
(***************************************************************************)
Extended(n, lg, lg2, f, f2, x, v) ==
    /\ f \in [1..n -> Nat] /\ f2 \in [1..(n + 1) -> Nat]
    /\ lg2[n + 1].window = x /\ f2[n + 1] = v
    /\ \A i \in 1..n : lg2[i] = lg[i] /\ f2[i] = f[i]

LEMMA NewHeld ==
    ASSUME NEW n \in Nat, NEW lg, NEW lg2, NEW f, NEW f2, NEW x, NEW v \in Nat,
           Extended(n, lg, lg2, f, f2, x, v)
    PROVE  /\ \A t \in Nat : Held(lg2, f2, x, t) =
                                Held(lg, f, x, t) \cup (IF v > t THEN {n + 1} ELSE {})
           /\ \A w, t : w # x => Held(lg2, f2, w, t) = Held(lg, f, w, t)
<1>1. 1..(n + 1) = 1..n \cup {n + 1} /\ n + 1 \notin 1..n
  OBVIOUS
<1>2. DOMAIN f2 = 1..n \cup {n + 1} /\ DOMAIN f = 1..n
  BY <1>1 DEF Extended
<1> QED
  BY <1>2 DEF Held, Extended

\* What is at the k-th slot after the insertion still bounds what is held.
LEMMA NewSlots ==
    ASSUME NEW n \in Nat, NEW lg, NEW lg2, NEW f, NEW f2, NEW x, NEW v \in Nat,
           Extended(n, lg, lg2, f, f2, x, v),
           NEW L, IsWindow(L), v >= WindowHead(L),
           \A l \in Slots : Cardinality(Held(lg, f, x, L[l])) <= WindowSize - l,
           NEW k \in Slots
    PROVE  Cardinality(Held(lg2, f2, x, Slide(L, v)[k])) <= WindowSize - k
<1>1. L \in [Slots -> Nat] /\ v >= L[1]
  BY DEF IsWindow, WindowHead
<1>2. L[k] \in Nat /\ k \in Nat /\ WindowSize \in Nat /\ k <= WindowSize
  BY <1>1, WindowSizeAssumption DEF Slots
<1>3. f \in [1..n -> Nat]
  BY DEF Extended
<1>4. \A t \in Nat : Held(lg2, f2, x, t) =
                        Held(lg, f, x, t) \cup (IF v > t THEN {n + 1} ELSE {})
  BY NewHeld
<1>5. CASE k < WindowSize /\ L[k + 1] <= v
  <2> DEFINE H == Held(lg, f, x, L[k + 1])
             c == Cardinality(H)
             d == Cardinality(H \cup {n + 1})
  <2>1. k + 1 \in Slots /\ L[k + 1] \in Nat /\ Slide(L, v)[k] = L[k + 1]
    BY <1>1, <1>2, <1>5 DEF Slots, Slide
  <2>2. IsFiniteSet(H) /\ c \in Nat
    BY <1>3, <2>1, HeldFact
  <2>3. c <= WindowSize - (k + 1)
    BY <2>1
  <2> HIDE DEF H
  <2>4. d = c \/ d = c + 1
    BY <2>2, FS_AddElement
  <2>5. Held(lg2, f2, x, L[k + 1]) = H \/ Held(lg2, f2, x, L[k + 1]) = H \cup {n + 1}
    BY <1>4, <2>1 DEF H
  <2> HIDE DEF c, d
  <2>6. c <= WindowSize - k /\ d <= WindowSize - k
    BY <1>2, <2>2, <2>3, <2>4
  <2> QED
    BY <2>1, <2>5, <2>6 DEF c, d
<1>6. CASE ~(k < WindowSize /\ L[k + 1] <= v) /\ (k = 1 \/ L[k] <= v)
  <2> DEFINE c == Cardinality(Held(lg, f, x, v))
             d == Cardinality(Held(lg, f, x, L[k]))
  <2>1. Slide(L, v)[k] = v /\ L[k] <= v
    BY <1>1, <1>2, <1>6 DEF Slide
  <2>2. Held(lg2, f2, x, v) = Held(lg, f, x, v)
    <3>1. Held(lg2, f2, x, v) = Held(lg, f, x, v) \cup (IF v > v THEN {n + 1} ELSE {})
      BY <1>4
    <3>2. ~(v > v)
      OBVIOUS
    <3> QED
      BY <3>1, <3>2
  <2>3. d \in Nat /\ c <= d
    BY <1>2, <1>3, <2>1, HeldFact
  <2>4. c \in Nat
    BY <1>3, HeldFact
  <2>5. d <= WindowSize - k
    OBVIOUS
  <2> HIDE DEF c, d
  <2>6. c <= WindowSize - k
    BY <1>2, <2>3, <2>4, <2>5
  <2> QED
    BY <2>1, <2>2, <2>6 DEF c
<1>7. CASE ~(k < WindowSize /\ L[k + 1] <= v) /\ ~(k = 1 \/ L[k] <= v)
  <2>1. Slide(L, v)[k] = L[k]
    BY <1>7 DEF Slide
  <2>2. Held(lg2, f2, x, L[k]) = Held(lg, f, x, L[k])
    <3>1. Held(lg2, f2, x, L[k]) =
             Held(lg, f, x, L[k]) \cup (IF v > L[k] THEN {n + 1} ELSE {})
      BY <1>2, <1>4
    <3>2. ~(v > L[k])
      BY <1>2, <1>7
    <3> QED
      BY <3>1, <3>2
  <2> QED
    BY <2>1, <2>2
<1> QED
  BY <1>5, <1>6, <1>7

\* The greatest ready time so far stays the tail of the window.
LEMMA ScheduleNextTail ==
    ASSUME ScheduleInv, log \in Seq(LogEntry), log' \in Seq(LogEntry), config' = config,
           NEW n \in Nat, n = Len(log), NEW e \in LogEntry, e.window \in Windows,
           Len(log') = n + 1, log'[n + 1] = e, \A k \in 1..n : log'[k] = log[k],
           e.ready >= WindowHead(windows[e.window]),
           windows' = [windows EXCEPT ![e.window] =
                          WindowInsert(config.w_type, windows[e.window], e.ready)],
           NEW w \in Windows, TailIsLatest(w)
    PROVE  TailIsLatest(w)'
<1> DEFINE tail == WindowTail(windows[w])
           last == WindowTail(windows'[w])
<1>1. IsWindow(windows[w]) /\ IsWindow(windows[e.window]) /\ e.ready \in Nat
  BY DEF ScheduleInv, WindowsOrdered, LogEntry
<1>2. tail \in Nat
  BY <1>1, HeadTailFact
<1>3. w \in DOMAIN windows /\ e.window \in DOMAIN windows
  BY DEF ScheduleInv, TypeOK
<1>4. \A i \in 1..n : log[i].ready \in Nat
  <2>1. \A k \in 1..n : log[k] \in LogEntry
    BY ElementOfSeq
  <2> QED
    BY <2>1 DEF LogEntry
<1>5. /\ \A i \in 1..n : log[i].window = w => log[i].ready <= tail
      /\ tail = 0 \/ \E i \in 1..n : log[i].window = w /\ log[i].ready = tail
  BY DEF TailIsLatest, Scheduled
<1>6. CASE w # e.window
  <2>1. last = tail
    BY <1>3, <1>6
  <2> HIDE DEF tail, last
  <2>2. \A i \in 1..(n + 1) : log'[i].window = w => log'[i].ready <= last
    BY <1>5, <1>6, <2>1
  <2>3. last = 0 \/ \E i \in 1..(n + 1) : log'[i].window = w /\ log'[i].ready = last
    BY <1>5, <2>1
  <2> QED
    BY <2>2, <2>3 DEF TailIsLatest, Scheduled, last
<1>7. CASE w = e.window
  <2>1. windows'[w] = WindowInsert(config.w_type, windows[w], e.ready)
    BY <1>3, <1>7
  <2>2. last = MAX(e.ready, tail)
    BY <1>1, <1>7, <2>1, WindowInsertFact
  <2> HIDE DEF tail, last
  <2>3. last \in Nat /\ last >= e.ready /\ last >= tail /\ (last = e.ready \/ last = tail)
    BY <1>1, <1>2, <2>2 DEF MAX
  <2>4. \A i \in 1..(n + 1) : log'[i].window = w => log'[i].ready <= last
    BY <1>1, <1>2, <1>4, <1>5, <2>3
  <2>5. last = 0 \/ \E i \in 1..(n + 1) : log'[i].window = w /\ log'[i].ready = last
    <3>1. CASE last = e.ready
      BY <1>7, <3>1
    <3>2. CASE last = tail
      BY <1>5, <3>2
    <3> QED
      BY <2>3, <3>1, <3>2
  <2> QED
    BY <2>4, <2>5 DEF TailIsLatest, Scheduled, last
<1> QED
  BY <1>6, <1>7

\* The schedule is extended by e, whose slot frees when WindowInsert says so.
LEMMA FreesStep ==
    ASSUME ScheduleInv, log \in Seq(LogEntry), log' \in Seq(LogEntry), config' = config,
           NEW n \in Nat, n = Len(log), NEW e \in LogEntry, e.window \in Windows,
           TailIsLatest(e.window),
           Len(log') = n + 1, log'[n + 1] = e, \A k \in 1..n : log'[k] = log[k],
           e.ready >= WindowHead(windows[e.window]),
           NEW v, v = Leaves(config.w_type, windows[e.window], e.ready)
    PROVE  /\ v \in Nat /\ v >= WindowHead(windows[e.window])
           /\ Extended(n, log, log', Frees, Frees', e.window, v)
<1>1. /\ WindowHead(windows[e.window]) \in Nat /\ WindowTail(windows[e.window]) \in Nat
      /\ e.ready \in Nat
  BY HeadTailFact DEF ScheduleInv, WindowsOrdered, LogEntry
<1>2. v \in Nat /\ v >= WindowHead(windows[e.window])
  BY <1>1 DEF Leaves, MAX
<1>3. \A i \in Scheduled : Freed(i) \in Nat
  BY ReadiesFact
<1>4. Scheduled = 1..n /\ Scheduled' = 1..(n + 1)
  BY DEF Scheduled
<1>5. Frees \in [1..n -> Nat]
  BY <1>3, <1>4 DEF Frees
<1>6. \A i \in 1..n : Freed(i)' = Frees[i]
  BY <1>4, NewFreed DEF Frees
<1>7. Freed(n + 1)' = v
  BY NewFreed
<1>8. Frees' = [i \in 1..(n + 1) |-> Freed(i)']
  BY <1>4 DEF Frees
<1>9. /\ Frees' \in [1..(n + 1) -> Nat] /\ Frees'[n + 1] = v
      /\ \A i \in 1..n : Frees'[i] = Frees[i]
  <2>1. ASSUME NEW i \in 1..(n + 1)
        PROVE  Frees'[i] \in Nat /\ (i \in 1..n => Frees'[i] = Frees[i])
    <3>1. CASE i = n + 1
      BY <1>2, <1>7, <1>8, <3>1
    <3>2. CASE i \in 1..n
      BY <1>5, <1>6, <1>8, <3>2
    <3> QED
      BY <3>1, <3>2
  <2>2. Frees'[n + 1] = v
    BY <1>7, <1>8
  <2> QED
    BY <1>8, <2>1, <2>2
<1> QED
  BY <1>2, <1>5, <1>9 DEF Extended

\* The slots of no window ever bound less than it holds.
LEMMA ScheduleNextSlots ==
    ASSUME ScheduleInv, log \in Seq(LogEntry), log' \in Seq(LogEntry), config' = config,
           NEW n \in Nat, n = Len(log), NEW e \in LogEntry, e.window \in Windows,
           TailIsLatest(e.window),
           Len(log') = n + 1, log'[n + 1] = e, \A k \in 1..n : log'[k] = log[k],
           e.ready >= WindowHead(windows[e.window]),
           windows' = [windows EXCEPT ![e.window] =
                          WindowInsert(config.w_type, windows[e.window], e.ready)],
           NEW w \in Windows, SlotsBound(w)
    PROVE  SlotsBound(w)'
<1>1. PICK v : v = Leaves(config.w_type, windows[e.window], e.ready)
  OBVIOUS
<1>2. /\ v \in Nat /\ v >= WindowHead(windows[e.window])
      /\ Extended(n, log, log', Frees, Frees', e.window, v)
  BY <1>1, FreesStep
<1>3. IsWindow(windows[w])
  BY DEF ScheduleInv, WindowsOrdered
<1>4. w \in DOMAIN windows /\ e.window \in DOMAIN windows
  BY DEF ScheduleInv, TypeOK
<1>5. CASE w # e.window
  <2>1. windows'[w] = windows[w]
    BY <1>4, <1>5
  <2>2. \A t : Held(log', Frees', w, t) = Held(log, Frees, w, t)
    BY <1>2, <1>5, NewHeld
  <2> QED
    BY <2>1, <2>2 DEF SlotsBound
<1>6. CASE w = e.window
  <2>1. windows'[w] = Slide(windows[w], v)
    BY <1>1, <1>4, <1>6 DEF WindowInsert
  <2>2. \A l \in Slots : Cardinality(Held(log, Frees, w, windows[w][l])) <= WindowSize - l
    BY DEF SlotsBound
  <2>3. ASSUME NEW k \in Slots
        PROVE  Cardinality(Held(log', Frees', w, Slide(windows[w], v)[k])) <= WindowSize - k
    BY <1>2, <1>3, <1>6, <2>2, NewSlots
  <2> QED
    BY <2>1, <2>3 DEF SlotsBound
<1> QED
  BY <1>5, <1>6

\* The instructions in flight in its window when instruction j starts.
InFlight(j) ==
    {i \in 1..(j - 1) : log[i].window = log[j].window /\ Freed(i) > Start(j)}

\* A step that schedules an instruction finds a slot for it.
LEMMA ScheduleNextCapacity ==
    ASSUME ScheduleInv, CapacityInv, ScheduleNext, config.w_num > 0
    PROVE  CapacityInv'
<1> DEFINE o == next_oper
<1>1. log \in Seq(LogEntry) /\ config' = config /\ Windows' = Windows
  BY DEF CapacityInv, ScheduleNext, Windows
<1>2. PICK e \in LogEntry :
        /\ e.oper = o /\ e.window \in Windows
        /\ log' \in Seq(LogEntry) /\ Len(log') = Len(log) + 1
        /\ log'[Len(log) + 1] = e
        /\ \A k \in 1..Len(log) : log'[k] = log[k]
        /\ e.ready - Latency(o) >= WindowHead(windows[e.window])
        /\ e.ready >= WindowHead(windows[e.window])
        /\ windows' = [windows EXCEPT ![e.window] =
                          WindowInsert(config.w_type, windows[e.window], e.ready)]
  BY <1>1, WindowEntry
<1>3. PICK n \in Nat : n = Len(log)
  BY <1>1, LenProperties
<1>4. \A w \in Windows : TailIsLatest(w) /\ SlotsBound(w)
  BY DEF CapacityInv
<1>5. ASSUME NEW w \in Windows
      PROVE  TailIsLatest(w)' /\ SlotsBound(w)'
  BY <1>1, <1>2, <1>3, <1>4, ScheduleNextTail, ScheduleNextSlots
<1>6. Scheduled = 1..n /\ Scheduled' = 1..(n + 1)
  BY <1>2, <1>3 DEF Scheduled
<1>7. \A i \in 1..n : Freed(i)' = Freed(i)
  BY <1>1, <1>2, <1>3, <1>4, <1>6, NewFreed
<1>8. ASSUME NEW j \in 1..n
      PROVE  Cardinality(InFlight(j)') < WindowSize
  <2>1. log'[j] = log[j] /\ Start(j)' = Start(j)
    BY <1>1, <1>2, <1>3 DEF Start, LatencyOf, Latency
  <2>2. \A i \in 1..(j - 1) : i \in 1..n
    OBVIOUS
  <2>3. \A i \in 1..(j - 1) : log'[i] = log[i] /\ Freed(i)' = Freed(i)
    BY <1>2, <1>3, <1>7, <2>2
  <2>4. InFlight(j)' = InFlight(j)
    BY <2>1, <2>3 DEF InFlight
  <2>5. Cardinality(InFlight(j)) < WindowSize
    BY <1>6 DEF CapacityInv, WindowCapacity, InFlight
  <2> QED
    BY <2>4, <2>5
<1>9. Cardinality(InFlight(n + 1)') < WindowSize
  <2> DEFINE w == e.window
             head == WindowHead(windows[w])
             c == Cardinality(InFlight(n + 1)')
  <2>1. Start(n + 1)' = e.ready - Latency(o)
    BY <1>1, <1>2, <1>3 DEF Start, LatencyOf, Latency
  <2>2. head \in Nat /\ e.ready \in Nat /\ Latency(o) \in {0, 1} /\ WindowSize \in Nat
    BY <1>2, HeadTailFact, WindowSizeAssumption
       DEF ScheduleInv, WindowsOrdered, LogEntry, Latency
  <2>3. \A i \in 1..n : Freed(i) \in Nat
    BY <1>1, <1>6, ReadiesFact
  <2>4. Frees \in [1..n -> Nat] /\ \A i \in 1..n : Frees[i] = Freed(i)
    BY <1>6, <2>3 DEF Frees
  <2> DEFINE H == Held(log, Frees, w, head)
  <2>5. InFlight(n + 1)' \subseteq H
    <3>1. InFlight(n + 1)' =
             {i \in 1..n : log'[i].window = w /\ Freed(i)' > e.ready - Latency(o)}
      BY <1>2, <1>3, <2>1 DEF InFlight
    <3>2. \A i \in 1..n : log'[i] = log[i] /\ Freed(i)' = Frees[i] /\ Frees[i] \in Nat
      BY <1>2, <1>3, <1>7, <2>3, <2>4
    <3>3. \A t \in Nat : t > e.ready - Latency(o) => t > head
      BY <1>2, <2>2
    <3> QED
      BY <2>4, <3>1, <3>2, <3>3 DEF Held
  <2>6. IsFiniteSet(H) /\ Cardinality(H) \in Nat
    BY <2>2, <2>4, HeldFact
  <2>7. Cardinality(H) <= WindowSize - 1
    BY <1>2, <1>4, <2>2, WindowSizeAssumption DEF SlotsBound, WindowHead, Slots
  <2>8. c \in Nat /\ c <= Cardinality(H)
    BY <2>5, <2>6, FS_Subset, FS_CardinalityType
  <2> HIDE DEF c, H
  <2>9. c < WindowSize
    BY <2>2, <2>6, <2>7, <2>8
  <2> QED
    BY <2>9 DEF c
<1>10. ASSUME NEW j \in Scheduled'
       PROVE  Cardinality(InFlight(j)') < WindowSize
  <2>1. j \in 1..n \/ j = n + 1
    BY <1>6
  <2> QED
    BY <1>8, <1>9, <2>1
<1>11. WindowCapacity'
  BY <1>10 DEF WindowCapacity, InFlight
<1> QED
  BY <1>1, <1>2, <1>5, <1>11 DEF CapacityInv

LEMMA NextCapacity == ScheduleInv /\ CapacityInv /\ [Next]_vars => CapacityInv'
<1> SUFFICES ASSUME ScheduleInv, CapacityInv, [Next]_vars PROVE CapacityInv'
  OBVIOUS
<1>1. config.w_num \in Nat
  BY ConfigFact
<1>2. CASE ScheduleNext
  <2>1. CASE config.w_num > 0
    BY <1>2, <2>1, ScheduleNextCapacity
  <2>2. CASE config.w_num = 0
    <3>1. log' \in Seq(LogEntry) /\ config' = config
      <4>1. log \in Seq(LogEntry)
        BY DEF CapacityInv
      <4>2. log' \in Seq(LogEntry)
        BY <1>2, <4>1, LogStep
      <4> QED
        BY <1>2, <4>2 DEF ScheduleNext
    <3> QED
      BY <2>2, <3>1 DEF CapacityInv, WindowCapacity
  <2> QED
    BY <1>1, <2>1, <2>2
<1>3. CASE UNCHANGED <<config, windows, log>>
  <2>1. Windows' = Windows /\ Scheduled' = Scheduled
    BY <1>3 DEF Windows, Scheduled
  <2>2. ASSUME NEW w \in Windows
        PROVE  TailIsLatest(w)' = TailIsLatest(w)
    BY <1>3, <2>1 DEF TailIsLatest
  <2>3. \A i : Freed(i)' = Freed(i)
    BY <1>3 DEF Freed
  <2>4. Frees' = Frees
    BY <2>1, <2>3 DEF Frees
  <2>5. ASSUME NEW w \in Windows
        PROVE  SlotsBound(w)' = SlotsBound(w)
    BY <1>3, <2>4 DEF SlotsBound
  <2>6. \A j : Start(j)' = Start(j)
    BY <1>3 DEF Start, LatencyOf, Latency
  <2>7. WindowCapacity' = WindowCapacity
    BY <1>3, <2>1, <2>3, <2>6 DEF WindowCapacity
  <2> QED
    BY <1>3, <2>1, <2>2, <2>5, <2>7 DEF CapacityInv
<1>4. SkipNext \/ Abort \/ EndOfTrace \/ UNCHANGED vars => UNCHANGED <<config, windows, log>>
  BY DEF SkipNext, Abort, EndOfTrace, tables, vars
<1> QED
  BY <1>2, <1>3, <1>4 DEF Next

(***************************************************************************)
(* Instructions are held up by a full window: when one starts, fewer than  *)
(* WindowSize of the earlier ones in its window have not left it yet.      *)
(***************************************************************************)
THEOREM WindowCapacityHolds == Spec => []WindowCapacity
<1>1. Init => ScheduleInv /\ CapacityInv
  BY InitScheduleInv, InitCapacity
<1>2. (ScheduleInv /\ CapacityInv) /\ [Next]_vars => (ScheduleInv /\ CapacityInv)'
  BY NextScheduleInv, NextCapacity
<1>3. CapacityInv => WindowCapacity
  BY DEF CapacityInv
<1> QED
  BY <1>1, <1>2, <1>3, PTL DEF Spec

----------------------------------------------------------------------------
(***************************************************************************)
(* Mispredicted branches and calls.                                        *)
(***************************************************************************)

\* Of the branches an instruction depends on, the one with the latest number.
LEMMA LastDepFact ==
    ASSUME ScheduleInv, NEW o \in Opers, ExecutedDeps(o) # {}
    PROVE  \E b \in ExecutedDeps(o) :
              /\ LastDep(o) = cd_times[b].info
              /\ \A c \in ExecutedDeps(o) : cd_times[c].cd_din_src <= cd_times[b].cd_din_src
<1> DEFINE D == ExecutedDeps(o)
           f == [b \in D |-> cd_times[b].cd_din_src]
           Nums == {f[b] : b \in D}
           last == CHOOSE b \in D : \A c \in D : cd_times[c].cd_din_src <= cd_times[b].cd_din_src
<1>1. /\ o.ip \in DOMAIN ControlDeps /\ D \subseteq ControlDeps[o.ip]
      /\ IsFiniteSet(ControlDeps[o.ip])
  BY ScheduleAssumption DEF ExecutedDeps
<1>2. IsFiniteSet(D) /\ D \subseteq Branches
  BY <1>1, FS_Subset DEF Branches
<1>3. \A b \in D : cd_times[b] \in [cd_din_src : Nat, info : SchedInfo]
  BY <1>2 DEF ScheduleInv, TypeOK
<1>4. Nums \subseteq Nat /\ Nums # {}
  BY <1>3
<1>5. IsFiniteSet(Nums)
  <2> HIDE DEF D
  <2>1. DOMAIN f = D /\ f = [b \in D |-> f[b]]
    OBVIOUS
  <2> HIDE DEF f
  <2> QED
    BY <1>2, <2>1, ImageFact
<1>6. PICK n \in Nums : \A m \in Nums : m <= n
  <2> HIDE DEF Nums
  <2> QED
    BY <1>4, <1>5, MaxOfFact
<1>7. \E b \in D : \A c \in D : cd_times[c].cd_din_src <= cd_times[b].cd_din_src
  <2> HIDE DEF D
  <2>1. PICK b \in D : n = cd_times[b].cd_din_src
    OBVIOUS
  <2> QED
    BY <1>6, <2>1
<1>8. last \in D /\ \A c \in D : cd_times[c].cd_din_src <= cd_times[last].cd_din_src
  <2> HIDE DEF D
  <2> QED
    BY <1>7
<1>9. LastDep(o) = cd_times[last].info
  BY DEF LastDep
<1> HIDE DEF last, D
<1> QED
  BY <1>8, <1>9 DEF D

(***************************************************************************)
(* The source check_control_deps finds is no earlier than the innermost    *)
(* call, and no earlier than the last of the branches.                     *)
(***************************************************************************)
LEMMA ControlSourceFact ==
    ASSUME ScheduleInv, NEW o \in Opers, NEW stack, CoveredStack(stack),
           config.respect_control
    PROVE  /\ stack # <<>> =>
                \E c : ControlSource(o, stack) = {c} /\ c.ready >= stack[1].info.ready
           /\ ExecutedDeps(o) # {} =>
                \E c : ControlSource(o, stack) = {c} /\ c.ready >= LastDep(o).ready
<1>1. stack # <<>> => stack[1].info.ready \in Nat
  <2>1. stack # <<>> => 1 \in 1..Len(stack)
    BY EmptySeq, LenProperties DEF CoveredStack
  <2> QED
    BY <2>1 DEF CoveredStack, Covered, SchedInfo
<1>2. ExecutedDeps(o) # {} => LastDep(o).ready \in Nat
  BY LastDepCovered DEF Covered, SchedInfo
<1>3. CASE stack # <<>> /\ (ExecutedDeps(o) = {} \/ stack[1].info.ready > LastDep(o).ready)
  <2>1. ControlSource(o, stack) = {stack[1].info}
    BY <1>3, Zenon DEF ControlSource
  <2> QED
    BY <1>1, <1>2, <1>3, <2>1
<1>4. CASE ~(stack # <<>> /\ (ExecutedDeps(o) = {} \/ stack[1].info.ready > LastDep(o).ready))
           /\ ExecutedDeps(o) # {}
  <2>1. ControlSource(o, stack) = {LastDep(o)}
    BY <1>4, Zenon DEF ControlSource
  <2> QED
    BY <1>1, <1>2, <1>4, <2>1
<1> QED
  BY <1>3, <1>4

(***************************************************************************)
(* The entry a step appends, the times it waits for, and what it leaves to *)
(* the instructions it controls.                                           *)
(***************************************************************************)
LEMMA ControlEntry ==
    ASSUME ScheduleInv, log \in Seq(LogEntry), ScheduleNext
    PROVE  \E e \in LogEntry :
             /\ e.oper = next_oper /\ e.oper \in Opers /\ e.window \in WindowIds
             /\ log' \in Seq(LogEntry) /\ Len(log') = Len(log) + 1
             /\ log'[Len(log) + 1] = e
             /\ \A k \in 1..Len(log) : log'[k] = log[k]
             /\ CoveredStack(Preupdated(next_oper))
             /\ e.ready - Latency(next_oper) >= mispredicted[e.window].ready
             /\ \A s \in ControlSource(next_oper, Preupdated(next_oper)) :
                   s.ready \in Nat /\ e.ready - Latency(next_oper) >= s.ready
             /\ Latency(next_oper) \in {0, 1}
             /\ UpdateControl(next_oper, e.window, e.ready, e.predicted,
                              Preupdated(next_oper))
<1> DEFINE o == next_oper
           stack == Preupdated(o)
           srcs == Sources(o, stack)
           w == Choose(srcs)
           ready == ReadyTime(o, w, srcs)
<1>1. PICK predicted \in Predictions(o, tmterr' # "TMTIO_OK") :
        ScheduleOper(o, predicted, stack)
  BY DEF ScheduleNext
<1>2. predicted \in BOOLEAN
  BY <1>1 DEF Predictions
<1>3. o \in Opers /\ opcount \in Nat /\ ~PreupdateFails(o) /\ next_oper'.ip \in Nat
  BY ScheduleAssumption DEF ScheduleNext, ReadAhead, ScheduleInv, TypeOK, OperType
<1>4. CoveredStack(stack) /\ srcs \subseteq SchedInfo /\ IsFiniteSet(srcs)
  BY <1>3, PreupdatedCovered, SourcesFact
<1>5. ControlSource(o, stack) \subseteq srcs
  BY DEF Sources
<1>6. /\ log' = Append(log, [oper |-> o, din |-> opcount, ready |-> ready,
                             window |-> w, predicted |-> predicted,
                             after |-> next_oper'.ip])
      /\ UpdateControl(o, w, ready, predicted, stack)
  BY <1>1 DEF ScheduleOper
<1> HIDE DEF srcs
<1>7. w \in WindowIds /\ w \in Nat
  BY <1>4, ChooseFact, ConfigFact
<1> HIDE DEF w, stack
<1>8. /\ ready = ReadyCost(w, srcs) + Latency(o) /\ Latency(o) \in {0, 1}
      /\ ready \in Nat
      /\ ReadyCost(w, srcs) \in Nat
      /\ ReadyCost(w, srcs) >= WindowTime(w)
      /\ \A s \in srcs : ReadyCost(w, srcs) >= Arrival(s, w)
  BY <1>4, <1>7, ReadyTimeFact, ReadyCostFact
<1> HIDE DEF ready
<1>9. ready - Latency(o) = ReadyCost(w, srcs)
  BY <1>8
<1>10. ready - Latency(o) >= mispredicted[w].ready
  <2> DEFINE h == IF config.w_num = 0 THEN 0 ELSE WindowHead(windows[w])
  <2>1. config.w_num \in Nat /\ (config.w_num > 0 => w \in Windows)
    BY <1>7, ConfigFact
  <2>2. h \in Nat
    BY <2>1, HeadTailFact DEF ScheduleInv, WindowsOrdered
  <2>3. mispredicted[w].ready \in Nat
    BY <1>7 DEF ScheduleInv, TypeOK, SchedInfo
  <2>4. WindowTime(w) = MAX(h, mispredicted[w].ready)
    BY DEF WindowTime
  <2> HIDE DEF h
  <2>5. WindowTime(w) >= mispredicted[w].ready /\ WindowTime(w) \in Nat
    BY <2>2, <2>3, <2>4, MaxFact
  <2> QED
    BY <1>8, <1>9, <2>3, <2>5
<1>11. ASSUME NEW s \in ControlSource(o, stack)
       PROVE  s.ready \in Nat /\ ready - Latency(o) >= s.ready
  <2>1. s \in srcs /\ s.ready \in Nat
    BY <1>4, <1>5 DEF SchedInfo
  <2>2. Arrival(s, w) \in Nat /\ Arrival(s, w) >= s.ready
    BY <2>1, ConfigFact DEF Arrival
  <2> QED
    BY <1>8, <1>9, <2>1, <2>2
<1> DEFINE e == [oper |-> o, din |-> opcount, ready |-> ready, window |-> w,
                 predicted |-> predicted, after |-> next_oper'.ip]
<1>12. /\ e.oper = o /\ e.ready = ready /\ e.window = w /\ e.predicted = predicted
       /\ e \in LogEntry
  BY <1>2, <1>3, <1>7, <1>8 DEF LogEntry
<1>13. log' = Append(log, e)
  BY <1>6
<1> HIDE DEF e
<1>14. /\ log' \in Seq(LogEntry) /\ Len(log') = Len(log) + 1
       /\ log'[Len(log) + 1] = e
       /\ \A k \in 1..Len(log) : log'[k] = log[k]
  BY <1>12, <1>13
<1> QED
  BY <1>3, <1>4, <1>6, <1>7, <1>8, <1>10, <1>11, <1>12, <1>14 DEF stack
----------------------------------------------------------------------------
\* In-order branches.

\* A window knows the last of its mispredicted branches, and none is later.
InorderInv ==
    /\ log \in Seq(LogEntry)
    /\ \A i \in Scheduled : log[i].window \in WindowIds
    /\ config.respect_control /\ config.inorder_branches =>
          \A i \in Scheduled : Mispredicted(i) =>
              mispredicted[log[i].window].ready >= log[i].ready
    /\ BranchOrder

\* Nothing has been mispredicted at the start.
LEMMA InitInorder == Init => InorderInv
<1> SUFFICES ASSUME Init PROVE InorderInv
  OBVIOUS
<1>1. log = <<>> /\ log \in Seq(LogEntry) /\ Len(log) = 0
  BY EmptySeq DEF Init
<1> QED
  BY <1>1 DEF InorderInv, Scheduled, BranchOrder

\* What happens to last_mispredicted_branch when an instruction is scheduled.
LEMMA MispredictedUpdate ==
    ASSUME ScheduleInv, NEW e \in LogEntry, e.window \in WindowIds,
           UpdateControl(next_oper, e.window, e.ready, e.predicted, Preupdated(next_oper)),
           config.respect_control, config.inorder_branches
    PROVE  \A v \in WindowIds :
              mispredicted'[v].ready =
                 IF v = e.window /\ next_oper.branch /\ ~e.predicted THEN e.ready
                 ELSE mispredicted[v].ready
<1> DEFINE w == e.window
           ready == e.ready
           predicted == e.predicted
           last == [ready |-> ready, din_src |-> opcount, thread_id |-> w]
<1>1. mispredicted \in [WindowIds -> SchedInfo]
  BY DEF ScheduleInv, TypeOK
<1>2. last.ready = ready /\ predicted \in BOOLEAN
  BY DEF LogEntry
<1>3. mispredicted' = IF next_oper.branch /\ ~predicted THEN [mispredicted EXCEPT ![w] = last]
                      ELSE mispredicted
  BY DEF UpdateControl
<1> HIDE DEF last, w, ready, predicted
<1> QED
  BY <1>1, <1>2, <1>3 DEF w, ready, predicted

\* The branch last mispredicted in a window is no earlier than those before.
LEMMA ScheduleNextInorder ==
    ScheduleInv /\ InorderInv /\ ScheduleNext => InorderInv'
<1> SUFFICES ASSUME ScheduleInv, InorderInv, ScheduleNext PROVE InorderInv'
  OBVIOUS
<1> DEFINE n == Len(log)
<1>1. log \in Seq(LogEntry) /\ n \in Nat /\ config' = config
  BY LenProperties DEF InorderInv, ScheduleNext
<1>2. PICK e \in LogEntry :
        /\ e.oper = next_oper /\ e.window \in WindowIds
        /\ log' \in Seq(LogEntry) /\ Len(log') = n + 1
        /\ log'[n + 1] = e
        /\ \A k \in 1..n : log'[k] = log[k]
        /\ e.ready - Latency(next_oper) >= mispredicted[e.window].ready
        /\ Latency(next_oper) \in {0, 1}
        /\ UpdateControl(next_oper, e.window, e.ready, e.predicted, Preupdated(next_oper))
  BY <1>1, ControlEntry
<1> HIDE DEF n
<1>3. Len(log) = n /\ \A i \in 1..(n + 1) : i \in 1..n \/ i = n + 1
  BY <1>1 DEF n
<1>0. \A i \in 1..(n + 1) : log'[i].window \in WindowIds'
  BY <1>1, <1>2, <1>3 DEF InorderInv, Scheduled, WindowIds, Windows
<1> SUFFICES ASSUME config.respect_control, config.inorder_branches
             PROVE  /\ \A i \in 1..(n + 1) : Mispredicted(i)' =>
                          mispredicted'[log'[i].window].ready >= log'[i].ready
                    /\ \A j \in 1..(n + 1) : \A i \in 1..(j - 1) :
                          Mispredicted(i)' /\ log'[i].window = log'[j].window
                              => Start(j)' >= log'[i].ready
  BY <1>0, <1>1, <1>2 DEF InorderInv, Scheduled, BranchOrder
<1>4. \A v \in WindowIds :
         mispredicted'[v].ready =
            IF v = e.window /\ e.oper.branch /\ ~e.predicted THEN e.ready
            ELSE mispredicted[v].ready
  BY <1>2, MispredictedUpdate
<1>5. /\ e.ready \in Nat
      /\ \A v \in WindowIds : mispredicted[v].ready \in Nat
      /\ \A i \in 1..n : log[i].ready \in Nat
  <2>1. \A i \in 1..n : log[i] \in LogEntry
    BY <1>1, <1>3, ElementOfSeq
  <2> QED
    BY <2>1 DEF LogEntry, ScheduleInv, TypeOK, SchedInfo
<1>6. \A i \in 1..n : Mispredicted(i) => /\ mispredicted[log[i].window].ready >= log[i].ready
  BY <1>3 DEF InorderInv, Scheduled
<1>7. \A i \in 1..n : Mispredicted(i)' <=> Mispredicted(i)
  BY <1>2 DEF Mispredicted
<1>8. ASSUME NEW i \in 1..n, Mispredicted(i), log[i].window = e.window
      PROVE  e.ready - Latency(e.oper) >= log[i].ready
  <2>1. mispredicted[e.window].ready >= log[i].ready
    BY <1>6, <1>8
  <2> QED
    BY <1>2, <1>5, <2>1
<1>9. ASSUME NEW i \in 1..(n + 1), Mispredicted(i)'
      PROVE  mispredicted'[log'[i].window].ready >= log'[i].ready
  <2>1. CASE i = n + 1
    BY <1>2, <1>4, <1>5, <1>9, <2>1 DEF Mispredicted
  <2>2. CASE i \in 1..n
    <3>1. Mispredicted(i) /\ log'[i] = log[i] /\ log[i].window \in WindowIds
      BY <1>2, <1>3, <1>7, <1>9, <2>2 DEF InorderInv, Scheduled
    <3>2. mispredicted[log[i].window].ready >= log[i].ready
      BY <1>6, <2>2, <3>1
    <3>3. CASE log[i].window = e.window
      <4>1. e.ready >= log[i].ready
        BY <1>2, <1>5, <1>8, <2>2, <3>1, <3>3
      <4> QED
        BY <1>4, <3>1, <3>2, <3>3, <4>1
    <3>4. CASE log[i].window # e.window
      BY <1>4, <3>1, <3>2, <3>4
    <3> QED
      BY <3>3, <3>4
  <2> QED
    BY <1>3, <2>1, <2>2
<1>10. ASSUME NEW j \in 1..(n + 1), NEW i \in 1..(j - 1),
              Mispredicted(i)', log'[i].window = log'[j].window
       PROVE  Start(j)' >= log'[i].ready
  <2>1. i \in 1..n
    BY <1>1, <1>3
  <2>2. CASE j = n + 1
    BY <1>1, <1>2, <1>7, <1>8, <1>10, <2>1, <2>2 DEF Start, LatencyOf, Latency
  <2>3. CASE j \in 1..n
    <3>1. log'[i] = log[i] /\ log'[j] = log[j] /\ Mispredicted(i)
      BY <1>2, <1>7, <1>10, <2>1, <2>3
    <3>2. Start(j) >= log[i].ready
      BY <1>3, <1>10, <2>3, <3>1 DEF InorderInv, BranchOrder, Scheduled
    <3> QED
      BY <1>1, <3>1, <3>2 DEF Start, LatencyOf, Latency
  <2> QED
    BY <1>3, <2>2, <2>3
<1> QED
  BY <1>9, <1>10

\* Every step of the loop keeps the order of mispredicted branches.
LEMMA NextInorder == ScheduleInv /\ InorderInv /\ [Next]_vars => InorderInv'
<1> SUFFICES ASSUME ScheduleInv, InorderInv, [Next]_vars PROVE InorderInv'
  OBVIOUS
<1>1. CASE ScheduleNext
  BY <1>1, ScheduleNextInorder
<1>2. CASE UNCHANGED <<config, log, mispredicted>>
  BY <1>2 DEF InorderInv, BranchOrder, Scheduled, Mispredicted, WindowIds, Windows,
              Start, LatencyOf, Latency
<1> QED
  BY <1>1, <1>2 DEF Next, SkipNext, Abort, EndOfTrace, vars, tables

(***************************************************************************)
(* With in-order branches nothing that enters a window after a             *)
(* mispredicted branch starts before it, whatever the trace: the single    *)
(* last_mispredicted_branch of a window stands for all of them.            *)
(***************************************************************************)
THEOREM BranchOrderHolds == Spec => []BranchOrder
<1>1. Init => ScheduleInv /\ InorderInv
  BY InitScheduleInv, InitInorder
<1>2. (ScheduleInv /\ InorderInv) /\ [Next]_vars => (ScheduleInv /\ InorderInv)'
  BY NextScheduleInv, NextInorder
<1>3. InorderInv => BranchOrder
  BY DEF InorderInv
<1> QED
  BY <1>1, <1>2, <1>3, PTL DEF Spec
----------------------------------------------------------------------------
\* Branches an instruction depends on.

\* The i-th instruction is the last instance of branch b.
LastInstance(i, b) ==
    /\ log[i].oper.branch /\ log[i].oper.ip = b
    /\ \A k \in (i + 1)..Len(log) : ~(log[k].oper.branch /\ log[k].oper.ip = b)

(***************************************************************************)
(* The table of branches has the number of the last instance of each, and  *)
(* its ready time if it was mispredicted; a number above 0 is that of an   *)
(* instance.                                                               *)
(***************************************************************************)
InstancesInv ==
    config.respect_control =>
        \A b \in Branches :
            /\ \A i \in Scheduled : LastInstance(i, b) =>
                  /\ cd_times[b].cd_din_src = i - 1
                  /\ Mispredicted(i) => cd_times[b].info.ready = log[i].ready
            /\ cd_times[b].cd_din_src > 0 =>
                  /\ cd_times[b].cd_din_src + 1 \in Scheduled
                  /\ log[cd_times[b].cd_din_src + 1].oper.branch
                  /\ log[cd_times[b].cd_din_src + 1].oper.ip = b

ControlInv == InstancesInv /\ ControlOrder

\* No branch has been executed at the start.
LEMMA InitControl == Init => ControlInv
<1> SUFFICES ASSUME Init PROVE ControlInv
  OBVIOUS
<1>1. Scheduled = {}
  BY EmptySeq DEF Init, Scheduled
<1>2. \A b \in Branches : cd_times[b].cd_din_src = 0
  BY DEF Init
<1> QED
  BY <1>1, <1>2 DEF ControlInv, InstancesInv, ControlOrder

\* What happens to control_dep_times when an instruction is scheduled.
LEMMA InstancesUpdate ==
    ASSUME ScheduleInv, NEW e \in LogEntry, config.respect_control,
           UpdateControl(next_oper, e.window, e.ready, e.predicted, Preupdated(next_oper))
    PROVE  \A b \in Branches :
              IF next_oper.branch /\ b = next_oper.ip
              THEN /\ cd_times'[b].cd_din_src = opcount
                   /\ ~e.predicted => cd_times'[b].info.ready = e.ready
              ELSE cd_times'[b] = cd_times[b]
<1> DEFINE info == BranchInfo(next_oper, e.window, e.ready, e.predicted,
                              ControlSource(next_oper, Preupdated(next_oper)))
           new == [cd_din_src |-> opcount, info |-> info]
<1>1. cd_times \in [Branches -> [cd_din_src : Nat, info : SchedInfo]]
  BY DEF ScheduleInv, TypeOK
<1>2. ~e.predicted => info.ready = e.ready
  BY DEF BranchInfo
<1>3. cd_times' = IF next_oper.branch /\ next_oper.ip \in Branches
                  THEN [cd_times EXCEPT ![next_oper.ip] = new] ELSE cd_times
  BY DEF UpdateControl
<1> HIDE DEF info
<1>4. new.cd_din_src = opcount /\ new.info = info
  OBVIOUS
<1> HIDE DEF new
<1> QED
  BY <1>1, <1>2, <1>3, <1>4

\* check_control_deps finds the last instance, unless a later call is found.
LEMMA WaitsForInstance ==
    ASSUME ScheduleInv, InstancesInv, config.respect_control, Len(log) \in Nat,
           NEW o \in Opers, NEW stack, CoveredStack(stack),
           NEW i \in Scheduled, i > 1, Mispredicted(i),
           o.ip \in DOMAIN ControlDeps, log[i].oper.ip \in ControlDeps[o.ip],
           \A k \in (i + 1)..Len(log) :
              ~(log[k].oper.branch /\ log[k].oper.ip \in ControlDeps[o.ip])
    PROVE  \E s \in ControlSource(o, stack) : s.ready >= log[i].ready
<1> DEFINE b == log[i].oper.ip
<1>1. b \in Branches /\ i \in Nat
  BY DEF Branches, Scheduled
<1>2. LastInstance(i, b)
  BY DEF LastInstance, Mispredicted
<1>3. cd_times[b].cd_din_src = i - 1 /\ cd_times[b].info.ready = log[i].ready
  BY <1>1, <1>2 DEF InstancesInv
<1>4. b \in ExecutedDeps(o)
  BY <1>1, <1>3 DEF ExecutedDeps
<1>5. PICK c \in ExecutedDeps(o) :
        /\ LastDep(o) = cd_times[c].info
        /\ cd_times[b].cd_din_src <= cd_times[c].cd_din_src
  BY <1>4, LastDepFact
<1>6. c = b
  <2> DEFINE k == cd_times[c].cd_din_src + 1
  <2>1. c \in Branches /\ c \in ControlDeps[o.ip] /\ cd_times[c].cd_din_src > 0
    BY <1>5 DEF ExecutedDeps, Branches
  <2>2. cd_times[c].cd_din_src \in Nat
    BY <2>1 DEF ScheduleInv, TypeOK
  <2>3. k \in Scheduled /\ log[k].oper.branch /\ log[k].oper.ip = c
    BY <2>1 DEF InstancesInv
  <2>4. i <= k
    BY <1>1, <1>3, <1>5, <2>2
  <2>5. k \notin (i + 1)..Len(log)
    BY <2>1, <2>3
  <2> HIDE DEF k
  <2>6. k = i
    BY <1>1, <2>3, <2>4, <2>5 DEF Scheduled
  <2> QED
    BY <2>3, <2>6
<1>7. LastDep(o).ready = log[i].ready
  BY <1>3, <1>5, <1>6
<1>8. PICK s : ControlSource(o, stack) = {s} /\ s.ready >= LastDep(o).ready
  BY <1>4, ControlSourceFact
<1> QED
  BY <1>7, <1>8

\* A scheduled branch becomes the last instance of itself, and of nothing else.
LEMMA ScheduleNextControl ==
    ScheduleInv /\ CountInv /\ ControlInv /\ ScheduleNext => ControlInv'
<1> SUFFICES ASSUME ScheduleInv, CountInv, ControlInv, ScheduleNext, config.respect_control
             PROVE  ControlInv'
  BY DEF ScheduleNext, ControlInv, InstancesInv, ControlOrder
<1> DEFINE n == Len(log)
<1>1. log \in Seq(LogEntry) /\ n \in Nat /\ config' = config /\ opcount = n
  BY LenProperties DEF CountInv, OpNumbers, ScheduleNext
<1>2. PICK e \in LogEntry :
        /\ e.oper = next_oper /\ e.oper \in Opers
        /\ log' \in Seq(LogEntry) /\ Len(log') = n + 1
        /\ log'[n + 1] = e
        /\ \A k \in 1..n : log'[k] = log[k]
        /\ CoveredStack(Preupdated(next_oper))
        /\ \A s \in ControlSource(next_oper, Preupdated(next_oper)) :
              s.ready \in Nat /\ e.ready - Latency(next_oper) >= s.ready
        /\ Latency(next_oper) \in {0, 1}
        /\ UpdateControl(next_oper, e.window, e.ready, e.predicted, Preupdated(next_oper))
  BY <1>1, ControlEntry
<1>3. \A i \in 1..(n + 1) : i \in 1..n \/ i = n + 1
  BY <1>1
<1>4. \A b \in Branches :
         IF next_oper.branch /\ b = next_oper.ip
         THEN /\ cd_times'[b].cd_din_src = opcount
              /\ ~e.predicted => cd_times'[b].info.ready = e.ready
         ELSE cd_times'[b] = cd_times[b]
  BY <1>2, InstancesUpdate
<1>5. /\ e.ready \in Nat
      /\ \A i \in 1..n : log[i].ready \in Nat
      /\ \A b \in Branches : cd_times[b].cd_din_src \in Nat
  <2>1. \A i \in 1..n : log[i] \in LogEntry
    BY <1>1, ElementOfSeq
  <2> QED
    BY <2>1 DEF LogEntry, ScheduleInv, TypeOK
<1> HIDE DEF n
<1>6. Len(log) = n
  BY DEF n
<1>7. ASSUME NEW b \in Branches, NEW i \in 1..(n + 1), LastInstance(i, b)'
      PROVE  /\ cd_times'[b].cd_din_src = i - 1
             /\ Mispredicted(i)' => cd_times'[b].info.ready = log'[i].ready
  <2>1. CASE i = n + 1
    BY <1>1, <1>2, <1>4, <1>7, <2>1 DEF LastInstance, Mispredicted
  <2>2. CASE i \in 1..n
    <3>1. n + 1 \in (i + 1)..Len(log') /\ \A k \in (i + 1)..n : k \in 1..n /\ k \in (i + 1)..Len(log')
      BY <1>1, <1>2, <2>2
    <3>2. LastInstance(i, b) /\ ~(e.oper.branch /\ e.oper.ip = b)
      BY <1>2, <1>6, <1>7, <2>2, <3>1 DEF LastInstance
    <3>3. cd_times'[b] = cd_times[b] /\ log'[i] = log[i]
      BY <1>2, <1>4, <2>2, <3>2
    <3> QED
      BY <1>6, <2>2, <3>2, <3>3 DEF ControlInv, InstancesInv, Scheduled, Mispredicted
  <2> QED
    BY <1>3, <2>1, <2>2
<1>8. ASSUME NEW b \in Branches, cd_times'[b].cd_din_src > 0
      PROVE  /\ cd_times'[b].cd_din_src + 1 \in 1..(n + 1)
             /\ log'[cd_times'[b].cd_din_src + 1].oper.branch
             /\ log'[cd_times'[b].cd_din_src + 1].oper.ip = b
  <2>1. CASE next_oper.branch /\ b = next_oper.ip
    BY <1>1, <1>2, <1>4, <2>1
  <2>2. CASE ~(next_oper.branch /\ b = next_oper.ip)
    <3>1. cd_times'[b] = cd_times[b]
      BY <1>4, <2>2
    <3> DEFINE k == cd_times[b].cd_din_src + 1
    <3>2. k \in 1..n /\ log[k].oper.branch /\ log[k].oper.ip = b
      BY <1>6, <1>8, <3>1 DEF ControlInv, InstancesInv, Scheduled
    <3> HIDE DEF k
    <3>3. k \in 1..(n + 1) /\ log'[k] = log[k]
      BY <1>1, <1>2, <3>2
    <3> QED
      BY <3>1, <3>2, <3>3 DEF k
  <2> QED
    BY <2>1, <2>2
<1>9. ASSUME NEW j \in 1..(n + 1), NEW i \in 2..(j - 1)
      PROVE  WaitsForBranch(i, j)'
  <2>1. i \in 1..n /\ i > 1 /\ log'[i] = log[i]
    BY <1>1, <1>2
  <2> SUFFICES ASSUME log'[j].oper.ip \in DOMAIN ControlDeps,
                      log[i].oper.ip \in ControlDeps[log'[j].oper.ip],
                      Mispredicted(i),
                      \A k \in (i + 1)..(j - 1) :
                         ~(log'[k].oper.branch
                           /\ log'[k].oper.ip \in ControlDeps[log'[j].oper.ip])
               PROVE  Start(j)' >= log[i].ready
    BY <2>1 DEF WaitsForBranch, DependsOn, Mispredicted
  <2>2. CASE j = n + 1
    <3>1. log'[j] = e /\ \A k \in (i + 1)..n : k \in (i + 1)..(j - 1) /\ log'[k] = log[k]
      BY <1>1, <1>2, <2>1, <2>2
    <3>2. \E s \in ControlSource(next_oper, Preupdated(next_oper)) : s.ready >= log[i].ready
      BY <1>1, <1>2, <1>6, <2>1, <3>1, WaitsForInstance DEF ControlInv, Scheduled
    <3>3. e.ready - Latency(next_oper) >= log[i].ready
      BY <1>2, <1>5, <2>1, <3>2
    <3> QED
      BY <1>1, <1>2, <3>1, <3>3 DEF Start, LatencyOf, Latency
  <2>3. CASE j \in 1..n
    <3>0. \A k \in (i + 1)..(j - 1) : k \in 1..n
      BY <1>1, <2>1, <2>3
    <3>1. log'[j] = log[j] /\ \A k \in (i + 1)..(j - 1) : log'[k] = log[k]
      BY <1>2, <2>3, <3>0
    <3>2. Start(j) >= log[i].ready
      BY <1>6, <2>3, <3>1 DEF ControlInv, ControlOrder, WaitsForBranch, DependsOn, Scheduled
    <3> QED
      BY <1>1, <3>1, <3>2 DEF Start, LatencyOf, Latency
  <2> QED
    BY <1>3, <2>2, <2>3
<1> QED
  BY <1>2, <1>7, <1>8, <1>9 DEF ControlInv, InstancesInv, ControlOrder, Scheduled

\* Every step of the loop keeps the table of branches.
LEMMA NextControl ==
    ScheduleInv /\ CountInv /\ ControlInv /\ [Next]_vars => ControlInv'
<1> SUFFICES ASSUME ScheduleInv, CountInv, ControlInv, [Next]_vars PROVE ControlInv'
  OBVIOUS
<1>1. CASE ScheduleNext
  BY <1>1, ScheduleNextControl
<1>2. CASE UNCHANGED <<config, log, cd_times>>
  BY <1>2 DEF ControlInv, InstancesInv, LastInstance, ControlOrder, WaitsForBranch,
              DependsOn, Mispredicted, Scheduled, Start, LatencyOf, Latency
<1> QED
  BY <1>1, <1>2 DEF Next, SkipNext, Abort, EndOfTrace, vars, tables

(***************************************************************************)
(* An instruction waits for the last mispredicted instance of each branch  *)
(* it depends on, whatever the annotations; the first instruction of the   *)
(* trace is the only exception.                                            *)
(***************************************************************************)
THEOREM ControlOrderHolds == Spec => []ControlOrder
<1>1. Init => ScheduleInv /\ CountInv /\ ControlInv
  BY InitScheduleInv, InitCountInv, InitControl
<1>2. (ScheduleInv /\ CountInv /\ ControlInv) /\ [Next]_vars
         => (ScheduleInv /\ CountInv /\ ControlInv)'
  BY NextScheduleInv, NextCountInv, NextControl
<1>3. ControlInv => ControlOrder
  BY DEF ControlInv
<1> QED
  BY <1>1, <1>2, <1>3, PTL DEF Spec
----------------------------------------------------------------------------
\* Calls.

\* The i-th instruction is a mispredicted call, and nothing has returned since.
OpenCall(i) ==
    /\ log[i].oper.call /\ Mispredicted(i) /\ Followed(log[i].oper)
    /\ \A k \in (i + 1)..Len(log) : ~log[k].oper.return

(***************************************************************************)
(* The stack is to be unwound only right after a return.  Until then its   *)
(* top is no earlier than any of the open calls: what is pushed waits for  *)
(* what it is pushed on, predicted or not.                                 *)
(***************************************************************************)
CallInv ==
    /\ config.respect_control =>
          /\ dopop => /\ Len(log) > 0 /\ log[Len(log)].oper.return
                      /\ ~log[Len(log)].oper.call
          /\ \A i \in Scheduled : OpenCall(i) =>
                cdstack # <<>> /\ cdstack[1].info.ready >= log[i].ready
    /\ CallOrder

\* No call is open at the start.
LEMMA InitCall == Init => CallInv
<1> SUFFICES ASSUME Init PROVE CallInv
  OBVIOUS
<1>1. Scheduled = {}
  BY EmptySeq DEF Init, Scheduled
<1> QED
  BY <1>1 DEF Init, CallInv, CallOrder

\* Nothing is unwound while a call is open.
LEMMA OpenCallStays ==
    ASSUME CallInv, config.respect_control, Len(log) \in Nat,
           NEW i \in Scheduled, OpenCall(i)
    PROVE  ~dopop
<1>1. CASE i = Len(log)
  BY <1>1 DEF CallInv, OpenCall
<1>2. CASE i # Len(log)
  <2>1. Len(log) \in (i + 1)..Len(log)
    BY <1>2 DEF Scheduled
  <2> QED
    BY <2>1 DEF CallInv, OpenCall
<1> QED
  BY <1>1, <1>2

\* Without unwinding, the innermost call stays so; setjmp only doubles it.
LEMMA PreupdatedTop ==
    ASSUME ScheduleInv, NEW o, ~dopop, cdstack # <<>>
    PROVE  Preupdated(o) # <<>> /\ Preupdated(o)[1] = cdstack[1]
<1>1. cdstack \in Seq(CDItem) /\ Len(cdstack) \in Nat
  BY LenProperties DEF ScheduleInv, TypeOK
<1>2. cdstack[1] \in CDItem
  <2>1. 1 \in 1..Len(cdstack)
    BY <1>1, EmptySeq
  <2> QED
    BY <1>1, <2>1, ElementOfSeq
<1> DEFINE s == <<cdstack[1]>> \o cdstack
<1>3. Len(s) = 1 + Len(cdstack) /\ s[1] = cdstack[1]
  BY <1>1, <1>2, PushFact
<1>4. s # <<>>
  <2> HIDE DEF s
  <2> QED
    BY <1>1, <1>3, EmptySeq
<1>5. Preupdated(o) = cdstack \/ Preupdated(o) = s
  BY Zenon DEF Preupdated
<1> HIDE DEF s
<1> QED
  BY <1>3, <1>4, <1>5

(***************************************************************************)
(* What happens to the call stack when an instruction is scheduled: a call *)
(* is pushed with a time no earlier than that of the call it is in.        *)
(***************************************************************************)
LEMMA StackUpdate ==
    ASSUME ScheduleInv, NEW e \in LogEntry, config.respect_control,
           next_oper \in Opers, CoveredStack(Preupdated(next_oper)),
           \A s \in ControlSource(next_oper, Preupdated(next_oper)) :
              s.ready \in Nat /\ e.ready >= s.ready,
           UpdateControl(next_oper, e.window, e.ready, e.predicted, Preupdated(next_oper))
    PROVE  /\ dopop' => next_oper.return /\ ~next_oper.call
           /\ \/ cdstack' = Preupdated(next_oper)
                 /\ ~(next_oper.branch /\ next_oper.call /\ Followed(next_oper))
              \/ /\ cdstack' # <<>> /\ cdstack'[1].info.ready \in Nat
                 /\ ~e.predicted => cdstack'[1].info.ready = e.ready
                 /\ Preupdated(next_oper) # <<>> =>
                       cdstack'[1].info.ready >= Preupdated(next_oper)[1].info.ready
<1> DEFINE o == next_oper
           stack == Preupdated(o)
           control == ControlSource(o, stack)
           waited == IF control = {} THEN Unwritten ELSE CHOOSE c \in control : TRUE
           info == BranchInfo(o, e.window, e.ready, e.predicted, control)
           top == [ip |-> o.next, info |-> info]
           pushed == <<top>> \o stack
<1>1. /\ dopop' => o.return /\ ~o.call
      /\ IF o.branch /\ o.call /\ Followed(o) THEN cdstack' = pushed ELSE cdstack' = stack
  <2>1. CASE ~o.branch
    BY <2>1 DEF UpdateControl
  <2>2. CASE o.branch
    BY <2>2 DEF UpdateControl
  <2> QED
    BY <2>1, <2>2
<1>2. stack # <<>> => \E c : control = {c} /\ c.ready >= stack[1].info.ready
  BY ControlSourceFact
<1>3. info.ready = IF e.predicted THEN waited.ready ELSE e.ready
  BY DEF BranchInfo
<1>4. stack # <<>> => stack[1].info.ready \in Nat
  <2>1. stack # <<>> => 1 \in 1..Len(stack)
    BY EmptySeq, LenProperties DEF CoveredStack
  <2> QED
    BY <2>1 DEF CoveredStack, Covered, SchedInfo
<1>5. e.ready \in Nat
  BY DEF LogEntry
<1>6. stack # <<>> => info.ready >= stack[1].info.ready
  <2> SUFFICES ASSUME stack # <<>> PROVE info.ready >= stack[1].info.ready
    OBVIOUS
  <2>1. PICK c : control = {c} /\ c.ready >= stack[1].info.ready
    BY <1>2
  <2>2. waited = c /\ c.ready \in Nat /\ e.ready >= c.ready
    BY <2>1
  <2> HIDE DEF waited, info, stack, control
  <2> QED
    BY <1>3, <1>4, <1>5, <2>1, <2>2
<1>7. pushed # <<>> /\ pushed[1].info = info /\ info.ready \in Nat
  <2>1. info \in SchedInfo
    <3>1. e.window \in Nat
      BY DEF LogEntry
    <3> QED
      BY <1>5, <3>1, BranchInfoFact
  <2>2. top \in CDItem /\ top.info = info
    <3>1. o.next \in Nat
      BY ScheduleAssumption DEF OperType
    <3> HIDE DEF info
    <3> QED
      BY <2>1, <3>1 DEF CDItem
  <2>3. stack \in Seq(CDItem) /\ Len(stack) \in Nat
    BY LenProperties DEF CoveredStack
  <2> HIDE DEF top, stack
  <2>4. Len(pushed) = 1 + Len(stack) /\ pushed[1] = top
    BY <2>2, <2>3, PushFact
  <2>5. info.ready \in Nat
    BY <2>1 DEF SchedInfo
  <2> HIDE DEF pushed, info
  <2> QED
    BY <2>2, <2>3, <2>4, <2>5, EmptySeq
<1> HIDE DEF pushed, info, stack, waited, control
<1> QED
  BY <1>1, <1>3, <1>6, <1>7 DEF stack

\* Whatever is scheduled while a call is open, the top of the stack waits for it.
LEMMA ScheduleNextCall ==
    ScheduleInv /\ CountInv /\ CallInv /\ ScheduleNext => CallInv'
<1> SUFFICES ASSUME ScheduleInv, CountInv, CallInv, ScheduleNext, config.respect_control
             PROVE  CallInv'
  BY DEF ScheduleNext, CallInv, CallOrder
<1> DEFINE n == Len(log)
           stack == Preupdated(next_oper)
<1>1. log \in Seq(LogEntry) /\ n \in Nat /\ config' = config
  BY LenProperties DEF CountInv, ScheduleNext
<1>2. PICK e \in LogEntry :
        /\ e.oper = next_oper /\ e.oper \in Opers
        /\ log' \in Seq(LogEntry) /\ Len(log') = n + 1
        /\ log'[n + 1] = e
        /\ \A k \in 1..n : log'[k] = log[k]
        /\ CoveredStack(Preupdated(next_oper))
        /\ \A s \in ControlSource(next_oper, Preupdated(next_oper)) :
              s.ready \in Nat /\ e.ready - Latency(next_oper) >= s.ready
        /\ Latency(next_oper) \in {0, 1}
        /\ UpdateControl(next_oper, e.window, e.ready, e.predicted, Preupdated(next_oper))
  BY <1>1, ControlEntry
<1>3. /\ e.ready \in Nat
      /\ \A i \in 1..n : log[i].ready \in Nat
  <2>1. \A i \in 1..n : log[i] \in LogEntry
    BY <1>1, ElementOfSeq
  <2> QED
    BY <2>1 DEF LogEntry
<1>4. /\ dopop' => next_oper.return /\ ~next_oper.call
      /\ \/ cdstack' = stack
            /\ ~(next_oper.branch /\ next_oper.call /\ Followed(next_oper))
         \/ /\ cdstack' # <<>> /\ cdstack'[1].info.ready \in Nat
            /\ ~e.predicted => cdstack'[1].info.ready = e.ready
            /\ stack # <<>> => cdstack'[1].info.ready >= stack[1].info.ready
  <2>1. \A s \in ControlSource(next_oper, Preupdated(next_oper)) :
           s.ready \in Nat /\ e.ready >= s.ready
    BY <1>2, <1>3
  <2> QED
    BY <1>2, <2>1, StackUpdate
<1>5. ASSUME NEW i \in 1..n, OpenCall(i)
      PROVE  stack # <<>> /\ stack[1].info.ready >= log[i].ready
  <2>1. ~dopop /\ cdstack # <<>> /\ cdstack[1].info.ready >= log[i].ready
    BY <1>1, <1>5, OpenCallStays DEF CallInv, Scheduled
  <2> QED
    BY <2>1, PreupdatedTop
<1>6. stack # <<>> =>
         /\ stack[1].info.ready \in Nat
         /\ \E c : c \in ControlSource(next_oper, stack) /\ c.ready >= stack[1].info.ready
  <2>1. stack # <<>> => 1 \in 1..Len(stack)
    BY <1>2, EmptySeq, LenProperties DEF CoveredStack
  <2> QED
    BY <1>2, <2>1, ControlSourceFact DEF CoveredStack, Covered, SchedInfo
<1> HIDE DEF n, stack
<1>7. /\ Len(log) = n
      /\ \A i \in 1..(n + 1) : i \in 1..n \/ i = n + 1
  BY <1>1 DEF n
<1>8. ASSUME NEW i \in 1..n, OpenCall(i)
      PROVE  e.ready - Latency(next_oper) >= log[i].ready
  <2>1. stack # <<>> /\ stack[1].info.ready >= log[i].ready
    BY <1>5, <1>8
  <2>2. PICK c : c \in ControlSource(next_oper, stack) /\ c.ready >= stack[1].info.ready
    BY <1>6, <2>1
  <2>3. c.ready \in Nat /\ e.ready - Latency(next_oper) >= c.ready
    BY <1>2, <2>2 DEF stack
  <2> QED
    BY <1>2, <1>3, <1>6, <2>1, <2>2, <2>3
<1>9. dopop' => /\ Len(log') > 0 /\ log'[Len(log')].oper.return
                /\ ~log'[Len(log')].oper.call
  BY <1>1, <1>2, <1>4
<1>10. ASSUME NEW i \in 1..(n + 1), OpenCall(i)'
       PROVE  cdstack' # <<>> /\ cdstack'[1].info.ready >= log'[i].ready
  <2>1. CASE i = n + 1
    <3>1. next_oper.branch /\ next_oper.call /\ Followed(next_oper) /\ ~e.predicted
      BY <1>1, <1>2, <1>10, <2>1 DEF OpenCall, Mispredicted, Followed
    <3> QED
      BY <1>2, <1>3, <1>4, <2>1, <3>1
  <2>2. CASE i \in 1..n
    <3>1. log'[i] = log[i]
          /\ \A k \in (i + 1)..n : k \in (i + 1)..Len(log') /\ log'[k] = log[k]
      BY <1>1, <1>2, <2>2
    <3>2. OpenCall(i)
      BY <1>1, <1>7, <1>10, <3>1 DEF OpenCall, Mispredicted, Followed
    <3>3. stack # <<>> /\ stack[1].info.ready >= log[i].ready /\ log[i].ready \in Nat
      BY <1>3, <1>5, <2>2, <3>2
    <3>4. CASE cdstack' = stack
      BY <3>1, <3>3, <3>4
    <3>5. CASE /\ cdstack' # <<>> /\ cdstack'[1].info.ready \in Nat
               /\ cdstack'[1].info.ready >= stack[1].info.ready
      BY <1>6, <3>1, <3>3, <3>5
    <3> QED
      BY <1>4, <3>3, <3>4, <3>5
  <2> QED
    BY <1>7, <2>1, <2>2
<1>11. ASSUME NEW j \in 1..(n + 1), NEW i \in 1..(j - 1),
              log'[i].oper.call, Mispredicted(i)', Followed(log[i].oper)',
              \A k \in (i + 1)..(j - 1) : ~log'[k].oper.return
       PROVE  Start(j)' >= log'[i].ready
  <2>1. i \in 1..n /\ log'[i] = log[i]
    BY <1>1, <1>2, <1>7
  <2>2. CASE j = n + 1
    <3>1. log'[j] = e /\ \A k \in (i + 1)..n : k \in (i + 1)..(j - 1) /\ log'[k] = log[k]
      BY <1>1, <1>2, <2>1, <2>2
    <3>2. OpenCall(i)
      BY <1>1, <1>7, <1>11, <2>1, <3>1 DEF OpenCall, Mispredicted, Followed
    <3>3. e.ready - Latency(next_oper) >= log[i].ready
      BY <1>8, <2>1, <3>2
    <3> QED
      BY <1>1, <1>2, <2>1, <3>1, <3>3 DEF Start, LatencyOf, Latency
  <2>3. CASE j \in 1..n
    <3>1. \A k \in (i + 1)..(j - 1) : k \in 1..n
      BY <1>1, <2>1, <2>3
    <3>2. log'[j] = log[j] /\ \A k \in (i + 1)..(j - 1) : log'[k] = log[k]
      BY <1>2, <2>3, <3>1
    <3>3. Start(j) >= log[i].ready
      BY <1>1, <1>7, <1>11, <2>1, <2>3, <3>2
         DEF CallInv, CallOrder, Mispredicted, Followed, Scheduled
    <3> QED
      BY <1>1, <2>1, <3>2, <3>3 DEF Start, LatencyOf, Latency
  <2> QED
    BY <1>7, <2>2, <2>3
<1> QED
  BY <1>1, <1>2, <1>9, <1>10, <1>11 DEF CallInv, CallOrder, Scheduled

\* Every step of the loop keeps the open calls.
LEMMA NextCall == ScheduleInv /\ CountInv /\ CallInv /\ [Next]_vars => CallInv'
<1> SUFFICES ASSUME ScheduleInv, CountInv, CallInv, [Next]_vars PROVE CallInv'
  OBVIOUS
<1>1. CASE ScheduleNext
  BY <1>1, ScheduleNextCall
<1>2. CASE SkipNext
  <2>1. UNCHANGED <<config, log>> /\ ~dopop' /\ cdstack' = Preupdated(next_oper)
    BY <1>2 DEF SkipNext, tables
  <2>2. Len(log) \in Nat
    BY LenProperties DEF CountInv
  <2>3. ASSUME NEW i \in Scheduled, OpenCall(i), config.respect_control
        PROVE  cdstack' # <<>> /\ cdstack'[1].info.ready >= log[i].ready
    <3>1. ~dopop /\ cdstack # <<>> /\ cdstack[1].info.ready >= log[i].ready
      BY <2>2, <2>3, OpenCallStays DEF CallInv
    <3> QED
      BY <2>1, <3>1, PreupdatedTop
  <2>4. CallOrder' /\ Scheduled' = Scheduled /\ \A i : OpenCall(i)' <=> OpenCall(i)
    BY <2>1 DEF CallInv, CallOrder, OpenCall, Mispredicted, Followed, Scheduled,
                Start, LatencyOf, Latency
  <2> QED
    BY <2>1, <2>3, <2>4 DEF CallInv
<1>3. CASE UNCHANGED <<config, log, cdstack, dopop>>
  BY <1>3 DEF CallInv, CallOrder, OpenCall, Mispredicted, Followed, Scheduled,
              Start, LatencyOf, Latency
<1> QED
  BY <1>1, <1>2, <1>3 DEF Next, Abort, EndOfTrace, vars, tables

(***************************************************************************)
(* A function runs under the control of its call, however deep the calls   *)
(* inside it nest and whether they are predicted or not: until a return    *)
(* nothing starts before the mispredicted call is resolved.                *)
(***************************************************************************)
THEOREM CallOrderHolds == Spec => []CallOrder
<1>1. Init => ScheduleInv /\ CountInv /\ CallInv
  BY InitScheduleInv, InitCountInv, InitCall
<1>2. (ScheduleInv /\ CountInv /\ CallInv) /\ [Next]_vars
         => (ScheduleInv /\ CountInv /\ CallInv)'
  BY NextScheduleInv, NextCountInv, NextCall
<1>3. CallInv => CallOrder
  BY DEF CallInv
<1> QED
  BY <1>1, <1>2, <1>3, PTL DEF Spec
==============================================================================
