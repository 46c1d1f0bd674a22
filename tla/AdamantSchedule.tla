--------------------------- MODULE AdamantSchedule ---------------------------
(***************************************************************************)
(* adamant_schedule.c with the control dependences of adamant_cd_impl.h:   *)
(* the loop that reads a trace one instruction ahead and gives every       *)
(* instruction the cycle at which its result is ready, from the registers  *)
(* and memory it reads, the branches it depends on and the instruction     *)
(* windows.                                                                *)
(*                                                                         *)
(* A configuration is one command line of adamantium without induction-    *)
(* variable expansion (module InductionVariables) and without Itanium      *)
(* register renaming.  No instruction is ever split (module RuntimeInit),  *)
(* so the inner loop of adamant_schedule_program runs once.                *)
(***************************************************************************)
EXTENDS WindowOps, Sequences, FiniteSets

CONSTANTS
    Regs, Bytes, Lines, LineOf,  \* registers; bytes of memory and their lines
    StackBytes,                  \* stack_start..stack_end
    Opers,                       \* the instructions a trace may hold
    ControlDeps,                 \* [ip -> branches it depends on], from the annotations
    SetjmpAddr,                  \* config->setjmp_addr
    Configs,                     \* the command lines
    MaxTrace                     \* bound on the instructions read, for model checking

\* What tmt_readcontext_read reports.
TmtErr == {"TMTIO_OK", "TMTIO_EOF", "TMTIO_ERROR"}

(***************************************************************************)
(* What the scheduler looks at in an instruction: its address and the one  *)
(* after it, whether it counts (it has an effect and is no nop), what it   *)
(* reads and writes, and what kind of branch it is.                        *)
(***************************************************************************)
OperType ==
    [ip : Nat, next : Nat, effect : BOOLEAN,
     reads : SUBSET Regs, writes : SUBSET Regs,
     loads : SUBSET Bytes, stores : SUBSET Bytes,
     branch : BOOLEAN, call : BOOLEAN, return : BOOLEAN, taken : BOOLEAN]

ConfigType ==
    [w_num : Nat, w_type : WindowTypes, communication_latency : Nat,
     ignore_regs : SUBSET Regs, ignore_stack : BOOLEAN,
     respect_control : BOOLEAN, predict_branches : BOOLEAN,
     inorder_branches : BOOLEAN, x86_translate : BOOLEAN,
     maxopcount : Nat, dd_tick_interval : Nat]

ASSUME ScheduleAssumption ==
    /\ LineOf \in [Bytes -> Lines]
    /\ StackBytes \subseteq Bytes
    /\ Opers \subseteq OperType
    /\ \A o \in Opers : /\ IsFiniteSet(o.reads)
                        /\ IsFiniteSet(o.loads)
    /\ \A ip \in DOMAIN ControlDeps :
          ControlDeps[ip] \subseteq Nat /\ IsFiniteSet(ControlDeps[ip])
    /\ Configs \subseteq ConfigType

(***************************************************************************)
(* SchedInfo: when a value is ready, which instruction produced it and in  *)
(* which window.                                                           *)
(***************************************************************************)
SchedInfo == [ready : Nat, din_src : Nat, thread_id : Nat]

Unwritten == [ready |-> 0, din_src |-> 0, thread_id |-> 0]

\* control_dep_times has an entry for every branch the annotations name.
Branches == UNION {ControlDeps[ip] : ip \in DOMAIN ControlDeps}

CDItem == [ip : Nat, info : SchedInfo]

VARIABLES
    config,        \* runtime->config
    next_oper,     \* the instruction read ahead
    tmterr,        \* and whether there is one
    reg_info,      \* runtime->reg_info
    mem_info,      \* the data of the lines of runtime->meminfo_pgtbl
    mapped,        \* the lines that have been allocated
    windows,       \* runtime->wrt->windows, each as in WindowOps
    mispredicted,  \* last_mispredicted_branch of each window, or of the runtime
    cdstack,       \* runtime->cdstack->stack, top first
    dopop,         \* runtime->cdstack->dopop
    cd_times,      \* runtime->control_dep_times
    opcount, bdd_tick_time, finish_time,
    done,          \* runtime->done: set by the DD code when it runs out of memory
    status,        \* "running"; "done", "failed" (exit(-1)) or "aborted"
    log,           \* history: the scheduled instructions, in order
    setjmps        \* history: when setjmp was entered, and the call it returns from

tables == <<reg_info, mem_info, mapped, windows, mispredicted, cd_times,
            opcount, bdd_tick_time, finish_time, done, log>>
vars == <<config, next_oper, tmterr, tables, cdstack, dopop, status, setjmps>>

Windows == 0..(config.w_num - 1)
\* Without windows everything happens in a window 0 without limit.
WindowIds == IF config.w_num = 0 THEN {0} ELSE Windows

Init ==
    /\ config \in Configs
    /\ next_oper \in Opers /\ tmterr \in TmtErr
    /\ reg_info = [r \in Regs |-> Unwritten]
    /\ mem_info = [b \in Bytes |-> Unwritten]
    /\ mapped = {}
    /\ windows = [w \in Windows |-> EmptyWindow]
    /\ mispredicted = [w \in WindowIds |-> Unwritten]
    /\ cdstack = <<>> /\ dopop = FALSE
    /\ cd_times = [b \in Branches |-> [cd_din_src |-> 0, info |-> Unwritten]]
    /\ opcount = 0 /\ bdd_tick_time = 0 /\ finish_time = 0
    /\ done = FALSE
    /\ status = "running"
    /\ log = <<>> /\ setjmps = <<>>

----------------------------------------------------------------------------
\* preupdate_cdstack and cdstack_pop.

(***************************************************************************)
(* After a return the stack is unwound to the call whose return address is *)
(* the address of this instruction, that call included.  A longjmp skips   *)
(* calls; setjmp, which returns again, keeps a second copy of its call.    *)
(***************************************************************************)
IsSetjmp(o) == o.ip = SetjmpAddr

Frames(o) == {k \in 1..Len(cdstack) : cdstack[k].ip = o.ip}

\* The innermost such call is the first.
Unwound(o) ==
    LET k == CHOOSE k \in Frames(o) : \A l \in Frames(o) : k <= l
    IN  SubSeq(cdstack, k + 1, Len(cdstack))

\* Mutant: setjmp keeps a copy of its call for each of the times it returns.
PreupdatedTwice(o) ==
    IF ~config.respect_control THEN cdstack
    ELSE IF IsSetjmp(o) THEN <<cdstack[1], cdstack[1]>> \o cdstack
    ELSE IF dopop THEN Unwound(o)
    ELSE cdstack

Preupdated(o) ==
    IF ~config.respect_control THEN cdstack
    ELSE IF IsSetjmp(o) THEN <<cdstack[1]>> \o cdstack
    ELSE IF dopop THEN Unwound(o)
    ELSE cdstack

(***************************************************************************)
(* The unwinding empties the stack (g_error), setjmp follows a return      *)
(* (g_assert) or is entered without a call (a NULL stack is copied).       *)
(***************************************************************************)
PreupdateFails(o) ==
    /\ config.respect_control
    /\ IF IsSetjmp(o) THEN dopop \/ cdstack = <<>>
                      ELSE dopop /\ Frames(o) = {}

----------------------------------------------------------------------------
(***************************************************************************)
(* check_control_deps: of the branches o depends on, the one executed last *)
(* (a branch that was not executed has cd_din_src 0), or the call it is    *)
(* in, when that one is later; with neither there is no source.            *)
(***************************************************************************)
ExecutedDeps(o) ==
    IF o.ip \in DOMAIN ControlDeps
    THEN {b \in ControlDeps[o.ip] : cd_times[b].cd_din_src > 0} ELSE {}

\* Mutant: the branch executed first.
FirstDep(o) ==
    cd_times[CHOOSE b \in ExecutedDeps(o) : \A c \in ExecutedDeps(o) :
                 cd_times[c].cd_din_src >= cd_times[b].cd_din_src].info

LastDep(o) ==
    cd_times[CHOOSE b \in ExecutedDeps(o) : \A c \in ExecutedDeps(o) :
                 cd_times[c].cd_din_src <= cd_times[b].cd_din_src].info

\* Mutant: calls are no control dependences.
ControlSourceNoCalls(o, stack) ==
    IF ~config.respect_control \/ ExecutedDeps(o) = {} THEN {} ELSE {LastDep(o)}

ControlSource(o, stack) ==
    IF ~config.respect_control THEN {}
    ELSE IF stack # <<>> /\ (ExecutedDeps(o) = {} \/ stack[1].info.ready > LastDep(o).ready)
    THEN {stack[1].info}
    ELSE IF ExecutedDeps(o) = {} THEN {} ELSE {LastDep(o)}

\* find_src_regs
RegSources(o) == {reg_info[r] : r \in o.reads \ config.ignore_regs}

(***************************************************************************)
(* find_src_mems: memory on a line no store has allocated yet is no        *)
(* source; the other bytes of an allocated line are zero, like an          *)
(* unwritten register.                                                     *)
(***************************************************************************)
MemSources(o) == {mem_info[b] : b \in {c \in o.loads : LineOf[c] \in mapped}}

\* Mutant: the last writer of a destination is a source, too.
SourcesWaw(o, stack) ==
    RegSources(o) \cup {reg_info[r] : r \in o.writes} \cup MemSources(o)
    \cup ControlSource(o, stack)

\* src_sched_info_array, without the order of its entries.
Sources(o, stack) == RegSources(o) \cup MemSources(o) \cup ControlSource(o, stack)

\* Mutant: values do not travel.
ArrivalAtOnce(s, w) == s.ready

\* When a source can be used in window w: a value from another one travels.
Arrival(s, w) ==
    s.ready + (IF s.thread_id # w THEN config.communication_latency ELSE 0)

\* Mutant: a full window does not hold anything up.
WindowTimeNoHead(w) == mispredicted[w].ready

\* Mutant: neither does a misprediction.
WindowTimeNoBranch(w) == IF config.w_num = 0 THEN 0 ELSE WindowHead(windows[w])

\* The earliest insertion into window w.
WindowTime(w) ==
    MAX(IF config.w_num = 0 THEN 0 ELSE WindowHead(windows[w]), mispredicted[w].ready)

\* Mutant: the cost of a window does not count its head.
ReadyCostNoHead(w, srcs) == MaxOf({0} \cup {Arrival(s, w) : s \in srcs})

\* ready_cost of adamant_window_runtime_choose.
ReadyCost(w, srcs) == MaxOf({WindowTime(w)} \cup {Arrival(s, w) : s \in srcs})

\* The first window of the least cost.
Choose(srcs) ==
    IF config.w_num <= 1 THEN 0
    ELSE CHOOSE w \in Windows : \A v \in Windows :
            /\ ReadyCost(w, srcs) <= ReadyCost(v, srcs)
            /\ v < w => ReadyCost(w, srcs) < ReadyCost(v, srcs)

\* adamant_compute_latency: one cycle, or none for an access to the stack only.
Latency(o) ==
    LET touched == o.loads \cup o.stores
    IN  IF config.ignore_stack /\ touched # {} /\ touched \subseteq StackBytes
        THEN 0 ELSE 1

\* Mutant: the window does not count.
ReadyTimeNoWindow(o, w, srcs) == MaxOf({0} \cup {Arrival(s, w) : s \in srcs}) + Latency(o)

ReadyTime(o, w, srcs) ==
    MaxOf({WindowTime(w)} \cup {Arrival(s, w) : s \in srcs}) + Latency(o)

----------------------------------------------------------------------------
(***************************************************************************)
(* adamant_predict_branch, whose tables are left open as a choice: what is *)
(* no branch is predicted, the last instruction of the trace is not.       *)
(***************************************************************************)
Predictions(o, last) ==
    IF ~config.predict_branches THEN {FALSE}
    ELSE IF ~o.branch THEN {TRUE}
    ELSE IF last THEN {FALSE}
    ELSE BOOLEAN

(***************************************************************************)
(* update_cdinfo: what depends on a branch waits for it if mispredicted,   *)
(* else only for what the branch itself depends on.  With in-order         *)
(* branches a misprediction also holds up the window.                      *)
(***************************************************************************)
BranchInfo(o, w, ready, predicted, control) ==
    LET waited == IF control = {} THEN Unwritten ELSE CHOOSE c \in control : TRUE
    IN  [ready |-> IF predicted THEN waited.ready ELSE ready,
         din_src |-> IF predicted THEN waited.din_src ELSE opcount,
         thread_id |-> w]

Followed(o) == o.taken \/ config.x86_translate

UpdateControl(o, w, ready, predicted, stack) ==
    IF ~(config.respect_control /\ o.branch)
    THEN /\ cdstack' = stack
         /\ dopop' = FALSE
         /\ UNCHANGED <<mispredicted, cd_times>>
    ELSE LET info == BranchInfo(o, w, ready, predicted, ControlSource(o, stack))
         IN  /\ mispredicted' =
                  IF ~predicted /\ config.inorder_branches
                  THEN [mispredicted EXCEPT ![w] =
                          [ready |-> ready, din_src |-> opcount, thread_id |-> w]]
                  ELSE mispredicted
             /\ cd_times' = IF o.ip \in Branches
                            THEN [cd_times EXCEPT ![o.ip] =
                                    [cd_din_src |-> opcount, info |-> info]]
                            ELSE cd_times
             /\ cdstack' = IF o.call /\ Followed(o)
                           THEN <<[ip |-> o.next, info |-> info]>> \o stack
                           ELSE stack
             /\ dopop' = (o.return /\ ~o.call /\ Followed(o))

\* Mutant: the schedule ends with the instruction scheduled last.
FinishTimeLast(ready) == ready

\* The schedule ends when its last instruction is ready.
FinishTime(ready) == IF ready > finish_time THEN ready ELSE finish_time

\* update_dst_regs_ready and update_dst_mems_ready: whoever reads o's
\* results next finds them in the tables.
UpdateRegs(o, result) ==
    [r \in Regs |-> IF r \in o.writes \ config.ignore_regs THEN result ELSE reg_info[r]]

UpdateMems(o, result) == [b \in Bytes |-> IF b \in o.stores THEN result ELSE mem_info[b]]

\* adamant_schedule_oper
ScheduleOper(o, predicted, stack) ==
    LET srcs == Sources(o, stack)
        w == Choose(srcs)
        ready == ReadyTime(o, w, srcs)
        result == [ready |-> ready, din_src |-> opcount, thread_id |-> w]
    IN  /\ reg_info' = UpdateRegs(o, result)
        /\ mem_info' = UpdateMems(o, result)
        /\ mapped' = mapped \cup {LineOf[b] : b \in o.stores}
        /\ windows' = IF config.w_num = 0 THEN windows
                      ELSE [windows EXCEPT ![w] = WindowInsert(config.w_type, @, ready)]
        /\ UpdateControl(o, w, ready, predicted, stack)
        /\ finish_time' = FinishTime(ready)
        /\ log' = Append(log, [oper |-> o, din |-> opcount, ready |-> ready,
                               window |-> w, predicted |-> predicted,
                               after |-> next_oper'.ip])

----------------------------------------------------------------------------
\* adamant_schedule_program

\* Whether the trace broke off is reported last, however the loop ended.
Outcome(err) == IF err = "TMTIO_ERROR" THEN "failed" ELSE "done"

\* Mutant: the limit is compared with the count before this instruction.
EndOfIterationLate ==
    status' = IF opcount = config.maxopcount \/ done'
              THEN Outcome(tmterr')
              ELSE "running"

\* The end of the loop body: stop at maxopcount or when the DD code asks to.
EndOfIteration ==
    status' = IF opcount' = config.maxopcount \/ done'
              THEN Outcome(tmterr')
              ELSE "running"

\* The next instruction becomes the current one and another is read ahead.
ReadAhead ==
    /\ tmterr' \in TmtErr
    /\ Len(log) = MaxTrace - 1 => tmterr' # "TMTIO_OK"
    /\ next_oper' \in IF tmterr' = "TMTIO_OK" THEN Opers ELSE {next_oper}

\* History: setjmp is entered by an instruction that counts or by one that does not.
EnterSetjmp(o) ==
    setjmps' = IF config.respect_control /\ IsSetjmp(o)
               THEN Append(setjmps, [at |-> Len(log), ip |-> cdstack[1].ip])
               ELSE setjmps

\* Mutant: the counter is never reset.
BddTickNoReset == bdd_tick_time + 1

\* After every dd_tick_interval instructions the DDs are written out.
BddTick ==
    IF bdd_tick_time + 1 = config.dd_tick_interval THEN 0 ELSE bdd_tick_time + 1

\* An instruction that counts is scheduled; DD creation may run out of memory.
ScheduleNext ==
    /\ status = "running" /\ tmterr = "TMTIO_OK"
    /\ next_oper.effect
    /\ ~PreupdateFails(next_oper)
    /\ ReadAhead
    /\ \E predicted \in Predictions(next_oper, tmterr' # "TMTIO_OK") :
          ScheduleOper(next_oper, predicted, Preupdated(next_oper))
    /\ opcount' = opcount + 1
    /\ bdd_tick_time' = BddTick
    /\ done' \in {done, TRUE}
    /\ EndOfIteration
    /\ EnterSetjmp(next_oper)
    /\ UNCHANGED config

\* A nop, or an instruction without effect, only unwinds the stack.
SkipNext ==
    /\ status = "running" /\ tmterr = "TMTIO_OK"
    /\ ~next_oper.effect
    /\ ~PreupdateFails(next_oper)
    /\ ReadAhead
    /\ cdstack' = Preupdated(next_oper)
    /\ dopop' = FALSE
    /\ UNCHANGED <<config, tables>>
    /\ EndOfIteration
    /\ EnterSetjmp(next_oper)

\* g_error, g_assert and the copy of a missing call end the process.
Abort ==
    /\ status = "running" /\ tmterr = "TMTIO_OK"
    /\ PreupdateFails(next_oper)
    /\ status' = "aborted"
    /\ UNCHANGED <<config, next_oper, tmterr, tables, cdstack, dopop, setjmps>>

\* The trace ends, or breaks off with an error.
EndOfTrace ==
    /\ status = "running" /\ tmterr # "TMTIO_OK"
    /\ status' = Outcome(tmterr)
    /\ UNCHANGED <<config, next_oper, tmterr, tables, cdstack, dopop, setjmps>>

Next == ScheduleNext \/ SkipNext \/ Abort \/ EndOfTrace

Spec == Init /\ [][Next]_vars
----------------------------------------------------------------------------
\* Properties.

\* Every table holds values of its type; the tick counter stays below its interval.
TypeOK ==
    /\ config \in Configs
    /\ next_oper \in Opers /\ tmterr \in TmtErr
    /\ reg_info \in [Regs -> SchedInfo]
    /\ mem_info \in [Bytes -> SchedInfo]
    /\ mapped \subseteq Lines
    /\ windows \in [Windows -> [Slots -> Nat]]
    /\ mispredicted \in [WindowIds -> SchedInfo]
    /\ cdstack \in Seq(CDItem)
    /\ dopop \in BOOLEAN
    /\ cd_times \in [Branches -> [cd_din_src : Nat, info : SchedInfo]]
    /\ opcount \in Nat /\ bdd_tick_time \in Nat /\ finish_time \in Nat
    /\ config.dd_tick_interval > 0 => bdd_tick_time < config.dd_tick_interval
    /\ done \in BOOLEAN
    /\ status \in {"running", "done", "failed", "aborted"}

Scheduled == 1..Len(log)
LatencyOf(j) == Latency(log[j].oper)

\* When instruction j could start: its ready time without its own latency.
Start(j) == log[j].ready - LatencyOf(j)

\* i is the last instruction before j to write one of the places j reads.
Feeds(i, j) ==
    /\ i < j
    /\ \/ \E r \in (log[i].oper.writes \cap log[j].oper.reads) \ config.ignore_regs :
             \A k \in (i + 1)..(j - 1) : r \notin log[k].oper.writes
       \/ \E b \in log[i].oper.stores \cap log[j].oper.loads :
             \A k \in (i + 1)..(j - 1) : b \notin log[k].oper.stores

Travel(i, j) ==
    IF log[i].window # log[j].window THEN config.communication_latency ELSE 0

(***************************************************************************)
(* Read-after-write order, told from the trace alone: no instruction       *)
(* starts before the last writer of anything it reads is ready, and the    *)
(* value has travelled when the writer was in another window.  It fails    *)
(* when any path through registers, memory lines and window numbers loses  *)
(* a writer.                                                               *)
(***************************************************************************)
DataflowOrder ==
    \A i, j \in Scheduled :
        Feeds(i, j) => Start(j) >= log[i].ready + Travel(i, j)

\* The time at which the slot of instruction i frees.
Freed(i) ==
    IF config.w_type = "ooo" THEN log[i].ready
    ELSE MaxOf({log[k].ready : k \in {l \in 1..i : log[l].window = log[i].window}})

(***************************************************************************)
(* A window never holds more than WindowSize instructions: when one        *)
(* starts, fewer than WindowSize of the earlier ones in its window are     *)
(* still in flight (for a reorder buffer, not yet retired in order).       *)
(***************************************************************************)
WindowCapacity ==
    config.w_num > 0 =>
        \A j \in Scheduled :
            Cardinality({i \in 1..(j - 1) : /\ log[i].window = log[j].window
                                            /\ Freed(i) > Start(j)}) < WindowSize

Mispredicted(i) == log[i].oper.branch /\ ~log[i].predicted

DependsOn(j, i) ==
    log[j].oper.ip \in DOMAIN ControlDeps /\ log[i].oper.ip \in ControlDeps[log[j].oper.ip]

(***************************************************************************)
(* i is a call and j runs before it has returned for good: there were      *)
(* fewer returns to its return address than calls from the same place, and *)
(* a call that entered setjmp counts twice, since setjmp returns twice.    *)
(***************************************************************************)
Calls(o) == o.branch /\ o.call /\ Followed(o)
Returns(o) == o.branch /\ o.return /\ ~o.call /\ Followed(o)

CallsFrom(a, i, k) == {l \in i..k : Calls(log[l].oper) /\ log[l].oper.next = a}
ReturnsTo(a, i, k) == {l \in i..k : Returns(log[l].oper) /\ log[l].after = a}

\* setjmp entered between instructions i and k by a call that returns to a.
SetjmpsFrom(a, i, k) == {l \in 1..Len(setjmps) : setjmps[l].ip = a /\ setjmps[l].at \in i..k}

Inside(j, i) ==
    LET a == log[i].oper.next
    IN  /\ Calls(log[i].oper)
        /\ \A k \in (i + 1)..(j - 1) :
              Cardinality(ReturnsTo(a, i, k))
                 < Cardinality(CallsFrom(a, i, k)) + Cardinality(SetjmpsFrom(a, i, k))

\* Of the branches j depends on, i is the one executed last.
LastDependence(i, j) ==
    /\ DependsOn(j, i)
    /\ \A k \in (i + 1)..(j - 1) : ~(log[k].oper.branch /\ DependsOn(j, k))

Governs(i, j) == log[i].oper.branch /\ (LastDependence(i, j) \/ Inside(j, i))

\* The branches that govern instruction j.
Governors(j) == {i \in 1..(j - 1) : Governs(i, j)}

(***************************************************************************)
(* The times at which what a branch governs may go ahead: when it is ready *)
(* if it was mispredicted; a predicted branch passes on what it is itself  *)
(* governed by, or holds nothing up.                                       *)
(***************************************************************************)
Released ==
    LET released[m \in Scheduled] ==
          IF log[m].predicted
          THEN {0} \cup UNION {released[i] : i \in Governors(m)}
          ELSE {log[m].ready}
    IN  released

Between(i, j) == {k \in (i + 1)..(j - 1) : log[k].window = log[j].window}

(***************************************************************************)
(* Why instruction j may have to wait for instruction i until time t: it   *)
(* reads what i wrote; i is in the same window, far enough back for j to   *)
(* need its slot, or a mispredicted branch (in-order branches); or i is a  *)
(* branch that governs j.  Values travel from the window of i, and so does *)
(* what a predicted branch passes on.                                      *)
(***************************************************************************)
Delays(i, j, t) ==
    \/ Feeds(i, j) /\ t = log[i].ready + Travel(i, j)
    \/ /\ config.w_num > 0
       /\ log[i].window = log[j].window /\ t = log[i].ready
       /\ config.w_type = "ooo" \/ Cardinality(Between(i, j)) >= WindowSize - 1
    \/ /\ config.respect_control /\ config.inorder_branches /\ Mispredicted(i)
       /\ log[i].window = log[j].window /\ t = log[i].ready
    \/ /\ config.respect_control /\ Governs(i, j)
       /\ \E r \in Released[i] : t = r + Travel(i, j)

\* j reads a register or byte nobody has written: its value is in window 0 at the start.
ReadsInitial(j) ==
    \/ \E r \in log[j].oper.reads \ config.ignore_regs :
          \A k \in 1..(j - 1) : r \notin log[k].oper.writes
    \/ \E b \in log[j].oper.loads : \A k \in 1..(j - 1) : b \notin log[k].oper.stores

(***************************************************************************)
(* "The ready time is the earliest time that an instruction can be         *)
(* scheduled" (README): an instruction starts at cycle 0, or at the very   *)
(* moment something it has to wait for arrives: an initial value, or what  *)
(* an earlier instruction produced, freed or decided.                      *)
(***************************************************************************)
NoSpuriousDelay ==
    \A j \in Scheduled :
        \/ Start(j) = 0
        \/ /\ Start(j) = config.communication_latency /\ log[j].window # 0
           /\ ReadsInitial(j)
        \/ \E i \in 1..(j - 1) : Delays(i, j, Start(j))

(***************************************************************************)
(* In-order branches: nothing that enters a window after a mispredicted    *)
(* branch starts before that branch is resolved.                           *)
(***************************************************************************)
BranchOrder ==
    (config.respect_control /\ config.inorder_branches) =>
        \A j \in Scheduled : \A i \in 1..(j - 1) :
            (Mispredicted(i) /\ log[i].window = log[j].window)
                => Start(j) >= log[i].ready

(***************************************************************************)
(* An instruction waits for the last mispredicted instance of a branch it  *)
(* is control dependent on.  The very first instruction of the trace is    *)
(* left out: as a branch it has the number 0, which check_control_deps     *)
(* takes for a branch not executed yet (run schedule_first_branch).        *)
(***************************************************************************)
WaitsForBranch(i, j) ==
    (/\ DependsOn(j, i) /\ Mispredicted(i)
     /\ \A k \in (i + 1)..(j - 1) : ~(log[k].oper.branch /\ DependsOn(j, k)))
        => Start(j) >= log[i].ready

ControlOrder ==
    config.respect_control =>
        \A j \in Scheduled : \A i \in 2..(j - 1) : WaitsForBranch(i, j)

(***************************************************************************)
(* "Respect control deps listed in 'file'" (the help of --respect-cd): the *)
(* same of every branch, the first instruction of the trace included.      *)
(***************************************************************************)
RespectControlDeps ==
    config.respect_control =>
        \A j \in Scheduled : \A i \in 1..(j - 1) : WaitsForBranch(i, j)

(***************************************************************************)
(* A function runs under the control of its call: until a return, and      *)
(* across nested calls, nothing starts before the mispredicted call did.   *)
(***************************************************************************)
CallOrder ==
    config.respect_control =>
        \A j \in Scheduled : \A i \in 1..(j - 1) :
            (/\ log[i].oper.call /\ Mispredicted(i) /\ Followed(log[i].oper)
             /\ \A k \in (i + 1)..(j - 1) : ~log[k].oper.return)
                => Start(j) >= log[i].ready

(***************************************************************************)
(* Instruction numbers: the n-th scheduled instruction has number n - 1,   *)
(* the program never runs past maxopcount, and it only stops before the    *)
(* trace ends when maxopcount is reached or the DD code gives up.          *)
(***************************************************************************)
OpNumbers ==
    /\ opcount = Len(log)
    /\ \A j \in Scheduled : log[j].din = j - 1
    /\ config.maxopcount > 0 =>
         /\ opcount <= config.maxopcount
         /\ status \in {"done", "failed"} =>
              done \/ tmterr # "TMTIO_OK" \/ opcount = config.maxopcount

(***************************************************************************)
(* "maxopcount of 0 indicates run to finish, Notice that opcount will      *)
(* never be 0 here" (adamant_schedule.c 185): without a limit the schedule *)
(* ends with the trace, unless the DD code gives up.                       *)
(***************************************************************************)
RunsToFinish ==
    (config.maxopcount = 0 /\ status \in {"done", "failed"} /\ ~done)
        => tmterr # "TMTIO_OK"

\* Every recorded time is covered by finish_time, the length of the schedule.
FinishTimeCovers ==
    /\ \A r \in Regs : reg_info[r].ready <= finish_time
    /\ \A b \in Bytes : mem_info[b].ready <= finish_time
    /\ \A w \in Windows : WindowTail(windows[w]) <= finish_time
    /\ \A w \in WindowIds : mispredicted[w].ready <= finish_time
    /\ \A k \in 1..Len(cdstack) : cdstack[k].info.ready <= finish_time
    /\ \A b \in Branches : cd_times[b].info.ready <= finish_time

(***************************************************************************)
(* The choice of a window is greedy: in no other window would the          *)
(* instruction have been ready earlier.                                    *)
(***************************************************************************)
GreedyChoice ==
    [][Len(log') > Len(log) =>
         LET e == log'[Len(log')]
             srcs == Sources(e.oper, Preupdated(e.oper))
         IN  \A w \in WindowIds : e.ready <= ReadyTime(e.oper, w, srcs)]_vars

\* A window only moves forward: no slot it offers gets free earlier again.
WindowsMoveForward ==
    [][\A w \in Windows : WindowHead(windows'[w]) >= WindowHead(windows[w])]_vars
=============================================================================
