# Adamantium in TLA+

A verification development for Adamantium, the schedule analyser of the
ParaMeter toolkit (`src/adamant`, with the trace library `src/tmt/tmtlib` and the
schedule library `src/svt/svtlib`).  Adamantium reads the dynamic trace of a program and
gives every instruction the cycle in which its result would be ready on an ideal
machine, limited by data and control dependences and by instruction windows.  The
ready times end up in decision diagrams, which the ParaMeter GUI draws.

The modules are TLA+ translations of the C code, model-checked with TLC on small
instances and, where they carry most, proved with TLAPS for every value of the constants:
the scheduler for every trace, window size and command line, the trace format for every
program and every predictor table, the diagram files for every sequence of runs.

## 1. Inventory

### Components

| component | state it keeps | operations | what makes it correct |
|---|---|---|---|
| scheduler loop, `adamant_schedule.c` | the instruction read ahead, `reg_info`, the lines of `meminfo_pgtbl`, `opcount`, tick counters, `finish_time`, `done` | `adamant_schedule_program`, `adamant_schedule_oper`, `find_src_*`, `update_dst_*` | an instruction starts no earlier than its sources are ready, and no later than needed; numbers without gaps; stops when it should |
| instruction windows, `adamant_window.c` | per window a circular buffer (`rob`) or a heap (`ooo`), `head`, `tail`, `last_mispredicted_branch` | `adamant_window_insert`, `adamant_window_runtime_choose` | never more than `w_size` instructions in flight; the head is the slot that frees first; the choice is greedy |
| heap, `heap.c` | array of entries, its capacity | `HeapInsert`, `HeapPeek`, `HeapNext`, `HeapDelete`, `HeapCheck` | parents before children, nothing lost |
| control dependences, `adamant_cd.c`, `adamant_cd_impl.h` | call stack with `dopop`, branch table `control_dep_times` | `preupdate_cdstack`, `check_control_deps`, `update_cdinfo`, annotation parser | an instruction waits for the last mispredicted branch or call it is under the control of, and for no other |
| branch prediction, `adamant_branch_prediction.c` | pattern history table, history register, accuracy counters, most likely targets | `adamant_predict_branch`, `adamant_bp_read_distribution` | counters stay in two bits; the table is indexed alike when read and when written |
| latency, `adamant_latency.c` | none | `adamant_compute_latency` | one cycle, or none for the stack |
| induction-variable expansion, `adamant_optimize.h` | chains of counted nodes from registers and stack bytes, an interval counter | `adamant_IVE_chain`, `_link`, `_link_to_mem`, `_link_from_mem`, `_read`, `_reset`, `_garbage_collect` | an addition sees the result N additions back; counts are exact |
| page tables, `adamant_meminfo_pagetable.c`, `svtlib/pagetable64.c` | a radix tree, a two-way hash cache | lookup, add, destroy | a map from lines to entries, whatever the cache holds |
| initialisation and splitting, `adamant_runtime.c`, `adamant_split_oper.c` | the runtime structure, the table of second halves | `adamant_initialize_runtime`, `adamant_free_runtime`, `adamant_split_opers` | steps in an order that respects what each needs |
| trace format, `tmt.c`, `tmtio.c`, `TCgen.c` | open files, the table of static instructions, predictor tables of the compressor, one set in the tracer and one in the reader | write static and dynamic instructions, link to a next file, read | what is written is read back; the two sets of tables stay in step; the end of a trace is told from an error |
| Itanium renaming, `tmt_ia64.c` | register stack, rotation bases | `ia64_translate_regs`, `ia64_update_renameinfo` | one physical register for each live virtual one |
| decision diagrams, `adamant_bdd.c`, `adamant_zdd.c`, `adamant_dd_hot.c` | one diagram for each kind of tuple, a file for each, buffers, worker threads (`THREADED` is 0) | load, add a tuple, tick, give up for lack of memory, finalise | a file that can be read has the tuples of every instruction it says it has; a run that goes on from files leaves no gap |
| buffers of tuples, `adamant_bdd_buffer.c`, `_layer.c`, `_bucketlayer.c`, `_sort.c` | layers of sorted buffers (only with `LAYERS`) | insert, spill, merge | no tuple is lost between layers |
| schedule files, `sched_io.c`, `TCgen_sched.c` | block index, current block | write, read, seek | blocks are found again by time |
| statistics, plots, symbol table, `adamant_stats.c`, `adamant_plot.c`, `adamant_bfd.c` | histograms | count, print | read by nobody else |
| command line, `adamant_config.c`, `adamant.c` | `AdamantConfig` | parse | - |
| trace reversal, `traceman/njatr` | a queue of compressed blocks | read blocks backwards | the reverse of the trace |
| liveness analyser, `traceman/tla` | live registers and bytes, bins | one step per instruction of a reversed trace | live from the write to the last read |
| slices, `bddwork.cpp`, `zddwork.cpp` | diagrams, an image | range traversal, forward and reverse slices, hot code | a slice is the closure of the dependences |
| tracers and tools in `src/tmt`; ParaMeter GUI; CUDD | - | - | operating-system and Pin dependent; rendering; third party |

### Interaction

Everything in Adamantium runs in one thread (the diagram workers are switched off by
`int THREADED = 0`) and is driven by the loop of `adamant_schedule_program`.  For each
instruction of the trace it unwinds the call stack, collects pointers to the `SchedInfo`
records of the sources (`find_src_regs`, `find_src_mems`, `check_control_deps`), chooses
a window by the ready time it would give, computes the ready time, inserts it into the
window, overwrites the records of the destinations, updates the branch table and the
call stack, and hands the result to the diagrams and statistics.  The components share
the runtime structure; the only feedback from the output side is `runtime->done`.

Two interfaces reach beyond the process.  The trace comes from a tracer: it writes, for
each field of an instruction, the number of the predictor that would have guessed it, and
the reader can only decode that while its own predictors have learned exactly
what the tracer's had.  And the diagrams go to files, which a tick overwrites in the middle
of a run and the next run loads to go on from.

### What is hard

* The result is a single number per instruction.  A lost writer, a stale window number
  or a window that frees a slot too early or too late changes the schedule and fails
  nothing: there is no oracle in the repository, and no test.
* State is updated in an order the code relies on: sources are pointers into tables
  that the same instruction overwrites, the stack is unwound one instruction late, the
  prediction needs the instruction read ahead.
* Zero has several meanings: no limit and no instruction yet, the first
  instruction and no branch executed, never written and ready at the start.
* Shared, counted nodes that are cut by a collector while other chains run through them.
* Initialisation by hand-written order.

* Tracer and reader are different processes with tables that must agree, although nothing
  but guesses passes between them: one field that is learned on one side only garbles
  everything after it, without an error.  The end of a file is reported now with the last
  bytes, now one call later.  A traced program that crashes leaves an empty program file.
* The diagram files outlive the run.  Opening one empties it, a tick opens all of them and
  stores the last, a run may break off between any two steps or for lack of memory, and
  the next run decides from the headers alone where to go on.

There is no second thread on these paths (`THREADED` is 0) and no message that could be
reordered, so hazards of these kinds are not listed.  `PROJECT.json` lists the hazards
the code does have, each at its line with the properties that cover it.

## 2. Modules

```
WindowOps            window as an ordered list of times   (operators)
  IssueWindow        the abstract window as a system
  AdamantWindow      circular buffer and heap   --implements--> IssueWindow
    AdamantWindow_proofs
  AdamantSchedule    the scheduler, on top of the abstract window
  WindowOps_proofs   facts about windows and maxima
    AdamantSchedule_proofs    data flow; what full windows, mispredicted branches and calls hold up
      ScheduleCauses_proofs   nothing else holds up anything
InductionChains      what --ive promises
  InductionVariables counted, collected nodes   --implements--> InductionChains
    InductionVariables_proofs
LineMap              a map from lines of memory to entries
  PageTable          radix tree and hash cache  --implements--> LineMap
    PageTable_proofs
TraceCodec           the predictors of TCgen.c   (operators)
  TraceFile          tracer, files and reader
    TraceReplay      TraceFile + BranchPrediction, by the loop of the scheduler
      TraceReplay_proofs
BranchPrediction     two-bit counters, history register, likely targets
DdOutput             diagrams and their files, over several runs
  DdOutput_proofs
RuntimeInit          order of initialisation, splitting of instructions
MCWindow, MCSchedule, MCInduction, MCPageTable, MCTraceReplay, MCDdOutput,
MCRuntimeInit        values for TLC
```

**WindowOps, IssueWindow.**  A window is the list of the times at which its `WindowSize`
slots become free, in order.  Inserting an instruction drops the first and puts the time
at which the new one leaves in its place: its ready time, or, in a reorder buffer, not
before its predecessor.  `WindowSizeAssumption` (at least one slot) is what the code
needs; the option parser does not check it (hazard at `adamant_window.c:114`).

**AdamantWindow.**  The two real data structures: `rob` with `ptr` and modular
arithmetic, and the binary heap of `heap.c` with `HeapNext` followed by `HeapInsert`.
`ready >= head` in `Insert` is the caller's guarantee (`adamant_schedule_oper` takes the
maximum with the head).  `ImplementsIssueWindow` maps both to the abstract window, so
that the scheduler need only be modelled with that one.

**AdamantSchedule.**  One action per way through the loop body: `ScheduleNext`
(an instruction that counts), `SkipNext` (a nop or one without effect, which still
unwinds the stack), `Abort` (the assertions of `preupdate_cdstack` and `cdstack_pop`)
and `EndOfTrace`.  The tables are the C tables; `log` is a history of what was
scheduled, with the address of the instruction `after` each, and `setjmps` one of the
entries of `setjmp`, with the address the call that entered it returns to; the properties are
stated from them without looking at the tables.
The source array is the set of the values its pointers lead to.  An
instruction is a record of what the code asks of it; a trace is any sequence of `Opers`;
a command line any member of `Configs`.  What a diagram tick may do to the scheduler is
the choice of `done'`.  The predictor's answer is a choice among those
`adamant_predict_branch` can give for that kind of instruction.

**InductionChains, InductionVariables.**  The abstract module has, for every register
and stack byte, the list of results a value was built from.  The detailed one has the
nodes, with `parent` and `ref_count`, the growing array `induction_vars`, and the
collection after every `ADAMANT_IVE_GC_INTERVAL` additions, walking the registers and
then the memory as the code does.  Its actions are PowerPC instructions by
their effect on the chains; a move or extension that writes something other than a general-purpose
register resets that register, which is an `Other` but for the read.  Freed nodes leave `opti.heap`, so a use after free is
an application outside the domain, which TLC reports.

**LineMap, PageTable.**  The table behind `find_src_mems` and `update_dst_mems_ready`.  A
node of the tree is its path, an entry the number of its allocation; the walk of a lookup
is the question whether every interior node on the path exists (`Reached`).  The hash table
is as in the code: the second bucket is looked at only when the first is empty, a walk that
reaches the bottom stores what it finds there, NULL included, and an addition does not
touch it.  `line` is a history variable, so that the refinement cannot confuse one line's
lookup with another's.  `AdamantSchedule` uses the map (`mem_info`, `mapped`) in its place.

**TraceCodec.**  The encoders and decoders of `TCgen.c`, one operator for the eight of each,
which differ in whether a guess is a value or a distance from the last one (`Strided`).
`Learn` is the update both sides make, `Encoded` adds the counts of right guesses, by
which only the writer chooses among guesses that are right.  The hash functions are constants:
losslessness may not depend on them.  `CodecAssumption` gives them and the tables their types.

**TraceFile.**  Tracer and reader.  `records` is what is in the files, `sent` the values it
stands for, `encs` the writer's tables before each record (both histories; no action of the
reader looks at them).  `LoadImage` enters static instructions (`oper_table`), `WriteDynamic` and
`WriteAndLink` are `tmt_writecontext_write_dynamic` without and with a change of file,
`Exit` and `Crash` the two ways the traced program ends: the program file (`program`) is written
by the first only, and is what the reader looks static instructions up in.  `OpenTrace` is `tmt_readcontext_new`, `Read` (in `ReadFirst` and `Iterate`) the
whole of `tmt_readcontext_read`: the number is decoded first, the static instruction it
names says which fields follow, each decoded value trains its tables, and an assertion compares
what was consumed with the record.  `late` is libbz2's choice whether the end of the file
comes with the last byte or after it.  `TraceAssumption` says what the tracer guarantees: fields and
values fit, the link is an instruction of its own.

**BranchPrediction, TraceReplay.**  The predictor (`pht`, `bhr`, the likely targets,
`branch_pred_accuracy`) and its composition with the trace: each iteration reads one
instruction, hands the one before it to the predictor, and names the one just read as its
successor if there is one.  The properties of the predictor are told from the trace alone.
The history is the vector of its bits.  `PredictionAssumption` types the tables, and says that a line
of likely targets names at least one, without which the code would use an uninitialised target, and that
the target of a direct call or return is 0 or 1: `adamant_predict_branch` asserts it and ends
the process otherwise, a step the model leaves out.

**DdOutput.**  A diagram is the set of instructions whose tuples it has, a file is absent,
torn (opened, nothing stored) or saved with the tuples and the `dd_stop_din` of its header.
`Start` is a program start with its loading, `Schedule`, `OutOfMemory` and `MemoryCap` an
instruction with its tick, `Finalize` the end of the loop.  A saving is a set of `OpenFile`
and `Store` steps in the order of the code, so that `Crash` can come between any two.
A BDD header always says `dinstart:0`, even after `--ddstartdin`; a diagram's file is
judged by what lies between the start the run was given and the end the header claims (`Complete`).
`Finalize` saves the diagrams that are built; the code asks for a file name instead, which comes
with the same option.
`built`, `foreign` and `broken` are histories: which diagrams were asked for, whether one was
loaded that the run does not build, whether a run broke off.  `DdAssumption`
types the constants.

**RuntimeInit.**  The steps of `adamant_initialize_runtime` that `--split-post-incr`
depends on, in the order of the code, and the inner loop of the scheduler for split
instructions.  Since the run `split_init` shows that no instruction is ever split, the
scheduler module schedules whole instructions.

`PROJECT.json` maps every definition to its lines.

## 3. Runs

| run | question | bounds |
|---|---|---|
| `window` | do the circular buffer and the heap keep their order and implement the abstract window? | 5 slots, so that the heap has a node with one child and three levels; times up to 6, so that every comparison of old, new and equal times occurs |
| `schedule_windows` | dataflow, capacity, minimality, numbering, greedy choice, progress of windows | traces of 5 instructions, at most 4 or 5 that count; two windows of two slots; two registers, two bytes of one line, one of them on the stack; command lines with and without windows, both window types, communication latency 1 and 2, ignored register, ignored stack, limits |
| `schedule_control` | branches, calls, returns, setjmp | traces of 5 from seven instructions: a branch that depends on itself, a call, its return address, entry of setjmp, a return; five command lines with and without prediction, in-order branches, one or two windows |
| `induction` | do the counted nodes implement the chains? are counts exact? | two registers (0 and 1 are numbers; register 0 has no chain, so the array has a gap), two stack bytes written together or apart, factors 0 to 3, a collection with every second addition, 5 nodes |
| `page_table` | is the table a map? is all of it freed? | four lines in a tree of three levels that share no, one or two nodes; two buckets, so that every line competes with every other in both |
| `trace_replay` | is the trace read back as written, to its end? does the predictor learn what it should from it? | traces of 4 records, two images, seven executions: a return with two addresses it loads from, a branch taken or not, a jump, a call, a system call with every field; values modulo 8, two rows and four contexts in the predictors, so that instructions share rows and histories collide; history of 2 bits; a change of file after two writes |
| `dd_output` | which files can be trusted after several runs? | three runs of up to 3 instructions, a tick with every second one; one diagram, two, or that of system calls; BDDs and ZDDs; a crash or lack of memory anywhere |
| `schedule_first_nop`, `schedule_first_branch`, `split_init`, `induction_assert`, `trace_link` | statements of comments, help texts and assertions that do not hold | as above |

Why the bounds are enough: a dataflow error needs a writer, an overwriter, a reader and
something in between; capacity needs one instruction more than two slots; the
prediction and call rules need a call, something inside, a return and
something after.  Five instructions make all of them happen, and the mutants listed in
`PROJECT.json` (dropped resets, swapped orders, missing maxima, wrong ends of a
list) are all found within them.  A literal, a right first guess and a right second one come within three
records of one instruction, and the fourth is decoded with what they taught; the change of a file
needs two writes before it and leaves two records after.  Three runs are enough for one to
leave a file, one to extend it and break off, and one to go on from what is there.  These
are bounded only for TLC: `MaxTrace`, `MaxTime`, `NodeBound`, `MaxRecords`, `MaxOps` and
`MaxRuns`.

`MCInduction` uses a `VIEW`: which chunk of memory a node gets is the allocator's business
and nothing compares node addresses, so states that differ in the numbering of nodes
(or in `source`, which no action reads) are one state.  The view numbers the nodes
in the order in which they are met from the registers and from memory; a node that
cannot be met still takes part with its count, so a leaked node is not hidden.

The runs have `CHECK_DEADLOCK FALSE` where the program stops: at the end of a trace, at
an assertion, or when the bound on nodes, traces or runs is reached.  `window` checks for
deadlock, because an insertion is always possible.

### What the properties say

* `DataflowOrder`: no instruction starts before the last writer of a register or byte it
  reads is ready and its value has travelled between windows.  It is told from the trace
  alone, so that a mistake in any of the tables shows.
* `NoSpuriousDelay`: its converse, minimality.  An instruction starts at cycle 0, or at the
  very cycle in which something it has to wait for arrives.  `Delays(i, j, t)` says what that may
  be, from the log alone: the value of the last writer of something it reads, with its travel; a slot
  that instruction i frees; a mispredicted branch of its window; or a time in `Released[i]`, where
  i is the branch it depends on that was executed last (`LastDependence`) or a call that has not
  returned for good (`Inside`: fewer returns to its return address than calls from the same place, where a
  call that entered `setjmp` counts twice, and no more often than that).  A mispredicted branch releases
  what it governs when it is ready, a predicted one passes on what it was itself released by.
  Together with `DataflowOrder`, `WindowCapacity`, `BranchOrder`, `ControlOrder` and `CallOrder` it
  pins the ready time from both sides.
* `WindowCapacity`: when an instruction starts, fewer than `WindowSize` earlier ones of its
  window are in flight.
* `BranchOrder`, `ControlOrder`, `CallOrder`: what a mispredicted branch or call holds up.
* `GreedyChoice`, `WindowsMoveForward`: about every step; the choice of a window and the
  time it then gives are computed in two functions that have to agree.
* `OpNumbers`, `FinishTimeCovers`: numbering, limits, and the reported length.
* `RobInProgramOrder`, `HeapCheck`, `ImplementsIssueWindow`: the data structures.
* `RefCounts`, `ImplementsInductionChains`: the nodes.
* `ImplementsLineMap`, `NothingLeaks`: a lookup finds the entry of its line whatever the cache
  holds, and the destruction reaches every node and entry.
* `Lossless`, `InStep`: what is read is what was written, and the tables of both processes
  agree before every record.
* `ProgramTellsAll`: whoever gets past opening the program file finds in it the instruction of
  every record, the links included, which are entered while the trace is written.  A crashed tracer
  leaves nothing that looks complete.
* `AbortsAtLink`: the reader's assertion fails at the end of a file that has a successor, and
  nowhere else; so it is disagreement 5 and not a wider one.
* `WholeTrace`: the loop processes a prefix of the trace in order.  The last instruction is
  dropped when the end comes with it, and processed when the end comes late, in which case
  the trace is said to have ended abnormally.
* `TraceEnds`: a complete trace is processed to that end, or to the assertion (liveness).
* `HistoryIsPath`, `LearnsTwice`, `AccuracyCounts`: the history register is the path of direct
  branches; a branch that did the same twice on a path is predicted to do it again; indirect
  branches are judged by the target the annotations give most weight to.
* `OneDiagramIsSafe`, `SteadyRunsAreSafe`: when every readable file is complete.  With one
  diagram always, wherever runs break off.  With several only while the same ones are
  built and no run breaks off, and for ZDDs only the last of them is ever stored.
* `ResumesEarlyEnough`: a run that goes on from files with different ends starts at the
  earliest of them, so that no diagram that was read complete gets a gap, however far the others had
  come and even if a file of a further diagram is new, lost or torn.  That further diagram has a gap
  itself, which its header does not tell, and so has one whose file ends at 0, because 0 is taken for
  unset: the property states neither, and nothing in the repository says what should happen then.

### Disagreements found

1. `schedule_first_nop`: a trace that begins with a nop ends after it when no limit
   is given, against the comment at `adamant_schedule.c:185`.
2. `schedule_first_branch`: a branch that is the first instruction of the trace is not
   respected as a control dependence: its number 0 means "not executed".  `ControlOrder` is
   the same statement for all later branches and holds.
3. `split_init`: `--split-post-incr` never splits anything, because the types it looks at
   are assigned later in the initialisation.
4. `induction_assert`: `adamant_IVE_read` grows the array if `reg > len` and then asserts
   `reg < len`.
5. `trace_link`: `tmt_readcontext_read` asserts that it has read every byte of a record
   (`tmt.c:685`).  The record that links to the next file has a code for `sys`, which the
   reader looks for in system calls only (`tmt.c:557`), so it aborts there; a trace of more
   than one file is never read to its end.

### Fairness

`TraceReplay` assumes weak fairness of the reader's four actions `Open`, `First`, `Schedule`
and `Stop`: it is a program that runs by itself, and nothing it does waits for anybody once
the trace is there.  Nothing is assumed of the tracer: a traced program need not go on, exit
or crash.  `TraceEnds` therefore starts from a tracer that has exited; of one that crashes
`ProgramTellsAll` speaks.

No other run assumes fairness.  The scheduler is one sequential loop over an input of unknown
length: that it terminates is a property of the trace, and within one iteration there is
nothing it could wait for.  Diagrams may always be cut short by a crash.

## 4. Proofs

All proofs are checked by TLAPS.  `WindowOps_proofs`, `AdamantSchedule_proofs`
and `ScheduleCauses_proofs` are about the scheduler.  Assumptions:
`WindowSizeAssumption` (a window has a slot) and `ScheduleAssumption` (the
constants have their types, and an instruction has finitely many sources).

| theorem | statement |
|---|---|
| `ScheduleInvariant`, `TypeCorrect` | types of all tables, for every trace |
| `FinishTimeCoversAll` | no recorded time is later than the reported length |
| `WindowsOnlyMoveForward` | no head ever goes back |
| `ChoiceIsGreedy` | the chosen window is a best one, for any number of windows |
| `OpNumbersHold` | numbering and limits |
| `DataflowOrderHolds` | read-after-write order for traces of any length |
| `WindowCapacityHolds` | capacity of the windows, for every number, size and type of them |
| `BranchOrderHolds`, `ControlOrderHolds`, `CallOrderHolds` | mispredicted branches and calls hold up what they should |
| `NoSpuriousDelayHolds` | nothing is held up without a cause: every start is the arrival of something waited for |
| `WindowInsertFact` | an insertion keeps a window ordered and its head from going back |

The argument.  `TypeOK` is not inductive: the ready time is a maximum over values from
every table, computed with `MaxOf`, a `CHOOSE` that means something only for a finite,
non-empty set of numbers; and an insertion keeps its promises only for an ordered window.
So the invariant `ScheduleInv` adds `WindowsOrdered` and `FinishTimeCovers` to
`TypeOK`.  `MaxOfFact` shows that a finite set of numbers has a maximum (a smallest subset without one
would lose an element and have one);
`SourcesFact` that the sources are finitely many and recorded; `ScheduleOperFact`
collects what one scheduled instruction does to each table.

`CountInv` adds to the numbering that a running schedule is below its limit: `OpNumbers`
alone would allow a run that goes on at the limit.

`LastWriterInv` is what makes `DataflowOrder` inductive: every register and byte holds the
ready time and window of its last writer in the log, and a byte that was ever
written is on an allocated line, so `find_src_mems` finds it.  The new entry of the log
starts after everything it was looked up for (`NewEntryWaits`), and becomes the last
writer of exactly what it writes.

`WindowCapacity` speaks of the log, the scheduler only of heads of lists.  `CapacityInv`
relates the two at every slot: when the k-th slot is free, at most `WindowSize - k` earlier
instructions are still held (`SlotsBound`), and the tail is the latest ready time
so far (`TailIsLatest`), which is what a reorder buffer retires by.  `NewSlots` is the
combinatorial step: sliding a time into the list moves the slots in front of it up by one, and
just these hold one more.  The new instruction starts no earlier than the head, the first slot.

Each of `BranchOrderHolds`, `ControlOrderHolds` and `CallOrderHolds` has an invariant that says what the
scheduler remembers of the past: `InorderInv`, that `mispredicted` of a window is no
earlier than any mispredicted branch in it; `InstancesInv`, that `cd_times` has the last instance
of every branch (its exception, instruction 0, is the disagreement of section 3); `CallInv`, that the
top of the stack is no earlier than any open call, and that an unwinding is due only right
after a return.

`NoSpuriousDelay` goes the other way and needs a witness in the log for every time the scheduler keeps.
`CauseInv` names one for each table: `WritersInv` and `HoldsInv` the last writers and the mispredicted
branch of each window; `SlotsInv`, for slot k of a reorder buffer, an instruction that is ready just when the slot is
free and has at least `WindowSize - k` later ones in its window, so that a new one that waits for the head
really is a whole window behind; `DepsInv` the last instance of every branch, with a time it
releases; `StackInv` a call for every frame.  The last is the subtle one: a frame belongs to the call only
as long as that has not returned, which the property counts from the log, while the
code pops to the first frame with the right address and `setjmp` doubles one.  `Owned` therefore
gives every frame *room*: the number of frames at and above it with its own return address, less one for an unwinding that
is due, is at most the surplus of calls over returns since its call, every entry of `setjmp` by a call with
that return address counted in (`CountedLonger`, `OwnedScheduled`, `OwnedUnwound`).
`Released` is a recursion over the log; it exists because each step lengthens the log by one
instruction whose governors all have their times (`PassesExtended`), and `ReleasedInv` carries that along.

`AdamantWindow_proofs`, from `WindowSizeAssumption` alone:

| theorem | statement |
|---|---|
| `WindowInvariant`, `WindowTypeCorrect` | the buffer and the heap, for every size |
| `RobKeepsProgramOrder`, `HeapStaysInOrder` | the order of each |
| `WindowIsImplemented` | both implement `IssueWindow`, for every number of slots and all times |

`WindowInv` says that `InFlight`, the slots in the order in which they become free, is a window, that its ends
are the `head` and `tail` the scheduler sees, and that the heap is in order and has the times
of that window: for every t as many that are no later than t (`SameTimes`), which is how a list in order and an
unordered structure are compared without a permutation.  For the circular buffer this is arithmetic modulo the
size (`RingInsert`), one slot included.  For the heap, `HeapNext` and `HeapInsert` sift by recursive functions; what
they keep is shown by induction over positions (`IntervalInduction`, from the least
counterexample): one hole moves along a path, everything else stays in order, and a bijection of positions
counts the times.

`PageTable_proofs` proves that the page table implements `LineMap` (`PageTableIsMap`) for
every depth and any two hash functions, under `PageTableAssumption` (a level at least, lines
are paths, buckets are indices of the hash table).  Its invariant needs nothing about what
is in the hash table beyond the type: `EntriesInPlace` says that each entry hangs in the tree
at the address it carries, so the comparison of the address on a hit is enough; and
`TreeComplete` that no walk to an entry ends early.  `DestroyFreesAll`: the recursive destruction frees every node and entry.
`TreeClosed` says that every node hangs below the root by nodes that exist, on the way to some line, so the
recursion, level by level, meets them all.

`TraceReplay_proofs`, from `CodecAssumption` and `TraceAssumption`:

| theorem | statement |
|---|---|
| `RoundTrip` | one value comes back through tables that agree, for every hash function and modulus |
| `CodecInvariant`, `TraceIsLossless`, `TablesInStep` | traces of any length, programs of any size |
| `LoopInvariant`, `LoopProcessesTrace` | the loop processes the trace in order and ends where it should |
| `ProgramIsComplete` | the reader knows the instruction of every record, whenever the tracer dies |
| `ReaderAbortsAtLinks` | the reader fails at links to next files, exactly |
| `PredictInvariant`, `ReplayTypeCorrect` | the tables of the predictor, for every trace and annotation file |
| `HistoryHoldsPath` | the history register is the path of direct branches |
| `PredictorLearnsTwice` | a counter whose last two branches agreed predicts the same again |
| `AccuracyIsExact` | the accuracy counters are what the trace says |

`Lossless` is not inductive: a value comes back only if the tables agree, the tables agree
only if everything before came back, and the reader must know from the static instruction
which fields to look for.  `CodecInv` says so of the files (`Coded`: each record is the
encoding of its values with the tables the writer had, and these are what the values before
trained) and of the reader, for whom `InStep` compares its tables with `encs` at its own position,
long after the writer has gone on.  `ProgramInv` adds that only a program file written on exit, which
is the whole `oper_table`, gets a reader past its opening.  Agreement excepts `usecnt`, which the decoder does not
keep; so `RoundTrip` must show that the choice among right guesses does not matter.
`LoopInv` relates the loop's place to the reader's and to `tmterr`.

The last four also need `PredictionAssumption`.  `PredictInv` ties each counter to the last two branches of the
processed trace that used it (`Learnt`): if they agreed, the counter says so, and one of its last use alone keeps it from
the far end of the scale, whatever it was before.  The counter of a branch is chosen by the outcomes of the direct branches before it, so
one more branch shifts the path by one, and the row that is read for a prediction is the one that is trained by it.

`DdOutput_proofs`, from `DdAssumption`: `TypeCorrect`, `SingleDiagramsAreSafe` and
`RunsResumeEarlyEnough` and `SteadyRunsLeaveCompleteFiles`, for any number and length of runs.  `OneInv` carries the first
safety property through a run: while it goes on, the diagram in memory has every
instruction up to `opcount`, because the one file it may have been loaded from was complete and
`StartDin` is no later than where that ended; and nothing is stored that was given up.  `EarliestEnd` is the arithmetic of the four
nested comparisons.  `SteadyInv` adds, for several diagrams, where a saving is: the files it has not
opened yet are as the last run left them, an opened one is torn until it is stored, and
while nothing has broken off every diagram in memory has what its header will claim.

`InductionVariables_proofs`, from `VariablesAssumption` (finitely many registers and bytes, an
access has a byte and lies on the stack): `InductionInvariant`, `InductionTypeCorrect`,
`InductionCountsAreExact` and `InductionChainsAreImplemented`.  A count says nothing as long as a circle of nodes could keep itself alive, so
`InductionInv` says first that the nodes form trees (`NoCircle`: of any nodes, one has its parent elsewhere) and then
that each count is the entries of the two tables that point to the node (`Ext`) plus its children
(`Sound`).  Unref, the cut of a collection and a read go up the trees by recursion;
each recursion has a value because a smallest set of nodes it is undefined on would lose one
(`ForestRecursion`).  An unref that frees a whole branch is taken apart
node by node (`UnrefSound`, from the smallest heap it would go wrong on).  A store counts
all its pointers first and releases the old ones byte by byte, so in between the counts run ahead
of the table (`LinkToMemSound`).  `RefCounts` counts all pointers at once; `PointersCount` splits them into registers,
bytes and nodes.

The refinement maps a node to what can be read from it on (`Run`), and shows for each operation
that one register, or the bytes of one store, read something else and everybody else the same
(`Becomes`).  An unref only takes nodes away that nobody reads (`RunBelow`).  A
collection cuts a chain, which changes what some nodes read but no entry of a table:
every way up from an entry to the cut has `unroll_factor` nodes at least
(`CutDeep`), because the count starts again wherever another pointer comes in and the nodes after that have one
child and no entry (`DeepStep`).  An addition keeps at most `unroll_factor` results, as the chains do (`RunNew`), and a
read goes to the last of them (`ReadLast`).

Nothing is proved about `RuntimeInit`, whose one run shows disagreement 3.  `TraceEnds` is liveness and stays with TLC.

## 5. Not modelled, and why

* Itanium (`ia64_translate`): register rotation, and predicate registers as 64 sources.
* The PowerPC paths of `update_dst_regs_ready` only exist with `--ive`; they are in
  `InductionVariables`, not in `AdamantSchedule`.  Their composition is planned.
* Statistics, variance and plots: nothing is read back from them.
* Inside the diagrams: CUDD's nodes and variable orders, slices, hot code (`DINxHOT`), worker
  threads (`THREADED` is 0), and `LAYERS`, which no Makefile defines.  Of the diagrams only
  `done` reaches the scheduler.
* libbz2 is external; byte order, side traces of other tools and the old program file are
  left out, as is `write_dynamic` called by several threads of a traced program.  A program that
  unloads an image and loads it again enters no instruction twice; here it loads each image once.
* Schedule files (`--store-schedule`): a block is encoded by the predictors of `TraceCodec`,
  restarted with it; the index and seeking are not modelled yet.
* Parsing of options, annotations and traces: their results are constants.
* The widths of `guint64` ready times and of `guint` window numbers: a trace would need
  2^64 cycles.
* The GUI, the tracers and CUDD: rendering, operating system, third party.

## 6. Plan

In the order of their weight for the results Adamantium reports:

Done: the scheduler with windows and control dependences, the page tables, the induction
variables, initialisation, the trace format with the predictor behind it, the diagram files.
Left:

1. Composition of `InductionVariables` with the tables of `AdamantSchedule`: chains left
   behind by untyped stores (`adamant_schedule.c:750`), the check of the stack's end with
   a size of 0 (`adamant_schedule.c:752`).
2. `ScheduleFile`: blocks of `sched_io.c` and their index; writing, seeking and reading.
3. `DdThreads`: hand-off of tuples to workers and the final merge in `adamant_bdd.c`, with
   liveness under weak fairness of every worker; the code as it stands with `THREADED` set.
4. `DdBuffers`: buffers and layers (`LAYERS`), no tuple lost or doubled.
5. `RegisterStack`: Itanium renaming.
6. `TraceReversal`: `reverser.c`; then the liveness analyser that reads its output.
   After the diagrams, the slices of `zddwork.cpp` against the closure of a relation.
7. Teardown of the runtime (`adamant_free_runtime`), as part of `RuntimeInit`.

Proofs to come: those of the modules above; what holds of the modules there are is proved, except for
liveness, which stays with TLC.
