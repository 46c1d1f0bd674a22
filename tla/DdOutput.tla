------------------------------ MODULE DdOutput ------------------------------
(***************************************************************************)
(* adamant_bdd.c and adamant_zdd.c: the decision diagrams of a run, the    *)
(* files they are saved to while it goes on and when it ends, and the next *)
(* run, which goes on from what the last one left there.                   *)
(*                                                                         *)
(* A diagram is a set of tuples, some for each instruction.  Here it is    *)
(* the set of instructions whose tuples it has: runs of one program give   *)
(* an instruction the same tuples each time.                               *)
(***************************************************************************)
EXTENDS Integers

CONSTANTS
    Choices,            \* sets of diagrams a run may be asked for
    dd_tick_interval,   \* instructions between two savings
    MaxOps, MaxRuns     \* bounds on a run and on their number

\* In the order in which they are built and saved; only ZDDs have dinsys.
Kinds == {"dinrdy", "dinsys", "dinsin", "dindin"}
rank == [k \in Kinds |-> CASE k = "dinrdy" -> 1 [] k = "dinsys" -> 2
                           [] k = "dinsin" -> 3 [] OTHER -> 4]

ASSUME DdAssumption ==
    /\ Choices \subseteq SUBSET Kinds /\ {} \notin Choices
    /\ dd_tick_interval \in Nat /\ MaxOps \in Nat /\ MaxRuns \in Nat

VARIABLES
    use_zdds, g_dinstart,   \* options, the same for all runs
    files,                  \* what is in the file of each diagram
    phase,                  \* of the program: idle when it does not run
    limit,                  \* instructions this run schedules, if nothing stops it
    doit, dd,               \* the diagrams, those that are being built
    g_dd_start_din,         \* first instruction that is added
    opcount, bdd_tick_time, done,
    opening, storing,       \* what is left to do of a saving
    runs, built, foreign, broken  \* of all runs so far (history)

ddVars == <<use_zdds, g_dinstart, files, phase, limit, doit, dd, g_dd_start_din,
            opcount, bdd_tick_time, done, opening, storing,
            runs, built, foreign, broken>>
historyVars == <<runs, built, foreign>>
optionVars == <<use_zdds, g_dinstart>>

\* fopen empties a file; it stays torn until something is stored.
Absent == [is |-> "absent", dins |-> {}, stop |-> 0]
Torn == [is |-> "torn", dins |-> {}, stop |-> 0]
Saved(dins, stop) == [is |-> "saved", dins |-> dins, stop |-> stop]
Readable(k) == files[k].is = "saved"

Init ==
    /\ use_zdds \in BOOLEAN /\ g_dinstart \in {0, 1}
    /\ files = [k \in Kinds |-> Absent]
    /\ phase = "idle" /\ limit = 0
    /\ doit = {} /\ dd = [k \in Kinds |-> {}] /\ g_dd_start_din = 0
    /\ opcount = 0 /\ bdd_tick_time = 0 /\ done = FALSE
    /\ opening = {} /\ storing = {}
    /\ runs = 0 /\ built = {} /\ foreign = FALSE /\ broken = FALSE

----------------------------------------------------------------------------

\* Mutant: diagrams are continued from the latest of the ends.
AfterLatest(start, k) ==
    IF start = 0 \/ files[k].stop > start THEN files[k].stop ELSE start

(***************************************************************************)
(* adamant_bdd_headerinit: "check to make sure we default start as early   *)
(* as needed", where 0 means that it has not been set.                     *)
(***************************************************************************)
After(start, k) ==
    IF start = 0 \/ files[k].stop < start THEN files[k].stop ELSE start

AfterIf(loads, start, k) == IF k \in loads THEN After(start, k) ELSE start

StartDin(loads) ==
    AfterIf(loads,
        AfterIf(loads,
            AfterIf(loads, AfterIf(loads, g_dinstart, "dinrdy"), "dinsys"), "dinsin"),
        "dindin")

\* adamant_zdd_headerinit has no case for dinsys: such a diagram is dropped.
Loaded(loads) ==
    [k \in Kinds |-> IF k \in loads \ {"dinsys"} THEN files[k].dins ELSE {}]

(***************************************************************************)
(* adamant_initialize_bddstats reads the file of each diagram it builds,   *)
(* adamant_initialize_zddstats one file that is named for it; with a file  *)
(* it cannot read the one starts anew, and the other crashes.              *)
(***************************************************************************)
Start(kinds, restart, ops) ==
    LET loads == {k \in IF use_zdds THEN restart ELSE kinds : Readable(k)}
    IN  /\ phase = "idle" /\ runs < MaxRuns
        /\ "dinsys" \in kinds => use_zdds
        /\ use_zdds => \A k \in restart : Readable(k)
        /\ phase' = "schedule" /\ limit' = ops
        /\ doit' = kinds /\ dd' = Loaded(loads) /\ g_dd_start_din' = StartDin(loads)
        /\ opcount' = 0 /\ bdd_tick_time' = 0 /\ done' = FALSE
        /\ runs' = runs + 1 /\ built' = built \cup {kinds}
        /\ foreign' = (foreign \/ ~(loads \subseteq kinds))
        /\ UNCHANGED <<optionVars, files, opening, storing, broken>>

----------------------------------------------------------------------------

Pending == opening \cup storing
Last(kinds) == {k \in kinds : \A j \in kinds : rank[j] <= rank[k]}

Scheduling == phase = "schedule" /\ Pending = {}

\* runtime->done ends the loop of adamant_schedule_program, or its length.
Over == opcount = limit \/ done

\* adamant_bdd_ready_time, adamant_zdd_ready_time
AddTuples(kinds) ==
    dd' = [k \in Kinds |-> IF k \in kinds /\ opcount >= g_dd_start_din
                           THEN dd[k] \cup {opcount} ELSE dd[k]]

(***************************************************************************)
(* adamant_bdd_tickoutput, adamant_zdd_tickoutput: each diagram's file is  *)
(* opened and thereby emptied, but all into one variable, and what is      *)
(* stored is the last diagram only.                                        *)
(***************************************************************************)
Save(kinds) == opening' = kinds /\ storing' = Last(kinds)

CountOp(kinds) ==
    /\ opcount' = opcount + 1
    /\ IF bdd_tick_time + 1 = dd_tick_interval
       THEN bdd_tick_time' = 0 /\ Save(kinds)
       ELSE bdd_tick_time' = bdd_tick_time + 1 /\ UNCHANGED <<opening, storing>>

Schedule ==
    /\ Scheduling /\ ~Over
    /\ AddTuples(doit)
    /\ CountOp(doit)
    /\ UNCHANGED <<optionVars, files, phase, limit, doit, g_dd_start_din, done,
                   historyVars, broken>>

\* Mutant: the diagram that could not be extended is still saved.
ClearedNone(k) == doit

\* The diagrams that are still being built after one could not be extended.
Cleared(k) ==
    IF use_zdds /\ rank[k] > rank["dinsys"] THEN doit \cap {"dinsys"} ELSE {}

\* No memory for a tuple: the rest is not tried, and the loop ends.
OutOfMemory(k) ==
    /\ Scheduling /\ ~Over
    /\ k \in doit /\ opcount >= g_dd_start_din
    /\ AddTuples({j \in doit : rank[j] < rank[k]})
    /\ doit' = Cleared(k) /\ done' = TRUE /\ broken' = TRUE
    /\ CountOp(Cleared(k))
    /\ UNCHANGED <<optionVars, files, phase, limit, g_dd_start_din, historyVars>>

\* Mutant: the diagrams that are given up are still saved.
MemoryCapSaves ==
    /\ Scheduling /\ ~Over /\ ~use_zdds
    /\ AddTuples(doit)
    /\ doit' = {} /\ done' = TRUE /\ broken' = TRUE
    /\ CountOp(doit)
    /\ UNCHANGED <<optionVars, files, phase, limit, g_dd_start_din, historyVars>>

(***************************************************************************)
(* The limit of --ddmemcap is reached.  adamant_zdd_ready_time looks at it *)
(* only if no diagrams are built.                                          *)
(***************************************************************************)
MemoryCap ==
    /\ Scheduling /\ ~Over /\ ~use_zdds
    /\ AddTuples(doit)
    /\ doit' = {} /\ done' = TRUE /\ broken' = TRUE
    /\ CountOp({})
    /\ UNCHANGED <<optionVars, files, phase, limit, g_dd_start_din, historyVars>>

\* Mutant: BDDs are saved in the end as they are on the way.
FinalizeLast ==
    /\ Scheduling /\ Over
    /\ phase' = "final" /\ opening' = doit
    /\ storing' = Last(doit)
    /\ UNCHANGED <<optionVars, files, limit, doit, dd, g_dd_start_din, opcount,
                   bdd_tick_time, done, historyVars, broken>>

(***************************************************************************)
(* adamant_bdd_finalize saves all diagrams that have a file name, if any   *)
(* is still being built: the BDDs are built, and given up, together, so    *)
(* that these are the same.  adamant_zdd_finalize calls the tick's.        *)
(***************************************************************************)
Finalize ==
    /\ Scheduling /\ Over
    /\ phase' = "final" /\ opening' = doit
    /\ storing' = IF use_zdds THEN Last(doit) ELSE doit
    /\ UNCHANGED <<optionVars, files, limit, doit, dd, g_dd_start_din, opcount,
                   bdd_tick_time, done, historyVars, broken>>

First(k) == k \in Pending /\ \A j \in Pending : rank[k] <= rank[j]

\* fopen(outfilename, "w+")
OpenFile(k) ==
    /\ First(k) /\ k \in opening
    /\ files' = [files EXCEPT ![k] = Torn]
    /\ opening' = opening \ {k}
    /\ UNCHANGED <<optionVars, phase, limit, doit, dd, g_dd_start_din, opcount,
                   bdd_tick_time, done, storing, historyVars, broken>>

\* Dddmp_cuddBddStore or Dddmp_cuddZddStore, and fclose
Store(k) ==
    /\ First(k) /\ k \notin opening
    /\ files' = [files EXCEPT ![k] = Saved(dd[k], opcount)]
    /\ storing' = storing \ {k}
    /\ UNCHANGED <<optionVars, phase, limit, doit, dd, g_dd_start_din, opcount,
                   bdd_tick_time, done, opening, historyVars, broken>>

\* Nothing of the process is left but the files.
Gone ==
    /\ phase' = "idle" /\ limit' = 0
    /\ doit' = {} /\ dd' = [k \in Kinds |-> {}] /\ g_dd_start_din' = 0
    /\ opcount' = 0 /\ bdd_tick_time' = 0 /\ done' = FALSE
    /\ opening' = {} /\ storing' = {}
    /\ UNCHANGED <<optionVars, files, historyVars>>

Exit == phase = "final" /\ Pending = {} /\ Gone /\ UNCHANGED broken
Crash == phase # "idle" /\ Gone /\ broken' = TRUE

Next ==
    \/ \E kinds \in Choices, ops \in 0..MaxOps :
          \E restart \in {{}} \cup {{k} : k \in Kinds} : Start(kinds, restart, ops)
    \/ Schedule \/ MemoryCap \/ Finalize
    \/ \E k \in Kinds : OutOfMemory(k) \/ OpenFile(k) \/ Store(k)
    \/ Exit \/ Crash

Spec == Init /\ [][Next]_ddVars

----------------------------------------------------------------------------

\* Types of all variables.
TypeOK ==
    /\ use_zdds \in BOOLEAN /\ g_dinstart \in {0, 1}
    /\ files \in [Kinds -> [is : {"absent", "torn", "saved"}, dins : SUBSET Nat, stop : Nat]]
    /\ phase \in {"idle", "schedule", "final"}
    /\ doit \subseteq Kinds /\ dd \in [Kinds -> SUBSET Nat]
    /\ opening \subseteq doit /\ storing \subseteq doit
    /\ limit \in Nat /\ opcount \in Nat /\ bdd_tick_time \in Nat /\ runs \in Nat
    /\ g_dd_start_din \in Nat /\ built \subseteq SUBSET Kinds
    /\ done \in BOOLEAN /\ foreign \in BOOLEAN /\ broken \in BOOLEAN

(***************************************************************************)
(* A file has the tuples of the instructions it says it has, --ddstartdin  *)
(* (g_dinstart) being the first.  Only the header of a ZDD says so: that   *)
(* of a BDD says 0 all the same.                                           *)
(***************************************************************************)
Complete(k) == Readable(k) => g_dinstart..(files[k].stop - 1) \subseteq files[k].dins

(***************************************************************************)
(* As long as every run builds one diagram, and goes on from that diagram  *)
(* if from any, no file that can be read lacks an instruction: whatever    *)
(* the lengths of the runs, and wherever they crash or run out of memory.  *)
(* (adamant_bdd_headerinit against the two functions that save)            *)
(***************************************************************************)
Alone == ~foreign /\ \A kinds \in built : \E k \in Kinds \ {"dinsys"} : kinds = {k}

OneDiagramIsSafe == Alone => \A k \in Kinds : Complete(k)

(***************************************************************************)
(* With several diagrams that is so only while the runs build the same     *)
(* diagrams and none breaks off: savings on the way empty the files of all *)
(* but the last, and one that is read puts off the start of the others.    *)
(* ZDDs other than the last are never saved.                               *)
(***************************************************************************)
Steady == ~foreign /\ ~broken /\ (\E kinds \in SUBSET (Kinds \ {"dinsys"}) : built = {kinds})

SteadyRunsAreSafe ==
    Steady /\ phase = "idle" =>
        \A kinds \in built : \A k \in kinds :
            IF use_zdds /\ k \notin Last(kinds) THEN files[k] = Torn
            ELSE Readable(k) /\ Complete(k)

(***************************************************************************)
(* All BDDs of a run have the same first instruction, found from the files *)
(* that are there: the earliest of their ends, so that none that was read  *)
(* gets a gap, however far the others had come and even if a file of a     *)
(* further diagram is new, lost or torn.  ("default start as early as      *)
(* needed")  What the further diagram then lacks is not claimed, nor what  *)
(* follows from a file that ends at 0: the comparison takes it for unset.  *)
(***************************************************************************)
ResumesEarlyEnough ==
    ~use_zdds /\ phase = "schedule" /\ opcount = 0
    /\ (\A k \in doit : Readable(k) => files[k].stop > 0)
        => \A k \in doit : Readable(k) /\ Complete(k)
              => g_dinstart..(g_dd_start_din - 1) \subseteq dd[k]
=============================================================================
