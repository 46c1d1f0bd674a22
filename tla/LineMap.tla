------------------------------- MODULE LineMap -------------------------------
(***************************************************************************)
(* What the memory page table promises the scheduler: a map from lines of  *)
(* memory to the entry with their data.  A line gets its entry with the    *)
(* first store to it and keeps it; a load only looks.                      *)
(***************************************************************************)
EXTENDS Integers

CONSTANTS
    Lines,
    NoLine             \* what is not a line

\* No entry.  Entries are numbered as they are allocated.
NULL == 0

VARIABLES entries, nummeminfos,
          line, meminfo,     \* the line asked for last, and the entry found
          open               \* until the table is destroyed

vars == <<entries, nummeminfos, line, meminfo, open>>

Init ==
    /\ entries = [l \in Lines |-> NULL]
    /\ nummeminfos = 0 /\ line = NoLine /\ meminfo = NULL
    /\ open = TRUE

\* find_src_mems, for one line
Find(l) ==
    /\ open
    /\ line' = l
    /\ meminfo' = entries[l]
    /\ UNCHANGED <<entries, nummeminfos, open>>

\* update_dst_mems_ready, for one line
Update(l) ==
    /\ open
    /\ line' = l
    /\ IF entries[l] # NULL
       THEN UNCHANGED <<entries, nummeminfos>>
       ELSE /\ nummeminfos' = nummeminfos + 1
            /\ entries' = [entries EXCEPT ![l] = nummeminfos + 1]
    /\ meminfo' = entries'[l]
    /\ UNCHANGED open

Destroy ==
    /\ open /\ open' = FALSE
    /\ UNCHANGED <<entries, nummeminfos, line, meminfo>>

Next == Destroy \/ \E l \in Lines : Find(l) \/ Update(l)

Spec == Init /\ [][Next]_vars
=============================================================================
