----------------------------- MODULE IssueWindow -----------------------------
(***************************************************************************)
(* The abstract window as a system: the specification the reorder buffer   *)
(* and the heap of adamant_window.c implement (see AdamantWindow).         *)
(***************************************************************************)
EXTENDS WindowOps

CONSTANT MaxTime           \* bound on ready times, for model checking

VARIABLES type, inflight, head, tail

vars == <<type, inflight, head, tail>>

Init ==
    /\ type \in WindowTypes
    /\ inflight = EmptyWindow
    /\ head = 0
    /\ tail = 0

(***************************************************************************)
(* An instruction never becomes ready before the head of its window:       *)
(* adamant_schedule_oper takes the maximum with it.                        *)
(***************************************************************************)
Insert(ready) ==
    /\ ready >= head
    /\ inflight' = WindowInsert(type, inflight, ready)
    /\ head' = WindowHead(inflight')
    /\ tail' = WindowTail(inflight')
    /\ UNCHANGED type

Next == \E ready \in 0..MaxTime : Insert(ready)

Spec == Init /\ [][Next]_vars
=============================================================================
