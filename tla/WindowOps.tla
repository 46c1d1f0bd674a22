------------------------------ MODULE WindowOps ------------------------------
(***************************************************************************)
(* What an instruction window of Adamantium promises its user, whatever    *)
(* its type: at most WindowSize instructions are in flight, and a new one  *)
(* takes the place of the one that leaves first (adamant_window.h 87-109). *)
(*                                                                         *)
(* A window is the non-decreasing list of the times at which the slots it  *)
(* offers become free; slot 1 frees first.  adamant_schedule_oper only     *)
(* sees its two ends: the head and the tail.                               *)
(***************************************************************************)
EXTENDS Integers

CONSTANT WindowSize        \* config->win.w_size

ASSUME WindowSizeAssumption == WindowSize \in Nat \ {0}

Slots == 1..WindowSize

\* The two arms of AdamantWindowType.
WindowTypes == {"ooo", "rob"}

MAX(a, b) == IF a > b THEN a ELSE b

\* The repeated MAX of the C code over a set of times.
MaxOf(S) == CHOOSE x \in S : \A y \in S : y <= x

EmptyWindow == [i \in Slots |-> 0]

WindowHead(w) == w[1]
WindowTail(w) == w[WindowSize]

(***************************************************************************)
(* The list w without its first element and with v in its place in the     *)
(* order.                                                                  *)
(***************************************************************************)
Slide(w, v) ==
    [i \in Slots |->
        IF i < WindowSize /\ w[i + 1] <= v THEN w[i + 1]
        ELSE IF i = 1 \/ w[i] <= v THEN v
        ELSE w[i]]

(***************************************************************************)
(* When a slot given to an instruction that is ready at `ready' frees: a   *)
(* reorder buffer retires in program order, so not before the instruction  *)
(* inserted last; an issue window frees it at once.                        *)
(***************************************************************************)
Leaves(type, w, ready) == IF type = "rob" THEN MAX(ready, WindowTail(w)) ELSE ready

\* adamant_window_insert
WindowInsert(type, w, ready) == Slide(w, Leaves(type, w, ready))

\* Oldest first, and no time before the start of the program.
IsWindow(w) ==
    /\ w \in [Slots -> Nat]
    /\ \A i, j \in Slots : i <= j => w[i] <= w[j]
=============================================================================
