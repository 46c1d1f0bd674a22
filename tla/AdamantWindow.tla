---------------------------- MODULE AdamantWindow ----------------------------
(***************************************************************************)
(* adamant_window.c and the part of heap.c it uses: one instruction        *)
(* window.  A window of type "rob" is a circular buffer of commit times, a *)
(* window of type "ooo" a binary heap of ready times; head and tail are    *)
(* the fields of the common base that adamant_schedule_oper reads.         *)
(***************************************************************************)
EXTENDS WindowOps, Sequences, FiniteSets

CONSTANT MaxTime           \* bound on ready times, for model checking

VARIABLES type, head, tail,
          rob, ptr,        \* AdamantWindowRob
          heap, HEAPSIZE   \* HEAP: entries 1..heap[0].i, and the room for them

vars == <<type, head, tail, rob, ptr, heap, HEAPSIZE>>

----------------------------------------------------------------------------
\* misc.h
MOD_MINUS(a, b, m) == (a - b + m) % m
MOD_PLUS(a, b, m) == (a + b) % m

\* The places a value written at the end of a heap may rise through.
AncestorsOf(n) ==
    LET up[p \in 0..n] == IF p = 0 THEN {} ELSE {p} \cup up[p \div 2]
    IN  up[n]

(***************************************************************************)
(* The entry goes to the last place and changes places with its parent for *)
(* as long as the parent is greater.                                       *)
(***************************************************************************)
HeapInsert(h, new) ==
    LET n == Len(h) + 1
        rise[p \in 1..n] ==
            IF p > 1 /\ h[p \div 2] > new THEN rise[p \div 2] ELSE p
    IN  [i \in 1..n |->
            IF i = rise[n] THEN new
            ELSE IF i \in AncestorsOf(n) /\ i > rise[n] THEN h[i \div 2]
            ELSE h[i]]

HeapPeek(h) == h[1]

\* Mutant: the top stays in the heap.
HeapNextKeeps(h) == h

\* Mutant: the bottom comes to the top and is left there.
HeapNextNoBubble(h) ==
    [i \in 1..(Len(h) - 1) |-> IF i = 1 THEN h[Len(h)] ELSE h[i]]

(***************************************************************************)
(* The top is dropped, the last entry comes to the top and changes places  *)
(* with the smaller child for as long as that child is smaller.            *)
(***************************************************************************)
HeapNext(h) ==
    LET n == Len(h) - 1
        bubble == h[n + 1]
        Smaller(p) ==
            IF 2 * p + 1 <= n /\ h[2 * p + 1] < h[2 * p] THEN 2 * p + 1 ELSE 2 * p
        down[p \in 1..(n + 1)] ==
            IF 2 * p <= n /\ bubble > h[Smaller(p)]
            THEN {p} \cup down[Smaller(p)] ELSE {p}
    IN  [i \in 1..n |->
            IF i = MaxOf(down[1]) THEN bubble
            ELSE IF i \in down[1] THEN h[Smaller(i)]
            ELSE h[i]]

----------------------------------------------------------------------------
NoHeap == <<>>
NoRob == <<>>

\* adamant_window_init, then adamant_window_ooo_init or adamant_window_rob_init.
Init ==
    /\ type \in WindowTypes
    /\ head = 0 /\ tail = 0 /\ ptr = 0
    /\ rob = IF type = "rob" THEN [i \in 0..(WindowSize - 1) |-> 0] ELSE NoRob
    /\ heap = IF type = "ooo" THEN [i \in Slots |-> 0] ELSE NoHeap
    /\ HEAPSIZE = IF type = "ooo" THEN WindowSize ELSE 0

\* Mutant: commit at the own ready time, not in program order.
RobInsertReady(ready) ==
    /\ type = "rob"
    /\ rob' = [rob EXCEPT ![ptr] = ready]
    /\ tail' = ready
    /\ ptr' = MOD_PLUS(ptr, 1, WindowSize)
    /\ head' = rob'[ptr']
    /\ UNCHANGED <<type, heap, HEAPSIZE>>

\* adamant_window_rob_insert: the slot at ptr holds the oldest commit time.
RobInsert(ready) ==
    /\ type = "rob"
    /\ LET commit == MAX(ready, rob[MOD_MINUS(ptr, 1, WindowSize)])
       IN  /\ rob' = [rob EXCEPT ![ptr] = commit]
           /\ tail' = commit
    /\ ptr' = MOD_PLUS(ptr, 1, WindowSize)
    /\ head' = rob'[ptr']
    /\ UNCHANGED <<type, heap, HEAPSIZE>>

\* Mutant: the head is read before the new entry is in the heap.
OooInsertEarlyPeek(ready) ==
    /\ type = "ooo"
    /\ heap' = HeapInsert(HeapNext(heap), ready)
    /\ HEAPSIZE' = HEAPSIZE
    /\ head' = HeapPeek(HeapNext(heap))
    /\ tail' = IF ready > tail THEN ready ELSE tail
    /\ UNCHANGED <<type, rob, ptr>>

\* adamant_window_ooo_insert: HeapNext, HeapInsert, HeapPeek.
OooInsert(ready) ==
    /\ type = "ooo"
    /\ heap' = HeapInsert(HeapNext(heap), ready)
    /\ HEAPSIZE' = IF Len(heap') > HEAPSIZE THEN 2 * HEAPSIZE ELSE HEAPSIZE
    /\ head' = HeapPeek(heap')
    /\ tail' = IF ready > tail THEN ready ELSE tail
    /\ UNCHANGED <<type, rob, ptr>>

Insert(ready) == ready >= head /\ (RobInsert(ready) \/ OooInsert(ready))

Next == \E ready \in 0..MaxTime : Insert(ready)

Spec == Init /\ [][Next]_vars

----------------------------------------------------------------------------
\* The fields of the structures hold values of their types.
TypeOK ==
    /\ type \in WindowTypes
    /\ head \in Nat /\ tail \in Nat
    /\ ptr \in 0..(WindowSize - 1)
    /\ type = "rob" => rob \in [0..(WindowSize - 1) -> Nat]
    /\ type = "ooo" => heap \in [Slots -> Nat] /\ HEAPSIZE = WindowSize

(***************************************************************************)
(* Read from ptr on, the circular buffer lists the commit times of the     *)
(* last WindowSize instructions in program order, oldest first: the        *)
(* wrap-around never puts a younger instruction before an older one.       *)
(***************************************************************************)
RobInProgramOrder ==
    type = "rob" =>
        /\ \A i, j \in 0..(WindowSize - 1) :
             i <= j => rob[MOD_PLUS(ptr, i, WindowSize)] <= rob[MOD_PLUS(ptr, j, WindowSize)]
        /\ head = rob[ptr]
        /\ tail = rob[MOD_MINUS(ptr, 1, WindowSize)]

(***************************************************************************)
(* HeapCheck of heap.c: no entry is smaller than its parent.  With a value *)
(* out of place the head is not the slot that frees first.                 *)
(***************************************************************************)
HeapCheck ==
    type = "ooo" =>
        \A i \in DOMAIN heap :
            /\ 2 * i <= Len(heap) => heap[i] <= heap[2 * i]
            /\ 2 * i + 1 <= Len(heap) => heap[i] <= heap[2 * i + 1]

----------------------------------------------------------------------------
\* How many of the times in a heap are no later than t.
FreeBy(h, t) == Cardinality({i \in DOMAIN h : h[i] <= t})

\* The times in a heap in their order: the k-th is the first that makes k slots free.
Times(h) == {h[i] : i \in DOMAIN h}
InOrder(h) ==
    [k \in Slots |->
        CHOOSE t \in Times(h) :
            /\ FreeBy(h, t) >= k
            /\ \A u \in Times(h) : FreeBy(h, u) >= k => t <= u]

\* The slots in the order in which they become free.
InFlight ==
    IF type = "rob"
    THEN [i \in Slots |-> rob[MOD_PLUS(ptr, i - 1, WindowSize)]]
    ELSE InOrder(heap)

(***************************************************************************)
(* Both structures implement the window: the head they report is always    *)
(* the time the next slot frees, the tail the time the last one does.      *)
(***************************************************************************)
Window == INSTANCE IssueWindow WITH inflight <- InFlight

ImplementsIssueWindow == Window!Spec
=============================================================================
