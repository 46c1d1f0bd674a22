-------------------------- MODULE InductionVariables --------------------------
(***************************************************************************)
(* adamant_optimize.h: induction-variable expansion for PowerPC traces.    *)
(* The chains of InductionChains share their nodes, each node counts the   *)
(* pointers to it, and every now and then a collection cuts off what can   *)
(* no longer be read.  An action is one instruction: what find_src_regs    *)
(* reads, then what update_dst_regs_ready and update_dst_mems_ready link.  *)
(*                                                                         *)
(* Loads and stores are those of a typed opcode to the stack, with         *)
(* --ignore-stack; a load from elsewhere is an Other, a store to elsewhere *)
(* changes nothing here.  Additions that StoreUpdate and LoadUpdate would  *)
(* chain if they were split never happen (see RuntimeInit).                *)
(***************************************************************************)
EXTENDS Integers, Sequences, FiniteSets, FiniteSetsExt

CONSTANTS
    Regs, Bytes, Accesses, Infos, UnrollFactors,  \* as in InductionChains
    GCInterval,        \* ADAMANT_IVE_GC_INTERVAL
    NodeBound          \* bound on the nodes allocated, for model checking

ASSUME VariablesAssumption ==
    /\ Regs \subseteq Nat /\ IsFiniteSet(Regs)
    /\ Bytes \subseteq Nat /\ IsFiniteSet(Bytes)
    /\ \A a \in Accesses : /\ a[1] \in Nat /\ a[2] \in Nat \ {0}
                           /\ a[1]..(a[1] + a[2] - 1) \subseteq Bytes
    /\ UnrollFactors \subseteq Nat
    /\ GCInterval \in Nat /\ NodeBound \in Nat

NULL == 0
Nodes == 1..NodeBound

\* The info of adamant_IVE_reset(runtime, reg, 0, 0, 0).
Start == "start"

\* AdamantIVENode
IVENode == [parent : Nodes \cup {NULL}, ref_count : Nat, info : Infos \cup {Start}]

VARIABLES
    unroll_factor,
    opti,          \* runtime->opti, with the allocated nodes as its heap
    source,        \* history: the info adamant_IVE_read returned last
    status         \* "running", or "aborted" by g_assert

vars == <<unroll_factor, opti, source, status>>

Init ==
    /\ unroll_factor \in UnrollFactors
    /\ opti = [heap |-> <<>>,
               induction_vars |-> [r \in Regs |-> NULL], len |-> 0,
               memory_induction_vars |-> [b \in Bytes |-> NULL],
               IVE_gc_interval |-> GCInterval]
    /\ source = Start
    /\ status = "running"

----------------------------------------------------------------------------
\* Nodes and their counts.

\* adamant_IVE_ref, n times.
Ref(heap, node, n) ==
    IF node = NULL THEN heap ELSE [heap EXCEPT ![node].ref_count = @ + n]

\* From a node on, the first that somebody else points to ...
Stays(heap) ==
    LET stays[n \in DOMAIN heap \cup {NULL}] ==
            IF n = NULL \/ heap[n].ref_count > 1 THEN n ELSE stays[heap[n].parent]
    IN  stays

\* ... and those before it.
Freed(heap) ==
    LET freed[n \in DOMAIN heap \cup {NULL}] ==
            IF n = NULL \/ heap[n].ref_count > 1 THEN {} ELSE {n} \cup freed[heap[n].parent]
    IN  freed

(***************************************************************************)
(* adamant_IVE_unref: a node nobody points to any more is freed, and with  *)
(* it every ancestor that only it pointed to; the first one with another   *)
(* pointer stays.                                                          *)
(***************************************************************************)
Unref(heap, node) ==
    LET last == Stays(heap)[node]
    IN  [n \in DOMAIN heap \ Freed(heap)[node] |->
            IF n = last THEN [heap[n] EXCEPT !.ref_count = @ - 1] ELSE heap[n]]

\* adamant_IVE_alloc_node
Fresh(heap) == CHOOSE n \in Nodes \ DOMAIN heap : TRUE

\* A new node with one pointer to it.
Allocate(heap, node, parent, info) ==
    [n \in DOMAIN heap \cup {node} |->
        IF n = node THEN [parent |-> parent, ref_count |-> 1, info |-> info] ELSE heap[n]]

\* The array grows as registers are written; a register beyond its end has no node.
Entry(o, reg) == IF reg >= o.len THEN NULL ELSE o.induction_vars[reg]

\* Mutant: the array always ends with this register.
GrownTo(o, reg) == reg + 1

Grown(o, reg) == Max({o.len, reg + 1})

\* adamant_IVE_reset: a node only this register points to is reused.
Reset(o, reg, info) ==
    LET node == Entry(o, reg)
        kept == node # NULL /\ o.heap[node].ref_count = 1
        heap == IF kept THEN Unref(o.heap, o.heap[node].parent) ELSE Unref(o.heap, node)
        new == IF kept THEN node ELSE Fresh(heap)
    IN  [o EXCEPT !.len = Grown(o, reg),
                  !.induction_vars[reg] = new,
                  !.heap = Allocate(heap, new, NULL, info)]

----------------------------------------------------------------------------
\* Collection.

\* Mutant: side entrances are not looked at.
CollectThrough(heap, node) ==
    LET walk[n \in DOMAIN heap \cup {NULL}] == [length \in Nat |->
            IF n = NULL \/ length + 1 = unroll_factor THEN n
            ELSE walk[heap[n].parent][length + 1]]
        cut == walk[node][0]
    IN  IF cut = NULL THEN heap
        ELSE Unref([heap EXCEPT ![cut].parent = NULL], heap[cut].parent)

(***************************************************************************)
(* Where a chain is cut, from a node on and length nodes behind it: after  *)
(* unroll_factor nodes, counted from the last side entrance.               *)
(***************************************************************************)
CutPoint(heap) ==
    LET walk[n \in DOMAIN heap \cup {NULL}] == [length \in Nat |->
            IF n = NULL THEN NULL
            ELSE LET chain_length == IF heap[n].ref_count # 1 THEN 1 ELSE length + 1
                 IN  IF chain_length = unroll_factor THEN n
                     ELSE walk[heap[n].parent][chain_length]]
    IN  walk

\* adamant_IVE_garbage_collect_chain
CollectChain(heap, node) ==
    LET cut == CutPoint(heap)[node][0]
    IN  IF cut = NULL THEN heap
        ELSE Unref([heap EXCEPT ![cut].parent = NULL], heap[cut].parent)

(***************************************************************************)
(* The chains of a table's entries up to the last, in order, which is what *)
(* adamant_IVE_garbage_collect does for the registers and                  *)
(* adamant_IVE_garbage_collect_walk_mem for the bytes of memory.           *)
(***************************************************************************)
CollectTable(heap, table, last) ==
    LET walk[i \in -1..last] ==
            IF i = -1 THEN heap
            ELSE IF i \in DOMAIN table THEN CollectChain(walk[i - 1], table[i])
            ELSE walk[i - 1]
    IN  walk[last]

\* adamant_IVE_garbage_collect
Collect(o) ==
    LET regs == CollectTable(o.heap, o.induction_vars, o.len - 1)
    IN  [o EXCEPT !.heap = CollectTable(regs, o.memory_induction_vars, Max(Bytes \cup {-1})),
                  !.IVE_gc_interval = GCInterval]

----------------------------------------------------------------------------
\* Chaining and linking.

\* A register is pointed to a node that has been counted already.
Point(o, heap, reg, node) ==
    [o EXCEPT !.heap = Unref(heap, Entry(o, reg)),
              !.len = Grown(o, reg),
              !.induction_vars[reg] = node]

\* adamant_IVE_chain
Chain(o, dest_reg, src_reg, info) ==
    LET parent == Entry(o, src_reg)
        node == Fresh(o.heap)
        linked == Point(o, Ref(Allocate(o.heap, node, parent, info), parent, 1), dest_reg, node)
    IN  IF o.IVE_gc_interval = 0 THEN Collect(linked)
        ELSE [linked EXCEPT !.IVE_gc_interval = @ - 1]

\* Mutant: the old node is released before the new pointer is counted.
LinkLate(o, dest_reg, src_reg) ==
    LET parent == Entry(o, src_reg)
        pointed == Point(o, o.heap, dest_reg, parent)
    IN  IF parent \in DOMAIN pointed.heap
        THEN [pointed EXCEPT !.heap = Ref(@, parent, 1)] ELSE pointed

\* adamant_IVE_link
Link(o, dest_reg, src_reg) ==
    LET parent == Entry(o, src_reg)
    IN  Point(o, Ref(o.heap, parent, 1), dest_reg, parent)

BytesOf(a) == a[1]..(a[1] + a[2] - 1)

\* adamant_IVE_link_to_mem: one pointer for each byte, then the old ones go.
LinkToMem(o, a, src_reg) ==
    LET parent == Entry(o, src_reg)
        old[b \in (a[1] - 1)..(a[1] + a[2] - 1)] ==
            IF b < a[1] THEN Ref(o.heap, parent, a[2])
            ELSE Unref(old[b - 1], o.memory_induction_vars[b])
    IN  [o EXCEPT !.heap = old[a[1] + a[2] - 1],
                  !.memory_induction_vars =
                      [b \in Bytes |-> IF b \in BytesOf(a) THEN parent ELSE @[b]]]

\* adamant_IVE_link_from_mem: the node of the first byte.
LinkFromMem(o, dest_reg, a) ==
    LET parent == o.memory_induction_vars[a[1]]
    IN  Point(o, Ref(o.heap, parent, 1), dest_reg, parent)

----------------------------------------------------------------------------
\* adamant_IVE_read

\* A register that was never written gets a node that was ready at the start.
Found(o, reg) ==
    IF reg > o.len \/ Entry(o, reg) = NULL THEN Reset(o, reg, Start) ELSE o

\* g_assert(reg < runtime->opti->induction_vars->len), after that.
ReadFails(o, reg) == reg = o.len

\* The node unroll_factor links back, or the first of the chain.
ReadInfo(o, reg) ==
    LET back[n \in DOMAIN o.heap] == [i \in 1..(unroll_factor + 1) |->
            IF o.heap[n].parent # NULL /\ i < unroll_factor
            THEN back[o.heap[n].parent][i + 1] ELSE o.heap[n].info]
    IN  back[o.induction_vars[reg]][1]

----------------------------------------------------------------------------
\* Instructions.

\* Two more nodes are as much as one instruction needs.
CanAllocate ==
    /\ status = "running"
    /\ Cardinality(DOMAIN opti.heap) + 2 <= NodeBound

Reads(s) == CanAllocate /\ ~ReadFails(opti, s) /\ source' = ReadInfo(Found(opti, s), s)

\* "or" of a register with itself, and the sign extensions, to a general-purpose
\* register; any other that they write is reset, which is an Other.
Mov(d, s) ==
    /\ Reads(s)
    /\ opti' = Link(Found(opti, s), d, s)
    /\ UNCHANGED <<unroll_factor, status>>

Addi(d, s, info) ==
    /\ Reads(s)
    /\ opti' = Chain(Found(opti, s), d, s, info)
    /\ UNCHANGED <<unroll_factor, status>>

\* Any other instruction that writes d, an addi without a source included.
Other(d, info) ==
    /\ CanAllocate
    /\ opti' = Reset(opti, d, info)
    /\ UNCHANGED <<unroll_factor, source, status>>

Store(a, s) ==
    /\ CanAllocate
    /\ opti' = LinkToMem(opti, a, s)
    /\ UNCHANGED <<unroll_factor, source, status>>

\* The registers are updated before memory, even if s is the base.
StoreUpdate(a, s, base, info) ==
    /\ CanAllocate
    /\ opti' = LinkToMem(Reset(opti, base, info), a, s)
    /\ UNCHANGED <<unroll_factor, source, status>>

Load(a, d) ==
    /\ CanAllocate
    /\ opti' = LinkFromMem(opti, d, a)
    /\ UNCHANGED <<unroll_factor, source, status>>

LoadUpdate(a, d, base, info) ==
    /\ CanAllocate
    /\ d # base
    /\ opti' = Reset(LinkFromMem(opti, d, a), base, info)
    /\ UNCHANGED <<unroll_factor, source, status>>

\* A read of the register right behind the end of the array.
Abort(s) ==
    /\ status = "running"
    /\ ReadFails(opti, s)
    /\ status' = "aborted"
    /\ UNCHANGED <<unroll_factor, opti, source>>

Next ==
    \/ \E d, s \in Regs : Mov(d, s)
    \/ \E d, s \in Regs, info \in Infos : Addi(d, s, info)
    \/ \E d \in Regs, info \in Infos : Other(d, info)
    \/ \E a \in Accesses, s \in Regs : Store(a, s)
    \/ \E a \in Accesses, s, base \in Regs, info \in Infos : StoreUpdate(a, s, base, info)
    \/ \E a \in Accesses, d \in Regs : Load(a, d)
    \/ \E a \in Accesses, d, base \in Regs, info \in Infos : LoadUpdate(a, d, base, info)
    \/ \E s \in Regs : Abort(s)

Spec == Init /\ [][Next]_vars
----------------------------------------------------------------------------
\* Properties.

\* Nodes and tables hold values of their types, and nothing lies beyond the array's end.
TypeOK ==
    /\ unroll_factor \in UnrollFactors
    /\ DOMAIN opti.heap \subseteq Nodes
    /\ opti.heap \in [DOMAIN opti.heap -> IVENode]
    /\ opti.induction_vars \in [Regs -> Nodes \cup {NULL}]
    /\ opti.memory_induction_vars \in [Bytes -> Nodes \cup {NULL}]
    /\ opti.len \in Nat
    /\ \A r \in Regs : r >= opti.len => opti.induction_vars[r] = NULL
    /\ opti.IVE_gc_interval \in 0..GCInterval
    /\ source \in Infos \cup {Start}
    /\ status \in {"running", "aborted"}

\* Every pointer to a node, by where it is.
Pointers ==
    {<<"reg", r>> : r \in Regs} \cup {<<"mem", b>> : b \in Bytes}
    \cup {<<"node", n>> : n \in DOMAIN opti.heap}

Target(p) ==
    CASE p[1] = "reg" -> opti.induction_vars[p[2]]
      [] p[1] = "mem" -> opti.memory_induction_vars[p[2]]
      [] p[1] = "node" -> opti.heap[p[2]].parent

(***************************************************************************)
(* "How many people point to me" (AdamantIVENode): every count is exact,   *)
(* so no pointer is left to a node that has been freed and no node is left *)
(* that nothing points to, through any sequence of links, overwritten      *)
(* bytes and collections.                                                  *)
(***************************************************************************)
RefCounts ==
    /\ \A p \in Pointers : Target(p) \in DOMAIN opti.heap \cup {NULL}
    /\ \A n \in DOMAIN opti.heap :
          /\ opti.heap[n].ref_count > 0
          /\ opti.heap[n].ref_count = Cardinality({p \in Pointers : Target(p) = n})

(***************************************************************************)
(* adamant_IVE_read is never asked for a register the array has no entry   *)
(* for: the assertion after it grows the array (adamant_optimize.h 370).   *)
(***************************************************************************)
ReadInBounds == status # "aborted"

----------------------------------------------------------------------------
\* What can be read from a node on: at most unroll_factor results, and one at least.
ChainFrom(node) ==
    LET from[n \in DOMAIN opti.heap \cup {NULL}] == [k \in Nat |->
            IF n = NULL THEN <<>>
            ELSE IF k >= unroll_factor THEN <<opti.heap[n].info>>
            ELSE <<opti.heap[n].info>> \o from[opti.heap[n].parent][k + 1]]
    IN  from[node][1]

(***************************************************************************)
(* The shared and counted nodes implement the chains: an addition is       *)
(* always given the result unroll_factor links back, whatever other chains *)
(* run through the same nodes and whenever a collection cuts them.         *)
(***************************************************************************)
Chains == INSTANCE InductionChains WITH
    chains <- [r \in Regs |-> ChainFrom(opti.induction_vars[r])],
    memchains <- [b \in Bytes |-> ChainFrom(opti.memory_induction_vars[b])]

ImplementsInductionChains == Chains!Spec
=============================================================================
