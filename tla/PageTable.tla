------------------------------ MODULE PageTable ------------------------------
(***************************************************************************)
(* adamant_meminfo_pagetable.c as adamant_schedule.c uses it: a radix tree *)
(* over the digits of an address, with a two-way hash table of the entries *)
(* found last in front of it.  pagetable64.c of svtlib is the same code    *)
(* for another type of entry.                                              *)
(***************************************************************************)
EXTENDS Integers, Sequences

CONSTANTS
    Depth, Digits,         \* pt->depth; the indices of a node
    Lines, NoLine,         \* the lines of memory, each by its digits; and none
    Buckets, hash1, hash2  \* indices of hasharray; the two of each line

ASSUME PageTableAssumption ==
    /\ Depth \in Nat \ {0}
    /\ Lines \subseteq [1..Depth -> Digits]
    /\ hash1 \in [Lines -> Buckets] /\ hash2 \in [Lines -> Buckets]

\* A NULL pointer.  Entries are numbered as they are allocated.
NULL == 0

VARIABLES
    inodes,        \* the interior nodes below the root, each by its path
    nodes,         \* the pointers to entries in the nodes at the bottom
    ea,            \* ami->ea of every entry allocated
    hasharray, nummeminfos,
    line,          \* history: the line asked for last
    meminfo,       \* and the entry it was given
    open,          \* until the table is destroyed
    freed          \* the paths of what has been freed then

vars == <<inodes, nodes, ea, hasharray, nummeminfos, line, meminfo,
          open, freed>>

Entries == 1..nummeminfos

\* MemInfoPageTable_new
Init ==
    /\ inodes = {}
    /\ nodes = [l \in Lines |-> NULL]
    /\ ea = <<>>
    /\ hasharray = [h \in Buckets |-> NULL]
    /\ nummeminfos = 0
    /\ line = NoLine /\ meminfo = NULL
    /\ open = TRUE
    /\ freed = {}

----------------------------------------------------------------------------
\* MemInfoPageTable_lookup

\* The interior nodes on the way to the entry of l.
Path(l) == {SubSeq(l, 1, i) : i \in 1..(Depth - 1)}

\* The second bucket is only looked at when the first is empty.
Bucket(l) == IF hasharray[hash1[l]] # NULL THEN hasharray[hash1[l]] ELSE hasharray[hash2[l]]

\* Mutant: what is in the bucket is not compared with the address.
HitAny(l) == Bucket(l) # NULL

Hit(l) == Bucket(l) # NULL /\ ea[Bucket(l)] = l

\* The walk from the root ends early at a node that was never created.
Reached(l) == Path(l) \subseteq inodes

Lookup(l) == IF Hit(l) THEN Bucket(l) ELSE IF Reached(l) THEN nodes[l] ELSE NULL

(***************************************************************************)
(* What a walk to the bottom finds goes into the hash table, NULL          *)
(* included: into an empty bucket, or in place of one of the two at random.*)
(***************************************************************************)
Evicted(l) ==
    IF hasharray[hash1[l]] = NULL THEN {hash1[l]}
    ELSE IF hasharray[hash2[l]] = NULL THEN {hash2[l]}
    ELSE {hash1[l], hash2[l]}

Remember(l) ==
    IF Hit(l) \/ ~Reached(l) THEN hasharray' = hasharray
    ELSE \E h \in Evicted(l) : hasharray' = [hasharray EXCEPT ![h] = nodes[l]]

\* Mutant: the table does not count its entries.
AddUncounted(l) ==
    /\ inodes' = inodes \cup Path(l)
    /\ nodes' = [nodes EXCEPT ![l] = nummeminfos + 1]
    /\ nummeminfos' = nummeminfos

\* MemInfoPageTable_add: the hash table is left alone.
Add(l) ==
    /\ inodes' = inodes \cup Path(l)
    /\ nodes' = [nodes EXCEPT ![l] = nummeminfos + 1]
    /\ nummeminfos' = nummeminfos + 1

----------------------------------------------------------------------------
\* find_src_mems
Find(l) ==
    /\ open
    /\ line' = l
    /\ meminfo' = Lookup(l)
    /\ Remember(l)
    /\ UNCHANGED <<inodes, nodes, ea, nummeminfos, open, freed>>

\* update_dst_mems_ready: a line without an entry gets one.
Update(l) ==
    /\ open
    /\ line' = l
    /\ Remember(l)
    /\ IF Lookup(l) # NULL
       THEN /\ meminfo' = Lookup(l)
            /\ UNCHANGED <<inodes, nodes, ea, nummeminfos>>
       ELSE /\ Add(l)
            /\ ea' = Append(ea, l)
            /\ meminfo' = nummeminfos + 1
    /\ UNCHANGED <<open, freed>>

\* What there is to free d levels below the root: nodes, or entries.
Level(d) == {n \in inodes \cup {l \in Lines : nodes[l] # NULL} : Len(n) = d}

\* Mutant: the last level is left out.
DestroyedAbove ==
    LET at[d \in 1..Depth] ==
            IF d = Depth THEN {}
            ELSE IF d = 1 THEN Level(1) ELSE {n \in Level(d) : SubSeq(n, 1, d - 1) \in at[d - 1]}
    IN  UNION {at[d] : d \in 1..Depth}

(***************************************************************************)
(* MemInfoPageTableInteriorNode_destroy for every child of the root.  It   *)
(* descends while curdepth < maxdepth, so that at the last level, where    *)
(* curdepth = maxdepth, it is called for the entries themselves.           *)
(***************************************************************************)
Destroyed ==
    LET at[d \in 1..Depth] ==
            IF d = 1 THEN Level(1) ELSE {n \in Level(d) : SubSeq(n, 1, d - 1) \in at[d - 1]}
    IN  UNION {at[d] : d \in 1..Depth}

\* MemInfoPageTable_destroy
Destroy ==
    /\ open /\ open' = FALSE
    /\ freed' = Destroyed
    /\ UNCHANGED <<inodes, nodes, ea, hasharray, nummeminfos, line, meminfo>>

Next == Destroy \/ \E l \in Lines : Find(l) \/ Update(l)

Spec == Init /\ [][Next]_vars
----------------------------------------------------------------------------
\* Properties.

\* Every pointer is NULL or leads to an entry that has been allocated.
TypeOK ==
    /\ inodes \subseteq UNION {Path(l) : l \in Lines}
    /\ nodes \in [Lines -> Entries \cup {NULL}]
    /\ ea \in Seq(Lines) /\ Len(ea) = nummeminfos
    /\ hasharray \in [Buckets -> Entries \cup {NULL}]
    /\ nummeminfos \in Nat
    /\ line \in Lines \cup {NoLine}
    /\ meminfo \in Entries \cup {NULL}
    /\ open \in BOOLEAN

(***************************************************************************)
(* Destroying the table frees every interior node and, although the code   *)
(* that would free entries is empty, every entry, too.                     *)
(***************************************************************************)
NothingLeaks ==
    ~open => freed = inodes \cup {l \in Lines : nodes[l] # NULL}

(***************************************************************************)
(* The table is a map: whatever was looked up before, found or not, and    *)
(* whatever was evicted from the hash table, a lookup finds the entry of   *)
(* its line, and a line that has none gets exactly one.                    *)
(***************************************************************************)
Map == INSTANCE LineMap WITH entries <- nodes

ImplementsLineMap == Map!Spec
=============================================================================
