--------------------------- MODULE InductionChains ---------------------------
(***************************************************************************)
(* What induction-variable expansion (--ive N) promises the scheduler:     *)
(* every register, and every byte of the stack, has the chain of results   *)
(* its value was built from by adding constants, newest first.  The next   *)
(* addition depends on the N-th result of that chain, because the N - 1    *)
(* additions since then can be folded into one (adamant_optimize.h         *)
(* 360-363).                                                               *)
(*                                                                         *)
(* There are no nodes, reference counts or collections here: the module    *)
(* InductionVariables has them, and implements this one.                   *)
(***************************************************************************)
EXTENDS Integers, Sequences

CONSTANTS
    Regs,              \* registers, by their number
    Bytes,             \* bytes of the stack, by their address
    Accesses,          \* <<ea, size>> of the loads and stores
    Infos,             \* what the scheduler records of a result
    UnrollFactors      \* arguments of --ive

\* The SchedInfo of a value the program starts with: ready at cycle 0.
Start == "start"

VARIABLES unroll_factor, chains, memchains, source

vars == <<unroll_factor, chains, memchains, source>>

\* A distance of 0 and one of 1 both lead to the last result.
Distance == IF unroll_factor = 0 THEN 1 ELSE unroll_factor

\* Results further back than that can never be read again.
Kept(chain) == IF Len(chain) > Distance THEN SubSeq(chain, 1, Distance) ELSE chain

BytesOf(a) == a[1]..(a[1] + a[2] - 1)

Init ==
    /\ unroll_factor \in UnrollFactors
    /\ chains = [r \in Regs |-> <<>>]
    /\ memchains = [b \in Bytes |-> <<>>]
    /\ source = Start

\* What is read of a register without a chain was there from the start.
Found(s) == IF chains[s] = <<>> THEN <<Start>> ELSE chains[s]

\* The chains after the instruction reads s as its source.
Read(s) == [chains EXCEPT ![s] = Found(s)]

Mov(d, s) ==
    /\ source' = Found(s)[Len(Found(s))]
    /\ chains' = [Read(s) EXCEPT ![d] = Found(s)]
    /\ UNCHANGED <<unroll_factor, memchains>>

Addi(d, s, info) ==
    /\ source' = Found(s)[Len(Found(s))]
    /\ chains' = [Read(s) EXCEPT ![d] = Kept(<<info>> \o Found(s))]
    /\ UNCHANGED <<unroll_factor, memchains>>

Other(d, info) ==
    /\ chains' = [chains EXCEPT ![d] = <<info>>]
    /\ UNCHANGED <<unroll_factor, memchains, source>>

Store(a, s) ==
    /\ memchains' = [b \in Bytes |-> IF b \in BytesOf(a) THEN chains[s] ELSE memchains[b]]
    /\ UNCHANGED <<unroll_factor, chains, source>>

StoreUpdate(a, s, base, info) ==
    /\ chains' = [chains EXCEPT ![base] = <<info>>]
    /\ memchains' = [b \in Bytes |-> IF b \in BytesOf(a) THEN chains'[s] ELSE memchains[b]]
    /\ UNCHANGED <<unroll_factor, source>>

Load(a, d) ==
    /\ chains' = [chains EXCEPT ![d] = memchains[a[1]]]
    /\ UNCHANGED <<unroll_factor, memchains, source>>

LoadUpdate(a, d, base, info) ==
    /\ d # base
    /\ chains' = [chains EXCEPT ![d] = memchains[a[1]], ![base] = <<info>>]
    /\ UNCHANGED <<unroll_factor, memchains, source>>

Next ==
    \/ \E d, s \in Regs : Mov(d, s)
    \/ \E d, s \in Regs, info \in Infos : Addi(d, s, info)
    \/ \E d \in Regs, info \in Infos : Other(d, info)
    \/ \E a \in Accesses, s \in Regs : Store(a, s)
    \/ \E a \in Accesses, s, base \in Regs, info \in Infos : StoreUpdate(a, s, base, info)
    \/ \E a \in Accesses, d \in Regs : Load(a, d)
    \/ \E a \in Accesses, d, base \in Regs, info \in Infos : LoadUpdate(a, d, base, info)

Spec == Init /\ [][Next]_vars
=============================================================================
