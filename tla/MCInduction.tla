----------------------------- MODULE MCInduction -----------------------------
(* Two registers and two bytes of the stack, written together or apart.    *)
(* Number 0 is not a general-purpose register, as on PowerPC.              *)
EXTENDS InductionVariables

MCAccesses == {<<0, 2>>, <<1, 1>>}

(***************************************************************************)
(* Which chunk a node gets is not observable, nor is the info read last:   *)
(* two states that differ in nothing else are one.  Nodes are numbered in  *)
(* the order in which they are met from the registers, then from memory.   *)
(***************************************************************************)
Ancestry(node) ==
    LET path[n \in Nodes \cup {NULL}] ==
            IF n \in DOMAIN opti.heap THEN <<n>> \o path[opti.heap[n].parent] ELSE <<>>
    IN  path[node]

View ==
    LET met == Ancestry(opti.induction_vars[1]) \o Ancestry(opti.induction_vars[2])
               \o Ancestry(opti.memory_induction_vars[0])
               \o Ancestry(opti.memory_induction_vars[1])
        First(n) == Min({i \in 1..Len(met) : met[i] = n} \cup {Len(met) + 1})
    IN  <<unroll_factor, status, opti.len, opti.IVE_gc_interval,
          [r \in Regs |-> First(opti.induction_vars[r])],
          [b \in Bytes |-> First(opti.memory_induction_vars[b])],
          {<<First(n), opti.heap[n].ref_count, opti.heap[n].info, First(opti.heap[n].parent)>> :
              n \in DOMAIN opti.heap}>>
=============================================================================
