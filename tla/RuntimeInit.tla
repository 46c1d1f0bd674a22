----------------------------- MODULE RuntimeInit -----------------------------
(***************************************************************************)
(* The order of adamant_initialize_runtime, as far as it concerns          *)
(* --split-post-increment: the table of static instructions is read, the   *)
(* PowerPC loads and stores that update their base register are split      *)
(* (adamant_split_oper.c), the instructions are given their types          *)
(* (tmt_ppc64_readcontext_type_opers); then the inner loop of              *)
(* adamant_schedule_program schedules what the trace holds.                *)
(***************************************************************************)
EXTENDS Integers, Sequences

CONSTANTS
    Programs,          \* [ip -> opcode]: the programs, opcodes by their form
    MaxTrace           \* bound on the trace, for model checking

\* The forms of opcodes that have a type of their own and can be split.
Updates == {"STORE_UPDATE", "STORE_INDEXED_UPDATE", "LOAD_UPDATE", "LOAD_INDEXED_UPDATE"}

(***************************************************************************)
(* A TmtTypedStaticOper: what the trace compiler records for each form, as *)
(* the assertions of split_PPC_oper expect it.  "base" is the register an  *)
(* update form changes; the type is 0, that is OTHER, when it is read.     *)
(***************************************************************************)
Recorded(form) ==
    LET Make(m_src, m_dst, src, dst) ==
          [opcode |-> form, type |-> "OTHER", num_mem_src |-> m_src,
           num_mem_dst |-> m_dst, reg_src |-> src, reg_dst |-> dst]
    IN  CASE form = "STORE_UPDATE" -> Make(0, 1, <<"data", "base">>, <<"base">>)
          [] form = "STORE_INDEXED_UPDATE" -> Make(0, 1, <<"data", "base", "index">>, <<"base">>)
          [] form = "LOAD_UPDATE" -> Make(1, 0, <<"base">>, <<"data", "base">>)
          [] form = "LOAD_INDEXED_UPDATE" -> Make(1, 0, <<"base", "index">>, <<"data", "base">>)
          [] OTHER -> Make(1, 0, <<"base">>, <<"data">>)

VARIABLES
    program, split_post_increment, ppc64_translate,
    step,              \* where adamant_initialize_runtime is
    oper_table,        \* tmtrc->oper_table
    split_sopers,      \* runtime->split_sopers, [ip -> the second half]
    opcount,
    scheduled          \* history: what was scheduled, with its ip and number

vars == <<program, split_post_increment, ppc64_translate, step, oper_table,
          split_sopers, opcount, scheduled>>

Init ==
    /\ program \in Programs
    /\ split_post_increment \in BOOLEAN /\ ppc64_translate \in BOOLEAN
    /\ step = "readcontext"
    /\ oper_table = <<>> /\ split_sopers = <<>>
    /\ opcount = 0 /\ scheduled = <<>>

\* tmt_readcontext_build_oper_table
BuildOperTable ==
    /\ step = "readcontext"
    /\ step' = "split"
    /\ oper_table' = [ip \in DOMAIN program |-> Recorded(program[ip])]
    /\ UNCHANGED <<program, split_post_increment, ppc64_translate, split_sopers,
                   opcount, scheduled>>

(***************************************************************************)
(* split_PPC_oper: what stays of an instruction, and the copy that only    *)
(* updates the base register.                                              *)
(***************************************************************************)
IsStore(s) == s.type \in {"STORE_UPDATE", "STORE_INDEXED_UPDATE"}

FirstHalf(s) == [s EXCEPT !.reg_dst = IF IsStore(s) THEN <<>> ELSE <<s.reg_dst[1]>>]

SecondHalf(s) ==
    IF IsStore(s)
    THEN [s EXCEPT !.num_mem_dst = 0, !.reg_src = Tail(s.reg_src)]
    ELSE [s EXCEPT !.num_mem_src = 0, !.reg_dst = <<s.reg_dst[2]>>]

SplitIps ==
    IF ppc64_translate THEN {ip \in DOMAIN oper_table : oper_table[ip].type \in Updates} ELSE {}

\* adamant_split_opers
SplitOpers ==
    /\ step = "split"
    /\ step' = "type"
    /\ IF split_post_increment
       THEN /\ split_sopers' = [ip \in SplitIps |-> SecondHalf(oper_table[ip])]
            /\ oper_table' = [ip \in DOMAIN oper_table |->
                  IF ip \in SplitIps THEN FirstHalf(oper_table[ip]) ELSE oper_table[ip]]
       ELSE UNCHANGED <<split_sopers, oper_table>>
    /\ UNCHANGED <<program, split_post_increment, ppc64_translate, opcount, scheduled>>

\* tmt_ppc64_readcontext_type_opers
TypeOpers ==
    /\ step = "type"
    /\ step' = "schedule"
    /\ oper_table' = IF ppc64_translate
                     THEN [ip \in DOMAIN oper_table |->
                              [oper_table[ip] EXCEPT !.type = oper_table[ip].opcode]]
                     ELSE oper_table
    /\ UNCHANGED <<program, split_post_increment, ppc64_translate, split_sopers,
                   opcount, scheduled>>

(***************************************************************************)
(* The inner loop for one instruction of the trace: a split instruction is *)
(* scheduled as its two halves, the first with the number before.          *)
(***************************************************************************)
ScheduleHalves(ip) ==
    LET s == oper_table[ip]
        split == split_post_increment /\ s.num_mem_src + s.num_mem_dst > 0
                 /\ ip \in DOMAIN split_sopers
        Entry(o, n) == [ip |-> ip, soper |-> o, din |-> n]
    IN  /\ scheduled' = scheduled \o
              (IF split THEN <<Entry(s, opcount - 1), Entry(split_sopers[ip], opcount)>>
               ELSE <<Entry(s, opcount)>>)
        /\ opcount' = opcount + 1

Schedule ==
    /\ step = "schedule" /\ opcount < MaxTrace
    /\ \E ip \in DOMAIN oper_table : ScheduleHalves(ip)
    /\ UNCHANGED <<program, split_post_increment, ppc64_translate, step, oper_table,
                   split_sopers>>

Next == BuildOperTable \/ SplitOpers \/ TypeOpers \/ Schedule

Spec == Init /\ [][Next]_vars

(***************************************************************************)
(* "We want to let the instruction (or more specifically its destinations) *)
(* be scheduled at two seperate times" (adamant_schedule.c 118): with      *)
(* --split-post-increment, what accesses memory does not update its base   *)
(* register in the same step of the schedule.                              *)
(***************************************************************************)
ScheduledAtTwoTimes ==
    (split_post_increment /\ ppc64_translate) =>
        \A k \in 1..Len(scheduled) :
            LET s == scheduled[k].soper
            IN  s.num_mem_src + s.num_mem_dst > 0 =>
                    "base" \notin {s.reg_dst[d] : d \in 1..Len(s.reg_dst)}
=============================================================================
