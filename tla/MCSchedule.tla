----------------------------- MODULE MCSchedule -----------------------------
(* Values for the constants of AdamantSchedule: instructions that meet each *)
(* other in registers, memory and the windows, and then instructions that   *)
(* branch, call and return.                                                 *)
EXTENDS AdamantSchedule, TLC

\* A register, two bytes on one line, the second of them on the stack.
MCLineOf == [b \in Bytes |-> "line"]

Plain ==
    [ip |-> 1, next |-> 2, effect |-> TRUE, reads |-> {}, writes |-> {},
     loads |-> {}, stores |-> {}, branch |-> FALSE, call |-> FALSE,
     return |-> FALSE, taken |-> FALSE]

DataOpers ==
    {[Plain EXCEPT !.writes = {"r1"}],                        \* load an immediate
     [Plain EXCEPT !.reads = {"r1"}, !.writes = {"r1", "r2"}], \* compute
     [Plain EXCEPT !.reads = {"r2"}, !.stores = {"b1"}],       \* store
     [Plain EXCEPT !.loads = {"b1", "b2"}, !.writes = {"r1"}], \* wide load
     [Plain EXCEPT !.loads = {"b2"}, !.writes = {"r2"}],       \* load from the stack
     [Plain EXCEPT !.effect = FALSE, !.writes = {"r1"}]}       \* predicated off

Default ==
    [w_num |-> 0, w_type |-> "rob", communication_latency |-> 0,
     ignore_regs |-> {}, ignore_stack |-> FALSE,
     respect_control |-> FALSE, predict_branches |-> FALSE,
     inorder_branches |-> FALSE, x86_translate |-> FALSE,
     maxopcount |-> 4, dd_tick_interval |-> 2]

WindowConfigs ==
    {[Default EXCEPT !.w_num = 2, !.w_type = "rob", !.communication_latency = 2],
     [Default EXCEPT !.w_num = 2, !.w_type = "ooo", !.communication_latency = 1],
     [Default EXCEPT !.w_num = 1, !.w_type = "rob", !.ignore_stack = TRUE,
                     !.maxopcount = 5],
     [Default EXCEPT !.w_num = 1, !.w_type = "ooo"],
     [Default EXCEPT !.ignore_regs = {"r2"}, !.maxopcount = 3]}

ControlOpers ==
    {[Plain EXCEPT !.writes = {"r1"}],
     [Plain EXCEPT !.ip = 3, !.next = 4, !.reads = {"r1"}, !.branch = TRUE],
     [Plain EXCEPT !.ip = 4, !.next = 5, !.reads = {"r1"}, !.writes = {"r1"}],
     [Plain EXCEPT !.ip = 5, !.next = 6, !.reads = {"r1"}, !.branch = TRUE, !.call = TRUE, !.taken = TRUE],
     [Plain EXCEPT !.ip = 6, !.next = 7, !.branch = TRUE, !.return = TRUE, !.taken = TRUE],
     [Plain EXCEPT !.ip = 8, !.next = 9],                     \* entry of setjmp
     [Plain EXCEPT !.ip = 9, !.next = 10, !.branch = TRUE, !.return = TRUE, !.taken = TRUE]}

\* Branch 3 depends on itself, as in a loop; instruction 4 on it and on call 5.
MCControlDeps == (3 :> {3}) @@ (4 :> {3, 5})

ControlConfigs ==
    {[Default EXCEPT !.respect_control = TRUE, !.maxopcount = 5],
     [Default EXCEPT !.respect_control = TRUE, !.predict_branches = TRUE, !.maxopcount = 5],
     [Default EXCEPT !.respect_control = TRUE, !.inorder_branches = TRUE,
                     !.w_num = 2, !.communication_latency = 1],
     [Default EXCEPT !.respect_control = TRUE, !.predict_branches = TRUE,
                     !.inorder_branches = TRUE, !.w_num = 1],
     [Default EXCEPT !.respect_control = TRUE, !.predict_branches = TRUE,
                     !.w_num = 2, !.communication_latency = 1]}

\* Run to the end of the trace.
Unlimited == {[Default EXCEPT !.maxopcount = 0]}

NoControlDeps == [ip \in {} |-> {}]
=============================================================================
