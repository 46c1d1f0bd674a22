---------------------------- MODULE MCTraceReplay ----------------------------
(* Values for TLC: two images, and seven things that can be executed. *)
EXTENDS TraceReplay, Bitwise, TLC

MCFields == {"oper_id", "attr", "sys", "src_ea0", "dst_ea0",
             "mem_read_size", "mem_write_size"}
MCStrided == {"src_ea0", "dst_ea0"}
MCContexts == 0..3
MChash == [v \in Word |-> (v % 4) ^^ (v \div 4)]
MCmix == [c \in MCContexts \X MCContexts |-> ((c[1] * 2) ^^ c[2]) % 4]

\* 1 returns and loads for it, 2 branches, 3 jumps, 4 is a system call, 5 calls.
MCIps == 1..5
MCImages == {<<1, 2, 3>>, <<4, 5>>}
MCoperands ==
    [ip \in MCIps |-> CASE ip = 1 -> {"src_ea0"}
                        [] ip = 4 -> {"sys", "src_ea0", "dst_ea0",
                              "mem_read_size", "mem_write_size"}
                        [] ip = 5 -> {"dst_ea0"}
                        [] OTHER  -> {}]

Oper(ip, vals) == [ip |-> ip, vals |-> vals]

MCDynamics ==
    {Oper(1, [attr |-> 1, src_ea0 |-> a]) : a \in {0, 1}} \cup
    {Oper(2, [attr |-> t]) : t \in {0, 1}} \cup
    {Oper(3, [attr |-> 1]),
     Oper(4, [attr |-> 0, sys |-> 3, src_ea0 |-> 1, dst_ea0 |-> 2, mem_read_size |-> 4,
                mem_write_size |-> 0]),
     Oper(5, [attr |-> 0, dst_ea0 |-> 6])}

MCkind == [ip \in MCIps |-> CASE ip = 2 -> "conditional" [] ip = 3 -> "indirect"
                              [] ip = 5 -> "call" [] ip = 1 -> "return" [] OTHER -> "none"]

\* Two targets of the jump are equally frequent; the call has no annotation.
MCannotations ==
    (1 :> <<[target |-> 0, frequency |-> 1], [target |-> 1, frequency |-> 2]>>) @@
    (2 :> <<[target |-> 1, frequency |-> 1]>>) @@
    (3 :> <<[target |-> 5, frequency |-> 1], [target |-> 2, frequency |-> 3],
            [target |-> 1, frequency |-> 3]>>)

MCpht_index ==
    [c \in MCIps \X Histories |->
        [i \in 1..BHR_LENGTH |-> c[2][i] # ((c[1] \div 2 ^ (BHR_LENGTH - i)) % 2 = 1)]]
==============================================================================
