----------------------------- MODULE TraceReplay -----------------------------
(***************************************************************************)
(* A trace from the tracer to the branch predictor: the loop of            *)
(* adamant_schedule_program reads the instructions back and asks the       *)
(* predictor about each, with the one read ahead as its successor.         *)
(***************************************************************************)
EXTENDS TraceFile, BranchPrediction, FiniteSets

\* The predictor is told of the instructions of the trace.
ASSUME ReplayAssumption == DOMAIN kind = Ips

vars == <<traceVars, predictionVars>>

Init == TraceInit /\ PredictionInit

\* The static instruction of a record: as it was traced, as the reader knows it.
Soper(vals) == oper_table[vals["oper_id"] + 1]
ReadSoper(vals) == program[vals["oper_id"] + 1]

\* The attributes of an instruction are encoded as one number.
Taken(vals) == vals["attr"] = 1

Write ==
    /\ \/ \E img \in Images : LoadImage(img)
       \/ \E d \in Dynamics : WriteDynamic(d) \/ WriteAndLink(d)
       \/ Exit \/ Crash
    /\ UNCHANGED predictionVars

Open == OpenTrace /\ UNCHANGED predictionVars
First == ReadFirst /\ UNCHANGED predictionVars
Stop == Finish /\ UNCHANGED predictionVars

\* Mutant: the successor is passed on at the end of the trace as well.
SuccessorAlways == ReadSoper(decoded'[Len(decoded')])

\* What adamant_schedule_oper is given as next_oper.
Successor ==
    IF tmterr' = "TMTIO_OK" THEN ReadSoper(decoded'[Len(decoded')]) ELSE None

\* An iteration of the loop; an assertion of the reader ends it in between.
Schedule ==
    /\ Iterate
    /\ IF reader' = "aborted" THEN UNCHANGED predictionVars
       ELSE Predict(ReadSoper(decoded[pos]), Taken(decoded[pos]), Successor)

Next == Write \/ Open \/ First \/ Schedule \/ Stop

(***************************************************************************)
(* The reader is a program that runs by itself.  Nothing makes the traced  *)
(* program exit, and nothing makes it go on.                               *)
(***************************************************************************)
Fairness == WF_vars(Open) /\ WF_vars(First) /\ WF_vars(Schedule) /\ WF_vars(Stop)

Spec == Init /\ [][Next]_vars /\ Fairness

----------------------------------------------------------------------------

\* Types of all variables.
TypeOK ==
    /\ TraceTypeOK
    /\ pht \in [Histories -> 0..3] /\ bhr \in Histories
    /\ branch_pred_accuracy \in [Branches -> [correct : Nat, total : Nat]]

(***************************************************************************)
(* A reader that gets past the opening of the program file knows the       *)
(* instruction of every record, the links included, which are entered      *)
(* while the trace is written: a tracer that is killed leaves no program   *)
(* file that seems complete.  (tmt_writecontext_write_oper_table against   *)
(* tmt_readcontext_build_oper_table)                                       *)
(***************************************************************************)
ProgramTellsAll ==
    reader \notin {"new", "refused"} =>
        \A k \in 1..Len(sent) :
            /\ sent[k]["oper_id"] < Len(program)
            /\ ReadSoper(sent[k]) = Soper(sent[k])

(***************************************************************************)
(* tmt_readcontext_read stops at the assertion on the length of a record   *)
(* when it comes to the end of a file that has a successor, and there      *)
(* only: every trace of one file is read without.                          *)
(***************************************************************************)
AbortsAtLink ==
    reader = "aborted" <=> \E k \in 1..pos : Soper(sent[k]) = Link

(***************************************************************************)
(* g_assert((bufp-buf)-1 == buf[0]): the reader consumes every record      *)
(* whole, as the assertion at the end of tmt_readcontext_read has it.      *)
(* The run trace_link shows that it does not.                              *)
(***************************************************************************)
RecordsConsumed == reader # "aborted"

(***************************************************************************)
(* adamant_schedule_program processes the instructions of the trace in     *)
(* order, none twice.  The last one comes with TMTIO_EOF, which ends the   *)
(* loop before it is processed; if the end is reported late it is          *)
(* processed, and the trace is said to have ended abnormally.              *)
(***************************************************************************)
WholeTrace ==
    LET n == Len(scheduled)
    IN  /\ n <= Len(sent) /\ \A k \in 1..n : scheduled[k] = sent[k]
        /\ reader = "finished" =>
              n = IF tmterr = "TMTIO_EOF" THEN Len(sent) - 1 ELSE Len(sent)
        /\ reader = "finished" /\ sent # <<>> => (tmterr = "TMTIO_ERROR") = late

(***************************************************************************)
(* A trace that is complete is read to its end, or to where the reader     *)
(* gives up: neither the end of a file nor an error keeps the loop going.  *)
(***************************************************************************)
TraceEnds ==
    tracer = "exited" ~>
        \/ reader \in {"refused", "aborted"}
        \/ reader = "finished" /\ Len(scheduled) >= Len(sent) - 1

\* The k-th instruction processed, and whether nothing was known to follow.
Ip(k) == Soper(scheduled[k])
Last(k) == k = Len(scheduled) /\ tmterr # "TMTIO_OK"

\* Direct branches, and what each is entered as.
Direct == {k \in 1..Len(scheduled) : Ip(k) \in Branches /\ kind[Ip(k)] # "indirect"}
EnteredTaken(k) ==
    /\ ~Last(k)
    /\ \/ Ip(k) \notin DOMAIN annotations
       \/ kind[Ip(k)] \in {"call", "return"} /\ x86_translate
       \/ Taken(scheduled[k])

\* The path before the k-th instruction: the i-th direct branch back from it.
PathBefore(k) ==
    [i \in 1..BHR_LENGTH |->
        \E j \in Direct : /\ j < k /\ Cardinality(Direct \cap (j..(k - 1))) = i
                          /\ EnteredTaken(j)]

(***************************************************************************)
(* The history register holds the outcomes of the direct branches that     *)
(* were processed last, whatever else was processed in between.            *)
(* (update_bp_accuracy)                                                    *)
(***************************************************************************)
HistoryIsPath == bhr = PathBefore(Len(scheduled) + 1)

\* The counter of each direct branch; the last two branches of a set.
Counter == [k \in Direct |-> Index(Ip(k), PathBefore(k))]
LastTwo(j, k, S) == j < k /\ \A m \in S : m <= j \/ m = k

(***************************************************************************)
(* What happened twice in a row on a path is predicted the third time; a   *)
(* path that was never taken is predicted taken.  The path is told from    *)
(* the trace alone.  (get_prediction against update_bp_accuracy)           *)
(***************************************************************************)
LearnsTwice ==
    LET counter == Counter
    IN  \A i \in Histories :
            LET seen == {k \in DOMAIN counter : counter[k] = i}
            IN  /\ seen = {} => pht[i] = 2
                /\ \A j, k \in seen :
                      LastTwo(j, k, seen) /\ (EnteredTaken(j) <=> EnteredTaken(k))
                          => (pht[i] >= 2 <=> EnteredTaken(k))

\* The last of the most frequent targets in the line of ip.
Heaviest(ip, target) ==
    \E p \in 1..Len(annotations[ip]) :
        /\ annotations[ip][p].target = target
        /\ \A q \in 1..Len(annotations[ip]) : q # p =>
              annotations[ip][q].frequency < annotations[ip][p].frequency + (IF q < p THEN 1 ELSE 0)

\* The executions of ip, and those whose successor was foreseen.
Of(ip) == {k \in 1..Len(scheduled) : Ip(k) = ip}
Right(ip) == {k \in Of(ip) : /\ ~Last(k)
                             /\ ip \in DOMAIN annotations =>
                                   Heaviest(ip, Soper(sent[k + 1]))}

(***************************************************************************)
(* An indirect branch counts as right when the instruction after it in the *)
(* trace is the target the annotations give most weight to, and a branch   *)
(* without annotation always; nothing follows the last one processed.      *)
(* (adamant_predict_branch, adamant_bp_read_distribution)                  *)
(***************************************************************************)
AccuracyCounts ==
    \A ip \in Branches :
        /\ branch_pred_accuracy[ip].total = Cardinality(Of(ip))
        /\ ip \notin DOMAIN annotations \/ kind[ip] = "indirect" =>
              branch_pred_accuracy[ip].correct = Cardinality(Right(ip))
==============================================================================
