--------------------------- MODULE BranchPrediction ---------------------------
(***************************************************************************)
(* adamant_branch_prediction.c: a table of two-bit counters indexed by the *)
(* address of a branch and the outcomes of the branches before it, and the *)
(* likely targets of indirect branches, from an annotation file.           *)
(*                                                                         *)
(* The history register, and an index of the table, are a bit for each of  *)
(* the last BHR_LENGTH branches, from BHR_MSB, the latest, down.           *)
(***************************************************************************)
EXTENDS Integers, Sequences

CONSTANTS
    kind,             \* of each static instruction, from instr_attr
    annotations,      \* a line for some of the branches: targets (one at
                      \* least, or none would be read), and frequencies
    x86_translate,
    BHR_LENGTH,
    pht_index,        \* (pc ^ bhr) & PHT_INDEX_MASK
    None              \* no instruction, no target

BranchKinds == {"none", "conditional", "call", "return", "indirect"}
Branches == {ip \in DOMAIN kind : kind[ip] # "none"}

Histories == [1..BHR_LENGTH -> BOOLEAN]

\* Mutant: the first of the most frequent targets, not the last.
MostFrequentFirst(line) ==
    LET k == CHOOSE k \in 1..Len(line) :
                \A j \in 1..Len(line) : \/ line[j].frequency < line[k].frequency
                                        \/ line[j].frequency = line[k].frequency /\ j >= k
    IN  line[k].target

\* adamant_bp_read_distribution: of the most frequent targets the last.
MostFrequent(line) ==
    LET k == CHOOSE k \in 1..Len(line) :
                \A j \in 1..Len(line) : \/ line[j].frequency < line[k].frequency
                                        \/ line[j].frequency = line[k].frequency /\ j <= k
    IN  line[k].target

(***************************************************************************)
(* The target of a direct call or return is 0 or 1, not taken or taken:    *)
(* adamant_predict_branch asserts it, and ends the process otherwise.      *)
(***************************************************************************)
ASSUME PredictionAssumption ==
    /\ kind \in [DOMAIN kind -> BranchKinds]
    /\ DOMAIN annotations \subseteq DOMAIN kind
    /\ \A ip \in DOMAIN annotations :
          /\ Len(annotations[ip]) \in Nat \ {0}
          /\ \A p \in 1..Len(annotations[ip]) : annotations[ip][p].frequency \in Nat
          /\ kind[ip] \in {"call", "return"} => MostFrequent(annotations[ip]) \in {0, 1}
    /\ BHR_LENGTH \in Nat \ {0}
    /\ pht_index \in [(DOMAIN kind) \X Histories -> Histories]
    /\ None \notin DOMAIN kind

VARIABLES
    branch_target_dist,       \* the targets from the annotations
    pht, bhr,
    branch_pred_accuracy      \* of each branch, those predicted and all

predictionVars == <<branch_target_dist, pht, bhr, branch_pred_accuracy>>

\* adamant_initialize_runtime.  All counters are weakly taken.
PredictionInit ==
    /\ branch_target_dist = [ip \in DOMAIN annotations |-> MostFrequent(annotations[ip])]
    /\ pht = [i \in Histories |-> 2]
    /\ bhr = [i \in 1..BHR_LENGTH |-> FALSE]
    /\ branch_pred_accuracy = [ip \in Branches |-> [correct |-> 0, total |-> 0]]

counter_inc(cnt) == IF cnt # 3 THEN cnt + 1 ELSE cnt

\* Mutant: the counter does not stop at 0.
DecrementAlways(cnt) == cnt - 1

counter_dec(cnt) == IF cnt # 0 THEN cnt - 1 ELSE cnt

\* The counter of a branch after a history.
Index(ip, history) == pht_index[<<ip, history>>]

get_prediction(ip) == pht[Index(ip, bhr)] >= 2

\* bhr >>= 1, and BHR_MSB is set for a branch that was taken.
Shifted(taken) == [i \in 1..BHR_LENGTH |-> IF i = 1 THEN taken ELSE bhr[i - 1]]

Count(ip, correct) ==
    branch_pred_accuracy' = [branch_pred_accuracy EXCEPT
        ![ip] = [correct |-> @.correct + (IF correct THEN 1 ELSE 0), total |-> @.total + 1]]

\* Mutant: the history is shifted before the counter is found.
UpdateShiftFirst(ip, correct, taken) ==
    /\ IF kind[ip] = "indirect" THEN UNCHANGED <<pht, bhr>>
       ELSE /\ bhr' = Shifted(taken)
            /\ pht' = [pht EXCEPT ![Index(ip, bhr')] =
                          IF taken THEN counter_inc(@) ELSE counter_dec(@)]
    /\ Count(ip, correct)
    /\ UNCHANGED branch_target_dist

\* update_bp_accuracy.  Indirect branches leave the table and history alone.
Update(ip, correct, taken) ==
    /\ IF kind[ip] = "indirect" THEN UNCHANGED <<pht, bhr>>
       ELSE /\ bhr' = Shifted(taken)
            /\ pht' = [pht EXCEPT ![Index(ip, bhr)] =
                          IF taken THEN counter_inc(@) ELSE counter_dec(@)]
    /\ Count(ip, correct)
    /\ UNCHANGED branch_target_dist

(***************************************************************************)
(* adamant_predict_branch.  A branch without annotation, and a call or     *)
(* return of x86, counts as right and is entered as taken; the branch that *)
(* nothing follows as wrong and not taken.  PredictionAssumption has the   *)
(* assertion on the targets of calls and returns.                          *)
(***************************************************************************)
Predict(ip, taken, next) ==
    IF ip \notin Branches THEN UNCHANGED predictionVars
    ELSE IF next = None THEN Update(ip, FALSE, FALSE)
    ELSE IF ip \notin DOMAIN branch_target_dist THEN Update(ip, TRUE, TRUE)
    ELSE IF kind[ip] = "indirect" THEN Update(ip, branch_target_dist[ip] = next, taken)
    ELSE IF kind[ip] \in {"call", "return"} /\ x86_translate THEN Update(ip, TRUE, TRUE)
    ELSE Update(ip, get_prediction(ip) = taken, taken)
==============================================================================
