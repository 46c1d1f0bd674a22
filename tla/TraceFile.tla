------------------------------ MODULE TraceFile ------------------------------
(***************************************************************************)
(* tmt.c and tmtio.c: a tracer writes the instructions a program executes, *)
(* a reader in another process gets them back, and the loop of             *)
(* adamant_schedule_program takes them from it one ahead.                  *)
(*                                                                         *)
(* A record is what is written for one instruction: an encoded value for   *)
(* each of its fields, in an order both sides have in common.  The files   *)
(* of a trace are one sequence of records; a link to the next file is the  *)
(* last record of a file.                                                  *)
(***************************************************************************)
EXTENDS TraceCodec, Sequences

CONSTANTS
    Ips, operands,      \* static instructions; fields of each, besides two
    Images,             \* the images of the program, sequences of these
    Dynamics,           \* what may be executed: an address and the values
    Period,             \* TMT_WRITECONTEXT_FILESIZE_CHECK_PERIOD
    Link,               \* TMT_TRACE_EOF_INSTR_CATEGORY
    MaxRecords          \* bound on the length of a trace, for model checking

(***************************************************************************)
(* The tracer flags a size as variable for system calls only, which have   *)
(* one source and one destination, so a size is decoded once.              *)
(***************************************************************************)
ASSUME TraceAssumption ==
    /\ {"oper_id", "attr", "sys"} \subseteq Fields
    /\ operands \in [Ips -> SUBSET (Fields \ {"oper_id", "attr"})]
    /\ Images \subseteq Seq(Ips)
    /\ \A d \in Dynamics : /\ d.ip \in Ips
                           /\ d.vals \in [operands[d.ip] \cup {"attr"} -> Word]
    /\ Period \in Nat \ {0}
    /\ Link \notin Ips

VARIABLES
    tracer,         \* the process that writes
    oper_table,     \* its static instructions, each at its number
    program,        \* what the program file holds for a reader
    encs,           \* its tables before each record (history), and now
    records, sent,  \* what is in the files, and the values it stands for
    writes,         \* writes_since_last_check
    late,           \* does libbz2 report the end after the last byte only?
    reader,         \* the process that reads
    dec,            \* its tables
    decoded,        \* the values it has read
    tmterr,
    scheduled       \* what the loop has processed

traceVars == <<tracer, oper_table, program, encs, records, sent, writes, late,
               reader, dec, decoded, tmterr, scheduled>>
writerVars == <<tracer, oper_table, program, encs, records, sent, writes, late>>
readerVars == <<reader, dec, decoded, tmterr, scheduled>>

\* tmt_writecontext_new; TCgen_Init runs once in each process.
TraceInit ==
    /\ tracer = "running" /\ reader = "new"
    /\ oper_table = <<>> /\ program = <<>> /\ records = <<>> /\ sent = <<>>
    /\ encs = <<TCgen_Init>> /\ dec = TCgen_Init
    /\ writes = 0 /\ late = FALSE
    /\ decoded = <<>> /\ scheduled = <<>> /\ tmterr = "TMTIO_OK"

----------------------------------------------------------------------------
(* The tracer. *)

\* Static instructions are numbered from 0; ip_hashtable finds the number.
Known(ip) == \E k \in 1..Len(oper_table) : oper_table[k] = ip
IdOf(ip) == (CHOOSE k \in 1..Len(oper_table) : oper_table[k] = ip) - 1

\* Mutant: what is new goes to the program file with every image.
LoadImageWrites(img) ==
    /\ tracer = "running"
    /\ \A k \in 1..Len(img) : ~Known(img[k])
    /\ Len(oper_table) + Len(img) <= Modulus
    /\ oper_table' = oper_table \o img /\ program' = oper_table'
    /\ UNCHANGED <<tracer, encs, records, sent, writes, late, readerVars>>

(***************************************************************************)
(* I_Aoti, when the program loads an image: tmt_writecontext_write_static  *)
(* for each instruction in it.  Those it knows it does not enter again.    *)
(***************************************************************************)
LoadImage(img) ==
    /\ tracer = "running"
    /\ \A k \in 1..Len(img) : ~Known(img[k])
    /\ Len(oper_table) + Len(img) <= Modulus
    /\ oper_table' = oper_table \o img
    /\ UNCHANGED <<tracer, program, encs, records, sent, writes, late, readerVars>>

\* Every field is encoded by its own tables, which learn from it.
Packed(e, vals) ==
    [f \in DOMAIN vals |-> Encode(f, e[f], Row(f, vals["oper_id"]), vals[f])]

Trained(e, vals) ==
    [f \in Fields |-> IF f \in DOMAIN vals
                      THEN Encoded(f, e[f], Row(f, vals["oper_id"]), vals[f])
                      ELSE e[f]]

ValuesOf(d) ==
    [f \in DOMAIN d.vals \cup {"oper_id"} |->
        IF f = "oper_id" THEN IdOf(d.ip) ELSE d.vals[f]]

\* tmt_writecontext_open_next_trace_file: a number, no attributes, a call 0.
LinkFields == {"oper_id", "attr", "sys"}
LinkValues(id) == [f \in LinkFields |-> IF f = "oper_id" THEN id ELSE 0]

Put(vals) ==
    LET e == encs[Len(encs)]
    IN  /\ records' = Append(records, Packed(e, vals))
        /\ sent' = Append(sent, vals)
        /\ encs' = Append(encs, Trained(e, vals))

PutTwo(vals, linked) ==
    LET e == encs[Len(encs)]
        f == Trained(e, vals)
    IN  /\ records' = records \o <<Packed(e, vals), Packed(f, linked)>>
        /\ sent' = sent \o <<vals, linked>>
        /\ encs' = encs \o <<f, Trained(f, linked)>>

CheckDue == writes >= Period

\* tmt_writecontext_write_dynamic, when the file need not be changed.
WriteDynamic(d) ==
    /\ tracer = "running" /\ Known(d.ip)
    /\ Len(records) < MaxRecords
    /\ Put(ValuesOf(d))
    /\ writes' = IF CheckDue THEN 1 ELSE writes + 1
    /\ UNCHANGED <<tracer, oper_table, program, late, readerVars>>

(***************************************************************************)
(* The size of the file is looked at once a period.  If it is too large,   *)
(* the name of the next file becomes the opcode of a static instruction,   *)
(* and executing that instruction the last record of this file.            *)
(***************************************************************************)
WriteAndLink(d) ==
    /\ tracer = "running" /\ Known(d.ip) /\ CheckDue
    /\ Len(records) + 1 < MaxRecords /\ Len(oper_table) < Modulus
    /\ oper_table' = Append(oper_table, Link)
    /\ PutTwo(ValuesOf(d), LinkValues(Len(oper_table)))
    /\ writes' = 1
    /\ UNCHANGED <<tracer, program, late, readerVars>>

(***************************************************************************)
(* tmt_writecontext_free, which calls tmt_writecontext_write_oper_table    *)
(* and is the only one to do so, and closes the files.  Where the data     *)
(* ends in libbz2's buffers is chance.                                     *)
(***************************************************************************)
Exit ==
    /\ tracer = "running"
    /\ tracer' = "exited"
    /\ program' = oper_table
    /\ late' \in BOOLEAN
    /\ UNCHANGED <<oper_table, encs, records, sent, writes, readerVars>>

\* A tracer that is killed has opened its program file, and leaves it empty.
Crash ==
    /\ tracer = "running"
    /\ tracer' = "crashed"
    /\ UNCHANGED <<oper_table, program, encs, records, sent, writes, late, readerVars>>

----------------------------------------------------------------------------
(* The reader. *)

(***************************************************************************)
(* tmt_readcontext_new.  tmt_readcontext_build_oper_table reads the        *)
(* program file until TMTIO_EOF comes with the last entry, and gives up on *)
(* a file that is empty, or whose end is reported late.                    *)
(***************************************************************************)
Unreadable == program = <<>>

OpenTrace ==
    /\ reader = "new" /\ tracer # "running"
    /\ \E prog_late \in BOOLEAN :
          reader' = IF Unreadable \/ prog_late THEN "refused" ELSE "opened"
    /\ UNCHANGED <<writerVars, dec, decoded, tmterr, scheduled>>

\* Mutant: the number of a system call is not expected.
FieldsWithoutSys(soper) ==
    {"oper_id", "attr"} \cup (IF soper = Link THEN {} ELSE operands[soper] \ {"sys"})

\* The fields tmt_readcontext_read looks for, from the static instruction.
FieldsOf(soper) ==
    {"oper_id", "attr"} \cup (IF soper = Link THEN {} ELSE operands[soper])

pos == Len(decoded)
AtEnd == pos = Len(records)
NextId == Decode("oper_id", dec["oper_id"], 0, records[pos + 1]["oper_id"])
NextSoper == program[NextId + 1]

NextValues ==
    [f \in FieldsOf(NextSoper) |->
        Decode(f, dec[f], Row(f, NextId), records[pos + 1][f])]

\* g_assert((bufp-buf)-1 == buf[0]): everything in the record has been read.
Consumed == FieldsOf(NextSoper) = DOMAIN records[pos + 1]

(***************************************************************************)
(* tmt_read reports the end of the file together with its last bytes if    *)
(* libbz2 has by then, and else with the next call, as an error.  A link   *)
(* is answered by the opening of the next file.                            *)
(***************************************************************************)
Status ==
    IF AtEnd THEN "TMTIO_ERROR"
    ELSE IF NextSoper # Link /\ pos + 1 = Len(records) /\ ~late THEN "TMTIO_EOF"
    ELSE "TMTIO_OK"

\* Mutant: the tables do not learn from a literal.
ReadLearnsGuesses ==
    /\ tmterr' = Status
    /\ IF AtEnd THEN UNCHANGED <<dec, decoded>>
       ELSE /\ decoded' = Append(decoded, NextValues)
            /\ dec' = [f \in Fields |->
                          IF /\ f \in FieldsOf(NextSoper)
                             /\ records[pos + 1][f].code # Literal(f)
                          THEN Learn(f, dec[f], Row(f, NextId), NextValues[f])
                          ELSE dec[f]]

\* tmt_readcontext_read
Read ==
    /\ tmterr' = Status
    /\ IF AtEnd THEN UNCHANGED <<dec, decoded>>
       ELSE /\ decoded' = Append(decoded, NextValues)
            /\ dec' = [f \in Fields |->
                          IF f \in FieldsOf(NextSoper)
                          THEN Learn(f, dec[f], Row(f, NextId), NextValues[f])
                          ELSE dec[f]]

Aborts == ~AtEnd /\ ~Consumed

\* The first read of adamant_schedule_program, before its loop.
ReadFirst ==
    /\ reader = "opened"
    /\ Read
    /\ reader' = IF Aborts THEN "aborted" ELSE "reading"
    /\ UNCHANGED <<writerVars, scheduled>>

\* Mutant: the instruction just read is processed, not the one before it.
IterateNewest ==
    /\ reader = "reading" /\ tmterr = "TMTIO_OK"
    /\ Read
    /\ IF Aborts THEN reader' = "aborted" /\ UNCHANGED scheduled
       ELSE scheduled' = Append(scheduled, decoded'[Len(decoded')]) /\ UNCHANGED reader
    /\ UNCHANGED writerVars

\* One iteration: the next instruction is read before this one is processed.
Iterate ==
    /\ reader = "reading" /\ tmterr = "TMTIO_OK"
    /\ Read
    /\ IF Aborts THEN reader' = "aborted" /\ UNCHANGED scheduled
       ELSE scheduled' = Append(scheduled, decoded[pos]) /\ UNCHANGED reader
    /\ UNCHANGED writerVars

\* Mutant: the loop goes round again at the end of the trace.
FinishOnError ==
    /\ reader = "reading" /\ tmterr = "TMTIO_ERROR"
    /\ reader' = "finished"
    /\ UNCHANGED <<writerVars, dec, decoded, tmterr, scheduled>>

Finish ==
    /\ reader = "reading" /\ tmterr # "TMTIO_OK"
    /\ reader' = "finished"
    /\ UNCHANGED <<writerVars, dec, decoded, tmterr, scheduled>>

TraceNext ==
    \/ \E img \in Images : LoadImage(img)
    \/ \E d \in Dynamics : WriteDynamic(d) \/ WriteAndLink(d)
    \/ Exit \/ Crash \/ OpenTrace \/ ReadFirst \/ Iterate \/ Finish

----------------------------------------------------------------------------

\* Types of the writer's and the reader's state.
ReaderStates == {"new", "refused", "opened", "reading", "aborted", "finished"}

TraceTypeOK ==
    /\ tracer \in {"running", "exited", "crashed"}
    /\ reader \in ReaderStates
    /\ oper_table \in Seq(Ips \cup {Link}) /\ Len(oper_table) <= Modulus
    /\ program \in Seq(Ips \cup {Link})
    /\ \A f \in Fields : encs[Len(encs)][f] \in Predictor(f)
    /\ \A f \in Fields : dec[f] \in Predictor(f)
    /\ writes \in Nat /\ late \in BOOLEAN
    /\ tmterr \in {"TMTIO_OK", "TMTIO_EOF", "TMTIO_ERROR"}

(***************************************************************************)
(* What is read is what was written: although only the numbers of guesses  *)
(* are in the file, every value read is the value of its field in the      *)
(* record that was written at this place.  Only a record at which the      *)
(* reader stops may have lost a field.  (F0..F7Encode against F0..F7Decode)*)
(***************************************************************************)
Lossless ==
    /\ pos <= Len(sent)
    /\ \A k \in 1..pos :
          /\ \A f \in DOMAIN decoded[k] :
                f \in DOMAIN sent[k] /\ decoded[k][f] = sent[k][f]
          /\ DOMAIN decoded[k] = DOMAIN sent[k] \/ (reader = "aborted" /\ k = pos)

(***************************************************************************)
(* The reader's tables are the writer's before the record it reads next,   *)
(* but for the counts of right guesses, which only the writer keeps.       *)
(***************************************************************************)
SameTables(p, q) == p.fhash = q.fhash /\ p.fcm2 = q.fcm2 /\ p.lv = q.lv

InStep ==
    reader # "aborted" =>
        \A f \in Fields : SameTables(dec[f], encs[pos + 1][f])
==============================================================================
