----------------------------- MODULE TraceCodec -----------------------------
(***************************************************************************)
(* TCgen.c: the predictors that replace a field of a dynamic instruction   *)
(* by the number of a right guess.  The tracer and the reader each train   *)
(* tables of their own; nothing but the guesses passes between them.       *)
(*                                                                         *)
(* F0..F7Encode and F0..F7Decode are the same code for different fields:   *)
(* the guess is a value (FCM), or a difference from the last value (DFCM). *)
(***************************************************************************)
EXTENDS Integers

CONSTANTS
    Fields, Strided,   \* the fields; those predicted by differences: addresses
    Modulus,           \* 2^64: values are unsigned and wrap around
    PCs,               \* rows of fhash (65536)
    Contexts,          \* rows of fcm2
    hash, mix          \* Hash4 and Hash8; the (h << 1) ^ hash of an older row

Word == 0..(Modulus - 1)
Rows == 0..(PCs - 1)

ASSUME CodecAssumption ==
    /\ "oper_id" \in Fields /\ Strided \subseteq Fields \ {"oper_id"}
    /\ Modulus \in Nat \ {0} /\ PCs \in Nat \ {0}
    /\ 0 \in Contexts
    /\ 1 \in Word
    /\ hash \in [Word -> Contexts]
    /\ mix \in [Contexts \X Contexts -> Contexts]

\* Guesses for a field.  The code after the last of them stands for a literal.
Guesses(f) == IF f = "oper_id" THEN {0, 1} ELSE {0}
Literal(f) == IF f = "oper_id" THEN 2 ELSE 1

\* The tables of a field: histories by instruction, guesses by history.
Predictor(f) ==
    [fhash : [Rows -> [0..2 -> Contexts]],
     fcm2 : [Contexts -> [Guesses(f) -> Word]],
     lv : [Rows -> Word],
     usecnt : [Guesses(f) \cup {Literal(f)} -> Nat]]

\* TCgen_Init
Fresh(f) ==
    [fhash |-> [i \in Rows |-> [j \in 0..2 |-> 0]],
     fcm2 |-> [h \in Contexts |-> [j \in Guesses(f) |-> j]],
     lv |-> [i \in Rows |-> 0],
     usecnt |-> [c \in Guesses(f) \cup {Literal(f)} |-> 0]]

TCgen_Init == [f \in Fields |-> Fresh(f)]

\* oper_id is predicted from the instructions before, the rest by instruction.
Row(f, id) == IF f = "oper_id" THEN 0 ELSE id % PCs

\* Unsigned subtraction and addition.
Minus(a, b) == IF a >= b THEN a - b ELSE a - b + Modulus
Plus(a, b) == IF a + b < Modulus THEN a + b ELSE a + b - Modulus

\* What the tables of f hold for a value: the value, or its distance.
Stride(f, p, i, v) == IF f \in Strided THEN Minus(v, p.lv[i]) ELSE v

Guess(p, i) == p.fcm2[p.fhash[i][2]]

(***************************************************************************)
(* What both sides do after a value: a guess that was not the first moves  *)
(* in front of the others, and the value becomes part of the history.      *)
(***************************************************************************)
Learn(f, p, i, v) ==
    LET s == Stride(f, p, i, v)
        old == p.fhash[i]
        row == Guess(p, i)
    IN  [p EXCEPT !.fcm2[old[2]] =
                      IF row[0] = s THEN row
                      ELSE [j \in Guesses(f) |-> IF j = 0 THEN s ELSE row[j - 1]],
                  !.fhash[i] = [j \in 0..2 |-> IF j = 0 THEN hash[s]
                                               ELSE mix[<<old[j - 1], hash[s]>>]],
                  !.lv[i] = IF f \in Strided THEN v ELSE @]

\* The right guess that was right most often, the first of them in a tie.
Code(f, p, i, v) ==
    LET Right(j) == Guess(p, i)[j] = Stride(f, p, i, v)
    IN  IF f = "oper_id" /\ Right(1) /\ (~Right(0) \/ p.usecnt[1] > p.usecnt[0])
        THEN 1 ELSE IF Right(0) THEN 0 ELSE Literal(f)

\* F0Encode..F7Encode: what is written, and the tables afterwards.
Encode(f, p, i, v) ==
    LET c == Code(f, p, i, v)
    IN  [code |-> c, literal |-> IF c = Literal(f) THEN v ELSE 0]

Encoded(f, p, i, v) ==
    LET c == Code(f, p, i, v)
    IN  [Learn(f, p, i, v) EXCEPT !.usecnt[c] = @ + 1]

\* Mutant: a guessed stride is taken for the value.
DecodeStride(f, p, i, item) ==
    IF item.code = Literal(f) THEN item.literal ELSE Guess(p, i)[item.code]

\* F0Decode..F7Decode.
Decode(f, p, i, item) ==
    IF item.code = Literal(f) THEN item.literal
    ELSE LET s == Guess(p, i)[item.code]
         IN  IF f \in Strided THEN Plus(s, p.lv[i]) ELSE s
==============================================================================
