------------------------------- MODULE VarInt -------------------------------
(***************************************************************************)
(* The variable-length integers of src/protocol/rw.c.  A byte carries      *)
(* SegmentBits bits of the number, least significant first, and the next   *)
(* bit (CONTINUE_BIT) says whether another byte follows; a number has      *)
(* WordBits bits.  The code has SegmentBits = 7 and WordBits = 32.         *)
(***************************************************************************)
EXTENDS Integers, Sequences

CONSTANTS SegmentBits, WordBits
ASSUME BitsAssumption == /\ SegmentBits \in Nat \ {0}
                         /\ WordBits \in Nat \ {0}

\* 2 ^ n, as a function that a proof can unfold.
Pow2[n \in Nat] == IF n = 0 THEN 1 ELSE 2 * Pow2[n-1]

CONTINUE_BIT == Pow2[SegmentBits]
Byte == 0 .. 2 * CONTINUE_BIT - 1
Word == 0 .. Pow2[WordBits] - 1
MaxBytes == (WordBits + SegmentBits - 1) \div SegmentBits

\* Faulty variant: one byte too few is allowed.
Ends_Short(s) == {n \in 1 .. Len(s) : n < MaxBytes /\ s[n] < CONTINUE_BIT}

\* The number of bytes read_var_int takes from s, or 0 if it fails: the bytes
\* run out, or MaxBytes of them all ask for one more.
Ends(s) == {n \in 1 .. Len(s) : n <= MaxBytes /\ s[n] < CONTINUE_BIT}
VarIntLen(s) == IF Ends(s) = {} THEN 0
                ELSE CHOOSE n \in Ends(s) : \A m \in Ends(s) : n <= m

\* The value of the first n bytes, as an unsigned word.
VarIntValue(s, n) ==
  LET Segment[k \in 0 .. n] ==
        IF k = 0 THEN 0
        ELSE Segment[k-1]
             + (s[k] % CONTINUE_BIT) * Pow2[SegmentBits * (k - 1)]
  IN Segment[n] % Pow2[WordBits]

\* What write_var_int writes for an unsigned word.
EncodedLen(v) == CHOOSE n \in 1 .. MaxBytes :
                   /\ v < Pow2[SegmentBits * n]
                   /\ n = 1 \/ v >= Pow2[SegmentBits * (n - 1)]

Encode(v) ==
  [n \in 1 .. EncodedLen(v) |->
     ((v \div Pow2[SegmentBits * (n - 1)]) % CONTINUE_BIT)
     + (IF n < EncodedLen(v) THEN CONTINUE_BIT ELSE 0)]
=============================================================================
