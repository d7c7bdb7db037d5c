----------------------------- MODULE MCFraming ------------------------------
(* Constants for the model checking of Framing: two bits to a segment, six  *)
(* to a word, so that a length of 4 already takes two bytes.                *)
EXTENDS Framing

MCPayloads == {<<1>>, <<2, 7>>, <<0, 5, 1, 3>>, <<4, 3, 1, 1, 2>>}
=============================================================================
