---------------------------- MODULE MCChunkView -----------------------------
(* Constants for the model checking of ChunkView: chunks of 4 blocks. *)
EXTENDS ChunkView

\* Half a block along both axes, and half a block along one.
Diagonal == {-1, 1} \X {-1, 1}
Straight == {<<1, 0>>, <<-1, 0>>, <<0, 1>>, <<0, -1>>}

\* Three chunks along each axis, on the positive side.
Positive == 1 .. 23
=============================================================================
