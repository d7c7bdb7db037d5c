----------------------------- MODULE MCPalette ------------------------------
(***************************************************************************)
(* Constants for the model checking of Palette: seven entries, bytes of    *)
(* three bits and longs of seven, so that a long has a bit to spare for    *)
(* two and for three bits to an entry.                                     *)
(***************************************************************************)
EXTENDS Palette

\* A value for every number of values; neither 0 nor the largest is first.
Nth(n) == (3 * n + 5) % 8

\* Every way in which entries may be equal or different: an entry repeats
\* a value that has been there, or is the first with the next one.
Patterns[n \in 0 .. 7] ==
  IF n = 0 THEN {<<>>}
  ELSE UNION {{Append(s, v) : v \in 0 .. Cardinality({s[m] : m \in 1 .. n - 1})} :
                s \in Patterns[n - 1]}
MCSections == {[n \in 0 .. 6 |-> Nth(s[n + 1])] : s \in Patterns[7]}
=============================================================================
