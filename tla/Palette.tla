------------------------------ MODULE Palette -------------------------------
(***************************************************************************)
(* The paletted containers of a chunk section                              *)
(* (src/protocol/packets/play_clientbound.h): the writer of the server,    *)
(* create_paletted_container_from_entries, and the reader beside it,       *)
(* read_paletted_container_to_array.                                       *)
(*                                                                         *)
(* The buffer is a sequence of fields.  A long is the set of its bits that *)
(* are 1; every other field is a number.                                   *)
(***************************************************************************)
EXTENDS VarInt, FiniteSets

CONSTANTS
  number_of_entries,      \* 4096, or 64 for biomes
  LongBits,               \* 64
  min_bpe_indirect, max_bpe_indirect, bits_per_entry_direct,  \* 4, 8 and 15
  Sections,               \* the arrays of entries to be written
  BufferSize              \* 4096 bytes

Entries == 0 .. number_of_entries - 1
Values == 0 .. Pow2[bits_per_entry_direct] - 1

ASSUME PaletteAssumption ==
  /\ number_of_entries \in Word \ {0} /\ BufferSize \in Nat
  /\ {min_bpe_indirect, max_bpe_indirect, bits_per_entry_direct,
      LongBits} \subseteq Nat
  /\ 1 <= min_bpe_indirect /\ min_bpe_indirect <= max_bpe_indirect
  /\ max_bpe_indirect < bits_per_entry_direct
  /\ bits_per_entry_direct <= LongBits
  /\ Sections \subseteq [Entries -> Values]
  /\ Values \subseteq Word

VARIABLES
  block_states,    \* what is to be written
  distinct_values, \* the values in it, in the order in which they appear
  next,            \* the entry to be looked at
  buffer,          \* the fields written, and their length in bytes
  pos,
  out,             \* what is read back, and how many fields that took
  taken,
  phase            \* "collect", "write", "written", "failed" or "read"
container_vars ==
  <<block_states, distinct_values, next, buffer, pos, out, taken, phase>>

-----------------------------------------------------------------------------
(* Bits and longs.                                                         *)

\* The sum of a sequence of numbers.
Total(t) == LET Sum[k \in 0 .. Len(t)] ==
                  IF k = 0 THEN 0 ELSE Sum[k-1] + t[k]
            IN Sum[Len(t)]

Bits(n) == {b \in 0 .. LongBits - 1 : (n \div Pow2[b]) % 2 = 1}

entries_per_long(bits) == LongBits \div bits
number_of_longs(bits) ==
  (number_of_entries + entries_per_long(bits) - 1) \div entries_per_long(bits)
LongBytes == (LongBits + SegmentBits) \div (SegmentBits + 1)

bit_index(n, bits) == (n % entries_per_long(bits)) * bits
Field(at, bits) == at .. at + bits - 1

\* Faulty variant: the long is assigned, not added to.
Put_Assigns(long, value, at, bits) ==
  {at + b : b \in Bits(value)} \cap (0 .. LongBits - 1)

\* The entry's field is cleared and its value added, at whatever width the
\* value has; what is shifted out at the top is lost.
Put(long, value, at, bits) ==
  (long \ Field(at, bits))
    \cup ({at + b : b \in Bits(value)} \cap (0 .. LongBits - 1))

\* The field, bit by bit.
Get(long, at, bits) ==
  Total([k \in 1 .. bits |-> IF at + k - 1 \in long THEN Pow2[k-1] ELSE 0])

\* The longs of all entries, written one after another in their order.
data(values, bits) ==
  LET Longs[n \in 0 .. number_of_entries] ==
        IF n = 0 THEN [m \in 1 .. number_of_longs(bits) |-> {}]
        ELSE [Longs[n-1] EXCEPT ![(n - 1) \div entries_per_long(bits) + 1] =
                Put(@, values[n-1], bit_index(n - 1, bits), bits)]
  IN Longs[number_of_entries]

-----------------------------------------------------------------------------
(* The writer.                                                             *)

n_distinct_values == Len(distinct_values)

\* The number of bits that are 1 in the number of values.
bits_per_entry == LET ones == Cardinality(Bits(n_distinct_values))
                  IN IF ones > min_bpe_indirect THEN ones ELSE min_bpe_indirect

data_idx(value) == CHOOSE j \in 0 .. n_distinct_values - 1 :
                     distinct_values[j + 1] = value

ContainerInit ==
  /\ block_states \in Sections
  /\ distinct_values = <<>> /\ next = 0
  /\ buffer = <<>> /\ pos = 0
  /\ out = <<>> /\ taken = 0
  /\ phase = "collect"

\* One turn of the loop that collects the distinct values.
Collect ==
  /\ phase = "collect"
  /\ LET value == block_states[next]
     IN distinct_values' = IF \E j \in 1 .. n_distinct_values :
                                distinct_values[j] = value
                           THEN distinct_values
                           ELSE Append(distinct_values, value)
  /\ next' = next + 1
  /\ phase' = IF next' = number_of_entries THEN "write" ELSE phase
  /\ UNCHANGED <<block_states, buffer, pos, out, taken>>

\* Faulty variant: the end of the buffer is not looked at.
Fits_Always(length) == TRUE
Fits(length) == length <= BufferSize

\* The fields, if they fit into the buffer; otherwise the writer returns the
\* error of the first that does not, and the container stays as it was.
Emit(fields, length) ==
  /\ phase = "write"
  /\ IF Fits(length)
     THEN buffer' = fields /\ pos' = length /\ phase' = "written"
     ELSE phase' = "failed" /\ UNCHANGED <<buffer, pos>>
  /\ UNCHANGED <<block_states, distinct_values, next, out, taken>>

Single ==
  /\ n_distinct_values = 1
  /\ Emit(<<0, distinct_values[1]>>, 1 + EncodedLen(distinct_values[1]))

Paletted ==
  /\ n_distinct_values # 1
  /\ bits_per_entry <= max_bpe_indirect
  /\ LET index == [n \in Entries |-> data_idx(block_states[n])]
     IN Emit(<<bits_per_entry, n_distinct_values>> \o distinct_values
               \o data(index, bits_per_entry),
             1 + EncodedLen(n_distinct_values)
               + Total([j \in 1 .. n_distinct_values |->
                          EncodedLen(distinct_values[j])])
               + number_of_longs(bits_per_entry) * LongBytes)

Direct ==
  /\ n_distinct_values # 1
  /\ bits_per_entry > max_bpe_indirect
  /\ Emit(<<bits_per_entry_direct>>
            \o data(block_states, bits_per_entry_direct),
          1 + number_of_longs(bits_per_entry_direct) * LongBytes)

-----------------------------------------------------------------------------
(* The reader.  Nothing in a container says how many longs there are, or    *)
(* how they are filled: the reader has a computation of its own for both.  *)

read_entries_per_long(bits) == LongBits \div bits

\* Faulty variant: the quotient is rounded down, as that of entries_per_long.
read_number_of_longs_Floor(bits) ==
  number_of_entries \div read_entries_per_long(bits)

read_number_of_longs(bits) ==
  (number_of_entries + read_entries_per_long(bits) - 1)
    \div read_entries_per_long(bits)

read_bit_index(n, bits) == (n % read_entries_per_long(bits)) * bits

ReadsPalette(bits) == bits # 0 /\ bits <= max_bpe_indirect

\* The entry n of the longs that follow the first fields.
Entry(n, skipped, bits) ==
  Get(buffer[skipped + n \div read_entries_per_long(bits) + 1],
      read_bit_index(n, bits), bits)

Read ==
  /\ phase = "written"
  /\ LET bits == buffer[1]
         palette_len == buffer[2]
         wide == bits_per_entry_direct
     IN \/ /\ bits = 0
           /\ out' = [n \in Entries |-> buffer[2]]
           /\ taken' = 2
        \/ /\ ReadsPalette(bits)
           /\ out' = [n \in Entries |->
                        buffer[3 + Entry(n, 2 + palette_len, bits)]]
           /\ taken' = 2 + palette_len + read_number_of_longs(bits)
        \/ /\ bits # 0 /\ ~ReadsPalette(bits)
           /\ out' = [n \in Entries |-> Entry(n, 1, wide)]
           /\ taken' = 1 + read_number_of_longs(wide)
  /\ phase' = "read"
  /\ UNCHANGED <<block_states, distinct_values, next, buffer, pos>>

Ended == phase \in {"failed", "read"} /\ UNCHANGED container_vars

ContainerNext ==
  Collect \/ Single \/ Paletted \/ Direct \/ Read \/ Ended
ContainerSpec == ContainerInit /\ [][ContainerNext]_container_vars

-----------------------------------------------------------------------------
(* Properties.                                                             *)

\* The values of the entries that have been looked at.
Seen == {block_states[n] : n \in 0 .. next - 1}

ContainerTypeOK ==
  /\ block_states \in [Entries -> Values]
  /\ distinct_values \in Seq(Values)
  /\ n_distinct_values = Cardinality(Seen)
  /\ next \in 0 .. number_of_entries
  /\ pos \in 0 .. BufferSize
  /\ taken \in Nat
  /\ phase \in {"collect", "write", "written", "failed", "read"}

Wide == n_distinct_values <= Pow2[bits_per_entry]

\* A container is read back as the section it was written from exactly if
\* its indices have room for all of its values.  With bits counted instead of
\* a width, that is so for 16 values at most in the code, and for some larger
\* numbers, not for 17; without a palette it is always so.
ExactIffWide ==
  phase = "read" =>
    (out = block_states <=> buffer[1] > max_bpe_indirect \/ Wide)

\* The reader takes exactly the fields the writer wrote, of whichever form:
\* the number of longs is not in the packet, and the next container starts
\* behind them.
ReadToTheEnd == phase = "read" => taken = Len(buffer)
=============================================================================
