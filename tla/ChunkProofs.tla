---------------------------- MODULE ChunkProofs -----------------------------
(***************************************************************************)
(* Theorems about the chunks of the world: Palette, for every width of an  *)
(* entry and of a long and every number of entries, and, from              *)
(* "The chunks a player is sent" on, ChunkView, for every width of a       *)
(* chunk, view distance and size of the world.  The two have no variable   *)
(* in common and are proved apart from each other.                         *)
(***************************************************************************)
EXTENDS Palette, ChunkView, VarIntProofs, FiniteSetTheorems

-----------------------------------------------------------------------------
(* Sums.                                                                   *)

\* The sum of n numbers is the last of its partial sums.
LEMMA TotalIs ==
  ASSUME NEW n \in Nat, NEW t \in [1 .. n -> Nat]
  PROVE  \E f : /\ f \in [0 .. n -> Nat]
                /\ f[0] = 0
                /\ \A k \in 1 .. n : f[k] = f[k-1] + t[k]
                /\ Total(t) = f[n]
<1> DEFINE g == [p \in Nat \X Nat |-> IF p[1] < n THEN p[2] + t[p[1] + 1]
                                      ELSE 0]
           E(f) == f = [k \in 0 .. n |-> IF k = 0 THEN 0 ELSE f[k-1] + t[k]]
<1>1. Len(t) = n
  OBVIOUS
<1>2. Total(t) = (CHOOSE f : E(f))[n]
  BY <1>1, Zenon DEF Total
<1>3. g \in [Nat \X Nat -> Nat]
  OBVIOUS
<1>4. PICK f : Approximates(f, n, Nat, 0, g)
  <2>1. 0 \in Nat
    OBVIOUS
  <2> HIDE DEF g
  <2> QED BY <1>3, <2>1, ApproximationExists
<1>5. ASSUME NEW k \in 1 .. n PROVE f[k] = f[k-1] + t[k]
  <2>1. k - 1 \in Nat /\ k - 1 < n /\ (k - 1) + 1 = k
    OBVIOUS
  <2>2. f[k] = g[<<k - 1, f[k-1]>>]
    BY <1>4, <2>1 DEF Approximates
  <2>3. f[k-1] \in Nat
    BY <1>4, <2>1 DEF Approximates
  <2> QED BY <2>1, <2>2, <2>3
<1> HIDE DEF g
<1>6. E(f)
  BY <1>4, <1>5 DEF Approximates
<1>7. E(CHOOSE h : E(h))
  BY <1>6, Zenon
<1> DEFINE c == CHOOSE h : E(h)
<1>8. c = [k \in 0 .. n |-> IF k = 0 THEN 0 ELSE c[k-1] + t[k]]
  BY <1>7
<1>9. Total(t) = c[n]
  BY <1>2, Zenon
<1> HIDE DEF c, E
<1>10. /\ c[0] = 0 /\ \A k \in 1 .. n : c[k] = c[k-1] + t[k]
       /\ DOMAIN c = 0 .. n
  BY <1>8
<1>11. \A k \in Nat : k <= n => c[k] \in Nat
  <2> DEFINE T == {k \in Nat : k <= n => c[k] \in Nat}
  <2>1. 0 \in T
    BY <1>10
  <2>2. ASSUME NEW k \in T PROVE k + 1 \in T
    <3> SUFFICES ASSUME k + 1 <= n PROVE c[k+1] \in Nat
      OBVIOUS
    <3>1. k + 1 \in 1 .. n /\ (k + 1) - 1 = k /\ c[k] \in Nat
      OBVIOUS
    <3> QED BY <1>10, <3>1
  <2> HIDE DEF T
  <2>3. T \in SUBSET Nat
    BY DEF T
  <2>4. \A k \in Nat : k \in T
    BY <2>1, <2>2, <2>3, Induction
  <2> QED BY <2>4 DEF T
<1>12. c \in [0 .. n -> Nat]
  BY <1>8, <1>11
<1> QED BY <1>9, <1>10, <1>12, Zenon

LEMMA TotalType ==
  ASSUME NEW n \in Nat, NEW t \in [1 .. n -> Nat]
  PROVE  Total(t) \in Nat
<1>1. PICK f : f \in [0 .. n -> Nat] /\ Total(t) = f[n]
  BY TotalIs
<1> QED BY <1>1

-----------------------------------------------------------------------------
(* Bits.                                                                   *)

\* A field has the bits of v.
HasBits(long, at, bits, v) ==
  \A k \in 0 .. bits - 1 : at + k \in long <=> (v \div Pow2[k]) % 2 = 1

\* Such a field is read as the lower bits of v.
LEMMA GetIs ==
  ASSUME NEW long, NEW at \in Nat, NEW bits \in Nat, NEW v \in Nat,
         HasBits(long, at, bits, v)
  PROVE  Get(long, at, bits) = v % Pow2[bits]
<1> DEFINE t == [k \in 1 .. bits |->
                   IF at + k - 1 \in long THEN Pow2[k-1] ELSE 0]
<1>1. t \in [1 .. bits -> Nat]
  <2>1. \A k \in 1 .. bits : k - 1 \in Nat
    OBVIOUS
  <2> QED BY <2>1, Pow2Type
<1>2. PICK f : /\ f \in [0 .. bits -> Nat]
               /\ f[0] = 0
               /\ \A k \in 1 .. bits : f[k] = f[k-1] + t[k]
               /\ Total(t) = f[bits]
  <2> HIDE DEF t
  <2> QED BY <1>1, TotalIs, Zenon
<1> DEFINE T == {k \in Nat : k <= bits => f[k] = v % Pow2[k]}
<1>3. 0 \in T
  <2>1. v % 1 = 0
    OBVIOUS
  <2> QED BY <1>2, <2>1, Pow2Values
<1>4. ASSUME NEW k \in T PROVE k + 1 \in T
  <2> SUFFICES ASSUME k + 1 <= bits PROVE f[k+1] = v % Pow2[k+1]
    OBVIOUS
  <2>1. /\ k \in Nat /\ k + 1 \in 1 .. bits /\ (k + 1) - 1 = k
        /\ k \in 0 .. bits - 1 /\ at + (k + 1) - 1 = at + k
    OBVIOUS
  <2>2. f[k] = v % Pow2[k]
    BY <2>1
  <2>3. f[k+1] = f[k] + (IF at + k \in long THEN Pow2[k] ELSE 0)
    BY <1>2, <2>1
  <2> DEFINE p == Pow2[k]
             q == (v \div p) % 2
  <2>4. p \in Nat \ {0} /\ Pow2[k+1] = p * 2
    BY <2>1, Pow2Type, Pow2Values
  <2>5. v % (p * 2) = (v % p) + q * p
    <3> HIDE DEF p
    <3>1. 2 \in Nat \ {0} /\ v \in Int
      OBVIOUS
    <3> QED BY <2>4, <3>1, NextDigit, Zenon
  <2>6. q \in {0, 1} /\ (at + k \in long <=> q = 1)
    <3>1. at + k \in long <=> q = 1
      BY <2>1 DEF HasBits
    <3> HIDE DEF p
    <3>2. v \div p \in Int
      BY <2>4
    <3> DEFINE d == v \div p
    <3> HIDE DEF d
    <3>3. d % 2 \in {0, 1}
      BY <3>2 DEF d
    <3> QED BY <3>1, <3>3 DEF d
  <2> HIDE DEF q, p
  <2>7. q * p = IF at + k \in long THEN p ELSE 0
    BY <2>4, <2>6
  <2>8. v % p \in Nat
    BY <2>4
  <2> QED BY <2>2, <2>3, <2>4, <2>5, <2>7, <2>8 DEF p
<1> HIDE DEF T
<1>5. T \in SUBSET Nat
  BY DEF T
<1>6. \A k \in Nat : k \in T
  BY <1>3, <1>4, <1>5, Induction
<1>7. f[bits] = v % Pow2[bits]
  BY <1>6 DEF T
<1> QED BY <1>2, <1>7, Zenon DEF Get

\* Whatever is in a long, a field is read as a number of its width.
LEMMA GetBound ==
  ASSUME NEW long, NEW at \in Nat, NEW bits \in Nat
  PROVE  Get(long, at, bits) \in 0 .. Pow2[bits] - 1
<1> DEFINE t == [k \in 1 .. bits |->
                   IF at + k - 1 \in long THEN Pow2[k-1] ELSE 0]
<1>1. t \in [1 .. bits -> Nat]
  <2>1. \A k \in 1 .. bits : k - 1 \in Nat
    OBVIOUS
  <2> QED BY <2>1, Pow2Type
<1>2. PICK f : /\ f \in [0 .. bits -> Nat]
               /\ f[0] = 0
               /\ \A k \in 1 .. bits : f[k] = f[k-1] + t[k]
               /\ Total(t) = f[bits]
  <2> HIDE DEF t
  <2> QED BY <1>1, TotalIs, Zenon
<1> DEFINE T == {k \in Nat : k <= bits => f[k] < Pow2[k]}
<1>3. 0 \in T
  <2>1. f[0] < Pow2[0]
    <3>1. f[0] = 0 /\ Pow2[0] = 1
      BY <1>2, Pow2Values, Zenon
    <3> QED BY <3>1
  <2> QED BY <2>1
<1>4. ASSUME NEW k \in T PROVE k + 1 \in T
  <2> SUFFICES ASSUME k + 1 <= bits PROVE f[k+1] < Pow2[k+1]
    OBVIOUS
  <2>1. /\ k \in Nat /\ k + 1 \in 1 .. bits /\ (k + 1) - 1 = k
        /\ k \in 0 .. bits
    OBVIOUS
  <2>2. f[k] < Pow2[k] /\ f[k] \in Nat
    BY <1>2, <2>1
  <2>3. f[k+1] = f[k] + t[k+1]
    BY <1>2, <2>1
  <2>4. t[k+1] \in {Pow2[k], 0}
    BY <2>1
  <2>5. Pow2[k] \in Nat \ {0} /\ Pow2[k+1] = 2 * Pow2[k]
    BY <2>1, Pow2Type, Pow2Values
  <2> HIDE DEF t
  <2> QED BY <2>2, <2>3, <2>4, <2>5
<1> HIDE DEF T
<1>5. T \in SUBSET Nat
  BY DEF T
<1>6. \A k \in Nat : k \in T
  BY <1>3, <1>4, <1>5, Induction
<1>7. f[bits] < Pow2[bits] /\ f[bits] \in Nat /\ Pow2[bits] \in Nat
  BY <1>2, <1>6, Pow2Type DEF T
<1>8. Get(long, at, bits) = f[bits]
  BY <1>2, Zenon DEF Get
<1> QED BY <1>7, <1>8

\* A number of a field's width has no bit above it.
LEMMA NoBitAbove ==
  ASSUME NEW bits \in Nat, NEW v \in 0 .. Pow2[bits] - 1,
         NEW b \in Bits(v)
  PROVE  b \in 0 .. bits - 1
<1>1. b \in Nat /\ b \in 0 .. LongBits - 1 /\ (v \div Pow2[b]) % 2 = 1
  BY DEF Bits
<1> SUFFICES ASSUME bits <= b PROVE FALSE
  BY <1>1
<1>2. Pow2[bits] <= Pow2[b] /\ Pow2[b] \in Nat \ {0} /\ Pow2[bits] \in Nat
  BY <1>1, Pow2Grows, Pow2Type
<1> DEFINE p == Pow2[b]
<1>3. p \in Nat \ {0} /\ v \in 0 .. p - 1 /\ 0 \in Int
  BY <1>2
<1>4. p * 0 + v = v
  BY <1>3
<1>5. (p * 0 + v) \div p = 0
  <2> HIDE DEF p
  <2> QED BY <1>3, DivisionUnique
<1>6. v \div p = 0
  BY <1>4, <1>5
<1> QED BY <1>1, <1>6

\* What an entry that has room changes: its field has its bits, and every
\* other bit of the long stays.
LEMMA PutIs ==
  ASSUME NEW long \in SUBSET (0 .. LongBits - 1), LongBits \in Nat,
         NEW bits \in Nat, NEW at \in Nat, at + bits <= LongBits,
         NEW v \in 0 .. Pow2[bits] - 1
  PROVE  /\ Put(long, v, at, bits) \in SUBSET (0 .. LongBits - 1)
         /\ HasBits(Put(long, v, at, bits), at, bits, v)
         /\ \A b \in Int : b \notin Field(at, bits) =>
              (b \in Put(long, v, at, bits) <=> b \in long)
<1>1. Put(long, v, at, bits) \in SUBSET (0 .. LongBits - 1)
  BY DEF Put
<1>2. \A b \in Bits(v) : b \in 0 .. bits - 1
  BY NoBitAbove
<1>3. ASSUME NEW k \in 0 .. bits - 1
      PROVE  at + k \in Put(long, v, at, bits) <=> (v \div Pow2[k]) % 2 = 1
  <2>1. /\ k \in 0 .. LongBits - 1 /\ at + k \in 0 .. LongBits - 1
        /\ at + k \in Field(at, bits)
    BY DEF Field
  <2>2. \A b \in Int : at + k = at + b => b = k
    OBVIOUS
  <2>3. at + k \in Put(long, v, at, bits) <=> k \in Bits(v)
    BY <1>2, <2>1, <2>2 DEF Put
  <2> QED BY <2>1, <2>3 DEF Bits
<1>4. ASSUME NEW b \in Int, b \notin Field(at, bits)
      PROVE  b \in Put(long, v, at, bits) <=> b \in long
  <2>1. \A c \in Bits(v) : at + c \in Field(at, bits)
    BY <1>2 DEF Field
  <2> QED BY <1>4, <2>1 DEF Put
<1> QED BY <1>1, <1>3, <1>4 DEF HasBits

LEMMA PutType ==
  ASSUME NEW long \in SUBSET (0 .. LongBits - 1), NEW v, NEW at, NEW bits
  PROVE  Put(long, v, at, bits) \in SUBSET (0 .. LongBits - 1)
BY DEF Put

-----------------------------------------------------------------------------
(* Longs.                                                                  *)

\* A width an entry can have.
Width == 1 .. LongBits

\* Every entry has a long, which has room for its field.
LEMMA PlaceIs ==
  ASSUME NEW bits \in Width, NEW n \in Entries
  PROVE  /\ entries_per_long(bits) \in Nat \ {0}
         /\ number_of_longs(bits) \in Nat
         /\ n \div entries_per_long(bits) \in Nat
         /\ n \div entries_per_long(bits) + 1 \in 1 .. number_of_longs(bits)
         /\ bit_index(n, bits) \in Nat
         /\ bit_index(n, bits) + bits <= LongBits
<1> DEFINE e == LongBits \div bits
           q == n \div e
           r == n % e
           N == number_of_entries
           l == (N + e - 1) \div e
<1>1. LongBits \in Nat /\ bits \in Nat \ {0} /\ bits <= LongBits /\ N \in Nat
      /\ n \in 0 .. N - 1
  BY PaletteAssumption, WordsAreNumbers DEF Width, Entries
<1>2. e \in Nat \ {0} /\ bits * e <= LongBits
  <2>1. /\ e \in Int /\ LongBits % bits \in 0 .. bits - 1
        /\ LongBits = bits * e + (LongBits % bits)
    BY <1>1
  <2> HIDE DEF e
  <2>2. e >= 1
    <3> SUFFICES ASSUME e <= 0 PROVE FALSE
      BY <2>1
    <3>1. bits * e <= 0
      BY <1>1, <2>1
    <3>2. bits * e \in Int
      BY <1>1, <2>1
    <3> QED BY <1>1, <2>1, <3>1, <3>2
  <2>3. bits * e \in Int
    BY <1>1, <2>1
  <2> QED BY <1>1, <2>1, <2>2, <2>3
<1> HIDE DEF e
<1>3. q \in Nat /\ r \in 0 .. e - 1 /\ n = e * q + r
  <2>1. q \in Int /\ r \in 0 .. e - 1 /\ n = e * q + r
    BY <1>1, <1>2
  <2> HIDE DEF q, r
  <2>2. q >= 0
    <3> SUFFICES ASSUME q <= -1 PROVE FALSE
      BY <2>1
    <3>1. e * q <= -e /\ e * q \in Int
      BY <1>2, <2>1
    <3> QED BY <1>1, <1>2, <2>1, <3>1
  <2> QED BY <2>1, <2>2
<1>4. l \in Nat /\ q + 1 <= l
  <2> DEFINE s == (N + e - 1) % e
  <2>1. l \in Int /\ s \in 0 .. e - 1 /\ N + e - 1 = e * l + s
    BY <1>1, <1>2
  <2> HIDE DEF l, s, q, r
  <2>2. q + 1 <= l
    <3> SUFFICES ASSUME l <= q PROVE FALSE
      BY <1>3, <2>1
    <3>1. e * l <= e * q /\ e * l \in Int /\ e * q \in Int
      BY <1>2, <1>3, <2>1
    <3> QED BY <1>1, <1>2, <1>3, <2>1, <3>1
  <2> QED BY <1>3, <2>1, <2>2
<1>5. r * bits \in Nat /\ r * bits + bits <= LongBits
  <2> HIDE DEF q, r, l
  <2>1. r * bits \in Nat /\ r * bits <= (e - 1) * bits
    BY <1>1, <1>2, <1>3
  <2>2. (e - 1) * bits = bits * e - bits /\ bits * e \in Int
    BY <1>1, <1>2
  <2> QED BY <1>1, <1>2, <1>3, <2>1, <2>2
<1>6. /\ entries_per_long(bits) = e /\ number_of_longs(bits) = l
      /\ bit_index(n, bits) = r * bits
  BY DEF e, entries_per_long, number_of_longs, bit_index
<1> HIDE DEF q, r, l
<1> QED BY <1>2, <1>3, <1>4, <1>5, <1>6 DEF q

\* Two entries of one long have fields of their own.
LEMMA FieldsApart ==
  ASSUME NEW bits \in Width, NEW m \in Entries, NEW n \in Entries, m # n,
         m \div entries_per_long(bits) = n \div entries_per_long(bits)
  PROVE  \A k \in 0 .. bits - 1 :
           bit_index(m, bits) + k \notin Field(bit_index(n, bits), bits)
<1> DEFINE e == entries_per_long(bits)
           a == m % e
           b == n % e
           q == m \div e
<1>1. /\ bits \in Nat \ {0} /\ m \in Nat /\ n \in Nat
      /\ e \in Nat \ {0}
  BY PlaceIs, PaletteAssumption DEF Width, Entries
<1> HIDE DEF e
<1>2. /\ q \in Int /\ a \in 0 .. e - 1 /\ m = e * q + a
      /\ b \in 0 .. e - 1 /\ n = e * q + b
  <2>1. q \in Int /\ a \in 0 .. e - 1 /\ m = e * q + a
    BY <1>1
  <2>2. b \in 0 .. e - 1 /\ n = e * (n \div e) + b
    BY <1>1
  <2>3. n \div e = q
    BY DEF e
  <2> QED BY <2>1, <2>2, <2>3
<1> HIDE DEF a, b, q
<1>3. a # b
  BY <1>2
<1>4. /\ a * bits \in Nat /\ b * bits \in Nat
      /\ a * bits + bits <= b * bits \/ b * bits + bits <= a * bits
  <2>1. a * bits \in Nat /\ b * bits \in Nat
    BY <1>1, <1>2
  <2>2. CASE a + 1 <= b
    <3>1. (a + 1) * bits <= b * bits /\ (a + 1) * bits = a * bits + bits
      BY <1>1, <1>2, <2>2
    <3> QED BY <2>1, <3>1
  <2>3. CASE b + 1 <= a
    <3>1. (b + 1) * bits <= a * bits /\ (b + 1) * bits = b * bits + bits
      BY <1>1, <1>2, <2>3
    <3> QED BY <2>1, <3>1
  <2> QED BY <1>2, <1>3, <2>2, <2>3
<1>5. bit_index(m, bits) = a * bits /\ bit_index(n, bits) = b * bits
  BY DEF bit_index, a, b, e
<1> DEFINE x == a * bits
           y == b * bits
<1> HIDE DEF x, y
<1> QED BY <1>1, <1>4, <1>5 DEF Field, x, y

LongSeqs(bits) == [1 .. number_of_longs(bits) -> SUBSET (0 .. LongBits - 1)]

\* The longs with the entry n written into them.
WithEntry(longs, n, values, bits) ==
  [longs EXCEPT ![n \div entries_per_long(bits) + 1] =
     Put(@, values[n], bit_index(n, bits), bits)]

LEMMA WithEntryType ==
  ASSUME NEW bits \in Width, NEW values, NEW longs \in LongSeqs(bits),
         NEW n \in Entries
  PROVE  WithEntry(longs, n, values, bits) \in LongSeqs(bits)
<1> DEFINE i == n \div entries_per_long(bits) + 1
           x == Put(longs[i], values[n], bit_index(n, bits), bits)
           L == 1 .. number_of_longs(bits)
           B == 0 .. LongBits - 1
<1>1. i \in L
  BY PlaceIs
<1>2. longs \in [L -> SUBSET B]
  BY DEF LongSeqs
<1>3. x \in SUBSET B
  <2>1. longs[i] \in SUBSET B
    BY <1>1, <1>2
  <2> HIDE DEF i
  <2> QED BY <2>1, PutType
<1> HIDE DEF x, i
<1>4. [longs EXCEPT ![i] = x] \in [L -> SUBSET B]
  BY <1>1, <1>2, <1>3
<1>5. WithEntry(longs, n, values, bits) = [longs EXCEPT ![i] = x]
  BY DEF WithEntry, i, x
<1> QED BY <1>4, <1>5 DEF LongSeqs

\* data is what there is behind the last entry.
LEMMA LongsAre ==
  ASSUME NEW bits \in Width, NEW values
  PROVE  \E f : /\ \A n \in 0 .. number_of_entries : f[n] \in LongSeqs(bits)
                /\ \A n \in Entries :
                     f[n+1] = WithEntry(f[n], n, values, bits)
                /\ data(values, bits) = f[number_of_entries]
<1> DEFINE N == number_of_entries
           S == LongSeqs(bits)
           x0 == [m \in 1 .. number_of_longs(bits) |-> {}]
           W(L, n) == WithEntry(L, n, values, bits)
           g == [p \in Nat \X S |-> IF p[1] < N THEN W(p[2], p[1]) ELSE x0]
           E(f) == f = [n \in 0 .. N |-> IF n = 0 THEN x0
                                         ELSE W(f[n-1], n - 1)]
<1>1. N \in Nat /\ Entries = 0 .. N - 1
  BY PaletteAssumption, WordsAreNumbers DEF Entries
<1>2. x0 \in S
  BY DEF LongSeqs
<1>3. ASSUME NEW L \in S, NEW n \in Entries PROVE W(L, n) \in S
  BY WithEntryType
<1>4. data(values, bits) = (CHOOSE f : E(f))[N]
  BY Zenon DEF data, WithEntry
<1> HIDE DEF x0, W, S
<1>5. g \in [Nat \X S -> S]
  BY <1>1, <1>2, <1>3
<1>6. PICK f : Approximates(f, N, S, x0, g)
  <2> HIDE DEF g, N
  <2> QED BY <1>1, <1>2, <1>5, ApproximationExists
<1>7. ASSUME NEW n \in 1 .. N PROVE f[n] = W(f[n-1], n - 1)
  <2>1. n - 1 \in Nat /\ n - 1 < N /\ (n - 1) + 1 = n /\ n - 1 \in 0 .. N
    BY <1>1
  <2>2. f[n] = g[<<n - 1, f[n-1]>>]
    BY <1>6, <2>1 DEF Approximates
  <2>3. f[n-1] \in S
    BY <1>6, <2>1 DEF Approximates
  <2> QED BY <2>1, <2>2, <2>3
<1> HIDE DEF g
<1>8. E(f)
  BY <1>6, <1>7 DEF Approximates
<1>9. E(CHOOSE h : E(h))
  BY <1>8, Zenon
<1> DEFINE c == CHOOSE h : E(h)
<1>10. c = [n \in 0 .. N |-> IF n = 0 THEN x0 ELSE W(c[n-1], n - 1)]
  BY <1>9
<1>11. data(values, bits) = c[N]
  BY <1>4, Zenon
<1> HIDE DEF c, E
<1>12. c[0] = x0
  BY <1>1, <1>10
<1>13. ASSUME NEW n \in Entries PROVE c[n+1] = W(c[n], n)
  <2>1. n + 1 \in 0 .. N /\ n + 1 # 0 /\ (n + 1) - 1 = n
    BY <1>1
  <2> QED BY <1>10, <2>1
<1>14. \A n \in Nat : n <= N => c[n] \in S
  <2> DEFINE T == {n \in Nat : n <= N => c[n] \in S}
  <2>1. 0 \in T
    BY <1>2, <1>12
  <2>2. ASSUME NEW n \in T PROVE n + 1 \in T
    <3> SUFFICES ASSUME n + 1 <= N PROVE c[n+1] \in S
      OBVIOUS
    <3>1. n \in Entries /\ c[n] \in S
      BY <1>1
    <3> QED BY <1>3, <1>13, <3>1
  <2> HIDE DEF T
  <2>3. T \in SUBSET Nat
    BY DEF T
  <2>4. \A n \in Nat : n \in T
    BY <2>1, <2>2, <2>3, Induction
  <2> QED BY <2>4 DEF T
<1>15. \A n \in 0 .. N : c[n] \in S
  BY <1>1, <1>14
<1> QED BY <1>11, <1>13, <1>15, Zenon DEF W, S

LEMMA DataType ==
  ASSUME NEW bits \in Width, NEW values
  PROVE  data(values, bits) \in LongSeqs(bits)
<1>1. PICK f : /\ \A n \in 0 .. number_of_entries : f[n] \in LongSeqs(bits)
               /\ data(values, bits) = f[number_of_entries]
  BY LongsAre, Zenon
<1>2. number_of_entries \in 0 .. number_of_entries
  BY PaletteAssumption, WordsAreNumbers
<1> QED BY <1>1, <1>2

\* The field of the entry m.
Holds(longs, m, v, bits) ==
  HasBits(longs[m \div entries_per_long(bits) + 1], bit_index(m, bits), bits, v)

\* An entry that has room gets its field, and the fields of others stay.
LEMMA WithEntryIs ==
  ASSUME NEW bits \in Width, NEW values, NEW longs \in LongSeqs(bits),
         NEW n \in Entries, values[n] \in 0 .. Pow2[bits] - 1
  PROVE  /\ Holds(WithEntry(longs, n, values, bits), n, values[n], bits)
         /\ \A m \in Entries, v \in Nat :
              m # n /\ Holds(longs, m, v, bits)
                => Holds(WithEntry(longs, n, values, bits), m, v, bits)
<1> DEFINE e == entries_per_long(bits)
           i == n \div e + 1
           at == bit_index(n, bits)
           v == values[n]
           new == WithEntry(longs, n, values, bits)
           x == Put(longs[i], v, at, bits)
           B == 0 .. LongBits - 1
<1>1. /\ i \in 1 .. number_of_longs(bits) /\ at \in Nat
      /\ at + bits <= LongBits /\ LongBits \in Nat /\ bits \in Nat
  BY PlaceIs, PaletteAssumption DEF Width
<1>2. longs[i] \in SUBSET B
  BY <1>1 DEF LongSeqs
<1>3. /\ HasBits(x, at, bits, v)
      /\ \A b \in Int : b \notin Field(at, bits) => (b \in x <=> b \in longs[i])
  <2> DEFINE l == longs[i]
             y == Put(l, v, at, bits)
  <2>1. v \in 0 .. Pow2[bits] - 1 /\ l \in SUBSET (0 .. LongBits - 1)
    BY <1>2
  <2>2. y = x
    OBVIOUS
  <2>3. /\ at \in Nat /\ at + bits <= LongBits
        /\ LongBits \in Nat /\ bits \in Nat
    BY <1>1
  <2> HIDE DEF x, l, at, v, e, new, B, i
  <2>4. /\ HasBits(y, at, bits, v)
        /\ \A b \in Int : b \notin Field(at, bits) => (b \in y <=> b \in l)
    BY <2>1, <2>3, PutIs
  <2> HIDE DEF y
  <2> QED BY <2>2, <2>4 DEF l
<1>4. /\ new[i] = x
      /\ \A j \in 1 .. number_of_longs(bits) : j # i => new[j] = longs[j]
  <2>1. new = [longs EXCEPT ![i] = x]
    BY DEF WithEntry
  <2>2. DOMAIN longs = 1 .. number_of_longs(bits)
    BY DEF LongSeqs
  <2> HIDE DEF new, x, i
  <2> QED BY <1>1, <2>1, <2>2
<1> HIDE DEF new, x, at, v, B
<1>5. Holds(new, n, v, bits)
  BY <1>3, <1>4 DEF Holds, at
<1>6. ASSUME NEW m \in Entries, NEW u \in Nat, m # n,
             Holds(longs, m, u, bits)
      PROVE  Holds(new, m, u, bits)
  <2> DEFINE j == m \div e + 1
             bt == bit_index(m, bits)
  <2>1. /\ j \in 1 .. number_of_longs(bits) /\ bt \in Nat
        /\ m \div e \in Int /\ n \div e \in Int
    BY PlaceIs
  <2>2. CASE j # i
    <3>1. new[j] = longs[j]
      BY <1>4, <2>1, <2>2
    <3> QED BY <1>6, <3>1 DEF Holds
  <2>3. CASE j = i
    <3>1. m \div e = n \div e
      BY <2>1, <2>3
    <3>2. \A k \in 0 .. bits - 1 : bt + k \notin Field(at, bits)
      BY <1>6, <3>1, FieldsApart DEF at
    <3>3. \A k \in 0 .. bits - 1 : bt + k \in x <=> bt + k \in longs[i]
      BY <1>3, <2>1, <3>2
    <3>4. new[j] = x /\ longs[j] = longs[i]
      BY <1>4, <2>3
    <3> QED BY <1>6, <3>3, <3>4 DEF Holds, HasBits
  <2> QED BY <2>2, <2>3
<1> QED BY <1>5, <1>6 DEF new, v

\* Entries that all have room are read as they were written.
LEMMA DataIsRead ==
  ASSUME NEW bits \in Width, NEW values,
         \A n \in Entries : values[n] \in 0 .. Pow2[bits] - 1,
         NEW n \in Entries
  PROVE  Get(data(values, bits)[n \div entries_per_long(bits) + 1],
             bit_index(n, bits), bits) = values[n]
<1> DEFINE N == number_of_entries
<1>1. N \in Nat /\ Entries = 0 .. N - 1 /\ bits \in Nat
      /\ Pow2[bits] \in Nat \ {0}
  BY PaletteAssumption, WordsAreNumbers, Pow2Type DEF Entries, Width
<1>2. PICK f : /\ \A m \in 0 .. N : f[m] \in LongSeqs(bits)
               /\ \A m \in Entries : f[m+1] = WithEntry(f[m], m, values, bits)
               /\ data(values, bits) = f[N]
  BY LongsAre, Zenon
<1> DEFINE T == {m \in Nat : m <= N =>
                   \A k \in 0 .. m - 1 : Holds(f[m], k, values[k], bits)}
<1> HIDE DEF N
<1>3. 0 \in T
  OBVIOUS
<1>4. ASSUME NEW m \in T PROVE m + 1 \in T
  <2> SUFFICES ASSUME m + 1 <= N, NEW k \in 0 .. (m + 1) - 1
               PROVE  Holds(f[m+1], k, values[k], bits)
    OBVIOUS
  <2>1. m \in Nat /\ m \in Entries /\ m \in 0 .. N /\ m <= N /\ k \in Entries
    BY <1>1
  <2>2. f[m+1] = WithEntry(f[m], m, values, bits) /\ f[m] \in LongSeqs(bits)
    BY <1>2, <2>1
  <2>3. values[k] \in Nat /\ values[m] \in 0 .. Pow2[bits] - 1
    BY <1>1, <2>1
  <2>4. CASE k = m
    BY <2>1, <2>2, <2>3, <2>4, WithEntryIs
  <2>5. CASE k # m
    <3>1. k \in 0 .. m - 1
      BY <2>1, <2>5
    <3>2. Holds(f[m], k, values[k], bits)
      BY <2>1, <3>1
    <3> HIDE DEF T
    <3> QED BY <2>1, <2>2, <2>3, <2>5, <3>2, WithEntryIs
  <2> QED BY <2>4, <2>5
<1> HIDE DEF T
<1>5. T \in SUBSET Nat
  BY DEF T
<1>6. \A m \in Nat : m \in T
  BY <1>3, <1>4, <1>5, Induction
<1>7. Holds(f[N], n, values[n], bits)
  BY <1>1, <1>6 DEF T
<1> DEFINE v == values[n]
           at == bit_index(n, bits)
           long == data(values, bits)[n \div entries_per_long(bits) + 1]
<1>8. v \in 0 .. Pow2[bits] - 1 /\ v \in Nat /\ at \in Nat
  BY <1>1, PlaceIs
<1>9. HasBits(long, at, bits, v)
  BY <1>2, <1>7 DEF Holds
<1> HIDE DEF v, at, long
<1>10. Get(long, at, bits) = v % Pow2[bits]
  BY <1>1, <1>8, <1>9, GetIs
<1>11. v % Pow2[bits] = v
  BY <1>1, <1>8, SmallRemainder
<1> QED BY <1>10, <1>11 DEF v, at, long

-----------------------------------------------------------------------------
(* The inductive invariant.                                                *)

\* The values collected are those of the entries looked at, each of them once.
Collected ==
  /\ \A i, j \in 1 .. n_distinct_values :
       distinct_values[i] = distinct_values[j] => i = j
  /\ {distinct_values[j] : j \in 1 .. n_distinct_values} = Seen
  /\ n_distinct_values <= next

CollectedToTheEnd == phase = "collect" <=> next < number_of_entries

\* The place of every entry's value among those collected.
IsIndex(index) ==
  \A n \in Entries : /\ index[n] \in 0 .. n_distinct_values - 1
                     /\ distinct_values[index[n] + 1] = block_states[n]

\* The three forms of a container.
IsContainer(fields) ==
  \/ /\ n_distinct_values = 1
     /\ fields = <<0, distinct_values[1]>>
  \/ /\ n_distinct_values # 1 /\ bits_per_entry <= max_bpe_indirect
     /\ \E index : /\ IsIndex(index)
                   /\ fields = <<bits_per_entry, n_distinct_values>>
                                 \o distinct_values
                                 \o data(index, bits_per_entry)
  \/ /\ n_distinct_values # 1 /\ bits_per_entry > max_bpe_indirect
     /\ fields = <<bits_per_entry_direct>>
                   \o data(block_states, bits_per_entry_direct)

WrittenWhole == phase = "written" => IsContainer(buffer)

ContainerInv ==
  /\ ContainerTypeOK /\ Collected /\ CollectedToTheEnd /\ WrittenWhole
  /\ ExactIffWide /\ ReadToTheEnd

-----------------------------------------------------------------------------
(* The values of a section.                                                *)

LEMMA SizesAre ==
  /\ number_of_entries \in Nat \ {0} /\ Entries = 0 .. number_of_entries - 1
  /\ \A n \in Nat : n <= number_of_entries => n \in Word
  /\ Values \subseteq Word /\ Values \subseteq Nat
  /\ BufferSize \in Nat
  /\ min_bpe_indirect \in Nat \ {0} /\ max_bpe_indirect \in Nat
  /\ bits_per_entry_direct \in Width
  /\ max_bpe_indirect < bits_per_entry_direct
  /\ \A bits \in Nat : 1 <= bits /\ bits <= max_bpe_indirect => bits \in Width
BY PaletteAssumption, WordsAreNumbers DEF Entries, Width, Word

LEMMA BitsPerEntryIs ==
  /\ bits_per_entry \in Nat /\ 1 <= bits_per_entry
  /\ bits_per_entry <= max_bpe_indirect => bits_per_entry \in Width
<1> DEFINE B == Bits(n_distinct_values)
<1>1. Cardinality(B) \in Nat
  <2>1. B \in SUBSET (0 .. LongBits - 1) /\ LongBits \in Nat
    BY PaletteAssumption DEF Bits
  <2>2. IsFiniteSet(0 .. LongBits - 1)
    BY <2>1, FS_Interval
  <2>3. IsFiniteSet(B)
    BY <2>1, <2>2, FS_Subset
  <2> QED BY <2>3, FS_CardinalityType
<1> HIDE DEF B
<1>2. bits_per_entry \in Nat /\ 1 <= bits_per_entry
  BY <1>1, SizesAre DEF bits_per_entry, B
<1> QED BY <1>2, SizesAre

\* Each entry of a section that has been looked at has its value's place.
LEMMA IndexIs ==
  ASSUME ContainerTypeOK, Collected, next = number_of_entries,
         NEW n \in Entries
  PROVE  /\ data_idx(block_states[n]) \in 0 .. n_distinct_values - 1
         /\ distinct_values[data_idx(block_states[n]) + 1] = block_states[n]
<1> DEFINE J == 1 .. n_distinct_values
           v == block_states[n]
<1>1. n_distinct_values \in Nat
  BY LenProperties DEF ContainerTypeOK, n_distinct_values
<1>2. v \in Seen
  BY SizesAre DEF Seen
<1>3. PICK j \in J : distinct_values[j] = v
  BY <1>2 DEF Collected
<1>4. j - 1 \in 0 .. n_distinct_values - 1
      /\ distinct_values[(j - 1) + 1] = v
  BY <1>1, <1>3
<1>5. \E i \in 0 .. n_distinct_values - 1 : distinct_values[i + 1] = v
  BY <1>4
<1> HIDE DEF v
<1>6. /\ data_idx(v) \in 0 .. n_distinct_values - 1
      /\ distinct_values[data_idx(v) + 1] = v
  BY <1>5 DEF data_idx
<1> QED BY <1>6 DEF v

LEMMA ContainerInitInv ==
  ASSUME ContainerInit
  PROVE  ContainerInv
<1>1. Seen = {} /\ n_distinct_values = 0
  BY DEF ContainerInit, n_distinct_values, Seen
<1>2. Cardinality({}) = 0
  BY FS_EmptySet
<1>3. ContainerTypeOK
  <2>1. block_states \in [Entries -> Values]
    BY PaletteAssumption DEF ContainerInit
  <2>2. 0 \in 0 .. number_of_entries /\ 0 \in 0 .. BufferSize /\ 0 \in Nat
    BY SizesAre
  <2>3. distinct_values \in Seq(Values)
    BY DEF ContainerInit
  <2> QED BY <1>1, <1>2, <2>1, <2>2, <2>3 DEF ContainerInit, ContainerTypeOK
<1>4. Collected
  BY <1>1 DEF ContainerInit, Collected
<1>5. CollectedToTheEnd
  BY SizesAre DEF ContainerInit, CollectedToTheEnd
<1> QED
  BY <1>3, <1>4, <1>5
     DEF ContainerInv, ContainerInit, WrittenWhole, ExactIffWide, ReadToTheEnd

LEMMA CollectKeeps ==
  ASSUME ContainerInv, Collect
  PROVE  ContainerInv'
<1> DEFINE value == block_states[next]
           D == {distinct_values[j] : j \in 1 .. n_distinct_values}
<1>1. /\ phase = "collect" /\ next' = next + 1
      /\ block_states' = block_states
      /\ phase' = IF next' = number_of_entries THEN "write" ELSE phase
      /\ UNCHANGED <<buffer, pos, out, taken>>
      /\ distinct_values' = IF value \in D THEN distinct_values
                            ELSE Append(distinct_values, value)
  BY DEF Collect
<1>2. /\ next \in Nat /\ next < number_of_entries
      /\ distinct_values \in Seq(Values) /\ value \in Values
      /\ Len(distinct_values) \in Nat
      /\ n_distinct_values = Len(distinct_values)
      /\ n_distinct_values <= next /\ D = Seen
      /\ n_distinct_values = Cardinality(Seen)
  <2>1. /\ next \in 0 .. number_of_entries /\ next < number_of_entries
        /\ distinct_values \in Seq(Values)
        /\ block_states \in [Entries -> Values]
    BY <1>1 DEF ContainerInv, ContainerTypeOK, CollectedToTheEnd
  <2>2. next \in Entries /\ next \in Nat
    BY <2>1, SizesAre
  <2>3. Len(distinct_values) \in Nat
    BY <2>1, LenProperties
  <2>4. /\ n_distinct_values <= next /\ D = Seen
        /\ n_distinct_values = Cardinality(Seen)
    BY DEF ContainerInv, ContainerTypeOK, Collected
  <2> QED BY <2>1, <2>2, <2>3, <2>4 DEF n_distinct_values
<1>3. \A i, j \in 1 .. n_distinct_values :
        distinct_values[i] = distinct_values[j] => i = j
  BY DEF ContainerInv, Collected
<1>4. Seen' = Seen \cup {value}
  <2>1. 0 .. next' - 1 = (0 .. next - 1) \cup {next}
    BY <1>1, <1>2
  <2> QED BY <1>1, <2>1 DEF Seen
<1>5. IsFiniteSet(Seen)
  <2>1. IsFiniteSet(0 .. next - 1)
    BY <1>2, FS_Interval
  <2> DEFINE S == 0 .. next - 1
             f == [n \in S |-> block_states[n]]
  <2>2. IsFiniteSet({f[n] : n \in S})
    <3>1. f \in Surjection(S, {f[n] : n \in S})
      BY DEF Surjection
    <3> HIDE DEF f, S
    <3> QED BY <2>1, <3>1, FS_Surjection DEF S
  <2>3. {f[n] : n \in S} = Seen
    BY DEF Seen
  <2> QED BY <2>2, <2>3
<1>6. CollectedToTheEnd' /\ WrittenWhole' /\ ExactIffWide' /\ ReadToTheEnd'
  BY <1>1, <1>2, SizesAre
     DEF CollectedToTheEnd, WrittenWhole, ExactIffWide, ReadToTheEnd
<1>7. /\ block_states' \in [Entries -> Values]
      /\ next' \in 0 .. number_of_entries
      /\ pos' \in 0 .. BufferSize /\ taken' \in Nat
      /\ phase' \in {"collect", "write", "written", "failed", "read"}
  BY <1>1, <1>2, SizesAre DEF ContainerInv, ContainerTypeOK
<1> HIDE DEF value, D
<1>8. CASE value \in D
  <2>1. distinct_values' = distinct_values
    BY <1>1, <1>8
  <2>2. Seen' = Seen
    BY <1>2, <1>4, <1>8
  <2>3. n_distinct_values' = n_distinct_values
    BY <2>1 DEF n_distinct_values
  <2>4. Collected'
    <3>1. n_distinct_values <= next'
      BY <1>1, <1>2
    <3> QED BY <1>2, <1>3, <2>1, <2>2, <2>3, <3>1 DEF Collected, D
  <2>5. ContainerTypeOK'
    BY <1>2, <1>7, <2>1, <2>2, <2>3 DEF ContainerTypeOK
  <2> QED BY <1>6, <2>4, <2>5 DEF ContainerInv
<1>9. CASE value \notin D
  <2> DEFINE d2 == distinct_values'
             L == Len(distinct_values)
  <2>1. /\ d2 = Append(distinct_values, value) /\ d2 \in Seq(Values)
        /\ Len(d2) = L + 1 /\ d2[L+1] = value
        /\ \A j \in 1 .. L : d2[j] = distinct_values[j]
    <3> DEFINE d == distinct_values
    <3>1. d \in Seq(Values) /\ value \in Values /\ d2 = Append(d, value)
      BY <1>1, <1>2, <1>9
    <3> HIDE DEF d, d2
    <3>2. /\ Append(d, value) \in Seq(Values)
          /\ Len(Append(d, value)) = Len(d) + 1
          /\ \A j \in 1 .. Len(d) : Append(d, value)[j] = d[j]
          /\ Append(d, value)[Len(d) + 1] = value
      BY <3>1, AppendProperties
    <3> QED BY <3>1, <3>2 DEF d
  <2>2. \A j \in 1 .. L : distinct_values[j] # value
    BY <1>2, <1>9 DEF D
  <2>3. \A i, j \in 1 .. Len(d2) : d2[i] = d2[j] => i = j
    <3> SUFFICES ASSUME NEW i \in 1 .. L + 1, NEW j \in 1 .. L + 1,
                        d2[i] = d2[j], i # j
                 PROVE  FALSE
      BY <2>1
    <3>1. CASE i \in 1 .. L /\ j \in 1 .. L
      BY <1>2, <1>3, <2>1, <3>1
    <3>2. CASE i = L + 1 /\ j \in 1 .. L
      BY <2>1, <2>2, <3>2
    <3>3. CASE i \in 1 .. L /\ j = L + 1
      BY <2>1, <2>2, <3>3
    <3> QED BY <1>2, <3>1, <3>2, <3>3
  <2>4. {d2[j] : j \in 1 .. Len(d2)} = Seen'
    <3>1. 1 .. Len(d2) = (1 .. L) \cup {L + 1}
      BY <1>2, <2>1
    <3>2. {d2[j] : j \in 1 .. L} = D
      BY <1>2, <2>1 DEF D
    <3>3. {d2[j] : j \in 1 .. Len(d2)} = {d2[j] : j \in 1 .. L} \cup {d2[L+1]}
      BY <3>1
    <3> QED BY <1>2, <1>4, <2>1, <3>2, <3>3
  <2>5. Cardinality(Seen') = L + 1
    BY <1>2, <1>4, <1>5, <1>9, FS_AddElement
  <2>6. n_distinct_values' = L + 1
    BY <2>1 DEF n_distinct_values
  <2>7. Collected'
    <3>1. n_distinct_values' <= next'
      <4>1. next' = next + 1
        BY <1>1
      <4>2. L <= next /\ L \in Nat /\ next \in Nat
        BY <1>2
      <4> HIDE DEF L
      <4> QED BY <2>6, <4>1, <4>2
    <3>2. n_distinct_values' = Len(d2)
      BY DEF n_distinct_values
    <3> QED BY <2>3, <2>4, <3>1, <3>2 DEF Collected
  <2>8. ContainerTypeOK'
    BY <1>7, <2>1, <2>5, <2>6 DEF ContainerTypeOK
  <2> QED BY <1>6, <2>7, <2>8 DEF ContainerInv
<1> QED BY <1>8, <1>9

-----------------------------------------------------------------------------
(* The writer.                                                             *)

LEMMA EmitKeeps ==
  ASSUME ContainerInv, NEW fields, NEW length \in Nat,
         Emit(fields, length), IsContainer(fields)
  PROVE  ContainerInv'
<1>1. /\ phase = "write" /\ phase' \in {"written", "failed"}
      /\ phase' = "written" => buffer' = fields
      /\ pos' \in 0 .. BufferSize
      /\ UNCHANGED <<block_states, distinct_values, next, out, taken>>
  BY SizesAre DEF Emit, Fits, ContainerInv, ContainerTypeOK
<1>2. n_distinct_values' = n_distinct_values /\ Seen' = Seen
      /\ bits_per_entry' = bits_per_entry
  BY <1>1 DEF n_distinct_values, Seen, bits_per_entry
<1>3. ContainerTypeOK'
  BY <1>1, <1>2 DEF ContainerInv, ContainerTypeOK
<1>4. Collected' /\ CollectedToTheEnd'
  BY <1>1, <1>2 DEF ContainerInv, Collected, CollectedToTheEnd
<1>5. WrittenWhole'
  BY <1>1, <1>2 DEF WrittenWhole, IsContainer, IsIndex
<1> QED BY <1>1, <1>3, <1>4, <1>5 DEF ContainerInv, ExactIffWide, ReadToTheEnd

\* What has been collected when a container is written.
LEMMA AllCollected ==
  ASSUME ContainerInv, phase \in {"write", "written"}
  PROVE  /\ next = number_of_entries /\ Collected /\ ContainerTypeOK
         /\ n_distinct_values \in Nat \ {0} /\ n_distinct_values \in Word
         /\ distinct_values \in [1 .. n_distinct_values -> Values]
         /\ distinct_values \in Seq(Values)
         /\ Len(distinct_values) = n_distinct_values
<1>1. /\ Collected /\ ContainerTypeOK /\ next = number_of_entries
      /\ distinct_values \in Seq(Values)
      /\ n_distinct_values <= number_of_entries
  <2>1. next \in 0 .. number_of_entries /\ ~(next < number_of_entries)
    BY DEF ContainerInv, ContainerTypeOK, CollectedToTheEnd
  <2>2. next = number_of_entries
    BY <2>1, SizesAre
  <2> QED BY <2>2 DEF ContainerInv, Collected, ContainerTypeOK
<1>2. n_distinct_values \in Nat /\ Len(distinct_values) = n_distinct_values
  BY <1>1, LenProperties DEF n_distinct_values
<1>3. distinct_values \in [1 .. n_distinct_values -> Values]
  BY <1>1, LenProperties DEF n_distinct_values
<1>4. n_distinct_values # 0
  <2>1. 0 \in Entries
    BY SizesAre
  <2>2. data_idx(block_states[0]) \in 0 .. n_distinct_values - 1
    BY <1>1, <2>1, IndexIs
  <2> QED BY <1>2, <2>2
<1>5. n_distinct_values \in Word
  BY <1>1, <1>2, SizesAre
<1> QED BY <1>1, <1>2, <1>3, <1>4, <1>5

LEMMA LengthIsNumber == \A v \in Word : EncodedLen(v) \in Nat
<1> SUFFICES ASSUME NEW v \in Word PROVE EncodedLen(v) \in Nat
  OBVIOUS
<1>1. EncodedLen(v) \in 1 .. MaxBytes /\ MaxBytes \in Nat
  BY EncodedLenIs, EnoughBytes
<1> QED BY <1>1

LEMMA LongsAreCounted ==
  ASSUME NEW bits \in Width
  PROVE  number_of_longs(bits) \in Nat /\ number_of_longs(bits) * LongBytes \in Nat
<1>1. 0 \in Entries
  BY SizesAre
<1>2. number_of_longs(bits) \in Nat
  BY <1>1, PlaceIs
<1>3. LongBytes \in Nat
  BY PaletteAssumption, BitsAssumption DEF LongBytes
<1> QED BY <1>2, <1>3

LEMMA SingleKeeps ==
  ASSUME ContainerInv, Single
  PROVE  ContainerInv'
<1> DEFINE v == distinct_values[1]
<1>1. n_distinct_values = 1 /\ phase = "write"
      /\ Emit(<<0, v>>, 1 + EncodedLen(v))
  BY DEF Single, Emit
<1>2. v \in Word
  <2>1. distinct_values \in [1 .. 1 -> Values]
    BY <1>1, AllCollected
  <2>2. v \in Values
    BY <2>1
  <2> HIDE DEF v
  <2> QED BY <2>2, SizesAre
<1>3. 1 + EncodedLen(v) \in Nat
  BY <1>2, LengthIsNumber
<1>4. IsContainer(<<0, v>>)
  BY <1>1 DEF IsContainer
<1> QED BY <1>1, <1>3, <1>4, EmitKeeps

LEMMA PalettedKeeps ==
  ASSUME ContainerInv, Paletted
  PROVE  ContainerInv'
<1> DEFINE bits == bits_per_entry
           index == [n \in Entries |-> data_idx(block_states[n])]
           t == [j \in 1 .. n_distinct_values |-> EncodedLen(distinct_values[j])]
           fields == <<bits, n_distinct_values>> \o distinct_values
                       \o data(index, bits)
           length == 1 + EncodedLen(n_distinct_values) + Total(t)
                       + number_of_longs(bits) * LongBytes
<1>1. /\ n_distinct_values # 1 /\ bits <= max_bpe_indirect
      /\ phase = "write" /\ Emit(fields, length)
  BY DEF Paletted, Emit
<1>2. bits \in Width
  BY <1>1, BitsPerEntryIs
<1>3. n_distinct_values \in Nat /\ n_distinct_values \in Word
      /\ t \in [1 .. n_distinct_values -> Nat]
  BY <1>1, AllCollected, LengthIsNumber, SizesAre
<1>4. length \in Nat
  <2>1. Total(t) \in Nat
    <3> HIDE DEF t
    <3> QED BY <1>3, TotalType
  <2> HIDE DEF t, bits
  <2> QED BY <1>2, <1>3, <2>1, LengthIsNumber, LongsAreCounted
<1>5. IsContainer(fields)
  <2>1. IsIndex(index)
    BY <1>1, AllCollected, IndexIs DEF IsIndex
  <2> HIDE DEF index
  <2> QED BY <1>1, <2>1 DEF IsContainer
<1> HIDE DEF fields, length
<1> QED BY <1>1, <1>4, <1>5, EmitKeeps

LEMMA DirectKeeps ==
  ASSUME ContainerInv, Direct
  PROVE  ContainerInv'
<1> DEFINE bits == bits_per_entry_direct
           fields == <<bits>> \o data(block_states, bits)
           length == 1 + number_of_longs(bits) * LongBytes
<1>1. /\ n_distinct_values # 1 /\ bits_per_entry > max_bpe_indirect
      /\ Emit(fields, length)
  BY DEF Direct
<1>2. length \in Nat
  BY SizesAre, LongsAreCounted
<1>3. IsContainer(fields)
  BY <1>1 DEF IsContainer
<1> HIDE DEF fields, length
<1> QED BY <1>1, <1>2, <1>3, EmitKeeps

-----------------------------------------------------------------------------
(* The reader.                                                             *)

\* The fields of a container with a palette.
HasFields(fields, a, b, s, t) ==
  /\ Len(fields) = 2 + Len(s) + Len(t)
  /\ fields[1] = a /\ fields[2] = b
  /\ \A j \in 1 .. Len(s) : fields[2 + j] = s[j]
  /\ \A j \in 1 .. Len(t) : fields[2 + Len(s) + j] = t[j]

LEMMA FieldsOfPaletted ==
  ASSUME NEW U, NEW a \in U, NEW b \in U, NEW s \in Seq(U), NEW t \in Seq(U),
         NEW fields, fields = <<a, b>> \o s \o t
  PROVE  HasFields(fields, a, b, s, t)
<1> DEFINE h == <<a, b>>
           u == h \o s
<1>1. h \in Seq(U) /\ Len(h) = 2 /\ h[1] = a /\ h[2] = b
  OBVIOUS
<1>2. Len(s) \in Nat /\ Len(t) \in Nat
  BY LenProperties
<1> HIDE DEF h
<1>3. /\ u \in Seq(U) /\ Len(u) = Len(h) + Len(s)
      /\ \A i \in 1 .. Len(h) + Len(s) :
           u[i] = IF i <= Len(h) THEN h[i] ELSE s[i - Len(h)]
  BY <1>1, ConcatProperties, Zenon
<1> HIDE DEF u
<1>4. /\ Len(u \o t) = Len(u) + Len(t)
      /\ \A i \in 1 .. Len(u) + Len(t) :
           (u \o t)[i] = IF i <= Len(u) THEN u[i] ELSE t[i - Len(u)]
  <2>1. u \in Seq(U)
    BY <1>3
  <2> QED BY <2>1, ConcatProperties, Zenon
<1>5. fields = u \o t
  BY DEF u, h
<1>6. Len(u) = 2 + Len(s) /\ u[1] = a /\ u[2] = b
      /\ \A j \in 1 .. Len(s) : u[2 + j] = s[j]
  BY <1>1, <1>2, <1>3
<1>7. /\ Len(fields) = 2 + Len(s) + Len(t)
      /\ \A i \in 1 .. 2 + Len(s) : fields[i] = u[i]
  BY <1>2, <1>4, <1>5, <1>6
<1>8. fields[1] = a /\ fields[2] = b
      /\ \A j \in 1 .. Len(s) : fields[2 + j] = s[j]
  BY <1>2, <1>6, <1>7
<1>9. ASSUME NEW j \in 1 .. Len(t) PROVE fields[2 + Len(s) + j] = t[j]
  <2> DEFINE i == 2 + Len(s) + j
  <2>1. /\ i \in 1 .. Len(u) + Len(t) /\ ~(i <= Len(u)) /\ i - Len(u) = j
    BY <1>2, <1>6
  <2> HIDE DEF i
  <2>2. fields[i] = t[i - Len(u)]
    BY <1>4, <1>5, <2>1
  <2> QED BY <2>1, <2>2 DEF i
<1> QED BY <1>7, <1>8, <1>9 DEF HasFields

\* The fields of one without.
LEMMA FieldsOfDirect ==
  ASSUME NEW U, NEW a \in U, NEW t \in Seq(U), NEW fields, fields = <<a>> \o t
  PROVE  /\ Len(t) \in Nat /\ Len(fields) = 1 + Len(t) /\ fields[1] = a
         /\ \A j \in 1 .. Len(t) : fields[1 + j] = t[j]
<1> DEFINE h == <<a>>
<1>1. h \in Seq(U) /\ Len(h) = 1 /\ h[1] = a
  OBVIOUS
<1>2. Len(t) \in Nat
  BY LenProperties
<1>3. fields = h \o t
  OBVIOUS
<1> HIDE DEF h
<1>4. /\ Len(h \o t) = Len(h) + Len(t)
      /\ \A i \in 1 .. Len(h) + Len(t) :
           (h \o t)[i] = IF i <= Len(h) THEN h[i] ELSE t[i - Len(h)]
  BY <1>1, ConcatProperties, Zenon
<1>5. Len(fields) = 1 + Len(t) /\ fields[1] = a
  BY <1>1, <1>2, <1>3, <1>4
<1>6. ASSUME NEW j \in 1 .. Len(t) PROVE fields[1 + j] = t[j]
  <2>1. 1 + j \in 1 .. Len(h) + Len(t) /\ ~(1 + j <= Len(h))
        /\ (1 + j) - Len(h) = j
    BY <1>1, <1>2
  <2> QED BY <1>3, <1>4, <2>1
<1> QED BY <1>2, <1>5, <1>6

LEMMA LongsAreFields ==
  ASSUME NEW bits \in Width, NEW longs \in LongSeqs(bits)
  PROVE  /\ longs \in Seq(Nat \cup SUBSET Int)
         /\ Len(longs) = number_of_longs(bits)
<1> DEFINE l == number_of_longs(bits)
<1>1. l \in Nat
  BY LongsAreCounted
<1>2. longs \in [1 .. l -> SUBSET (0 .. LongBits - 1)]
  BY DEF LongSeqs
<1> HIDE DEF l
<1>3. longs \in [1 .. l -> Nat \cup SUBSET Int]
  BY <1>2
<1>4. longs \in Seq(Nat \cup SUBSET Int) /\ Len(longs) = l
  BY <1>1, <1>3
<1> QED BY <1>4 DEF l

\* The reader reads what ExactIffWide and ReadToTheEnd say.
ReadsRight(read, fields) ==
  /\ read = block_states <=> buffer[1] > max_bpe_indirect \/ Wide
  /\ fields = Len(buffer) /\ fields \in Nat

LEMMA SingleIsRead ==
  ASSUME ContainerInv, phase = "written", n_distinct_values = 1,
         buffer = <<0, distinct_values[1]>>
  PROVE  /\ buffer[1] = 0
         /\ ReadsRight([n \in Entries |-> buffer[2]], 2)
<1>1. buffer[1] = 0 /\ buffer[2] = distinct_values[1] /\ Len(buffer) = 2
  OBVIOUS
<1>2. ASSUME NEW n \in Entries PROVE block_states[n] = buffer[2]
  <2> DEFINE j == data_idx(block_states[n])
  <2>1. j \in 0 .. n_distinct_values - 1
        /\ distinct_values[j+1] = block_states[n]
    BY AllCollected, IndexIs
  <2> HIDE DEF j
  <2>2. j + 1 = 1
    BY <2>1
  <2> QED BY <1>1, <2>1, <2>2
<1>3. block_states \in [Entries -> Values]
  BY DEF ContainerInv, ContainerTypeOK
<1>4. [n \in Entries |-> buffer[2]] = block_states
  BY <1>2, <1>3
<1>5. Wide
  <2>1. Pow2[bits_per_entry] \in Nat \ {0}
    BY BitsPerEntryIs, Pow2Type
  <2> QED BY <2>1 DEF Wide
<1> QED BY <1>1, <1>4, <1>5 DEF ReadsRight

\* The reader and the writer compute the same.
LEMMA ReaderCounts ==
  ASSUME NEW bits
  PROVE  /\ read_entries_per_long(bits) = entries_per_long(bits)
         /\ read_number_of_longs(bits) = number_of_longs(bits)
         /\ \A n : read_bit_index(n, bits) = bit_index(n, bits)
BY DEF read_entries_per_long, entries_per_long, read_number_of_longs,
       number_of_longs, read_bit_index, bit_index

LEMMA PalettedIsRead ==
  ASSUME ContainerInv, phase = "written", bits_per_entry <= max_bpe_indirect,
         NEW index, IsIndex(index),
         buffer = <<bits_per_entry, n_distinct_values>> \o distinct_values
                    \o data(index, bits_per_entry)
  PROVE  /\ buffer[1] = bits_per_entry /\ buffer[2] = n_distinct_values
         /\ ReadsRight([n \in Entries |->
                          buffer[3 + Entry(n, 2 + n_distinct_values,
                                           bits_per_entry)]],
                       2 + n_distinct_values
                         + number_of_longs(bits_per_entry))
<1> DEFINE bits == bits_per_entry
           d == data(index, bits)
           s == distinct_values
           l == n_distinct_values
           q(n) == n \div entries_per_long(bits)
           e(n) == Entry(n, 2 + l, bits)
           read == [n \in Entries |-> buffer[3 + e(n)]]
<1>1. bits \in Width /\ bits \in Nat /\ Pow2[bits] \in Nat \ {0}
  BY BitsPerEntryIs, Pow2Type
<1>2. /\ s \in Seq(Values) /\ Len(s) = l /\ l \in Nat \ {0}
      /\ next = number_of_entries
  BY AllCollected
<1>3. d \in LongSeqs(bits)
  <2> HIDE DEF bits
  <2> QED BY <1>1, DataType
<1>4. /\ d \in Seq(Nat \cup SUBSET Int) /\ Len(d) = number_of_longs(bits)
      /\ Len(d) \in Nat
  <2> HIDE DEF d, bits
  <2> QED BY <1>1, <1>3, LongsAreFields, LongsAreCounted
<1>5. /\ Len(buffer) = 2 + l + Len(d) /\ buffer[1] = bits /\ buffer[2] = l
      /\ \A j \in 1 .. l : buffer[2 + j] = s[j]
      /\ \A j \in 1 .. Len(d) : buffer[2 + l + j] = d[j]
  <2> DEFINE U == Nat \cup SUBSET Int
  <2>1. s \in Seq(U)
    <3>1. Values \subseteq U
      BY SizesAre
    <3> QED BY <1>2, <3>1, SeqMonotonic
  <2>2. bits \in U /\ l \in U /\ d \in Seq(U)
    BY <1>1, <1>2, <1>4
  <2>3. buffer = <<bits, l>> \o s \o d
    OBVIOUS
  <2> HIDE DEF U, bits, l, s, d
  <2>4. HasFields(buffer, bits, l, s, d)
    BY <2>1, <2>2, <2>3, FieldsOfPaletted
  <2>5. Len(s) = l
    BY <1>2
  <2> QED BY <2>4, <2>5 DEF HasFields
<1>6. ASSUME NEW n \in Entries
      PROVE  e(n) = Get(d[q(n) + 1], bit_index(n, bits), bits)
             /\ bit_index(n, bits) \in Nat
  <2>1. q(n) \in Nat /\ q(n) + 1 \in 1 .. Len(d)
        /\ bit_index(n, bits) \in Nat
    <3> HIDE DEF bits, d
    <3> QED BY <1>1, <1>4, PlaceIs
  <2> HIDE DEF d, bits, q, l
  <2>2. buffer[2 + l + (q(n) + 1)] = d[q(n) + 1]
    BY <1>5, <2>1
  <2>3. 2 + l + (q(n) + 1) = (2 + l) + q(n) + 1
    BY <1>2, <2>1
  <2>4. e(n) = Get(buffer[(2 + l) + q(n) + 1], bit_index(n, bits), bits)
    BY ReaderCounts DEF Entry, q
  <2> QED BY <2>1, <2>2, <2>3, <2>4
<1> HIDE DEF e, q
<1>7. block_states \in [Entries -> Values]
  BY DEF ContainerInv, ContainerTypeOK
<1>8. CASE l <= Pow2[bits]
  <2>1. ASSUME NEW n \in Entries PROVE read[n] = block_states[n]
    <3>1. \A m \in Entries : index[m] \in 0 .. l - 1
          /\ s[index[m] + 1] = block_states[m]
      BY DEF IsIndex
    <3>2. \A m \in Entries : index[m] \in 0 .. Pow2[bits] - 1
      BY <1>1, <1>2, <1>8, <3>1
    <3>3. e(n) = index[n]
      <4> HIDE DEF bits
      <4>1. Get(d[q(n) + 1], bit_index(n, bits), bits) = index[n]
        BY <1>1, <3>2, DataIsRead DEF q
      <4> QED BY <1>6, <4>1
    <3>4. buffer[3 + index[n]] = s[index[n] + 1]
      <4>1. index[n] + 1 \in 1 .. l /\ 2 + (index[n] + 1) = 3 + index[n]
        BY <1>2, <3>1
      <4> HIDE DEF l, s
      <4> QED BY <1>5, <4>1
    <3> QED BY <3>1, <3>3, <3>4
  <2> HIDE DEF read
  <2>2. read = block_states
    BY <1>7, <2>1 DEF read
  <2>3. Wide
    BY <1>8 DEF Wide
  <2>4. ReadsRight(read, 2 + l + number_of_longs(bits))
    <3>1. 2 + l + number_of_longs(bits) = Len(buffer) /\ Len(buffer) \in Nat
      BY <1>2, <1>4, <1>5
    <3> QED BY <3>1, <2>2, <2>3 DEF ReadsRight
  <2> QED BY <1>5, <2>4 DEF read, e
<1>9. CASE ~(l <= Pow2[bits])
  <2> DEFINE w == Pow2[bits] + 1
  <2>1. w \in 1 .. l
    BY <1>1, <1>2, <1>9
  <2>2. PICK n \in Entries : block_states[n] = s[w]
    <3>1. s[w] \in Seen
      BY <2>1 DEF ContainerInv, Collected
    <3> QED BY <1>2, <3>1, SizesAre DEF Seen
  <2>3. e(n) \in 0 .. Pow2[bits] - 1
    <3> HIDE DEF bits, d
    <3> QED BY <1>1, <1>6, GetBound
  <2>4. /\ e(n) + 1 \in 1 .. l /\ e(n) + 1 # w
        /\ 2 + (e(n) + 1) = 3 + e(n)
    BY <1>1, <1>2, <1>9, <2>3
  <2>5. read[n] = s[e(n) + 1]
    <3> HIDE DEF l, s
    <3>1. buffer[2 + (e(n) + 1)] = s[e(n) + 1]
      BY <1>5, <2>4
    <3> QED BY <2>4, <3>1
  <2>6. s[e(n) + 1] # s[w]
    BY <2>1, <2>4 DEF ContainerInv, Collected
  <2> HIDE DEF read
  <2>7. read # block_states
    BY <2>2, <2>5, <2>6
  <2>8. ~Wide /\ ~(buffer[1] > max_bpe_indirect)
    <3>1. ~Wide
      BY <1>9 DEF Wide
    <3>2. max_bpe_indirect \in Nat
      BY SizesAre
    <3> QED BY <1>1, <1>5, <3>1, <3>2
  <2>9. ReadsRight(read, 2 + l + number_of_longs(bits))
    <3>1. 2 + l + number_of_longs(bits) = Len(buffer) /\ Len(buffer) \in Nat
      BY <1>2, <1>4, <1>5
    <3> QED BY <3>1, <2>7, <2>8 DEF ReadsRight
  <2> QED BY <1>5, <2>9 DEF read, e
<1> QED BY <1>8, <1>9

LEMMA DirectIsRead ==
  ASSUME ContainerInv, phase = "written",
         buffer = <<bits_per_entry_direct>>
                    \o data(block_states, bits_per_entry_direct)
  PROVE  /\ buffer[1] = bits_per_entry_direct
         /\ ReadsRight([n \in Entries |-> Entry(n, 1, bits_per_entry_direct)],
                       1 + number_of_longs(bits_per_entry_direct))
<1> DEFINE bits == bits_per_entry_direct
           d == data(block_states, bits)
           read == [n \in Entries |-> Entry(n, 1, bits)]
<1>1. bits \in Width /\ bits \in Nat /\ bits > max_bpe_indirect
  BY SizesAre DEF Width
<1>2. block_states \in [Entries -> Values]
  BY DEF ContainerInv, ContainerTypeOK
<1>3. d \in LongSeqs(bits)
  <2> HIDE DEF bits
  <2> QED BY <1>1, DataType
<1>4. /\ d \in Seq(Nat \cup SUBSET Int) /\ Len(d) = number_of_longs(bits)
  <2> HIDE DEF d, bits
  <2> QED BY <1>1, <1>3, LongsAreFields
<1>5. /\ Len(d) \in Nat /\ Len(buffer) = 1 + Len(d) /\ buffer[1] = bits
      /\ \A j \in 1 .. Len(d) : buffer[1 + j] = d[j]
  <2> DEFINE U == Nat \cup SUBSET Int
  <2>1. bits \in U /\ d \in Seq(U) /\ buffer = <<bits>> \o d
    BY <1>1, <1>4
  <2> HIDE DEF U, bits, d
  <2> QED BY <2>1, FieldsOfDirect
<1>6. ASSUME NEW n \in Entries PROVE read[n] = block_states[n]
  <2> DEFINE q == n \div entries_per_long(bits)
  <2>1. q \in Nat /\ q + 1 \in 1 .. Len(d)
    <3> HIDE DEF bits, d
    <3> QED BY <1>1, <1>4, PlaceIs
  <2>2. Get(d[q + 1], bit_index(n, bits), bits) = block_states[n]
    <3>1. \A m \in Entries : block_states[m] \in 0 .. Pow2[bits] - 1
      BY <1>2 DEF Values
    <3> HIDE DEF bits
    <3> QED BY <1>1, <3>1, DataIsRead
  <2> HIDE DEF d, bits
  <2>3. read[n] = Get(buffer[1 + q + 1], bit_index(n, bits), bits)
    BY ReaderCounts DEF Entry
  <2> HIDE DEF q
  <2>4. buffer[1 + q + 1] = d[q + 1]
    <3>1. 1 + q + 1 = 1 + (q + 1)
      BY <2>1
    <3> QED BY <1>5, <2>1, <3>1
  <2> QED BY <2>2, <2>3, <2>4 DEF q
<1> HIDE DEF read
<1>7. read = block_states
  BY <1>2, <1>6 DEF read
<1> QED BY <1>1, <1>4, <1>5, <1>7 DEF ReadsRight, read

LEMMA ReadKeeps ==
  ASSUME ContainerInv, Read
  PROVE  ContainerInv'
<1>1. /\ phase = "written" /\ phase' = "read"
      /\ UNCHANGED <<block_states, distinct_values, next, buffer, pos>>
      /\ IsContainer(buffer)
  BY DEF Read, ContainerInv, WrittenWhole
<1>2. ReadsRight(out', taken')
  <2>1. \/ /\ buffer[1] = 0
           /\ out' = [n \in Entries |-> buffer[2]]
           /\ taken' = 2
        \/ /\ ReadsPalette(buffer[1])
           /\ out' = [n \in Entries |->
                        buffer[3 + Entry(n, 2 + buffer[2], buffer[1])]]
           /\ taken' = 2 + buffer[2] + number_of_longs(buffer[1])
        \/ /\ buffer[1] # 0 /\ ~ReadsPalette(buffer[1])
           /\ out' = [n \in Entries |-> Entry(n, 1, bits_per_entry_direct)]
           /\ taken' = 1 + number_of_longs(bits_per_entry_direct)
    BY ReaderCounts DEF Read
  <2>2. CASE /\ n_distinct_values = 1
             /\ buffer = <<0, distinct_values[1]>>
    <3>1. /\ buffer[1] = 0
          /\ ReadsRight([n \in Entries |-> buffer[2]], 2)
      BY <1>1, <2>2, SingleIsRead
    <3>2. ~ReadsPalette(buffer[1])
      BY <3>1 DEF ReadsPalette
    <3>3. out' = [n \in Entries |-> buffer[2]] /\ taken' = 2
      BY <2>1, <3>1, <3>2, Zenon
    <3> QED BY <3>1, <3>3, Zenon
  <2>3. CASE /\ bits_per_entry <= max_bpe_indirect
             /\ \E index : /\ IsIndex(index)
                           /\ buffer = <<bits_per_entry, n_distinct_values>>
                                         \o distinct_values
                                         \o data(index, bits_per_entry)
    <3> DEFINE bits == bits_per_entry
               l == n_distinct_values
               read == [n \in Entries |-> buffer[3 + Entry(n, 2 + l, bits)]]
               fields == 2 + l + number_of_longs(bits)
    <3>1. buffer[1] = bits /\ buffer[2] = l /\ ReadsRight(read, fields)
      BY <1>1, <2>3, PalettedIsRead
    <3>2. buffer[1] # 0 /\ ReadsPalette(buffer[1])
      BY <2>3, <3>1, BitsPerEntryIs DEF ReadsPalette
    <3>3. /\ out' = [n \in Entries |->
                       buffer[3 + Entry(n, 2 + buffer[2], buffer[1])]]
          /\ taken' = 2 + buffer[2] + number_of_longs(buffer[1])
      BY <2>1, <3>2, Zenon
    <3>4. out' = read /\ taken' = fields
      <4> HIDE DEF bits, l
      <4> QED BY <3>1, <3>3
    <3> HIDE DEF read, fields
    <3> QED BY <3>1, <3>4
  <2>4. CASE buffer = <<bits_per_entry_direct>>
                        \o data(block_states, bits_per_entry_direct)
    <3> DEFINE bits == bits_per_entry_direct
               read == [n \in Entries |-> Entry(n, 1, bits)]
               fields == 1 + number_of_longs(bits)
    <3>1. buffer[1] = bits /\ ReadsRight(read, fields)
      BY <1>1, <2>4, DirectIsRead
    <3>2. buffer[1] # 0 /\ ~ReadsPalette(buffer[1])
      BY <3>1, SizesAre DEF ReadsPalette, Width
    <3>3. out' = read /\ taken' = fields
      BY <2>1, <3>2, Zenon
    <3> HIDE DEF read, fields
    <3> QED BY <3>1, <3>3
  <2> QED BY <1>1, <2>2, <2>3, <2>4 DEF IsContainer
<1>3. /\ n_distinct_values' = n_distinct_values /\ Seen' = Seen
      /\ bits_per_entry' = bits_per_entry /\ buffer' = buffer
      /\ block_states' = block_states
  BY <1>1 DEF n_distinct_values, Seen, bits_per_entry
<1>4. ExactIffWide' /\ ReadToTheEnd'
  BY <1>1, <1>2, <1>3 DEF ReadsRight, ExactIffWide, ReadToTheEnd, Wide
<1>5. ContainerTypeOK'
  BY <1>1, <1>2, <1>3 DEF ContainerInv, ContainerTypeOK, ReadsRight
<1>6. Collected' /\ CollectedToTheEnd'
  BY <1>1, <1>3 DEF ContainerInv, Collected, CollectedToTheEnd
<1> QED BY <1>1, <1>4, <1>5, <1>6 DEF ContainerInv, WrittenWhole

-----------------------------------------------------------------------------
(* Theorems.                                                               *)

\* The invariant holds from the first entry collected to what is read back.
THEOREM ContainerInductive == ContainerSpec => []ContainerInv
<1>1. ContainerInit => ContainerInv
  BY ContainerInitInv
<1>2. ASSUME ContainerInv, [ContainerNext]_container_vars
      PROVE  ContainerInv'
  <2>1. CASE Collect
    BY <1>2, <2>1, CollectKeeps
  <2>2. CASE Single
    BY <1>2, <2>2, SingleKeeps
  <2>3. CASE Paletted
    BY <1>2, <2>3, PalettedKeeps
  <2>4. CASE Direct
    BY <1>2, <2>4, DirectKeeps
  <2>5. CASE Read
    BY <1>2, <2>5, ReadKeeps
  <2>6. CASE UNCHANGED container_vars
    <3>1. /\ UNCHANGED <<block_states, distinct_values, next, buffer, pos,
                         out, taken, phase>>
          /\ n_distinct_values' = n_distinct_values /\ Seen' = Seen
          /\ bits_per_entry' = bits_per_entry
      BY <2>6 DEF container_vars, n_distinct_values, Seen, bits_per_entry
    <3>2. ContainerTypeOK' /\ Collected' /\ CollectedToTheEnd'
      BY <1>2, <3>1
         DEF ContainerInv, ContainerTypeOK, Collected, CollectedToTheEnd
    <3>3. WrittenWhole'
      BY <1>2, <3>1 DEF ContainerInv, WrittenWhole, IsContainer, IsIndex
    <3>4. ExactIffWide' /\ ReadToTheEnd'
      BY <1>2, <3>1 DEF ContainerInv, ExactIffWide, ReadToTheEnd, Wide
    <3> QED BY <3>2, <3>3, <3>4 DEF ContainerInv
  <2> QED
    BY <1>2, <2>1, <2>2, <2>3, <2>4, <2>5, <2>6 DEF ContainerNext, Ended
<1> QED BY <1>1, <1>2, PTL DEF ContainerSpec

\* The collected values are counted, and no more bytes are written than the
\* buffer has.
THEOREM ContainerTypeCorrect == ContainerSpec => []ContainerTypeOK
<1>1. ContainerInv => ContainerTypeOK
  BY DEF ContainerInv
<1> QED BY <1>1, ContainerInductive, PTL

\* A container with a palette is read back as its section if, and only if, its
\* indices have room for the values; one without always is.
THEOREM ReadBackIffWide == ContainerSpec => []ExactIffWide
<1>1. ContainerInv => ExactIffWide
  BY DEF ContainerInv
<1> QED BY <1>1, ContainerInductive, PTL

\* The reader stops where the container ends.
THEOREM ReadsToTheEnd == ContainerSpec => []ReadToTheEnd
<1>1. ContainerInv => ReadToTheEnd
  BY DEF ContainerInv
<1> QED BY <1>1, ContainerInductive, PTL

\* Sections with no more values than the smallest width has room for, 16 in
\* the code, are read back as they were: what the demo relies on.
SmallExact ==
  phase = "read" /\ n_distinct_values <= Pow2[min_bpe_indirect]
    => out = block_states
THEOREM SmallSectionsExact == ContainerSpec => []SmallExact
<1>1. ContainerInv => SmallExact
  <2> SUFFICES ASSUME ContainerInv, phase = "read",
                      n_distinct_values <= Pow2[min_bpe_indirect]
               PROVE  out = block_states
    BY DEF SmallExact
  <2>1. /\ min_bpe_indirect <= bits_per_entry
        /\ min_bpe_indirect \in Nat /\ bits_per_entry \in Nat
    <3>1. bits_per_entry \in Nat /\ min_bpe_indirect \in Nat
      BY BitsPerEntryIs, SizesAre
    <3> DEFINE ones == Cardinality(Bits(n_distinct_values))
    <3>2. bits_per_entry = IF ones > min_bpe_indirect THEN ones
                           ELSE min_bpe_indirect
      BY DEF bits_per_entry
    <3> HIDE DEF ones
    <3> QED BY <3>1, <3>2
  <2>2. Pow2[min_bpe_indirect] <= Pow2[bits_per_entry]
    BY <2>1, Pow2Grows
  <2>3. Pow2[min_bpe_indirect] \in Nat /\ Pow2[bits_per_entry] \in Nat
    BY <2>1, Pow2Type
  <2>4. n_distinct_values \in Nat
    BY LenProperties DEF ContainerInv, ContainerTypeOK, n_distinct_values
  <2>5. Wide
    BY <2>2, <2>3, <2>4 DEF Wide
  <2> QED BY <2>5 DEF ContainerInv, ExactIffWide
<1> QED BY <1>1, ContainerInductive, PTL

-----------------------------------------------------------------------------
(* The chunks a player is sent.                                            *)

USE ChunkAssumption

\* A player that walks: every packet changes both coordinates, by a block at
\* most, and neither gets below zero, where C truncates the other way.  It
\* spawns in chunk <<0, 0>>, off the edge.
Walking ==
  /\ ChunkWidth >= 2
  /\ Reach \subseteq Nat
  /\ Steps \subseteq {-2, -1, 1, 2} \X {-2, -1, 1, 2}
  /\ Spawn \in 2 .. Side - 1

\* The rows a player needs along an axis: those in view, and one more below
\* when it stands in the first block of its chunk.
Need(l) == (l \div Side) - view_distance - (IF l % Side < 2 THEN 1 ELSE 0)
             .. (l \div Side) + view_distance

\* It has them, and not only the window.
NeedSent ==
  \A x \in Need(loc[1]), z \in Need(loc[2]) :
    InWorld(x) /\ InWorld(z) => <<x, z>> \in sent

\* The center along an axis is the player's chunk or the next, and the
\* player's when it stands in the first block.
CenterNear(m, l) == /\ m \in {l \div Side, (l \div Side) + 1}
                    /\ l % Side < 2 => m = l \div Side

CenterOk == CenterNear(center[1], loc[1]) /\ CenterNear(center[2], loc[2])

IInv == TypeOK /\ NeedSent /\ CenterOk

-----------------------------------------------------------------------------
(* Chunks and remainders.                                                  *)

LEMMA SideType == Side \in Nat \ {0} /\ 2 * Side \in Nat \ {0}
BY DEF Side

LEMMA SideIs == Side = 2 * ChunkWidth
BY DEF Side

\* The truncated coordinate is a multiple of the width in the first block.
LEMMA FirstBlock ==
  ASSUME NEW l \in Nat
  PROVE  Truncate(l, 2) % ChunkWidth = 0 <=> l % Side < 2
<1> DEFINE q == l \div Side
           r == l % Side
           h == r \div 2
           b == r % 2
<1>1. q \in Int /\ r \in 0 .. Side - 1 /\ l = Side * q + r
  BY SideType
<1>2. h \in Int /\ b \in 0 .. 1 /\ r = 2 * h + b
  BY <1>1
<1> HIDE DEF q, r, h, b
<1>3. h \in 0 .. ChunkWidth - 1
  BY <1>1, <1>2, SideIs
<1>4. ChunkWidth * q \in Int
  BY <1>1
<1>5. l = 2 * (ChunkWidth * q + h) + b
  <2>1. Side * q = 2 * (ChunkWidth * q)
    BY <1>1, SideIs
  <2> QED
    BY <1>1, <1>2, <1>3, <1>4, <2>1
<1>6. l \div 2 = ChunkWidth * q + h
  BY <1>2, <1>3, <1>4, <1>5
<1>7. (ChunkWidth * q + h) % ChunkWidth = h
  <2>1. ChunkWidth * q + h \in Int /\ ChunkWidth \in Nat \ {0}
    BY <1>3, <1>4
  <2>2. q \in Int
    BY <1>1
  <2> QED
    BY <1>3, <2>1, <2>2, DivisionUnique, Zenon
<1>8. Truncate(l, 2) = l \div 2
  BY DEF Truncate
<1>9. Truncate(l, 2) % ChunkWidth = h
  BY <1>6, <1>7, <1>8
<1>10. h = 0 <=> r < 2
  BY <1>2, <1>3
<1> QED
  BY <1>9, <1>10 DEF r

\* Rounding gives the chunk in its first half, the next one in the second.
LEMMA Rounded ==
  ASSUME NEW l \in Nat
  PROVE  Round(l, Side) =
           IF l % Side < ChunkWidth THEN l \div Side ELSE (l \div Side) + 1
<1> DEFINE q == l \div Side
           r == l % Side
<1>1. q \in Int /\ r \in 0 .. Side - 1 /\ l = Side * q + r
  BY SideType
<1> HIDE DEF q, r
<1>2. /\ Side * q \in Int /\ Side \in Nat \ {0}
      /\ 2 * l + Side \in Int /\ q + 1 \in Int
  BY <1>1, SideType
<1>3. Round(l, Side) = (2 * l + Side) \div (2 * Side)
  BY DEF Round
<1>4. CASE r < ChunkWidth
  <2>1. 2 * l + Side = (2 * Side) * q + (2 * r + Side)
    BY <1>1, <1>2
  <2>2. 2 * r + Side \in 0 .. (2 * Side) - 1
    BY <1>1, <1>4, SideIs
  <2>3. ((2 * Side) * q + (2 * r + Side)) \div (2 * Side) = q
    BY <1>1, <1>2, <2>2, SideType, DivisionUnique, Zenon
  <2> QED
    BY <1>3, <1>4, <2>1, <2>3, Zenon DEF q, r
<1>5. CASE r >= ChunkWidth
  <2>1. 2 * l + Side = (2 * Side) * (q + 1) + (2 * r - Side)
    BY <1>1, <1>2
  <2>2. 2 * r - Side \in 0 .. (2 * Side) - 1
    BY <1>1, <1>5, SideIs
  <2>3. ((2 * Side) * (q + 1) + (2 * r - Side)) \div (2 * Side) = q + 1
    BY <1>1, <1>2, <2>2, SideType, DivisionUnique, Zenon
  <2>4. ~(r < ChunkWidth)
    BY <1>1, <1>5
  <2> QED
    BY <1>3, <2>1, <2>3, <2>4, Zenon DEF q, r
<1> QED
  BY <1>1, <1>4, <1>5

-----------------------------------------------------------------------------
(* A move along one axis.                                                  *)

\* The chunk stays the same, or the player goes over the edge.
LEMMA OneStep ==
  ASSUME Walking, NEW old \in Nat, NEW new \in Nat,
         new - old \in {-2, -1, 1, 2}
  PROVE  \/ /\ new \div Side = old \div Side
            /\ new % Side = (old % Side) + (new - old)
         \/ /\ new \div Side = (old \div Side) + 1
            /\ new > old /\ new % Side < 2 /\ old % Side >= 2
         \/ /\ new \div Side = (old \div Side) - 1
            /\ new < old /\ new % Side >= 2 /\ old % Side < 2
<1> DEFINE q == old \div Side
           r == old % Side
           e == new - old
<1>1. q \in Int /\ r \in 0 .. Side - 1 /\ old = Side * q + r
  BY SideType
<1>2. e \in {-2, -1, 1, 2} /\ new = old + e /\ Side >= 4 /\ Side \in Nat
  BY SideIs DEF Walking
<1> HIDE DEF q, r, e
<1>3. /\ Side * q \in Int /\ new \in Int
      /\ q \in Int /\ q + 1 \in Int /\ q - 1 \in Int
  BY <1>1, SideType
<1>4. CASE r + e \in 0 .. Side - 1
  <2>1. new = Side * q + (r + e)
    BY <1>1, <1>2, <1>3
  <2>2. new \div Side = q /\ new % Side = r + e
    BY <1>3, <1>4, <2>1, SideType, DivisionUnique, Zenon
  <2> QED
    BY <2>2 DEF q, r, e
<1>5. CASE r + e >= Side
  <2>1. new = Side * (q + 1) + (r + e - Side)
    BY <1>1, <1>2, <1>3
  <2>2. r + e - Side \in 0 .. Side - 1 /\ r + e - Side < 2 /\ r >= 2 /\ e > 0
    BY <1>1, <1>2, <1>5
  <2>3. new \div Side = q + 1 /\ new % Side = r + e - Side
    BY <1>3, <2>1, <2>2, SideType, DivisionUnique, Zenon
  <2>4. new > old
    BY <1>2, <2>2
  <2>5. new % Side < 2
    BY <2>2, <2>3
  <2> QED
    BY <2>2, <2>3, <2>4, <2>5 DEF q, r
<1>6. CASE r + e < 0
  <2>1. new = Side * (q - 1) + (r + e + Side)
    BY <1>1, <1>2, <1>3
  <2>2. r + e + Side \in 0 .. Side - 1 /\ r + e + Side >= 2 /\ r < 2 /\ e < 0
    BY <1>1, <1>2, <1>6
  <2>3. new \div Side = q - 1 /\ new % Side = r + e + Side
    BY <1>3, <2>1, <2>2, SideType, DivisionUnique, Zenon
  <2>4. new < old
    BY <1>2, <2>2
  <2>5. new % Side >= 2
    BY <2>2, <2>3
  <2> QED
    BY <2>2, <2>3, <2>4, <2>5 DEF q, r
<1> QED
  BY <1>1, <1>2, <1>4, <1>5, <1>6

LEMMA DirectionType ==
  ASSUME NEW old, NEW new
  PROVE  Direction(old, new) \in {-1, 0, 1}
BY DEF Direction

\* A crossing is a step into the first block of a chunk.
LEMMA CrossedIff ==
  ASSUME NEW old \in Nat, NEW new \in Nat
  PROVE  Crossed(old, new) <=> new % Side < 2 /\ old % Side >= 2
<1>1. /\ Truncate(new, 2) % ChunkWidth = 0 <=> new % Side < 2
      /\ Truncate(old, 2) % ChunkWidth = 0 <=> old % Side < 2
  BY FirstBlock, Zenon
<1>2. old % Side < 2 <=> ~(old % Side >= 2)
  BY SideType
<1> QED
  BY <1>1, <1>2, Zenon DEF Crossed

\* What a player needs after a step it needed before, or it has just crossed
\* the edge, towards the rows it lacks.
LEMMA NeedAfter ==
  ASSUME Walking, NEW old \in Nat, NEW new \in Nat,
         new - old \in {-2, -1, 1, 2}, NEW n \in Need(new)
  PROVE  \/ n \in Need(old)
         \/ /\ Direction(old, new) # 0
            /\ n \in Edge(Round(new, Side), Direction(old, new))
<1> DEFINE q == old \div Side   p == new \div Side
           r == old % Side      t == new % Side
<1>1. q \in Int /\ p \in Int /\ r \in Nat /\ t \in Nat
  BY SideType
<1>2. /\ n \in Int /\ n <= p + view_distance
      /\ t < 2 => n >= p - view_distance - 1
      /\ t >= 2 => n >= p - view_distance
  BY <1>1 DEF Need
<1>3. (\/ r < 2 /\ n \in q - view_distance - 1 .. q + view_distance
       \/ n \in q - view_distance .. q + view_distance)
      => n \in Need(old)
  BY <1>1 DEF Need
<1>4. t < 2 => Round(new, Side) = p
  BY <1>1, Rounded DEF Walking
<1>5. /\ Direction(old, new) =
           IF ~(t < 2 /\ r >= 2) THEN 0 ELSE IF new < old THEN -1 ELSE 1
  BY CrossedIff, Zenon DEF Direction
<1>6. \/ p = q /\ t = r + (new - old)
      \/ p = q + 1 /\ new > old /\ t < 2 /\ r >= 2
      \/ p = q - 1 /\ new < old /\ t >= 2 /\ r < 2
  BY OneStep, Zenon
<1> HIDE DEF q, p, r, t
<1>7. CASE p = q /\ t = r + (new - old) /\ t < 2 /\ r >= 2
  <2>1. Direction(old, new) = -1
    BY <1>1, <1>5, <1>7
  <2>2. n \in Need(old) \/ n = p + (-1) * (view_distance + 1)
    BY <1>1, <1>2, <1>3, <1>7
  <2> QED
    BY <1>1, <1>4, <1>7, <2>1, <2>2 DEF Edge
<1>8. CASE p = q /\ ~(t < 2 /\ r >= 2)
  BY <1>1, <1>2, <1>3, <1>8
<1>9. CASE p = q + 1 /\ new > old /\ t < 2 /\ r >= 2
  <2>1. Direction(old, new) = 1
    BY <1>1, <1>5, <1>9
  <2>2. n \in Need(old) \/ n = p + 1 * view_distance
    BY <1>1, <1>2, <1>3, <1>9
  <2> QED
    BY <1>1, <1>4, <1>9, <2>1, <2>2 DEF Edge
<1>10. CASE p = q - 1 /\ new < old /\ t >= 2 /\ r < 2
  BY <1>1, <1>2, <1>3, <1>10
<1> QED
  BY <1>6, <1>7, <1>8, <1>9, <1>10

\* The strips are long enough.
LEMMA NeedAcross ==
  ASSUME Walking, NEW l \in Nat, NEW n \in Need(l)
  PROVE  n \in Across(Round(l, Side))
<1> DEFINE m == Round(l, Side)
<1>1. m \in Int /\ n \in Int /\ n - m \in Row
  <2>1. l \div Side \in Int /\ l % Side \in Nat
    BY SideType
  <2>2. \/ l % Side < ChunkWidth /\ m = l \div Side
        \/ l % Side >= ChunkWidth /\ m = (l \div Side) + 1
    BY <2>1, Rounded
  <2>3. ChunkWidth >= 2
    BY DEF Walking
  <2> HIDE DEF m
  <2> QED
    BY <2>1, <2>2, <2>3 DEF Need, Row
<1>2. n = m + (n - m)
  BY <1>1
<1> QED
  BY <1>1, <1>2 DEF Across

\* The center that is told fits, and stays so until the next is told.
LEMMA CenterAfter ==
  ASSUME Walking, NEW old \in Nat, NEW new \in Nat,
         new - old \in {-2, -1, 1, 2}
  PROVE  /\ CenterNear(Round(new, Side), new)
         /\ \A m : CenterNear(m, old) /\ Direction(old, new) = 0
                     => CenterNear(m, new)
<1> DEFINE q == old \div Side   p == new \div Side
           r == old % Side      t == new % Side
<1>1. q \in Int /\ p \in Int /\ r \in Nat /\ t \in Nat
  BY SideType
<1>2. CenterNear(Round(new, Side), new)
  <2>1. Round(new, Side) = IF t < ChunkWidth THEN p ELSE p + 1
    BY Rounded
  <2>2. t < 2 => t < ChunkWidth
    BY <1>1 DEF Walking
  <2> QED
    BY <2>1, <2>2, Zenon DEF CenterNear
<1>3. ASSUME NEW m, CenterNear(m, old), Direction(old, new) = 0
      PROVE  CenterNear(m, new)
  <2>1. m \in {q, q + 1} /\ (r < 2 => m = q)
    BY <1>3 DEF CenterNear
  <2>2. ~(t < 2 /\ r >= 2)
    <3>1. Crossed(old, new) => Direction(old, new) # 0
      BY DEF Direction
    <3> QED
      BY <1>3, <3>1, CrossedIff, Zenon
  <2>3. \/ p = q /\ t = r + (new - old)
        \/ p = q + 1 /\ new > old /\ t < 2 /\ r >= 2
        \/ p = q - 1 /\ new < old /\ t >= 2 /\ r < 2
    BY OneStep, Zenon
  <2>4. m \in {p, p + 1} /\ (t < 2 => m = p)
    <3> HIDE DEF q, p, r, t
    <3>1. CASE p = q
      BY <1>1, <2>1, <2>2, <3>1
    <3>2. CASE p = q - 1 /\ t >= 2 /\ r < 2
      BY <1>1, <2>1, <3>2
    <3> QED
      BY <2>2, <2>3, <3>1, <3>2
  <2> QED
    BY <2>4 DEF CenterNear
<1> QED
  BY <1>2, <1>3

-----------------------------------------------------------------------------
(* Types, and what any step sends.                                         *)

LEMMA RoundType ==
  ASSUME NEW l \in Int
  PROVE  Round(l, Side) \in Int
<1>1. 2 * l + Side \in Int /\ 2 * (-l) + Side \in Int
  BY SideType
<1>2. \A k \in Int : k \div (2 * Side) \in Int
  BY SideType
<1> QED
  BY <1>1, <1>2 DEF Round

\* A step, taken apart.
LEMMA MoveType ==
  ASSUME TypeOK, Next
  PROVE  \E s \in Steps :
           /\ s[1] \in Int /\ s[2] \in Int
           /\ loc[1] \in Reach /\ loc[2] \in Reach
           /\ loc[1] + s[1] \in Reach /\ loc[2] + s[2] \in Reach
           /\ Move(<<loc[1] + s[1], loc[2] + s[2]>>)
<1>1. \A s \in Steps : s[1] \in Int /\ s[2] \in Int
  OBVIOUS
<1>2. loc[1] \in Reach /\ loc[2] \in Reach
  BY DEF TypeOK
<1> QED
  BY <1>1, <1>2 DEF Next

LEMMA MoveKeepsType ==
  ASSUME TypeOK, NEW x \in Reach, NEW z \in Reach, Move(<<x, z>>)
  PROVE  TypeOK'
<1>1. loc' = <<x, z>>
  BY DEF Move
<1>2. noticed' \in BOOLEAN
  <2> DEFINE dir == <<Direction(loc[1], x), Direction(loc[2], z)>>
             crossing == loc[1] # x /\ loc[2] # z /\ dir # <<0, 0>>
  <2>1. noticed' = crossing
    BY DEF Move
  <2>2. crossing \in BOOLEAN
    OBVIOUS
  <2> QED
    BY <2>1, <2>2
<1>3. center' \in Int \X Int
  <2>1. Round(x, Side) \in Int /\ Round(z, Side) \in Int
    BY RoundType
  <2>2. Center(<<x, z>>) = <<Round(x, Side), Round(z, Side)>>
    BY DEF Center
  <2>3. center' \in {center, Center(<<x, z>>)}
    BY DEF Move
  <2> QED
    BY <2>1, <2>2, <2>3 DEF TypeOK
<1>4. \A c \in sent' : InWorld(c[1]) /\ InWorld(c[2])
  BY DEF Move, TypeOK, send_chunks
<1> QED
  BY <1>1, <1>2, <1>3, <1>4, Zenon DEF TypeOK

LEMMA InitType == Init => TypeOK
<1> SUFFICES ASSUME Init PROVE TypeOK
  OBVIOUS
<1>1. loc = <<Spawn, Spawn>> /\ center = <<0, 0>> /\ noticed = FALSE
  BY Zenon DEF Init
<1>2. \A c \in sent : InWorld(c[1]) /\ InWorld(c[2])
  BY DEF Init, send_chunks
<1>3. loc \in Reach \X Reach
  BY <1>1
<1>4. center \in Int \X Int
  BY <1>1
<1>5. noticed \in BOOLEAN
  BY <1>1
<1> QED
  BY <1>2, <1>3, <1>4, <1>5, Zenon DEF TypeOK

-----------------------------------------------------------------------------
(* The invariant.                                                          *)

\* At first the square around the spawn point: the offsets below 0, which
\* are truncated towards it, begin one further out.
LEMMA InitNeed == Walking /\ Init => NeedSent /\ CenterOk
<1> SUFFICES ASSUME Walking, Init PROVE NeedSent /\ CenterOk
  OBVIOUS
<1>1. loc[1] = Spawn /\ loc[2] = Spawn /\ center[1] = 0 /\ center[2] = 0
  BY DEF Init
<1>2. Spawn \in 2 .. Side - 1 /\ Spawn \in Nat
  BY SideType DEF Walking
<1>3. Spawn \div Side = 0 /\ Spawn % Side = Spawn
  <2>1. Side * 0 + Spawn = Spawn /\ Spawn \in 0 .. Side - 1 /\ 0 \in Int
    BY <1>2, SideType
  <2> QED
    BY <2>1, SideType, DivisionUnique, Zenon
<1>4. CenterOk
  BY <1>1, <1>2, <1>3 DEF CenterOk, CenterNear
<1>5. Need(Spawn) = -view_distance .. view_distance
  BY <1>2, <1>3 DEF Need
<1>6. ASSUME NEW n \in -view_distance .. view_distance
      PROVE  \E k \in Row : Truncate(k * Side + Spawn, Side) = n
  <2>1. CASE n >= 0
    <3>1. n \in Row
      BY <2>1 DEF Row
    <3>2. n * Side + Spawn = Side * n + Spawn /\ n * Side + Spawn >= 0
      BY <1>2, <2>1, SideType
    <3>3. (Side * n + Spawn) \div Side = n
      BY <1>2, SideType, DivisionUnique
    <3>4. Truncate(n * Side + Spawn, Side) = n
      BY <3>2, <3>3, Zenon DEF Truncate
    <3> QED
      BY <3>1, <3>4
  <2>2. CASE n < 0
    <3> DEFINE k == n - 1
    <3>1. k \in Row
      BY <2>2 DEF Row
    <3>2. /\ -(k * Side + Spawn) = Side * (-n) + (Side - Spawn)
          /\ k * Side + Spawn \in Int
          /\ Side - Spawn \in 0 .. Side - 1
      BY <1>2, <2>2, SideType
    <3>3. Side * (-n) >= Side
      BY <2>2, SideType
    <3>4. ~(k * Side + Spawn >= 0)
      <4>1. -(k * Side + Spawn) > 0
        <5> HIDE DEF k
        <5>1. Side * (-n) \in Int
          BY SideType
        <5> QED
          BY <1>2, <3>2, <3>3, <5>1, SideType
      <4> HIDE DEF k
      <4> QED
        BY <3>2, <4>1
    <3>5. (Side * (-n) + (Side - Spawn)) \div Side = -n
      BY <2>2, <3>2, SideType, DivisionUnique
    <3>6. Truncate(k * Side + Spawn, Side) = -((-(k * Side + Spawn)) \div Side)
      BY <3>4, Zenon DEF Truncate
    <3>7. Truncate(k * Side + Spawn, Side) = -(-n)
      BY <3>2, <3>5, <3>6, Zenon
    <3> QED
      BY <3>1, <3>7
  <2> QED
    BY <2>1, <2>2
<1>7. NeedSent
  <2> SUFFICES ASSUME NEW x \in -view_distance .. view_distance,
                      NEW z \in -view_distance .. view_distance,
                      InWorld(x), InWorld(z)
               PROVE  <<x, z>> \in sent
    BY <1>1, <1>5, Zenon DEF NeedSent
  <2> DEFINE square == {<<Truncate(a * Side + Spawn, Side),
                          Truncate(b * Side + Spawn, Side)>> :
                          a \in Row, b \in Row}
  <2>1. PICK a \in Row : Truncate(a * Side + Spawn, Side) = x
    BY <1>6
  <2>2. PICK b \in Row : Truncate(b * Side + Spawn, Side) = z
    BY <1>6
  <2>3. <<x, z>> \in square
    BY <2>1, <2>2
  <2>4. sent = send_chunks(square)
    BY DEF Init
  <2> HIDE DEF square
  <2> QED
    BY <2>3, <2>4 DEF send_chunks
<1> QED
  BY <1>4, <1>7

\* A step of a walking player.
LEMMA StepNeed ==
  ASSUME Walking, TypeOK, NeedSent, CenterOk, Next
  PROVE  NeedSent' /\ CenterOk'
<1>1. PICK s \in Steps :
        /\ loc[1] + s[1] \in Reach /\ loc[2] + s[2] \in Reach
        /\ Move(<<loc[1] + s[1], loc[2] + s[2]>>)
  BY MoveType
<1> DEFINE x == loc[1] + s[1]
           z == loc[2] + s[2]
           dx == Direction(loc[1], x)
           dz == Direction(loc[2], z)
           mx == Round(x, Side)
           mz == Round(z, Side)
           strips == Strips(<<mx, mz>>, <<dx, dz>>)
<1>2. /\ loc[1] \in Nat /\ loc[2] \in Nat /\ x \in Nat /\ z \in Nat
      /\ x - loc[1] \in {-2, -1, 1, 2} /\ z - loc[2] \in {-2, -1, 1, 2}
  <2>1. loc[1] \in Reach /\ loc[2] \in Reach
    BY DEF TypeOK
  <2>2. loc[1] \in Nat /\ loc[2] \in Nat /\ x \in Nat /\ z \in Nat
    BY <1>1, <2>1 DEF Walking
  <2>3. s[1] \in {-2, -1, 1, 2} /\ s[2] \in {-2, -1, 1, 2}
    BY DEF Walking
  <2> QED
    BY <2>2, <2>3
<1>3. loc'[1] = x /\ loc'[2] = z
  BY <1>1 DEF Move
<1>4. dx \in {-1, 0, 1} /\ dz \in {-1, 0, 1}
  BY DirectionType
<1>5. loc[1] # x /\ loc[2] # z
  BY <1>2
<1>6. noticed' <=> dx # 0 \/ dz # 0
  <2>1. noticed' = (loc[1] # x /\ loc[2] # z /\ <<dx, dz>> # <<0, 0>>)
    BY <1>1 DEF Move
  <2>2. <<dx, dz>> = <<0, 0>> <=> dx = 0 /\ dz = 0
    OBVIOUS
  <2> QED
    BY <1>5, <2>1, <2>2, Zenon
<1>7. IF noticed'
      THEN center' = <<mx, mz>> /\ sent' = sent \cup send_chunks(strips)
      ELSE center' = center /\ sent' = sent
  <2>1. Center(<<x, z>>) = <<mx, mz>>
    BY DEF Center
  <2>2. IF noticed'
        THEN /\ center' = Center(<<x, z>>)
             /\ sent' = sent \cup send_chunks(Strips(Center(<<x, z>>), <<dx, dz>>))
        ELSE UNCHANGED <<center, sent>>
    BY <1>1 DEF Move
  <2> QED
    BY <2>1, <2>2, Zenon
<1> HIDE DEF x, z, dx, dz, mx, mz
<1>8. CenterOk'
  <2>1. /\ CenterNear(mx, x) /\ CenterNear(mz, z)
        /\ dx = 0 => CenterNear(center[1], x)
        /\ dz = 0 => CenterNear(center[2], z)
    BY <1>2, CenterAfter, Zenon DEF CenterOk, dx, dz, mx, mz
  <2>2. CASE noticed'
    BY <1>3, <1>7, <2>1, <2>2 DEF CenterOk
  <2>3. CASE ~noticed'
    BY <1>3, <1>6, <1>7, <2>1, <2>3, Zenon DEF CenterOk
  <2> QED
    BY <2>2, <2>3
<1>9. ASSUME NEW a \in Need(x), NEW b \in Need(z), InWorld(a), InWorld(b)
      PROVE  <<a, b>> \in sent'
  <2>1. /\ a \in Need(loc[1]) \/ (dx # 0 /\ a \in Edge(mx, dx))
        /\ b \in Need(loc[2]) \/ (dz # 0 /\ b \in Edge(mz, dz))
    BY <1>2, NeedAfter, Zenon DEF dx, dz, mx, mz
  <2>2. a \in Across(mx) /\ b \in Across(mz)
    BY <1>2, NeedAcross, Zenon DEF mx, mz
  <2>3. CASE a \in Need(loc[1]) /\ b \in Need(loc[2])
    <3>1. <<a, b>> \in sent
      BY <1>9, <2>3, Zenon DEF NeedSent
    <3> QED
      BY <1>7, <3>1
  <2>4. CASE (dx # 0 /\ a \in Edge(mx, dx)) \/ (dz # 0 /\ b \in Edge(mz, dz))
    <3>1. <<a, b>> \in strips
      BY <2>2, <2>4 DEF Strips
    <3>2. <<a, b>> \in send_chunks(strips)
      BY <1>9, <3>1 DEF send_chunks
    <3> QED
      BY <1>6, <1>7, <2>4, <3>2
  <2> QED
    BY <2>1, <2>3, <2>4
<1>10. NeedSent'
  BY <1>3, <1>9, Zenon DEF NeedSent
<1> QED
  BY <1>8, <1>10

-----------------------------------------------------------------------------
(* Theorems.                                                               *)

LEMMA NextType ==
  ASSUME TypeOK, [Next]_vars
  PROVE  TypeOK'
<1>1. CASE Next
  <2>1. PICK s \in Steps :
          /\ loc[1] + s[1] \in Reach /\ loc[2] + s[2] \in Reach
          /\ Move(<<loc[1] + s[1], loc[2] + s[2]>>)
    BY <1>1, MoveType
  <2> QED
    BY <2>1, MoveKeepsType, Zenon
<1>2. CASE UNCHANGED vars
  BY <1>2 DEF vars, TypeOK
<1> QED
  BY <1>1, <1>2

\* Every variable of ChunkView keeps its type, for every kind of move.
THEOREM TypeCorrect == Spec => []TypeOK
<1> QED
  BY InitType, NextType, PTL DEF Spec

\* The inductive invariant of a walking player.
THEOREM Invariant ==
  ASSUME Walking
  PROVE  Spec => []IInv
<1>1. Init => IInv
  BY InitType, InitNeed DEF IInv
<1>2. IInv /\ [Next]_vars => IInv'
  <2> SUFFICES ASSUME IInv, [Next]_vars PROVE IInv'
    OBVIOUS
  <2>1. TypeOK'
    BY NextType DEF IInv
  <2>2. CASE Next
    BY <2>1, <2>2, StepNeed DEF IInv
  <2>3. CASE UNCHANGED vars
    BY <2>1, <2>3 DEF IInv, vars, NeedSent, CenterOk, CenterNear
  <2> QED
    BY <2>2, <2>3
<1> QED
  BY <1>1, <1>2, PTL DEF Spec

\* A walking player has every chunk within the view distance of its own, at
\* every moment: on_chunk_move sends each strip before it is needed.
THEOREM WindowSentHolds ==
  ASSUME Walking
  PROVE  Spec => []WindowSent
<1>1. IInv => WindowSent
  <2> SUFFICES ASSUME IInv,
                      NEW x \in -WORLD_GEN_LIMIT + 1 .. WORLD_GEN_LIMIT,
                      NEW z \in -WORLD_GEN_LIMIT + 1 .. WORLD_GEN_LIMIT,
                      Within(<<x, z>>, ChunkOf(loc), view_distance)
               PROVE  <<x, z>> \in sent
    BY DEF WindowSent
  <2>1. loc[1] \in Int /\ loc[2] \in Int
    BY DEF IInv, TypeOK
  <2>2. /\ loc[1] \div Side \in Int /\ loc[1] % Side \in Nat
        /\ loc[2] \div Side \in Int /\ loc[2] % Side \in Nat
    BY <2>1, SideType
  <2>3. x \in Need(loc[1]) /\ z \in Need(loc[2])
    BY <2>2 DEF Within, ChunkOf, Need
  <2>4. InWorld(x) /\ InWorld(z)
    BY DEF InWorld
  <2> QED
    BY <2>3, <2>4, Zenon DEF IInv, NeedSent
<1> QED
  BY <1>1, Invariant, PTL

\* The center a walking player was told is its own chunk or the one beside.
THEOREM CenterFollowsHolds ==
  ASSUME Walking
  PROVE  Spec => []CenterFollows
<1>1. IInv => CenterFollows
  <2> SUFFICES ASSUME IInv PROVE CenterFollows
    OBVIOUS
  <2>1. loc[1] \in Int /\ loc[2] \in Int
    BY DEF IInv, TypeOK
  <2>2. loc[1] \div Side \in Int /\ loc[2] \div Side \in Int
    BY <2>1, SideType
  <2>3. /\ center[1] \in {loc[1] \div Side, (loc[1] \div Side) + 1}
        /\ center[2] \in {loc[2] \div Side, (loc[2] \div Side) + 1}
    BY DEF IInv, CenterOk, CenterNear
  <2> QED
    BY <2>2, <2>3 DEF CenterFollows, Within, ChunkOf
<1> QED
  BY <1>1, Invariant, PTL

\* However a player moves, nothing is sent further out than a row beyond the
\* view distance around the center told with it.
THEOREM SentAroundCenterHolds == Spec => SentAroundCenter
<1> DEFINE Around == \A c \in sent' \ sent : Within(c, center', view_distance + 1)
<1>1. TypeOK /\ [Next]_vars => [Around]_vars
  <2> SUFFICES ASSUME TypeOK, Next PROVE Around
    OBVIOUS
  <2> SUFFICES ASSUME NEW c \in sent', c \notin sent
               PROVE  Within(c, center', view_distance + 1)
    OBVIOUS
  <2>1. PICK s \in Steps :
          /\ s[1] \in Int /\ s[2] \in Int
          /\ loc[1] \in Reach /\ loc[2] \in Reach
          /\ loc[1] + s[1] \in Reach /\ loc[2] + s[2] \in Reach
          /\ Move(<<loc[1] + s[1], loc[2] + s[2]>>)
    BY MoveType
  <2> DEFINE x == loc[1] + s[1]
             z == loc[2] + s[2]
             dx == Direction(loc[1], x)
             dz == Direction(loc[2], z)
             mx == Round(x, Side)
             mz == Round(z, Side)
  <2>2. /\ center' = <<mx, mz>>
        /\ c \in Strips(<<mx, mz>>, <<dx, dz>>)
    <3>1. Center(<<x, z>>) = <<mx, mz>>
      BY DEF Center
    <3>2. IF noticed'
          THEN /\ center' = Center(<<x, z>>)
               /\ sent' = sent \cup send_chunks(Strips(Center(<<x, z>>), <<dx, dz>>))
          ELSE UNCHANGED <<center, sent>>
      BY <2>1 DEF Move
    <3> QED
      BY <3>1, <3>2 DEF send_chunks
  <2>3. mx \in Int /\ mz \in Int /\ dx \in {-1, 0, 1} /\ dz \in {-1, 0, 1}
    BY <2>1, RoundType, DirectionType
  <2> HIDE DEF x, z, dx, dz, mx, mz
  <2>4. ASSUME NEW m \in Int, NEW n \in Across(m)
        PROVE  n - m <= view_distance + 1 /\ m - n <= view_distance + 1
    BY <2>4 DEF Across, Row
  <2>5. ASSUME NEW m \in Int, NEW d \in {-1, 1}, NEW n \in Edge(m, d)
        PROVE  n - m <= view_distance + 1 /\ m - n <= view_distance + 1
    <3>1. CASE d = 1
      BY <2>5, <3>1 DEF Edge
    <3>2. CASE d = -1
      BY <2>5, <3>2 DEF Edge
    <3> QED
      BY <3>1, <3>2
  <2>6. \/ dz \in {-1, 1} /\ c[1] \in Across(mx) /\ c[2] \in Edge(mz, dz)
        \/ dx \in {-1, 1} /\ c[1] \in Edge(mx, dx) /\ c[2] \in Across(mz)
    BY <2>2, <2>3 DEF Strips
  <2>7. /\ c[1] - mx <= view_distance + 1 /\ mx - c[1] <= view_distance + 1
        /\ c[2] - mz <= view_distance + 1 /\ mz - c[2] <= view_distance + 1
    BY <2>3, <2>4, <2>5, <2>6, Zenon
  <2> QED
    BY <2>2, <2>7 DEF Within
<1> QED
  BY <1>1, TypeCorrect, PTL DEF Spec, SentAroundCenter
=============================================================================
