---------------------------- MODULE VarIntProofs ----------------------------
(***************************************************************************)
(* What read_var_int finds in the bytes write_var_int wrote, for every     *)
(* width of the segments and of the numbers.                               *)
(*                                                                         *)
(* Most of the definitions are recursive.  The first part has induction    *)
(* over the natural numbers and the existence of recursive functions, both *)
(* stated of sets and functions, so that the provers can instantiate them: *)
(* a property is the set of the numbers that have it.                      *)
(***************************************************************************)
EXTENDS VarInt, SequenceTheorems, WellFoundedInduction, TLAPS

-----------------------------------------------------------------------------
(* Induction and recursion.                                                *)

\* A set of numbers has a least one.
LEMMA LeastNumber ==
  ASSUME NEW T \in SUBSET Nat, T # {}
  PROVE  \E m \in T : \A n \in T : m <= n
<1> DEFINE R == OpToRel(<, Nat)
<1>1. IsWellFoundedOn(R, Nat)
  BY NatLessThanWellFounded
<1>2. \A x, y \in Nat : x < y => <<x, y>> \in R
  BY Zenon DEF OpToRel
<1> HIDE DEF R
<1>3. PICK m \in T : \A n \in T : ~ (<<n, m>> \in R)
  BY <1>1, WFMin
<1>4. ASSUME NEW n \in T PROVE m <= n
  <2>1. m \in Nat /\ n \in Nat
    OBVIOUS
  <2>2. ~ (n < m)
    BY <1>2, <1>3, <2>1, Zenon
  <2> QED BY <2>1, <2>2
<1> QED BY <1>4

\* A set of numbers with 0 and with the successors of its members is Nat.
LEMMA Induction ==
  ASSUME NEW T \in SUBSET Nat, 0 \in T, \A n \in T : n + 1 \in T
  PROVE  \A n \in Nat : n \in T
<1> SUFFICES ASSUME NEW n \in Nat, n \notin T PROVE FALSE
  OBVIOUS
<1>1. PICK m \in Nat \ T : \A k \in Nat \ T : m <= k
  <2>1. Nat \ T \in SUBSET Nat /\ Nat \ T # {}
    OBVIOUS
  <2> QED BY <2>1, LeastNumber
<1>2. m # 0 /\ m - 1 \in Nat /\ m - 1 \in T
  BY <1>1
<1> QED BY <1>1, <1>2

\* The first n values of the function with the first value x0 and the step g.
Approximates(f, n, S, x0, g) ==
  /\ f \in [0 .. n -> S]
  /\ f[0] = x0
  /\ \A k \in Nat : k < n => f[k+1] = g[<<k, f[k]>>]

LEMMA ApproximationExists ==
  ASSUME NEW S, NEW x0 \in S, NEW g \in [Nat \X S -> S]
  PROVE  \A n \in Nat : \E f : Approximates(f, n, S, x0, g)
<1> DEFINE T == {n \in Nat : \E f : Approximates(f, n, S, x0, g)}
<1>1. 0 \in T
  <2>1. Approximates([k \in 0 .. 0 |-> x0], 0, S, x0, g)
    BY DEF Approximates
  <2> QED BY <2>1
<1>2. ASSUME NEW n \in T PROVE n + 1 \in T
  <2>1. PICK f : Approximates(f, n, S, x0, g)
    OBVIOUS
  <2> DEFINE h == [k \in 0 .. n + 1 |->
                     IF k <= n THEN f[k] ELSE g[<<n, f[n]>>]]
  <2>2. h \in [0 .. n + 1 -> S]
    <3>1. f \in [0 .. n -> S]
      BY <2>1 DEF Approximates
    <3>2. <<n, f[n]>> \in Nat \X S
      BY <3>1
    <3>3. g[<<n, f[n]>>] \in S
      BY <3>2
    <3> QED BY <3>1, <3>3
  <2>3. h[0] = x0
    BY <2>1 DEF Approximates
  <2>4. ASSUME NEW k \in Nat, k < n + 1 PROVE h[k+1] = g[<<k, h[k]>>]
    <3>1. CASE k < n
      <4>1. k + 1 \in 0 .. n + 1 /\ k \in 0 .. n + 1 /\ k + 1 <= n
        BY <3>1
      <4>2. f[k+1] = g[<<k, f[k]>>]
        BY <2>1, <3>1 DEF Approximates
      <4> QED BY <3>1, <4>1, <4>2
    <3>2. CASE k = n
      BY <3>2
    <3> QED BY <2>4, <3>1, <3>2
  <2>5. Approximates(h, n + 1, S, x0, g)
    BY <2>2, <2>3, <2>4 DEF Approximates
  <2> QED BY <2>5
<1> HIDE DEF T
<1>3. T \in SUBSET Nat
  BY DEF T
<1>4. \A n \in Nat : n \in T
  BY <1>1, <1>2, <1>3, Induction
<1> QED BY <1>4 DEF T

LEMMA ApproximationsAgree ==
  ASSUME NEW S, NEW x0, NEW g, NEW m \in Nat, NEW n \in Nat, NEW f, NEW h,
         Approximates(f, m, S, x0, g), Approximates(h, n, S, x0, g)
  PROVE  \A k \in Nat : k <= m /\ k <= n => f[k] = h[k]
<1> DEFINE T == {k \in Nat : k <= m /\ k <= n => f[k] = h[k]}
<1>1. 0 \in T
  BY DEF Approximates
<1>2. ASSUME NEW k \in T PROVE k + 1 \in T
  <2> SUFFICES ASSUME k + 1 <= m, k + 1 <= n PROVE f[k+1] = h[k+1]
    OBVIOUS
  <2>1. k < m /\ k < n /\ k \in Nat
    OBVIOUS
  <2>2. f[k+1] = g[<<k, f[k]>>] /\ h[k+1] = g[<<k, h[k]>>]
    BY <2>1 DEF Approximates
  <2>3. f[k] = h[k]
    BY <2>1
  <2> QED BY <2>2, <2>3
<1> HIDE DEF T
<1>3. T \in SUBSET Nat
  BY DEF T
<1>4. \A k \in Nat : k \in T
  BY <1>1, <1>2, <1>3, Induction
<1> QED BY <1>4 DEF T

\* The function with the first value x0 and the step g, which exists.
IsRecursive(f, S, x0, g) ==
  /\ f \in [Nat -> S]
  /\ f[0] = x0
  /\ \A n \in Nat : f[n+1] = g[<<n, f[n]>>]

LEMMA Recursion ==
  ASSUME NEW S, NEW x0 \in S, NEW g \in [Nat \X S -> S]
  PROVE  \E f : IsRecursive(f, S, x0, g)
<1> DEFINE A(n) == CHOOSE f : Approximates(f, n, S, x0, g)
           F == [n \in Nat |-> A(n)[n]]
<1>1. ASSUME NEW n \in Nat PROVE Approximates(A(n), n, S, x0, g)
  BY ApproximationExists, Zenon
<1> HIDE DEF A
<1>2. F \in [Nat -> S]
  BY <1>1 DEF Approximates
<1>3. F[0] = x0
  BY <1>1 DEF Approximates
<1>4. ASSUME NEW n \in Nat PROVE F[n+1] = g[<<n, F[n]>>]
  <2>1. A(n)[n] = A(n + 1)[n]
    <3>1. Approximates(A(n), n, S, x0, g)
      BY <1>1
    <3>2. Approximates(A(n + 1), n + 1, S, x0, g)
      BY <1>1
    <3>3. \A k \in Nat : k <= n /\ k <= n + 1 => A(n)[k] = A(n + 1)[k]
      BY <3>1, <3>2, ApproximationsAgree
    <3> QED BY <3>3
  <2>2. A(n + 1)[n+1] = g[<<n, A(n + 1)[n]>>]
    BY <1>1 DEF Approximates
  <2> QED BY <2>1, <2>2
<1> QED BY <1>2, <1>3, <1>4 DEF IsRecursive

-----------------------------------------------------------------------------
(* Powers of two.                                                          *)

LEMMA Pow2Defined ==
  Pow2 = [n \in Nat |-> IF n = 0 THEN 1 ELSE 2 * Pow2[n-1]]
<1> DEFINE g == [p \in Nat \X Int |-> 2 * p[2]]
           E(f) == f = [n \in Nat |-> IF n = 0 THEN 1 ELSE 2 * f[n-1]]
<1>1. g \in [Nat \X Int -> Int]
  OBVIOUS
<1>2. PICK f : IsRecursive(f, Int, 1, g)
  <2>1. 1 \in Int
    OBVIOUS
  <2> HIDE DEF g
  <2> QED BY <1>1, <2>1, Recursion
<1>3. ASSUME NEW n \in Nat PROVE f[n] = IF n = 0 THEN 1 ELSE 2 * f[n-1]
  <2>1. CASE n # 0
    <3>1. n - 1 \in Nat /\ (n - 1) + 1 = n
      BY <2>1
    <3>2. f[n] = g[<<n - 1, f[n-1]>>]
      BY <1>2, <3>1 DEF IsRecursive
    <3>3. f[n-1] \in Int
      BY <1>2, <3>1 DEF IsRecursive
    <3> QED BY <2>1, <3>1, <3>2, <3>3
  <2> QED BY <1>2, <2>1 DEF IsRecursive
<1>4. E(f)
  BY <1>2, <1>3 DEF IsRecursive
<1>5. E(CHOOSE h : E(h))
  BY <1>4, Zenon
<1> QED BY <1>5 DEF Pow2

LEMMA Pow2Values ==
  /\ Pow2[0] = 1
  /\ \A n \in Nat : Pow2[n+1] = 2 * Pow2[n]
<1>1. \A n \in Nat : Pow2[n] = IF n = 0 THEN 1 ELSE 2 * Pow2[n-1]
  BY Pow2Defined, Zenon
<1>2. Pow2[0] = 1
  BY <1>1
<1>3. ASSUME NEW n \in Nat PROVE Pow2[n+1] = 2 * Pow2[n]
  <2>1. n + 1 \in Nat /\ n + 1 # 0 /\ (n + 1) - 1 = n
    OBVIOUS
  <2> QED BY <1>1, <2>1
<1> QED BY <1>2, <1>3

LEMMA Pow2Type == \A n \in Nat : Pow2[n] \in Nat \ {0}
<1> DEFINE T == {n \in Nat : Pow2[n] \in Nat \ {0}}
<1>1. 0 \in T
  BY Pow2Values
<1>2. ASSUME NEW n \in T PROVE n + 1 \in T
  BY Pow2Values
<1> HIDE DEF T
<1>3. T \in SUBSET Nat
  BY DEF T
<1>4. \A n \in Nat : n \in T
  BY <1>1, <1>2, <1>3, Induction
<1> QED BY <1>4 DEF T

LEMMA Pow2Sum ==
  ASSUME NEW a \in Nat
  PROVE  \A b \in Nat : Pow2[a+b] = Pow2[a] * Pow2[b]
<1> DEFINE T == {b \in Nat : Pow2[a+b] = Pow2[a] * Pow2[b]}
<1>1. 0 \in T
  <2>1. a + 0 = a /\ Pow2[0] = 1 /\ Pow2[a] \in Nat
    BY Pow2Values, Pow2Type
  <2> QED BY <2>1
<1>2. ASSUME NEW b \in T PROVE b + 1 \in T
  <2>1. Pow2[a + (b + 1)] = 2 * Pow2[a+b] /\ Pow2[b+1] = 2 * Pow2[b]
    <3>1. a + b \in Nat /\ a + (b + 1) = (a + b) + 1
      OBVIOUS
    <3> QED BY <3>1, Pow2Values
  <2>2. Pow2[a+b] = Pow2[a] * Pow2[b]
    OBVIOUS
  <2>3. Pow2[a] \in Nat /\ Pow2[b] \in Nat
    BY Pow2Type
  <2>4. \A x, y \in Nat : 2 * (x * y) = x * (2 * y)
    OBVIOUS
  <2>5. Pow2[a + (b + 1)] = Pow2[a] * Pow2[b+1]
    BY <2>1, <2>2, <2>3, <2>4
  <2> QED BY <2>5
<1> HIDE DEF T
<1>3. T \in SUBSET Nat
  BY DEF T
<1>4. \A b \in Nat : b \in T
  BY <1>1, <1>2, <1>3, Induction
<1> QED BY <1>4 DEF T

LEMMA Pow2Grows ==
  ASSUME NEW a \in Nat, NEW b \in Nat, a <= b
  PROVE  Pow2[a] <= Pow2[b]
<1>1. Pow2[a + (b - a)] = Pow2[a] * Pow2[b-a]
  BY Pow2Sum
<1>2. Pow2[a] \in Nat /\ Pow2[b-a] \in Nat \ {0}
  BY Pow2Type
<1>3. \A x \in Nat, y \in Nat \ {0} : x <= x * y
  OBVIOUS
<1> QED BY <1>1, <1>2, <1>3

-----------------------------------------------------------------------------
(* Division.                                                               *)

\* There is one quotient, and one remainder.
LEMMA DivisionUnique ==
  ASSUME NEW d \in Nat \ {0}, NEW q \in Int, NEW r \in 0 .. d - 1
  PROVE  (d * q + r) \div d = q /\ (d * q + r) % d = r
<1> DEFINE l == d * q + r
           p == l \div d
           t == l % d
<1>0. l \in Int
  OBVIOUS
<1> HIDE DEF l
<1>1. p \in Int /\ t \in 0 .. d - 1 /\ l = d * p + t
  BY <1>0
<1> USE DEF l
<1> HIDE DEF p, t
<1>2. d * (p - q) = r - t
  BY <1>1
<1>3. ~(p - q >= 1)
  <2>1. p - q >= 1 => d * (p - q) >= d
    BY <1>1
  <2> QED BY <1>1, <1>2, <2>1
<1>4. ~(q - p >= 1)
  <2>1. q - p >= 1 => d * (q - p) >= d
    BY <1>1
  <2>2. d * (q - p) = t - r
    BY <1>1, <1>2
  <2> QED BY <1>1, <2>1, <2>2
<1>5. p = q
  BY <1>1, <1>3, <1>4
<1>6. t = r
  BY <1>1, <1>2, <1>5
<1> QED BY <1>5, <1>6 DEF p, t

LEMMA SmallRemainder ==
  ASSUME NEW d \in Nat \ {0}, NEW r \in 0 .. d - 1
  PROVE  r % d = r
<1>1. (d * 0 + r) % d = r
  BY DivisionUnique
<1>2. d * 0 + r = r
  OBVIOUS
<1> QED BY <1>1, <1>2

\* The digits of v below p * c are those below p and one more, to the base c;
\* those above are the digits above p without that one.
LEMMA NextDigit ==
  ASSUME NEW v \in Int, NEW p \in Nat \ {0}, NEW c \in Nat \ {0}
  PROVE  /\ v % (p * c) = (v % p) + ((v \div p) % c) * p
         /\ v \div (p * c) = (v \div p) \div c
<1> DEFINE a == v \div p
           r == v % p
           b == a \div c
           t == a % c
<1>1. a \in Int /\ r \in 0 .. p - 1 /\ v = p * a + r
  OBVIOUS
<1> HIDE DEF a, r
<1>2. b \in Int /\ t \in 0 .. c - 1 /\ a = c * b + t
  BY <1>1
<1> HIDE DEF b, t
<1>3. p * c \in Nat \ {0}
  OBVIOUS
<1>4. v = (p * c) * b + (t * p + r)
  <2>1. p * (c * b + t) = (p * c) * b + t * p
    BY <1>2
  <2> QED BY <1>1, <1>2, <2>1
<1>5. t * p + r \in 0 .. p * c - 1
  <2>1. t * p >= 0 /\ t * p \in Nat
    BY <1>2
  <2>2. t * p <= (c - 1) * p
    BY <1>2
  <2>3. (c - 1) * p = p * c - p
    OBVIOUS
  <2>4. p * c \in Nat
    OBVIOUS
  <2> QED BY <1>1, <1>2, <2>1, <2>2, <2>3, <2>4
<1>6. v % (p * c) = t * p + r /\ v \div (p * c) = b
  <2> DEFINE d == p * c
             w == t * p + r
  <2>1. d \in Nat \ {0} /\ b \in Int /\ w \in 0 .. d - 1
    BY <1>2, <1>3, <1>5
  <2>2. v = d * b + w
    BY <1>4
  <2> HIDE DEF d, w
  <2>3. (d * b + w) \div d = b /\ (d * b + w) % d = w
    BY <2>1, DivisionUnique, Zenon
  <2>4. v % d = w /\ v \div d = b
    BY <2>2, <2>3
  <2> QED BY <2>4 DEF d, w
<1>7. v % (p * c) = r + t * p
  BY <1>1, <1>2, <1>6
<1> QED BY <1>6, <1>7 DEF a, r, b, t

-----------------------------------------------------------------------------
(* What is written.                                                        *)

LEMMA SegmentPowers ==
  /\ CONTINUE_BIT \in Nat \ {0}
  /\ Pow2[WordBits] \in Nat \ {0}
  /\ Pow2[SegmentBits * 0] = 1
  /\ \A k \in Nat :
       /\ Pow2[SegmentBits * k] \in Nat \ {0}
       /\ Pow2[SegmentBits * (k + 1)] = Pow2[SegmentBits * k] * CONTINUE_BIT
<1>1. CONTINUE_BIT \in Nat \ {0} /\ Pow2[WordBits] \in Nat \ {0}
  BY BitsAssumption, Pow2Type DEF CONTINUE_BIT
<1>2. Pow2[SegmentBits * 0] = 1
  <2>1. SegmentBits * 0 = 0
    BY BitsAssumption
  <2> QED BY <2>1, Pow2Values
<1>3. ASSUME NEW k \in Nat
      PROVE  /\ Pow2[SegmentBits * k] \in Nat \ {0}
             /\ Pow2[SegmentBits * (k + 1)]
                  = Pow2[SegmentBits * k] * CONTINUE_BIT
  <2>1. SegmentBits * k \in Nat /\ SegmentBits \in Nat
    BY BitsAssumption
  <2>2. SegmentBits * (k + 1) = SegmentBits * k + SegmentBits
    BY BitsAssumption
  <2>3. Pow2[SegmentBits * k + SegmentBits]
          = Pow2[SegmentBits * k] * Pow2[SegmentBits]
    BY <2>1, Pow2Sum
  <2> QED BY <2>1, <2>2, <2>3, Pow2Type DEF CONTINUE_BIT
<1> QED BY <1>1, <1>2, <1>3

LEMMA WordsAreNumbers ==
  /\ Pow2[WordBits] \in Nat \ {0}
  /\ \A v \in Word : v \in Nat /\ v < Pow2[WordBits]
<1>1. Pow2[WordBits] \in Nat \ {0}
  BY SegmentPowers, Zenon
<1> QED BY <1>1 DEF Word

\* MaxBytes segments have room for every bit of a number.
LEMMA EnoughBytes ==
  /\ MaxBytes \in Nat \ {0}
  /\ Pow2[WordBits] <= Pow2[SegmentBits * MaxBytes]
<1> DEFINE l == WordBits + SegmentBits - 1
           q == l \div SegmentBits
<1>1. l \in Nat
  BY BitsAssumption
<1>2. q \in Int /\ l % SegmentBits \in 0 .. SegmentBits - 1
      /\ l = SegmentBits * q + (l % SegmentBits)
  <2> HIDE DEF l
  <2> QED BY <1>1, BitsAssumption
<1> HIDE DEF q
<1>3. WordBits <= SegmentBits * q
  BY <1>2, BitsAssumption
<1>4. q \in Nat \ {0}
  <2>1. q <= 0 => SegmentBits * q <= 0
    BY <1>2, BitsAssumption
  <2> QED BY <1>2, <1>3, <2>1, BitsAssumption
<1>5. SegmentBits * q \in Nat /\ WordBits \in Nat
  BY <1>4, BitsAssumption
<1>6. MaxBytes = q
  BY DEF MaxBytes, q
<1> QED BY <1>3, <1>4, <1>5, <1>6, Pow2Grows

\* A number has a length: the least that has room for it.
LEMMA EncodedLenIs ==
  ASSUME NEW v \in Word
  PROVE  /\ EncodedLen(v) \in 1 .. MaxBytes
         /\ v < Pow2[SegmentBits * EncodedLen(v)]
         /\ \/ EncodedLen(v) = 1
            \/ v >= Pow2[SegmentBits * (EncodedLen(v) - 1)]
<1> DEFINE T == {n \in Nat : n >= 1 /\ v < Pow2[SegmentBits * n]}
           Fits(n) == /\ v < Pow2[SegmentBits * n]
                      /\ n = 1 \/ v >= Pow2[SegmentBits * (n - 1)]
<1>1. v \in Nat /\ MaxBytes \in T
  BY EnoughBytes, SegmentPowers DEF Word
<1>2. PICK m \in T : \A n \in T : m <= n
  <2>1. T \in SUBSET Nat /\ T # {}
    BY <1>1
  <2> HIDE DEF T
  <2> QED BY <2>1, LeastNumber
<1>3. m \in 1 .. MaxBytes
  BY <1>1, <1>2, EnoughBytes
<1>4. m = 1 \/ v >= Pow2[SegmentBits * (m - 1)]
  <2> SUFFICES ASSUME m # 1 PROVE v >= Pow2[SegmentBits * (m - 1)]
    OBVIOUS
  <2>1. m - 1 \in Nat /\ m - 1 >= 1 /\ m - 1 \notin T
    BY <1>2, <1>3
  <2>2. Pow2[SegmentBits * (m - 1)] \in Nat
    BY <2>1, SegmentPowers
  <2> QED BY <1>1, <2>1, <2>2
<1>5. \E n \in 1 .. MaxBytes : Fits(n)
  BY <1>2, <1>3, <1>4
<1>6. EncodedLen(v) = CHOOSE n \in 1 .. MaxBytes : Fits(n)
  BY DEF EncodedLen
<1> HIDE DEF Fits
<1>7. EncodedLen(v) \in 1 .. MaxBytes /\ Fits(EncodedLen(v))
  BY <1>5, <1>6, Zenon
<1> QED BY <1>7 DEF Fits

\* The bytes of a number: each holds a segment, and all but the last ask for
\* another.
LEMMA EncodeIs ==
  ASSUME NEW v \in Word
  PROVE  /\ Encode(v) \in Seq(Byte)
         /\ Len(Encode(v)) = EncodedLen(v)
         /\ \A n \in 1 .. EncodedLen(v) :
              /\ Encode(v)[n] \in Nat
              /\ Encode(v)[n] % CONTINUE_BIT
                   = (v \div Pow2[SegmentBits * (n - 1)]) % CONTINUE_BIT
              /\ Encode(v)[n] < CONTINUE_BIT <=> n = EncodedLen(v)
<1> DEFINE L == EncodedLen(v)
           C == CONTINUE_BIT
           d(n) == (v \div Pow2[SegmentBits * (n - 1)]) % C
           e(n) == d(n) + (IF n < L THEN C ELSE 0)
<1>1. v \in Nat /\ L \in Nat /\ C \in Nat \ {0}
  BY EncodedLenIs, EnoughBytes, SegmentPowers DEF Word
<1>2. Encode(v) = [n \in 1 .. L |-> e(n)]
  BY DEF Encode
<1> HIDE DEF L, C
<1>3. ASSUME NEW n \in 1 .. L PROVE d(n) \in 0 .. C - 1
  <2> DEFINE p == Pow2[SegmentBits * (n - 1)]
             a == v \div p
  <2>1. p \in Nat \ {0}
    <3>1. n - 1 \in Nat
      BY <1>1
    <3> QED BY <3>1, SegmentPowers
  <2> HIDE DEF p
  <2>2. a \in Int
    BY <1>1, <2>1
  <2> HIDE DEF a
  <2>3. a % C \in 0 .. C - 1
    BY <1>1, <2>2
  <2> QED BY <2>3 DEF a, p
<1> HIDE DEF d
<1>4. ASSUME NEW n \in 1 .. L
      PROVE  /\ e(n) \in 0 .. 2 * C - 1
             /\ e(n) % C = d(n)
             /\ e(n) < C <=> n = L
  <2>1. CASE n < L
    <3>1. d(n) \in 0 .. C - 1
      BY <1>3
    <3>2. e(n) = C * 1 + d(n)
      BY <1>1, <2>1, <3>1
    <3>3. (C * 1 + d(n)) % C = d(n)
      <4>1. 1 \in Int
        OBVIOUS
      <4> QED BY <1>1, <3>1, <4>1, DivisionUnique, Zenon
    <3>4. e(n) % C = d(n)
      BY <3>2, <3>3, Zenon
    <3>5. e(n) \in 0 .. 2 * C - 1 /\ ~(e(n) < C) /\ n # L
      BY <1>1, <2>1, <3>1, <3>2
    <3> QED BY <3>4, <3>5
  <2>2. CASE ~(n < L)
    <3>1. d(n) \in 0 .. C - 1
      BY <1>3
    <3>2. e(n) = d(n) /\ n = L
      BY <1>1, <2>2, <3>1
    <3>3. d(n) % C = d(n)
      BY <1>1, <3>1, SmallRemainder
    <3> QED BY <1>1, <3>1, <3>2, <3>3
  <2> QED BY <2>1, <2>2
<1> HIDE DEF e
<1>5. Encode(v) \in [1 .. L -> Byte]
  BY <1>2, <1>4 DEF Byte, C
<1>6. Encode(v) \in Seq(Byte) /\ Len(Encode(v)) = L
  BY <1>1, <1>5
<1>7. ASSUME NEW n \in 1 .. L
      PROVE  /\ Encode(v)[n] \in Nat
             /\ Encode(v)[n] % C = d(n)
             /\ Encode(v)[n] < C <=> n = L
  <2>1. Encode(v)[n] = e(n)
    BY <1>2
  <2>2. e(n) \in 0 .. 2 * C - 1
    BY <1>4
  <2> QED BY <1>1, <1>4, <2>1, <2>2
<1> QED BY <1>6, <1>7 DEF L, C, d

-----------------------------------------------------------------------------
(* What is read.                                                           *)

\* The segments of the first n bytes, added up.
LEMMA VarIntValueIs ==
  ASSUME NEW s, NEW n \in Nat, \A k \in 1 .. n : s[k] \in Nat
  PROVE  \E f :
           /\ f[0] = 0
           /\ \A k \in 1 .. n :
                f[k] = f[k-1] + (s[k] % CONTINUE_BIT)
                                  * Pow2[SegmentBits * (k - 1)]
           /\ VarIntValue(s, n) = f[n] % Pow2[WordBits]
<1> DEFINE t(k) == (s[k] % CONTINUE_BIT) * Pow2[SegmentBits * (k - 1)]
           g == [p \in Nat \X Int |-> IF p[1] < n THEN p[2] + t(p[1] + 1)
                                      ELSE 0]
           E(f) == f = [k \in 0 .. n |-> IF k = 0 THEN 0 ELSE f[k-1] + t(k)]
<1>1. ASSUME NEW k \in 1 .. n PROVE t(k) \in Int
  <2>1. k - 1 \in Nat
    OBVIOUS
  <2>2. Pow2[SegmentBits * (k - 1)] \in Int /\ CONTINUE_BIT \in Nat \ {0}
    BY <2>1, SegmentPowers
  <2>3. s[k] % CONTINUE_BIT \in Int
    BY <2>2
  <2> QED BY <2>2, <2>3
<1>2. VarIntValue(s, n) = (CHOOSE f : E(f))[n] % Pow2[WordBits]
  BY Zenon DEF VarIntValue
<1> HIDE DEF t
<1>3. g \in [Nat \X Int -> Int]
  BY <1>1
<1>4. PICK f : Approximates(f, n, Int, 0, g)
  <2>1. 0 \in Int
    OBVIOUS
  <2> HIDE DEF g
  <2> QED BY <1>3, <2>1, ApproximationExists
<1>5. ASSUME NEW k \in 1 .. n PROVE f[k] = f[k-1] + t(k)
  <2>1. k - 1 \in Nat /\ k - 1 < n /\ (k - 1) + 1 = k
    OBVIOUS
  <2>2. f[k] = g[<<k - 1, f[k-1]>>]
    BY <1>4, <2>1 DEF Approximates
  <2>3. f[k-1] \in Int
    BY <1>4, <2>1 DEF Approximates
  <2> QED BY <2>1, <2>2, <2>3
<1> HIDE DEF g
<1>6. E(f)
  BY <1>4, <1>5 DEF Approximates
<1>7. E(CHOOSE h : E(h))
  BY <1>6, Zenon
<1> DEFINE c == CHOOSE h : E(h)
<1>8. c = [k \in 0 .. n |-> IF k = 0 THEN 0 ELSE c[k-1] + t(k)]
  BY <1>7
<1>9. VarIntValue(s, n) = c[n] % Pow2[WordBits]
  BY <1>2, Zenon
<1> HIDE DEF c, E
<1>10. c[0] = 0 /\ \A k \in 1 .. n : c[k] = c[k-1] + t(k)
  BY <1>8
<1> QED BY <1>9, <1>10, Zenon DEF t

LEMMA BytesAreNumbers ==
  /\ Byte \subseteq Nat
  /\ \A s \in Seq(Byte) : s \in Seq(Nat) /\ Len(s) \in Nat
<1>1. Byte \subseteq Nat
  BY SegmentPowers DEF Byte
<1>2. ASSUME NEW s \in Seq(Byte) PROVE s \in Seq(Nat) /\ Len(s) \in Nat
  BY <1>1, SeqMonotonic, LenProperties, Zenon
<1> QED BY <1>1, <1>2

LEMMA BytesAssociate ==
  \A x, y, z \in Seq(Byte) : (x \o y) \o z = x \o (y \o z)
BY ConcatAssociative

\* A piece of n bytes, behind the first k.
LEMMA PieceIs ==
  ASSUME NEW s \in Seq(Byte), NEW k \in Nat, NEW n \in Nat, k + n <= Len(s)
  PROVE  /\ SubSeq(s, k + 1, k + n) \in Seq(Byte)
         /\ Len(SubSeq(s, k + 1, k + n)) = n
         /\ \A i \in 1 .. n : SubSeq(s, k + 1, k + n)[i] = s[k + i]
<1> DEFINE a == k + 1
           b == k + n
           c == SubSeq(s, a, b)
<1>1. a \in Int /\ b \in Int /\ a >= 1 /\ b <= Len(s) /\ b - a + 1 = n
  OBVIOUS
<1>2. \A i \in 1 .. n : a + i - 1 = k + i
  OBVIOUS
<1> HIDE DEF a, b
<1>3. \A i \in a .. b : s[i] \in Byte
  BY <1>1, LenProperties
<1>4. /\ c \in Seq(Byte)
      /\ Len(c) = IF a <= b THEN b - a + 1 ELSE 0
      /\ \A i \in 1 .. b - a + 1 : c[i] = s[a + i - 1]
  BY <1>1, <1>3, SubSeqProperties
<1> HIDE DEF c
<1>5. Len(c) = n
  BY <1>1, <1>4
<1>6. ASSUME NEW i \in 1 .. n PROVE c[i] = s[k + i]
  <2>1. i \in 1 .. b - a + 1
    BY <1>1
  <2>2. c[i] = s[a + i - 1]
    BY <1>4, <2>1
  <2> QED BY <1>2, <2>2
<1> QED BY <1>4, <1>5, <1>6 DEF a, b, c

\* Where the last byte of a number is the n-th, the number has n bytes.
LEMMA VarIntLenIs ==
  ASSUME NEW s \in Seq(Nat), NEW n \in 1 .. Len(s), n <= MaxBytes,
         \A k \in 1 .. n : s[k] < CONTINUE_BIT <=> k = n
  PROVE  VarIntLen(s) = n
<1>1. n \in Ends(s)
  BY DEF Ends
<1>2. \A k \in Ends(s) : n <= k
  <2>1. ASSUME NEW k \in Ends(s) PROVE n <= k
    <3>1. k \in 1 .. Len(s) /\ s[k] < CONTINUE_BIT
      BY DEF Ends
    <3>2. ~(k < n)
      BY <3>1
    <3> QED BY <3>1, <3>2
  <2> QED BY <2>1
<1>3. Ends(s) \subseteq Nat
  BY DEF Ends
<1> DEFINE c == CHOOSE k \in Ends(s) : \A m \in Ends(s) : k <= m
<1>4. c \in Ends(s) /\ \A m \in Ends(s) : c <= m
  BY <1>1, <1>2, Zenon
<1>5. VarIntLen(s) = c
  BY <1>1, Zenon DEF VarIntLen
<1> HIDE DEF c
<1> QED BY <1>1, <1>2, <1>3, <1>4, <1>5

\* Where every byte asks for another, there is no number.
LEMMA VarIntLenNone ==
  ASSUME NEW s \in Seq(Nat),
         \A k \in 1 .. Len(s) : ~(s[k] < CONTINUE_BIT)
  PROVE  VarIntLen(s) = 0
BY DEF VarIntLen, Ends

\* Whatever the bytes are, what is read lies within them and is a number.
LEMMA VarIntLenType ==
  ASSUME NEW s \in Seq(Byte)
  PROVE  VarIntLen(s) \in 0 .. Len(s)
<1>1. Len(s) \in Nat
  BY BytesAreNumbers
<1>2. CASE Ends(s) = {}
  BY <1>1, <1>2 DEF VarIntLen
<1>3. CASE Ends(s) # {}
  <2> DEFINE E == Ends(s)
             c == CHOOSE n \in E : \A m \in E : n <= m
  <2>1. E \subseteq 1 .. Len(s) /\ VarIntLen(s) = c
    BY <1>3 DEF VarIntLen, Ends
  <2>2. E \in SUBSET Nat /\ E # {}
    BY <1>1, <1>3, <2>1
  <2> HIDE DEF E
  <2>3. \E n \in E : \A m \in E : n <= m
    BY <2>2, LeastNumber
  <2>4. c \in E
    BY <2>3, Zenon
  <2> HIDE DEF c
  <2> QED BY <1>1, <2>1, <2>4
<1> QED BY <1>2, <1>3

LEMMA VarIntValueType ==
  ASSUME NEW s \in Seq(Byte), NEW n \in 0 .. Len(s)
  PROVE  VarIntValue(s, n) \in Word
<1> DEFINE t(k) == (s[k] % CONTINUE_BIT) * Pow2[SegmentBits * (k - 1)]
<1>1. n \in Nat /\ Len(s) \in Nat /\ \A k \in 1 .. n : s[k] \in Nat
  BY BytesAreNumbers, ElementOfSeq
<1>2. PICK f : /\ f[0] = 0
               /\ \A k \in 1 .. n : f[k] = f[k-1] + t(k)
               /\ VarIntValue(s, n) = f[n] % Pow2[WordBits]
  BY <1>1, VarIntValueIs
<1>3. ASSUME NEW k \in 1 .. n PROVE t(k) \in Int
  <2>1. k - 1 \in Nat
    BY <1>1
  <2>2. Pow2[SegmentBits * (k - 1)] \in Int /\ CONTINUE_BIT \in Nat \ {0}
    <3> DEFINE i == k - 1
    <3>1. i \in Nat
      BY <2>1
    <3> HIDE DEF i
    <3>2. Pow2[SegmentBits * i] \in Nat \ {0} /\ CONTINUE_BIT \in Nat \ {0}
      BY <3>1, SegmentPowers, Zenon
    <3> QED BY <3>2 DEF i
  <2>3. s[k] % CONTINUE_BIT \in Int
    BY <1>1, <2>2
  <2> QED BY <2>2, <2>3
<1> HIDE DEF t
<1> DEFINE T == {k \in Nat : k <= n => f[k] \in Int}
<1>4. 0 \in T
  BY <1>2
<1>5. ASSUME NEW k \in T PROVE k + 1 \in T
  <2> SUFFICES ASSUME k + 1 <= n PROVE f[k+1] \in Int
    OBVIOUS
  <2>1. k + 1 \in 1 .. n /\ (k + 1) - 1 = k /\ f[k] \in Int
    BY <1>1
  <2>2. f[k+1] = f[k] + t(k + 1)
    BY <1>2, <2>1
  <2> QED BY <1>3, <2>1, <2>2
<1>6. f[n] \in Int
  <2> HIDE DEF T
  <2>1. T \in SUBSET Nat
    BY DEF T
  <2>2. n \in T
    BY <1>1, <1>4, <1>5, <2>1, Induction
  <2> QED BY <1>1, <2>2 DEF T
<1>7. Pow2[WordBits] \in Nat \ {0}
  BY WordsAreNumbers
<1>8. f[n] % Pow2[WordBits] \in Word
  BY <1>6, <1>7 DEF Word
<1> QED BY <1>2, <1>8

\* A number takes no more bytes than there are numbers up to it.
LEMMA EncodedLenSmall ==
  ASSUME NEW v \in Word
  PROVE  EncodedLen(v) <= v + 1
<1> DEFINE n == EncodedLen(v)
<1>1. v \in Nat /\ n \in Nat \ {0} /\ SegmentBits \in Nat \ {0}
  BY EncodedLenIs, EnoughBytes, WordsAreNumbers, BitsAssumption
<1>2. n = 1 \/ v >= Pow2[SegmentBits * (n - 1)]
  BY EncodedLenIs
<1> HIDE DEF n
<1> DEFINE T == {k \in Nat : k < Pow2[k]}
<1>3. 0 \in T
  BY Pow2Values
<1>4. ASSUME NEW k \in T PROVE k + 1 \in T
  BY Pow2Values, Pow2Type
<1>5. ASSUME n # 1 PROVE n - 1 <= v
  <2>1. n - 1 \in Nat /\ SegmentBits * (n - 1) \in Nat
        /\ n - 1 <= SegmentBits * (n - 1)
    BY <1>1
  <2>2. n - 1 \in T
    <3> HIDE DEF T
    <3>1. T \in SUBSET Nat
      BY DEF T
    <3> QED BY <1>3, <1>4, <2>1, <3>1, Induction
  <2>3. Pow2[n-1] <= Pow2[SegmentBits * (n - 1)]
    BY <2>1, Pow2Grows
  <2>4. Pow2[n-1] \in Nat /\ Pow2[SegmentBits * (n - 1)] \in Nat
    BY <2>1, Pow2Type
  <2> QED BY <1>1, <1>2, <1>5, <2>1, <2>2, <2>3, <2>4
<1> QED BY <1>1, <1>5 DEF n

\* What is read of a number and whatever follows it is the number.
THEOREM ReadsNumber ==
  ASSUME NEW v \in Word, NEW s \in Seq(Byte), Len(s) >= EncodedLen(v),
         \A n \in 1 .. EncodedLen(v) : s[n] = Encode(v)[n]
  PROVE  /\ VarIntLen(s) = EncodedLen(v)
         /\ VarIntValue(s, EncodedLen(v)) = v
<1> DEFINE L == EncodedLen(v)
           P(k) == Pow2[SegmentBits * k]
           C == CONTINUE_BIT
<1>1. /\ v \in Nat /\ v < P(L) /\ v < Pow2[WordBits]
      /\ L \in 1 .. MaxBytes /\ L \in Nat /\ MaxBytes \in Nat
      /\ C \in Nat \ {0} /\ Pow2[WordBits] \in Nat \ {0}
  <2>1. L \in 1 .. MaxBytes /\ v < P(L)
    BY EncodedLenIs
  <2>2. MaxBytes \in Nat /\ C \in Nat \ {0}
    BY EnoughBytes, SegmentPowers, Zenon
  <2> HIDE DEF P, L, C
  <2> QED BY <2>1, <2>2, WordsAreNumbers
<1>2. s \in Seq(Nat) /\ Len(s) \in Nat
  BY BytesAreNumbers, Zenon
<1>3. \A n \in 1 .. L :
        /\ s[n] \in Nat
        /\ s[n] % C = (v \div P(n - 1)) % C
        /\ s[n] < C <=> n = L
  BY EncodeIs
<1>4. VarIntLen(s) = L
  <2>1. L \in 1 .. Len(s) /\ L <= MaxBytes
    BY <1>1, <1>2
  <2> QED BY <1>2, <1>3, <2>1, VarIntLenIs
<1>5. PICK f : /\ f[0] = 0
               /\ \A k \in 1 .. L : f[k] = f[k-1] + (s[k] % C) * P(k - 1)
               /\ VarIntValue(s, L) = f[L] % Pow2[WordBits]
  <2> HIDE DEF L
  <2> QED BY <1>1, <1>3, VarIntValueIs
<1> HIDE DEF L
<1> DEFINE T == {k \in Nat : k <= L => f[k] = v % P(k)}
<1>6. 0 \in T
  <2>1. P(0) = 1
    BY SegmentPowers
  <2>2. v % 1 = 0
    BY <1>1
  <2> QED BY <1>5, <2>1, <2>2
<1>7. ASSUME NEW k \in T PROVE k + 1 \in T
  <2> SUFFICES ASSUME k + 1 <= L PROVE f[k+1] = v % P(k + 1)
    OBVIOUS
  <2>1. k \in Nat /\ k + 1 \in 1 .. L /\ (k + 1) - 1 = k
    BY <1>1
  <2>2. f[k+1] = f[k] + ((v \div P(k)) % C) * P(k)
    BY <1>3, <1>5, <2>1
  <2>3. P(k) \in Nat \ {0} /\ P(k + 1) = P(k) * C
    BY <2>1, SegmentPowers
  <2>4. v % (P(k) * C) = (v % P(k)) + ((v \div P(k)) % C) * P(k)
    <3> DEFINE p == P(k)
    <3>1. v \in Int /\ p \in Nat \ {0} /\ C \in Nat \ {0}
      BY <1>1, <2>3
    <3> HIDE DEF p, C
    <3>2. v % (p * C) = (v % p) + ((v \div p) % C) * p
      BY <3>1, NextDigit, Zenon
    <3> QED BY <3>2 DEF p
  <2>5. f[k] = v % P(k)
    BY <1>1, <2>1
  <2> QED BY <2>2, <2>3, <2>4, <2>5
<1>8. f[L] = v % P(L)
  <2> HIDE DEF T
  <2>1. T \in SUBSET Nat
    BY DEF T
  <2>2. L \in T
    BY <1>1, <1>6, <1>7, <2>1, Induction
  <2> QED BY <1>1, <2>2 DEF T
<1>9. v % P(L) = v /\ v % Pow2[WordBits] = v
  <2>1. P(L) \in Nat \ {0}
    BY <1>1, SegmentPowers
  <2> HIDE DEF P
  <2>2. v \in 0 .. P(L) - 1 /\ v \in 0 .. Pow2[WordBits] - 1
    BY <1>1, <2>1
  <2> QED BY <1>1, <2>1, <2>2, SmallRemainder
<1>10. VarIntValue(s, L) = v
  BY <1>5, <1>8, <1>9
<1> QED BY <1>4, <1>10 DEF L

\* A beginning of a number is not taken for a number.
THEOREM NoNumberCutShort ==
  ASSUME NEW v \in Word, NEW s \in Seq(Byte), Len(s) < EncodedLen(v),
         \A n \in 1 .. Len(s) : s[n] = Encode(v)[n]
  PROVE  VarIntLen(s) = 0
<1>1. s \in Seq(Nat) /\ Len(s) \in Nat /\ EncodedLen(v) \in Nat
  <2>1. EncodedLen(v) \in 1 .. MaxBytes
    BY EncodedLenIs
  <2> QED BY <2>1, BytesAreNumbers, EnoughBytes
<1>2. \A n \in 1 .. Len(s) : ~(s[n] < CONTINUE_BIT)
  <2> SUFFICES ASSUME NEW n \in 1 .. Len(s) PROVE ~(s[n] < CONTINUE_BIT)
    OBVIOUS
  <2>1. n \in 1 .. EncodedLen(v) /\ n # EncodedLen(v)
    BY <1>1
  <2> QED BY <2>1, EncodeIs
<1> QED BY <1>1, <1>2, VarIntLenNone
=============================================================================
