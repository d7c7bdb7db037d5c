----------------------------- MODULE CodecProofs ----------------------------
(***************************************************************************)
(* What the reader of a packet makes of the bytes its sender wrote, for    *)
(* every packet, every length of the buffer, every width of a byte and of  *)
(* a number, and whatever stands in memory behind the packet.              *)
(***************************************************************************)
EXTENDS Codec, VarIntProofs

VarLongFacts == INSTANCE VarIntProofs WITH WordBits <- LongBits

-----------------------------------------------------------------------------
(* Numbers of fixed width.                                                 *)

LEMMA BytePowers ==
  /\ ByteBits \in Nat \ {0} /\ Base \in Nat \ {0}
  /\ Byte = 0 .. Base - 1
  /\ Pow2[ByteBits * 0] = 1
  /\ \A k \in Nat :
       /\ ByteBits * k \in Nat
       /\ Pow2[ByteBits * k] \in Nat \ {0}
       /\ Pow2[ByteBits * (k + 1)] = Pow2[ByteBits * k] * Base
<1>1. ByteBits \in Nat \ {0} /\ SegmentBits \in Nat
  BY BitsAssumption DEF ByteBits
<1>2. Base \in Nat \ {0} /\ Base = 2 * CONTINUE_BIT
  BY <1>1, Pow2Values, Pow2Type DEF Base, CONTINUE_BIT, ByteBits
<1>3. Byte = 0 .. Base - 1
  BY <1>2 DEF Byte
<1>4. Pow2[ByteBits * 0] = 1
  <2>1. ByteBits * 0 = 0
    BY <1>1
  <2> QED BY <2>1, Pow2Values
<1>5. ASSUME NEW k \in Nat
      PROVE  /\ ByteBits * k \in Nat
             /\ Pow2[ByteBits * k] \in Nat \ {0}
             /\ Pow2[ByteBits * (k + 1)] = Pow2[ByteBits * k] * Base
  <2>1. ByteBits * k \in Nat /\ ByteBits * (k + 1) = ByteBits * k + ByteBits
    BY <1>1
  <2>2. Pow2[ByteBits * k + ByteBits] = Pow2[ByteBits * k] * Pow2[ByteBits]
    BY <1>1, <2>1, Pow2Sum
  <2> QED BY <2>1, <2>2, Pow2Type DEF Base
<1> QED BY <1>1, <1>2, <1>3, <1>4, <1>5

\* The bytes are taken in one after another.
LEMMA FromBytesIs ==
  ASSUME NEW s \in Seq(Byte)
  PROVE  \E f : /\ f \in [0 .. Len(s) -> Int]
                /\ f[0] = 0
                /\ \A n \in 1 .. Len(s) : f[n] = f[n-1] * Base + s[n]
                /\ FromBytes(s) = f[Len(s)]
<1> DEFINE N == Len(s)
           t(x, n) == x * Base + s[n]
           g == [p \in Nat \X Int |-> IF p[1] < N THEN t(p[2], p[1] + 1)
                                      ELSE 0]
           E(f) == f = [n \in 0 .. N |-> IF n = 0 THEN 0 ELSE t(f[n-1], n)]
<1>1. N \in Nat /\ Base \in Int /\ \A n \in 1 .. N : s[n] \in Int
  BY BytePowers, BytesAreNumbers, ElementOfSeq
<1>2. FromBytes(s) = (CHOOSE f : E(f))[N]
  BY Zenon DEF FromBytes
<1> HIDE DEF N
<1>0. ASSUME NEW x \in Int, NEW n \in 1 .. N PROVE t(x, n) \in Int
  BY <1>1
<1> HIDE DEF t
<1>3. g \in [Nat \X Int -> Int]
  BY <1>0, <1>1
<1>4. PICK f : Approximates(f, N, Int, 0, g)
  <2>1. 0 \in Int
    OBVIOUS
  <2> HIDE DEF g
  <2> QED BY <1>1, <1>3, <2>1, ApproximationExists
<1>5. ASSUME NEW n \in 1 .. N PROVE f[n] = t(f[n-1], n)
  <2>1. n - 1 \in Nat /\ n - 1 < N /\ (n - 1) + 1 = n
    BY <1>1
  <2>2. f[n] = g[<<n - 1, f[n-1]>>]
    BY <1>4, <2>1 DEF Approximates
  <2>3. f[n-1] \in Int
    BY <1>1, <1>4, <2>1 DEF Approximates
  <2> QED BY <2>1, <2>2, <2>3
<1>6. E(f) /\ f \in [0 .. N -> Int]
  <2>1. f \in [0 .. N -> Int] /\ f[0] = 0
    BY <1>4 DEF Approximates
  <2>2. \A n \in 0 .. N : f[n] = IF n = 0 THEN 0 ELSE t(f[n-1], n)
    BY <1>1, <1>5, <2>1
  <2> HIDE DEF g
  <2> QED BY <2>1, <2>2
<1> HIDE DEF g
<1>7. E(CHOOSE h : E(h))
  BY <1>6, Zenon
<1> DEFINE c == CHOOSE h : E(h)
<1>8. c = [n \in 0 .. N |-> IF n = 0 THEN 0 ELSE t(c[n-1], n)]
  BY <1>7
<1>9. FromBytes(s) = c[N]
  BY <1>2, Zenon
<1> HIDE DEF c, E
<1>10. c[0] = 0 /\ \A n \in 1 .. N : c[n] = t(c[n-1], n)
  BY <1>1, <1>8
<1>11. c \in [0 .. N -> Int]
  <2> DEFINE T == {n \in Nat : n <= N => c[n] \in Int}
  <2>1. 0 \in T
    BY <1>10
  <2>2. ASSUME NEW n \in T PROVE n + 1 \in T
    <3> SUFFICES ASSUME n + 1 <= N PROVE c[n+1] \in Int
      OBVIOUS
    <3>1. n + 1 \in 1 .. N /\ (n + 1) - 1 = n /\ c[n] \in Int
      BY <1>1
    <3>2. c[n+1] = t(c[n], n + 1)
      BY <1>10, <3>1
    <3> QED BY <1>0, <3>1, <3>2
  <2> HIDE DEF T
  <2>3. T \in SUBSET Nat
    BY DEF T
  <2>4. \A n \in Nat : n \in T
    BY <2>1, <2>2, <2>3, Induction
  <2>5. \A n \in 0 .. N : c[n] \in Int
    BY <1>1, <2>4 DEF T
  <2> QED BY <1>8, <2>5
<1> QED BY <1>9, <1>10, <1>11 DEF N, t

\* Bytes in the order of the wire are the number again, without its upper part.
LEMMA ReadsBigEndian ==
  ASSUME NEW v \in Int, NEW s \in Seq(Byte),
         \A k \in 1 .. Len(s) : s[k] = BigEndian(v, Len(s))[k]
  PROVE  FromBytes(s) = v % Pow2[ByteBits * Len(s)]
<1> DEFINE N == Len(s)
           P(k) == Pow2[ByteBits * k]
<1>1. N \in Nat /\ Base \in Nat \ {0}
  BY BytePowers, BytesAreNumbers
<1>2. PICK f : /\ f \in [0 .. N -> Int]
               /\ f[0] = 0
               /\ \A n \in 1 .. N : f[n] = f[n-1] * Base + s[n]
               /\ FromBytes(s) = f[N]
  BY FromBytesIs
<1>3. \A k \in 1 .. N : s[k] = (v \div P(N - k)) % Base
  BY DEF BigEndian
<1>4. \A k \in Nat : P(k) \in Nat \ {0} /\ P(k + 1) = P(k) * Base
  BY BytePowers
<1>5. P(0) = 1
  BY BytePowers
<1> HIDE DEF N, P
<1> DEFINE T == {k \in Nat : k <= N => f[k] = (v \div P(N - k)) % P(k)}
<1>6. 0 \in T
  <2>1. \A x \in Int : x % 1 = 0
    OBVIOUS
  <2>2. N - 0 \in Nat
    BY <1>1
  <2>3. v \div P(N - 0) \in Int
    <3> DEFINE p == P(N - 0)
    <3>1. p \in Nat \ {0}
      BY <1>4, <2>2
    <3> HIDE DEF p
    <3>2. v \div p \in Int
      BY <3>1
    <3> QED BY <3>2 DEF p
  <2> QED BY <1>2, <1>5, <2>1, <2>3
<1>7. ASSUME NEW k \in T PROVE k + 1 \in T
  <2> SUFFICES ASSUME k + 1 <= N PROVE f[k+1] = (v \div P(N - (k + 1))) % P(k + 1)
    OBVIOUS
  <2> DEFINE m == N - (k + 1)
             q == v \div P(m)
  <2>1. k \in Nat /\ m \in Nat /\ N - k = m + 1 /\ k + 1 \in 1 .. N
        /\ (k + 1) - 1 = k /\ k <= N
    BY <1>1
  <2>2. f[k] = (v \div P(m + 1)) % P(k)
    BY <2>1
  <2>3. f[k+1] = f[k] * Base + (q % Base)
    BY <1>2, <1>3, <2>1
  <2>4. P(m) \in Nat \ {0} /\ P(m + 1) = P(m) * Base
        /\ P(k) \in Nat \ {0} /\ P(k + 1) = P(k) * Base
    BY <1>4, <2>1
  <2> HIDE DEF m
  <2>5. q \in Int
    BY <2>4
  <2>6. v \div P(m + 1) = q \div Base
    <3>1. v \div (P(m) * Base) = (v \div P(m)) \div Base
      BY <1>1, <2>4, NextDigit, Zenon
    <3> QED BY <2>4, <3>1
  <2> HIDE DEF q
  <2>7. q % (Base * P(k)) = (q % Base) + ((q \div Base) % P(k)) * Base
    BY <1>1, <2>4, <2>5, NextDigit, Zenon
  <2>8. Base * P(k) = P(k + 1)
    BY <1>1, <2>4
  <2>9. q % Base \in Int /\ ((q \div Base) % P(k)) * Base \in Int
    <3>1. q \div Base \in Int /\ q % Base \in Int
      BY <1>1, <2>5
    <3> DEFINE r == q \div Base
    <3> HIDE DEF r
    <3>2. r % P(k) \in Int
      BY <2>4, <3>1 DEF r
    <3> QED BY <1>1, <3>1, <3>2 DEF r
  <2>10. f[k+1] = q % P(k + 1)
    BY <2>2, <2>3, <2>6, <2>7, <2>8, <2>9
  <2> QED BY <2>10 DEF q, m
<1>8. f[N] = (v \div P(N - N)) % P(N)
  <2> HIDE DEF T
  <2>1. T \in SUBSET Nat
    BY DEF T
  <2>2. N \in T
    BY <1>1, <1>6, <1>7, <2>1, Induction
  <2> QED BY <1>1, <2>2 DEF T
<1>9. v \div P(N - N) = v
  <2>1. N - N = 0 /\ v \div 1 = v
    BY <1>1
  <2> QED BY <1>5, <2>1
<1> QED BY <1>2, <1>8, <1>9 DEF N, P

LEMMA SignedBack ==
  ASSUME NEW b \in Nat \ {0}, NEW v, IsSigned(v, b)
  PROVE  /\ v \in Int
         /\ Unsigned(v, b) \in 0 .. Pow2[b] - 1
         /\ Signed(Unsigned(v, b), b) = v
<1> DEFINE h == Pow2[b-1]
           d == Pow2[b]
<1>1. b - 1 \in Nat /\ (b - 1) + 1 = b
  OBVIOUS
<1>2. h \in Nat \ {0} /\ d = 2 * h
  <2>1. Pow2[(b - 1) + 1] = 2 * Pow2[b-1] /\ Pow2[b-1] \in Nat \ {0}
    BY <1>1, Pow2Values, Pow2Type
  <2> QED BY <1>1, <2>1
<1>3. v \in -h .. h - 1
  BY DEF IsSigned
<1>4. Unsigned(v, b) = v % d
      /\ \A u : Signed(u, b) = IF u < h THEN u ELSE u - d
  BY DEF Unsigned, Signed
<1> HIDE DEF h, d
<1>5. CASE v >= 0
  <2>1. v % d = v
    BY <1>2, <1>3, <1>5, SmallRemainder
  <2> QED BY <1>2, <1>3, <1>4, <1>5, <2>1 DEF d
<1>6. CASE v < 0
  <2> DEFINE r == v + d
  <2>1. d \in Nat \ {0} /\ -1 \in Int /\ r \in 0 .. d - 1
    BY <1>2, <1>3, <1>6
  <2>2. v = d * (-1) + r
    BY <1>2, <1>3
  <2> HIDE DEF r
  <2>3. (d * (-1) + r) % d = r
    BY <2>1, DivisionUnique
  <2>4. v % d = v + d
    BY <2>2, <2>3 DEF r
  <2> QED BY <1>2, <1>3, <1>4, <1>6, <2>4 DEF d
<1> QED BY <1>2, <1>3, <1>5, <1>6

LEMMA UnsignedType ==
  ASSUME NEW b \in Nat, NEW v \in Int
  PROVE  Unsigned(v, b) \in 0 .. Pow2[b] - 1
<1>1. Pow2[b] \in Nat \ {0}
  BY Pow2Type
<1> QED BY <1>1 DEF Unsigned

\* The number of items of a list, and the length of a string.
LEMMA CountIs ==
  /\ Pow2[WordBits-1] \in Nat \ {0} /\ Pow2[WordBits] = 2 * Pow2[WordBits-1]
  /\ \A u \in Nat : Count(u) \in Nat
  /\ \A u \in Nat : Signed(u, WordBits) \in Int
  /\ \A u : u < Pow2[WordBits-1] => Signed(u, WordBits) = u
<1>1. WordBits - 1 \in Nat /\ (WordBits - 1) + 1 = WordBits
  BY BitsAssumption
<1>2. /\ Pow2[WordBits-1] \in Nat \ {0}
      /\ Pow2[WordBits] = 2 * Pow2[WordBits-1]
  BY <1>1, Pow2Values, Pow2Type
<1>3. \A u \in Nat : Count(u) \in Nat
  BY DEF Count
<1>4. \A u \in Nat : Signed(u, WordBits) \in Int
  BY <1>2 DEF Signed
<1>5. \A u : u < Pow2[WordBits-1] => Signed(u, WordBits) = u
  BY DEF Signed
<1> QED BY <1>2, <1>3, <1>4, <1>5

\* Three numbers in one, and out again.
Holds(w, X, Y, x, z, y) ==
  /\ w \in 0 .. X * (X * Y) - 1
  /\ (w \div (X * Y)) % X = x
  /\ w % Y = y
  /\ (w \div Y) % X = z

LEMMA ThreeDigits ==
  ASSUME NEW X \in Nat \ {0}, NEW Y \in Nat \ {0},
         NEW x \in 0 .. X - 1, NEW z \in 0 .. X - 1, NEW y \in 0 .. Y - 1
  PROVE  Holds(x * (X * Y) + z * Y + y, X, Y, x, z, y)
<1> DEFINE w == x * (X * Y) + z * Y + y
<1>0. w = x * (X * Y) + z * Y + y
  OBVIOUS
<1> HIDE DEF w
<1>1. X * Y \in Nat \ {0}
  OBVIOUS
<1>2. z * Y + y \in 0 .. X * Y - 1
  <2>1. z * Y \in Nat /\ z * Y <= (X - 1) * Y
    OBVIOUS
  <2>2. (X - 1) * Y = X * Y - Y
    OBVIOUS
  <2> QED BY <1>1, <2>1, <2>2
<1>3. w \div (X * Y) = x
  <2> DEFINE d == X * Y
             r == z * Y + y
  <2>1. d \in Nat \ {0} /\ r \in 0 .. d - 1 /\ x \in Int
    BY <1>1, <1>2
  <2>2. w = d * x + r
    <3>1. x * (X * Y) = (X * Y) * x
      BY <1>1
    <3> QED BY <1>0, <1>1, <1>2, <3>1
  <2> HIDE DEF d, r
  <2>3. (d * x + r) \div d = x
    BY <2>1, DivisionUnique, Zenon
  <2> QED BY <2>2, <2>3 DEF d
<1>4. w % Y = y /\ w \div Y = X * x + z
  <2> DEFINE q == X * x + z
  <2>1. q \in Int
    OBVIOUS
  <2>2. w = Y * q + y
    <3>1. x * (X * Y) = Y * (X * x) /\ z * Y = Y * z
      OBVIOUS
    <3>2. Y * (X * x + z) = Y * (X * x) + Y * z
      OBVIOUS
    <3> QED BY <1>0, <3>1, <3>2
  <2> HIDE DEF q
  <2>3. (Y * q + y) \div Y = q /\ (Y * q + y) % Y = y
    BY <2>1, DivisionUnique, Zenon
  <2> QED BY <2>2, <2>3 DEF q
<1>5. (X * x + z) % X = z
  <2>1. x \in Int
    OBVIOUS
  <2> QED BY <2>1, DivisionUnique, Zenon
<1>6. x % X = x
  BY SmallRemainder
<1>7. w \in 0 .. X * (X * Y) - 1
  <2> DEFINE d == X * Y
             r == z * Y + y
  <2>1. d \in Nat \ {0} /\ r \in 0 .. d - 1 /\ w = x * d + r
    BY <1>0, <1>1, <1>2
  <2> HIDE DEF d, r
  <2>2. x * d \in Nat /\ x * d <= (X - 1) * d
    BY <2>1
  <2>3. (X - 1) * d = X * d - d
    BY <2>1
  <2>4. w \in 0 .. X * d - 1
    BY <2>1, <2>2, <2>3
  <2> QED BY <2>4 DEF d
<1>8. Holds(w, X, Y, x, z, y)
  BY <1>3, <1>4, <1>5, <1>6, <1>7 DEF Holds
<1> QED BY <1>8 DEF w

\* A position is packed into its bytes and taken apart again.
LEMMA PositionBack ==
  ASSUME NEW v \in Seq(Int), IsValue("position", v)
  PROVE  /\ Pack(v) \in 0 .. Pow2[ByteBits * Size["position"]] - 1
         /\ Unpack(Pack(v)) = v
<1> DEFINE X == Pow2[XZBits]
           Y == Pow2[YBits]
           x == Unsigned(v[1], XZBits)
           y == Unsigned(v[2], YBits)
           z == Unsigned(v[3], XZBits)
           w == Pack(v)
<1>1. /\ Len(v) = 3
      /\ IsSigned(v[1], XZBits) /\ IsSigned(v[3], XZBits)
      /\ IsSigned(v[2], YBits)
  BY DEF IsValue
<1>2. XZBits \in Nat \ {0} /\ YBits \in Nat \ {0}
  BY CodecAssumption
<1>3. /\ x \in 0 .. X - 1 /\ Signed(x, XZBits) = v[1]
      /\ z \in 0 .. X - 1 /\ Signed(z, XZBits) = v[3]
      /\ y \in 0 .. Y - 1 /\ Signed(y, YBits) = v[2]
  BY <1>1, <1>2, SignedBack
<1>4. X \in Nat \ {0} /\ Y \in Nat \ {0}
  BY <1>2, Pow2Type
<1>5. Pow2[XZBits + YBits] = X * Y
  BY <1>2, Pow2Sum
<1>6. Pow2[ByteBits * Size["position"]] = X * (X * Y)
  <2>1. ByteBits * Size["position"] = XZBits + (XZBits + YBits)
    <3> DEFINE a == ByteBits * Size["position"]
    <3>1. a \in Int
      BY BytePowers DEF Size
    <3>2. YBits = a - 2 * XZBits
      BY DEF YBits
    <3> HIDE DEF a
    <3>3. a = XZBits + (XZBits + YBits)
      BY <1>2, <3>1, <3>2
    <3> QED BY <3>3 DEF a
  <2>2. XZBits \in Nat /\ XZBits + YBits \in Nat
    BY <1>2
  <2>3. Pow2[XZBits + (XZBits + YBits)] = Pow2[XZBits] * Pow2[XZBits + YBits]
    BY <2>2, Pow2Sum, Zenon
  <2> QED BY <1>5, <2>1, <2>3
<1>7. w = x * (X * Y) + z * Y + y
  BY <1>5 DEF Pack
<1>8. /\ w \in 0 .. X * (X * Y) - 1
      /\ (w \div (X * Y)) % X = x
      /\ w % Y = y
      /\ (w \div Y) % X = z
  <2>1. x \in 0 .. X - 1 /\ z \in 0 .. X - 1 /\ y \in 0 .. Y - 1
    BY <1>3
  <2> HIDE DEF X, Y, x, y, z, w
  <2>2. Holds(x * (X * Y) + z * Y + y, X, Y, x, z, y)
    BY <1>4, <2>1, ThreeDigits, Zenon
  <2> QED BY <1>7, <2>2 DEF Holds
<1>9. Unpack(w) = <<v[1], v[2], v[3]>>
  <2>1. Unpack(w) = <<Signed((w \div (X * Y)) % X, XZBits),
                      Signed(w % Y, YBits),
                      Signed((w \div Y) % X, XZBits)>>
    BY <1>5, Zenon DEF Unpack, Unsigned
  <2> HIDE DEF X, Y, x, y, z, w
  <2> QED BY <1>3, <1>8, <2>1, Zenon
<1>10. v = <<v[1], v[2], v[3]>>
  BY <1>1
<1> QED BY <1>6, <1>8, <1>9, <1>10

-----------------------------------------------------------------------------
(* The bytes of a field.                                                   *)

LEMMA FixedIs ==
  /\ Fixed = {"bool", "ubyte", "byte", "short", "ushort", "int", "long",
              "position"}
  /\ \A kind \in Fixed : Size[kind] \in Nat \ {0}
BY DEF Fixed, Size

LEMMA BigEndianIs ==
  ASSUME NEW v \in Int, NEW n \in Nat
  PROVE  BigEndian(v, n) \in Seq(Byte) /\ Len(BigEndian(v, n)) = n
<1> DEFINE d(k) == (v \div Pow2[ByteBits * (n - k)]) % Base
<1>1. ASSUME NEW k \in 1 .. n PROVE d(k) \in Byte
  <2> DEFINE m == n - k
             p == Pow2[ByteBits * m]
  <2>1. m \in Nat
    OBVIOUS
  <2> HIDE DEF m
  <2>2. p \in Nat \ {0} /\ Base \in Nat \ {0} /\ Byte = 0 .. Base - 1
    BY <2>1, BytePowers
  <2> HIDE DEF p
  <2> DEFINE q == v \div p
  <2>3. q \in Int
    BY <2>2
  <2> HIDE DEF q
  <2>4. q % Base \in Byte
    BY <2>2, <2>3
  <2> QED BY <2>4 DEF q, p, m
<1>2. BigEndian(v, n) = [k \in 1 .. n |-> d(k)]
  BY DEF BigEndian
<1> HIDE DEF d
<1>3. BigEndian(v, n) \in [1 .. n -> Byte]
  BY <1>1, <1>2
<1> QED BY <1>3

\* A field of fixed width is a number, and its value what the reader makes of
\* the number without its upper part.
LEMMA FixedEncoding ==
  ASSUME NEW kind \in Fixed, NEW v \in Seq(Int), IsValue(kind, v)
  PROVE  \E n \in Int :
           /\ Encoding(kind, v) = BigEndian(n, Size[kind])
           /\ FixedValue(kind, n % Pow2[ByteBits * Size[kind]]) = v
           /\ kind = "bool" => n % Pow2[ByteBits * Size[kind]] \in {0, 1}
<1> DEFINE b == ByteBits * Size[kind]
           d == Pow2[b]
<1>1. b \in Nat \ {0}
  <2>1. ByteBits \in Nat \ {0} /\ Size[kind] \in Nat \ {0}
    BY BytePowers, FixedIs
  <2> HIDE DEF Size
  <2> DEFINE m == Size[kind]
  <2> HIDE DEF m
  <2>2. ByteBits * m \in Nat \ {0}
    BY <2>1 DEF m
  <2> QED BY <2>2 DEF m
<1>2. d \in Nat \ {0}
  BY <1>1, Pow2Type
<1> HIDE DEF b, d
<1>3. CASE kind = "position"
  <2>1. Encoding(kind, v) = BigEndian(Pack(v), Size[kind])
    BY <1>3 DEF Encoding
  <2>2. Pack(v) \in 0 .. d - 1 /\ Unpack(Pack(v)) = v
    BY <1>3, PositionBack DEF d, b
  <2>3. Pack(v) % d = Pack(v) /\ Pack(v) \in Int
    BY <1>2, <2>2, SmallRemainder
  <2>4. FixedValue(kind, Pack(v)) = v
    BY <1>3, <2>2 DEF FixedValue
  <2> QED BY <1>3, <2>1, <2>3, <2>4 DEF d, b
<1>4. CASE kind \in {"bool", "ubyte", "ushort"}
  <2>1. Encoding(kind, v) = BigEndian(v[1], Size[kind])
    BY <1>4, FixedIs DEF Encoding
  <2>2. Len(v) = 1 /\ v[1] \in 0 .. d - 1 /\ (kind = "bool" => v[1] \in {0, 1})
    <3>1. CASE kind = "bool"
      <4>1. Len(v) = 1 /\ v[1] \in {0, 1}
        BY <3>1 DEF IsValue
      <4>2. 2 <= d
        <5>1. Pow2[1] = 2
          <6>1. Pow2[0+1] = 2 * Pow2[0] /\ Pow2[0] = 1
            BY Pow2Values
          <6> QED BY <6>1
        <5>2. Pow2[1] <= Pow2[b]
          BY <1>1, Pow2Grows
        <5> QED BY <5>1, <5>2 DEF d
      <4> QED BY <1>2, <4>1, <4>2
    <3>2. CASE kind \in {"ubyte", "ushort"}
      BY <3>2 DEF IsValue, d, b
    <3> QED BY <1>4, <3>1, <3>2
  <2>3. v[1] % d = v[1] /\ v[1] \in Int
    BY <1>2, <2>2, SmallRemainder
  <2>4. v = <<v[1]>>
    BY <2>2
  <2>5. FixedValue(kind, v[1]) = v
    BY <1>4, <2>4 DEF FixedValue
  <2> QED BY <2>1, <2>2, <2>3, <2>5 DEF d, b
<1>5. CASE kind \in {"byte", "short", "int", "long"}
  <2>1. Encoding(kind, v) = BigEndian(v[1], Size[kind])
    BY <1>5, FixedIs DEF Encoding
  <2>2. Len(v) = 1 /\ IsSigned(v[1], b)
    BY <1>5 DEF IsValue, b
  <2>3. v[1] \in Int /\ Signed(v[1] % d, b) = v[1]
    BY <1>1, <2>2, SignedBack DEF Unsigned, d
  <2>4. v = <<v[1]>>
    BY <2>2
  <2>5. FixedValue(kind, v[1] % d) = v
    BY <1>5, <2>3, <2>4 DEF FixedValue, b
  <2> QED BY <1>5, <2>1, <2>3, <2>5 DEF d, b
<1> QED BY <1>3, <1>4, <1>5, FixedIs

LEMMA ReadsFixed ==
  ASSUME NEW kind \in Fixed, NEW v \in Seq(Int), IsValue(kind, v),
         NEW s \in Seq(Byte), Len(s) = Size[kind],
         \A k \in 1 .. Len(s) : s[k] = Encoding(kind, v)[k]
  PROVE  /\ FixedValue(kind, FromBytes(s)) = v
         /\ ~(kind = "bool" /\ FromBytes(s) > 1)
<1>1. PICK n \in Int :
           /\ Encoding(kind, v) = BigEndian(n, Size[kind])
           /\ FixedValue(kind, n % Pow2[ByteBits * Size[kind]]) = v
           /\ kind = "bool" => n % Pow2[ByteBits * Size[kind]] \in {0, 1}
  BY FixedEncoding
<1>2. \A k \in 1 .. Len(s) : s[k] = BigEndian(n, Len(s))[k]
  BY <1>1
<1>3. FromBytes(s) = n % Pow2[ByteBits * Len(s)]
  BY <1>2, ReadsBigEndian
<1> QED BY <1>1, <1>3

\* Whatever the bytes are, what is made of them is a sequence of numbers.
LEMMA FixedValueType ==
  ASSUME NEW kind \in Fixed, NEW u \in Int
  PROVE  FixedValue(kind, u) \in Seq(Int)
<1>1. ASSUME NEW b \in Nat \ {0}, NEW x \in Int PROVE Signed(x, b) \in Int
  <2>1. b - 1 \in Nat /\ Pow2[b] \in Nat
    BY Pow2Type
  <2> QED BY <2>1 DEF Signed
<1>2. CASE kind = "position"
  <2>1. XZBits \in Nat \ {0} /\ YBits \in Nat \ {0}
    BY CodecAssumption
  <2>2. Pow2[XZBits + YBits] \in Nat \ {0} /\ Pow2[YBits] \in Nat \ {0}
    BY <2>1, Pow2Type
  <2>3. u \div Pow2[XZBits + YBits] \in Int /\ u \div Pow2[YBits] \in Int
    <3> DEFINE p == Pow2[XZBits + YBits]
               q == Pow2[YBits]
    <3>1. p \in Nat \ {0} /\ q \in Nat \ {0}
      BY <2>2
    <3> HIDE DEF p, q
    <3>2. u \div p \in Int /\ u \div q \in Int
      BY <3>1
    <3> QED BY <3>2 DEF p, q
  <2>4. \A b \in Nat, x \in Int : Unsigned(x, b) \in Int
    BY UnsignedType
  <2>5. Unpack(u) \in Seq(Int)
    <3>1. \A x, y, z \in Int : <<x, y, z>> \in Seq(Int)
      OBVIOUS
    <3> QED BY <1>1, <2>1, <2>3, <2>4, <3>1 DEF Unpack
  <2>6. FixedValue(kind, u) = Unpack(u)
    BY <1>2 DEF FixedValue
  <2> QED BY <2>5, <2>6
<1>3. CASE kind \in {"bool", "ubyte", "ushort"}
  BY <1>3 DEF FixedValue
<1>4. CASE kind \in {"byte", "short", "int", "long"}
  <2>1. ByteBits * Size[kind] \in Nat \ {0}
    <3> DEFINE m == Size[kind]
    <3>1. ByteBits \in Nat \ {0} /\ m \in Nat \ {0}
      BY BytePowers, FixedIs
    <3> HIDE DEF m
    <3>2. ByteBits * m \in Nat \ {0}
      BY <3>1
    <3> QED BY <3>2 DEF m
  <2>2. FixedValue(kind, u) = <<Signed(u, ByteBits * Size[kind])>>
    BY <1>4 DEF FixedValue
  <2> QED BY <1>1, <2>1, <2>2
<1> QED BY <1>2, <1>3, <1>4, FixedIs

\* The 64-bit numbers are those of VarInt with more bits.
LEMMA VarLongIs ==
  /\ VarLong!Word = VarLongFacts!Word
  /\ Byte = VarLongFacts!Byte
  /\ \A v : /\ VarLong!Encode(v) = VarLongFacts!Encode(v)
            /\ VarLong!EncodedLen(v) = VarLongFacts!EncodedLen(v)
  /\ \A s : VarLong!VarIntLen(s) = VarLongFacts!VarIntLen(s)
  /\ \A s, n : VarLong!VarIntValue(s, n) = VarLongFacts!VarIntValue(s, n)
<1>1. VarLong!Word = VarLongFacts!Word
  BY DEF VarLong!Word, VarLongFacts!Word, VarLong!Pow2, VarLongFacts!Pow2
<1>2. Byte = VarLongFacts!Byte
  BY DEF Byte, VarLongFacts!Byte, CONTINUE_BIT, VarLongFacts!CONTINUE_BIT,
         Pow2, VarLongFacts!Pow2
<1>3. ASSUME NEW v
      PROVE  VarLong!EncodedLen(v) = VarLongFacts!EncodedLen(v)
  BY DEF VarLong!EncodedLen, VarLongFacts!EncodedLen, VarLong!Pow2,
         VarLongFacts!Pow2, VarLong!MaxBytes, VarLongFacts!MaxBytes
<1>4. ASSUME NEW v PROVE VarLong!Encode(v) = VarLongFacts!Encode(v)
  BY <1>3 DEF VarLong!Encode, VarLongFacts!Encode, VarLong!Pow2,
              VarLongFacts!Pow2, VarLong!CONTINUE_BIT, VarLongFacts!CONTINUE_BIT
<1>5. ASSUME NEW s PROVE VarLong!VarIntLen(s) = VarLongFacts!VarIntLen(s)
  BY DEF VarLong!VarIntLen, VarLongFacts!VarIntLen, VarLong!Ends,
         VarLongFacts!Ends, VarLong!MaxBytes, VarLongFacts!MaxBytes,
         VarLong!CONTINUE_BIT, VarLongFacts!CONTINUE_BIT, VarLong!Pow2,
         VarLongFacts!Pow2
<1>6. ASSUME NEW s, NEW n
      PROVE  VarLong!VarIntValue(s, n) = VarLongFacts!VarIntValue(s, n)
  BY DEF VarLong!VarIntValue, VarLongFacts!VarIntValue, VarLong!CONTINUE_BIT,
         VarLongFacts!CONTINUE_BIT, VarLong!Pow2, VarLongFacts!Pow2
<1> QED BY <1>1, <1>2, <1>3, <1>4, <1>5, <1>6, Zenon

\* s begins with e, as far as it goes.
Agrees(s, e) == \A k \in 1 .. Len(e) : k <= Len(s) => s[k] = e[k]

\* What is read at the beginning of s of the number v: all or nothing.
LEMMA ReadsVarInt ==
  ASSUME NEW v \in Word, NEW s \in Seq(Byte), Agrees(s, Encode(v))
  PROVE  /\ Encode(v) \in Seq(Byte) /\ Len(Encode(v)) \in Nat \ {0}
         /\ Len(s) < Len(Encode(v)) => VarIntLen(s) = 0
         /\ Len(s) >= Len(Encode(v)) =>
              /\ VarIntLen(s) = Len(Encode(v))
              /\ VarIntValue(s, Len(Encode(v))) = v
<1>1. /\ Encode(v) \in Seq(Byte) /\ Len(Encode(v)) = EncodedLen(v)
      /\ EncodedLen(v) \in Nat \ {0} /\ Len(s) \in Nat
  BY EncodeIs, EncodedLenIs, EnoughBytes, BytesAreNumbers
<1>2. CASE Len(s) < EncodedLen(v)
  <2>1. \A k \in 1 .. Len(s) : s[k] = Encode(v)[k]
    BY <1>1, <1>2 DEF Agrees
  <2>2. VarIntLen(s) = 0
    BY <1>2, <2>1, NoNumberCutShort
  <2> QED BY <1>1, <1>2, <2>2
<1>3. CASE Len(s) >= EncodedLen(v)
  <2>1. \A k \in 1 .. EncodedLen(v) : s[k] = Encode(v)[k]
    BY <1>1, <1>3 DEF Agrees
  <2>2. VarIntLen(s) = EncodedLen(v) /\ VarIntValue(s, EncodedLen(v)) = v
    BY <1>3, <2>1, ReadsNumber
  <2> QED BY <1>1, <1>3, <2>2
<1> QED BY <1>1, <1>2, <1>3

LEMMA ReadsVarLong ==
  ASSUME NEW v \in VarLong!Word, NEW s \in Seq(Byte),
         Agrees(s, VarLong!Encode(v))
  PROVE  /\ VarLong!Encode(v) \in Seq(Byte)
         /\ Len(VarLong!Encode(v)) \in Nat \ {0}
         /\ Len(s) < Len(VarLong!Encode(v)) => VarLong!VarIntLen(s) = 0
         /\ Len(s) >= Len(VarLong!Encode(v)) =>
              /\ VarLong!VarIntLen(s) = Len(VarLong!Encode(v))
              /\ VarLong!VarIntValue(s, Len(VarLong!Encode(v))) = v
<1> DEFINE e == VarLong!Encode(v)
           l == VarLong!EncodedLen(v)
<1>0. LongBits \in Nat \ {0}
  BY CodecAssumption
<1>1. v \in VarLongFacts!Word /\ s \in Seq(VarLongFacts!Byte)
  BY VarLongIs
<1>2. e \in Seq(Byte) /\ Len(e) = l
  <2>1. VarLongFacts!Encode(v) \in Seq(VarLongFacts!Byte)
        /\ Len(VarLongFacts!Encode(v)) = VarLongFacts!EncodedLen(v)
    BY <1>0, <1>1, BitsAssumption, VarLongFacts!EncodeIs
  <2> QED BY <2>1, VarLongIs
<1>3. l \in Nat \ {0} /\ Len(s) \in Nat
  <2>1. VarLongFacts!EncodedLen(v) \in 1 .. VarLongFacts!MaxBytes
        /\ VarLongFacts!MaxBytes \in Nat
    BY <1>0, <1>1, BitsAssumption, VarLongFacts!EncodedLenIs,
       VarLongFacts!EnoughBytes
  <2>2. VarLongFacts!EncodedLen(v) \in Nat \ {0}
    BY <2>1
  <2> QED BY <2>2, VarLongIs, BytesAreNumbers
<1>4. CASE Len(s) < l
  <2>1. \A k \in 1 .. Len(s) : s[k] = e[k]
    BY <1>2, <1>3, <1>4 DEF Agrees
  <2>2. Len(s) < VarLongFacts!EncodedLen(v)
        /\ \A k \in 1 .. Len(s) : s[k] = VarLongFacts!Encode(v)[k]
    BY <1>4, <2>1, VarLongIs
  <2>3. VarLongFacts!VarIntLen(s) = 0
    BY <1>0, <1>1, <2>2, BitsAssumption, VarLongFacts!NoNumberCutShort
  <2>4. VarLong!VarIntLen(s) = 0
    BY <2>3, VarLongIs
  <2> QED BY <1>2, <1>3, <1>4, <2>4
<1>5. CASE Len(s) >= l
  <2>1. \A k \in 1 .. l : s[k] = e[k]
    BY <1>2, <1>3, <1>5 DEF Agrees
  <2>2. Len(s) >= VarLongFacts!EncodedLen(v)
        /\ \A k \in 1 .. VarLongFacts!EncodedLen(v) :
             s[k] = VarLongFacts!Encode(v)[k]
    BY <1>5, <2>1, VarLongIs
  <2>3. VarLongFacts!VarIntLen(s) = VarLongFacts!EncodedLen(v)
        /\ VarLongFacts!VarIntValue(s, VarLongFacts!EncodedLen(v)) = v
    BY <1>0, <1>1, <2>2, BitsAssumption, VarLongFacts!ReadsNumber
  <2>4. VarLong!VarIntLen(s) = l /\ VarLong!VarIntValue(s, l) = v
    BY <2>3, VarLongIs
  <2> QED BY <1>2, <1>3, <1>5, <2>4
<1> QED BY <1>2, <1>3, <1>4, <1>5

\* Whatever the bytes are, what is read of them lies within them.
LEMMA VarLongType ==
  ASSUME NEW s \in Seq(Byte)
  PROVE  /\ VarLong!VarIntLen(s) \in 0 .. Len(s)
         /\ \A n \in 0 .. Len(s) : VarLong!VarIntValue(s, n) \in Int
<1>0. LongBits \in Nat \ {0}
  BY CodecAssumption
<1>1. s \in Seq(VarLongFacts!Byte)
  BY VarLongIs
<1>2. VarLongFacts!VarIntLen(s) \in 0 .. Len(s)
  BY <1>0, <1>1, BitsAssumption, VarLongFacts!VarIntLenType
<1>3. ASSUME NEW n \in 0 .. Len(s) PROVE VarLong!VarIntValue(s, n) \in Int
  <2>1. VarLongFacts!VarIntValue(s, n) \in VarLongFacts!Word
    BY <1>0, <1>1, BitsAssumption, VarLongFacts!VarIntValueType
  <2>2. VarLongFacts!VarIntValue(s, n) \in Int
    BY <1>0, <2>1, BitsAssumption, VarLongFacts!WordsAreNumbers
  <2> QED BY <2>2, VarLongIs
<1> QED BY <1>2, <1>3, VarLongIs

\* A string is its length and its bytes; a tag likewise, its length a byte.
LEMMA StringIs ==
  ASSUME NEW v \in Seq(Int), IsValue("var_str", v)
  PROVE  /\ v \in Seq(Byte) /\ Len(v) \in Word /\ Len(v) \in Nat
         /\ Encode(Len(v)) \in Seq(Byte) /\ Len(Encode(Len(v))) \in Nat \ {0}
         /\ Encoding("var_str", v) = Encode(Len(v)) \o v
         /\ Encoding("var_str", v) \in Seq(Byte)
         /\ Len(Encoding("var_str", v)) = Len(Encode(Len(v))) + Len(v)
         /\ \A k \in 1 .. Len(Encode(Len(v))) :
              Encoding("var_str", v)[k] = Encode(Len(v))[k]
         /\ \A k \in 1 .. Len(v) :
              Encoding("var_str", v)[Len(Encode(Len(v))) + k] = v[k]
         /\ Signed(Len(v), WordBits) = Len(v)
<1> DEFINE h == Encode(Len(v))
           e == Encoding("var_str", v)
<1>1. v \in Seq(Byte) /\ Len(v) \in Word /\ Len(v) \in Nat
      /\ Signed(Len(v), WordBits) = Len(v)
  <2>1. v \in Seq(Byte) /\ Len(v) < Pow2[WordBits-1]
    BY DEF IsValue
  <2>2. Len(v) \in Nat
    BY <2>1, BytesAreNumbers
  <2>3. Len(v) \in Word /\ Signed(Len(v), WordBits) = Len(v)
    <3> DEFINE l == Len(v)
    <3>1. l \in Nat /\ l < Pow2[WordBits-1]
      BY <2>1, <2>2
    <3> HIDE DEF l
    <3>2. /\ Pow2[WordBits-1] \in Nat
          /\ Pow2[WordBits] = 2 * Pow2[WordBits-1]
      BY CountIs
    <3>3. l \in Word /\ Signed(l, WordBits) = l
      BY <3>1, <3>2 DEF Word, Signed
    <3> QED BY <3>3 DEF l
  <2> QED BY <2>1, <2>2, <2>3
<1>2. h \in Seq(Byte) /\ Len(h) \in Nat \ {0}
  BY <1>1, EncodeIs, EncodedLenIs, EnoughBytes
<1>3. e = h \o v
  BY FixedIs DEF Encoding
<1> HIDE DEF h, e
<1>4. e \in Seq(Byte) /\ Len(e) = Len(h) + Len(v)
  BY <1>1, <1>2, <1>3
<1>5. \A k \in 1 .. Len(h) : e[k] = h[k]
  BY <1>1, <1>2, <1>3
<1>6. \A k \in 1 .. Len(v) : e[Len(h) + k] = v[k]
  <2> SUFFICES ASSUME NEW k \in 1 .. Len(v) PROVE e[Len(h) + k] = v[k]
    OBVIOUS
  <2>1. Len(h) + k \in 1 .. Len(h) + Len(v) /\ ~(Len(h) + k <= Len(h))
        /\ (Len(h) + k) - Len(h) = k
    BY <1>1, <1>2
  <2> QED BY <1>1, <1>2, <1>3, <2>1
<1> QED BY <1>1, <1>2, <1>3, <1>4, <1>5, <1>6 DEF h, e

LEMMA TagIs ==
  ASSUME NEW v \in Seq(Int), IsValue("network_nbt", v)
  PROVE  /\ v \in Seq(Byte) /\ Len(v) \in Nat
         /\ Encoding("network_nbt", v) \in Seq(Byte)
         /\ Len(Encoding("network_nbt", v)) = 1 + Len(v)
         /\ Encoding("network_nbt", v)[1] = Len(v)
         /\ \A k \in 1 .. Len(v) : Encoding("network_nbt", v)[1 + k] = v[k]
<1> DEFINE l == Len(v)
           e == Encoding("network_nbt", v)
<1>1. v \in Seq(Byte) /\ l \in Byte /\ l \in Nat
  <2>1. v \in Seq(Byte) /\ Len(v) \in Byte
    BY DEF IsValue
  <2> QED BY <2>1, BytesAreNumbers
<1>2. e = <<l>> \o v
  BY FixedIs DEF Encoding
<1>3. <<l>> \in Seq(Byte) /\ Len(<<l>>) = 1 /\ <<l>>[1] = l
  BY <1>1
<1> HIDE DEF e
<1>4. e \in Seq(Byte) /\ Len(e) = 1 + l
  BY <1>1, <1>2, <1>3
<1>5. e[1] = l
  BY <1>1, <1>2, <1>3
<1>6. \A k \in 1 .. l : e[1 + k] = v[k]
  <2> SUFFICES ASSUME NEW k \in 1 .. l PROVE e[1 + k] = v[k]
    OBVIOUS
  <2>1. 1 + k \in 1 .. 1 + l /\ ~(1 + k <= 1) /\ (1 + k) - 1 = k
    BY <1>1
  <2> QED BY <1>1, <1>2, <1>3, <2>1
<1> QED BY <1>1, <1>4, <1>5, <1>6 DEF e

\* Every field has bytes.
LEMMA EncodingIs ==
  ASSUME NEW kind \in Kinds, NEW v \in Seq(Int), IsValue(kind, v)
  PROVE  /\ Encoding(kind, v) \in Seq(Byte)
         /\ Len(Encoding(kind, v)) \in Nat \ {0}
         /\ kind \in Fixed => Len(Encoding(kind, v)) = Size[kind]
         /\ kind \in {"var_int", "list"} => /\ v = <<v[1]>> /\ v[1] \in Word
                                            /\ Encoding(kind, v) = Encode(v[1])
         /\ kind = "var_long" => /\ v = <<v[1]>> /\ v[1] \in VarLong!Word
                                 /\ Encoding(kind, v) = VarLong!Encode(v[1])
<1>1. CASE kind \in Fixed
  <2>1. PICK n \in Int : Encoding(kind, v) = BigEndian(n, Size[kind])
    BY <1>1, FixedEncoding
  <2>2. Size[kind] \in Nat \ {0}
    BY <1>1, FixedIs
  <2>3. BigEndian(n, Size[kind]) \in Seq(Byte)
        /\ Len(BigEndian(n, Size[kind])) = Size[kind]
    BY <2>2, BigEndianIs
  <2>4. kind \notin {"var_int", "list", "var_long"}
    BY <1>1, FixedIs
  <2> QED BY <2>1, <2>2, <2>3, <2>4
<1>2. CASE kind \in {"var_int", "list"}
  <2>1. Len(v) = 1 /\ v[1] \in Word
    BY <1>2 DEF IsValue
  <2>2. v = <<v[1]>>
    BY <2>1
  <2>3. Encoding(kind, v) = Encode(v[1])
    BY <1>2, FixedIs DEF Encoding
  <2>4. Encode(v[1]) \in Seq(Byte) /\ Len(Encode(v[1])) \in Nat \ {0}
    BY <2>1, EncodeIs, EncodedLenIs, EnoughBytes
  <2> QED BY <1>2, <2>1, <2>2, <2>3, <2>4, FixedIs
<1>3. CASE kind = "var_long"
  <2>1. Len(v) = 1 /\ v[1] \in VarLong!Word
    BY <1>3 DEF IsValue
  <2>2. v = <<v[1]>>
    BY <2>1
  <2>3. Encoding(kind, v) = VarLong!Encode(v[1])
    BY <1>3, FixedIs DEF Encoding
  <2>4. <<>> \in Seq(Byte) /\ Len(<<>>) = 0
    OBVIOUS
  <2>5. Agrees(<<>>, VarLong!Encode(v[1]))
    BY <2>4 DEF Agrees
  <2>6. VarLong!Encode(v[1]) \in Seq(Byte)
        /\ Len(VarLong!Encode(v[1])) \in Nat \ {0}
    BY <2>1, <2>4, <2>5, ReadsVarLong
  <2> QED BY <1>3, <2>1, <2>2, <2>3, <2>6, FixedIs
<1>4. CASE kind = "var_str"
  BY <1>4, StringIs, FixedIs
<1>5. CASE kind = "network_nbt"
  BY <1>5, TagIs, FixedIs
<1> QED BY <1>1, <1>2, <1>3, <1>4, <1>5 DEF Kinds

-----------------------------------------------------------------------------
(* The bytes of a packet, field by field.                                  *)

LEMMA HeadIs ==
  ASSUME NEW todo \in Seq(Field), todo # <<>>
  PROVE  Head(todo).kind \in Kinds /\ Head(todo).items \in Seq(Kinds \ {"list"})
<1> DEFINE h == Head(todo)
<1>1. h \in Field
  OBVIOUS
<1> HIDE DEF h
<1>2. h.kind \in Kinds /\ h.items \in Seq(Kinds \ {"list"})
  BY <1>1 DEF Field
<1> QED BY <1>2 DEF h

\* The value in front of what is left of a list is its number of items.
LEMMA AfterIs ==
  ASSUME NEW todo \in Seq(Field), todo # <<>>, NEW v \in Seq(Int),
         Head(todo).kind = "list" => v[1] \in Nat
  PROVE  After(todo, v) \in Seq(Field)
<1> DEFINE items == Head(todo).items
           l == Len(items)
           item(k) == [kind |-> items[1 + ((k - 1) % l)], items |-> <<>>]
           n == IF Head(todo).kind = "list" THEN Count(v[1]) * l ELSE 0
<1>1. items \in Seq(Kinds \ {"list"}) /\ l \in Nat
  <2>1. items \in Seq(Kinds \ {"list"})
    BY HeadIs
  <2> HIDE DEF items
  <2> QED BY <2>1
<1>2. n \in Nat /\ (l = 0 => n = 0)
  <2>1. Head(todo).kind = "list" => Count(v[1]) \in Nat
    BY CountIs
  <2> HIDE DEF l
  <2> QED BY <1>1, <2>1
<1>3. After(todo, v) = [k \in 1 .. n |-> item(k)] \o Tail(todo)
  BY DEF After
<1> HIDE DEF n
<1>4. ASSUME NEW k \in 1 .. n PROVE item(k) \in Field
  <2>1. l \in Nat \ {0} /\ k - 1 \in Nat
    BY <1>1, <1>2
  <2> HIDE DEF l
  <2>2. 1 + ((k - 1) % l) \in 1 .. l
    BY <2>1
  <2>3. items[1 + ((k - 1) % l)] \in Kinds
    <3> DEFINE j == 1 + ((k - 1) % l)
    <3> HIDE DEF j, items
    <3>1. j \in 1 .. Len(items)
      BY <2>2 DEF l, j
    <3>2. items[j] \in Kinds
      BY <1>1, <3>1
    <3> QED BY <3>2 DEF j
  <2> QED BY <2>3 DEF Field
<1> HIDE DEF item
<1>5. [k \in 1 .. n |-> item(k)] \in Seq(Field)
  BY <1>2, <1>4
<1>6. Tail(todo) \in Seq(Field)
  OBVIOUS
<1> QED BY <1>3, <1>5, <1>6

\* A packet up to one value more.
OnePart(part, v) ==
  [rest  |-> After(part.rest, v),
   last  |-> Head(part.rest).kind,
   bytes |-> part.bytes \o Encoding(Head(part.rest).kind, v)]
NoPart(p) == [rest |-> p.layout, last |-> "none", bytes |-> <<>>]

LEMMA PartsDefined ==
  ASSUME NEW p \in Packet
  PROVE  /\ Parts(p)[0] = NoPart(p)
         /\ \A n \in 1 .. Len(p.values) :
              Parts(p)[n] = OnePart(Parts(p)[n-1], p.values[n])
<1> DEFINE N == Len(p.values)
           x(n) == p.values[n]
           E(f, m) == f = [n \in 0 .. m |-> IF n = 0 THEN NoPart(p)
                                            ELSE OnePart(f[n-1], x(n))]
<1>1. N \in Nat
  BY DEF Packet
<1>2. Parts(p) = CHOOSE f : E(f, N)
  BY Zenon DEF Parts, NoPart, OnePart
<1> HIDE DEF N, x
<1> DEFINE T == {m \in Nat : \E f : E(f, m)}
<1>3. 0 \in T
  <2>1. E([n \in 0 .. 0 |-> NoPart(p)], 0)
    OBVIOUS
  <2> HIDE DEF E
  <2> QED BY <2>1
<1>4. ASSUME NEW m \in T PROVE m + 1 \in T
  <2>1. m \in Nat
    OBVIOUS
  <2>2. PICK f : E(f, m)
    OBVIOUS
  <2> DEFINE g == [n \in 0 .. m + 1 |-> IF n <= m THEN f[n]
                                        ELSE OnePart(f[m], x(m + 1))]
  <2>3. ASSUME NEW n \in 0 .. m + 1
        PROVE  g[n] = IF n = 0 THEN NoPart(p) ELSE OnePart(g[n-1], x(n))
    <3>1. CASE n <= m
      <4>1. g[n] = f[n] /\ (n # 0 => g[n-1] = f[n-1])
        BY <2>1, <3>1
      <4>2. f[n] = IF n = 0 THEN NoPart(p) ELSE OnePart(f[n-1], x(n))
        BY <2>1, <2>2, <3>1
      <4> QED BY <4>1, <4>2
    <3>2. CASE ~(n <= m)
      <4>1. n = m + 1 /\ n # 0 /\ n - 1 = m /\ g[n] = OnePart(f[m], x(n))
        BY <2>1, <3>2
      <4>2. g[m] = f[m]
        BY <2>1
      <4> QED BY <4>1, <4>2
    <3> QED BY <3>1, <3>2
  <2>4. g = [n \in 0 .. m + 1 |-> g[n]]
    OBVIOUS
  <2> HIDE DEF g
  <2>5. E(g, m + 1)
    BY <2>3, <2>4
  <2> HIDE DEF E
  <2> QED BY <2>1, <2>5
<1>5. \E f : E(f, N)
  <2> HIDE DEF T
  <2>1. T \in SUBSET Nat
    BY DEF T
  <2>2. N \in T
    BY <1>1, <1>3, <1>4, <2>1, Induction
  <2> HIDE DEF E
  <2> QED BY <2>2 DEF T
<1> HIDE DEF T
<1>6. E(CHOOSE f : E(f, N), N)
  BY <1>5, Zenon
<1> DEFINE c == CHOOSE f : E(f, N)
<1>7. c = [n \in 0 .. N |-> IF n = 0 THEN NoPart(p) ELSE OnePart(c[n-1], x(n))]
  BY <1>6
<1>8. Parts(p) = c
  BY <1>2, Zenon
<1> HIDE DEF c, E
<1>9. c[0] = NoPart(p)
      /\ \A n \in 1 .. N : c[n] = OnePart(c[n-1], x(n))
  BY <1>1, <1>7
<1> QED BY <1>8, <1>9 DEF N, x

\* Where there is a value, there is a field that has it; its bytes follow.
LEMMA PartIs ==
  ASSUME NEW p \in Packets, NEW n \in 0 .. Len(p.values)
  PROVE  /\ Parts(p)[n].rest \in Seq(Field)
         /\ Parts(p)[n].bytes \in Seq(Byte)
<1>1. p \in Packet /\ WellFormed(p)
  BY CodecAssumption
<1>2. Len(p.values) \in Nat /\ \A m \in 1 .. Len(p.values) : p.values[m] \in Seq(Int)
  BY <1>1 DEF Packet
<1> DEFINE T == {m \in Nat : m <= Len(p.values) =>
                   /\ Parts(p)[m].rest \in Seq(Field)
                   /\ Parts(p)[m].bytes \in Seq(Byte)}
<1>3. 0 \in T
  <2>1. Parts(p)[0] = NoPart(p)
    BY <1>1, PartsDefined
  <2>2. p.layout \in Seq(Field)
    BY <1>1 DEF Packet
  <2>3. NoPart(p).rest = p.layout /\ NoPart(p).bytes = <<>>
    BY DEF NoPart
  <2>4. <<>> \in Seq(Byte)
    OBVIOUS
  <2> QED BY <2>1, <2>2, <2>3, <2>4
<1>4. ASSUME NEW m \in T PROVE m + 1 \in T
  <2> SUFFICES ASSUME m + 1 <= Len(p.values)
               PROVE  /\ Parts(p)[m+1].rest \in Seq(Field)
                      /\ Parts(p)[m+1].bytes \in Seq(Byte)
    OBVIOUS
  <2> DEFINE todo == Parts(p)[m].rest
             kind == Head(todo).kind
             v == p.values[m+1]
  <2>1. m \in 0 .. Len(p.values) /\ m # Len(p.values) /\ m + 1 \in 1 .. Len(p.values)
        /\ (m + 1) - 1 = m /\ m <= Len(p.values)
    BY <1>2
  <2>2. todo \in Seq(Field) /\ Parts(p)[m].bytes \in Seq(Byte)
    BY <2>1
  <2>3. todo # <<>> /\ IsValue(kind, v)
    BY <1>1, <2>1 DEF WellFormed
  <2>4. v \in Seq(Int)
    BY <1>2, <2>1
  <2>5. Parts(p)[m+1] = OnePart(Parts(p)[m], v)
    BY <1>1, <2>1, PartsDefined
  <2>6. kind \in Kinds
    <3> HIDE DEF todo
    <3> QED BY <2>2, <2>3, HeadIs
  <2> HIDE DEF v, kind
  <2>7. Encoding(kind, v) \in Seq(Byte) /\ (kind = "list" => v[1] \in Nat)
    BY <2>3, <2>4, <2>6, EncodingIs, WordsAreNumbers
  <2> HIDE DEF todo
  <2>8. After(todo, v) \in Seq(Field)
    BY <2>2, <2>3, <2>4, <2>7, AfterIs DEF kind
  <2>9. Parts(p)[m].bytes \o Encoding(kind, v) \in Seq(Byte)
    BY <2>2, <2>7
  <2>10. OnePart(Parts(p)[m], v).rest = After(todo, v)
         /\ OnePart(Parts(p)[m], v).bytes = Parts(p)[m].bytes \o Encoding(kind, v)
    BY DEF OnePart, todo, kind
  <2> QED BY <2>5, <2>8, <2>9, <2>10
<1>5. n \in T
  <2> HIDE DEF T
  <2>1. T \in SUBSET Nat
    BY DEF T
  <2>2. n \in Nat
    BY <1>2
  <2> QED BY <1>3, <1>4, <2>1, <2>2, Induction
<1> QED BY <1>2, <1>5

\* The bytes of a packet up to its n-th value, and what comes next.
UpTo(p, n) == Parts(p)[n].bytes
RestAt(p, n) == Parts(p)[n].rest
KindAt(p, n) == Head(RestAt(p, n)).kind
ValueAt(p, n) == p.values[n+1]
BytesAt(p, n) == Encoding(KindAt(p, n), ValueAt(p, n))

LEMMA StartIs ==
  ASSUME NEW p \in Packets
  PROVE  /\ Len(p.values) \in Nat
         /\ UpTo(p, 0) = <<>> /\ RestAt(p, 0) = p.layout
         /\ p.layout \in Seq(Field) /\ p.values \in Seq(Seq(Int))
         /\ Whole(p).bytes = UpTo(p, Len(p.values))
         /\ Len(Whole(p).bytes) \in Word
         /\ \A n \in 0 .. Len(p.values) :
              RestAt(p, n) = <<>> <=> n = Len(p.values)
<1>1. p \in Packet /\ WellFormed(p)
  BY CodecAssumption
<1>2. p.layout \in Seq(Field) /\ p.values \in Seq(Seq(Int))
  BY <1>1 DEF Packet
<1>3. Parts(p)[0] = NoPart(p)
  BY <1>1, PartsDefined
<1>4. Len(p.values) \in Nat
  BY <1>2
<1>5. \A n \in 0 .. Len(p.values) : RestAt(p, n) = <<>> <=> n = Len(p.values)
  BY <1>1 DEF WellFormed, RestAt
<1>6. Len(Whole(p).bytes) \in Word
  BY <1>1 DEF WellFormed
<1> QED BY <1>2, <1>3, <1>4, <1>5, <1>6 DEF NoPart, UpTo, RestAt, Whole

LEMMA EndIs ==
  ASSUME NEW p \in Packets, NEW n \in Nat, n <= Len(p.values),
         RestAt(p, n) = <<>>
  PROVE  /\ n = Len(p.values)
         /\ Whole(p).bytes = UpTo(p, n)
         /\ Whole(p).bytes \in Seq(Byte)
<1>1. /\ Len(p.values) \in Nat
      /\ Whole(p).bytes = UpTo(p, Len(p.values))
      /\ \A m \in 0 .. Len(p.values) :
           RestAt(p, m) = <<>> <=> m = Len(p.values)
  BY StartIs
<1>2. n \in 0 .. Len(p.values)
  BY <1>1
<1>3. n = Len(p.values)
  BY <1>1, <1>2
<1>4. UpTo(p, n) \in Seq(Byte)
  BY <1>2, PartIs DEF UpTo
<1> QED BY <1>1, <1>3, <1>4

LEMMA NextIs ==
  ASSUME NEW p \in Packets, NEW n \in Nat, n < Len(p.values)
  PROVE  /\ RestAt(p, n) \in Seq(Field) /\ RestAt(p, n) # <<>>
         /\ KindAt(p, n) \in Kinds
         /\ ValueAt(p, n) \in Seq(Int) /\ IsValue(KindAt(p, n), ValueAt(p, n))
         /\ BytesAt(p, n) \in Seq(Byte) /\ Len(BytesAt(p, n)) \in Nat \ {0}
         /\ RestAt(p, n + 1) = After(RestAt(p, n), ValueAt(p, n))
         /\ Parts(p)[n+1].last = KindAt(p, n)
         /\ UpTo(p, n + 1) = UpTo(p, n) \o BytesAt(p, n)
<1> DEFINE N == Len(p.values)
<1>1. p \in Packet /\ WellFormed(p) /\ N \in Nat /\ p.values \in Seq(Seq(Int))
  BY CodecAssumption, StartIs
<1>2. n \in 0 .. N /\ n # N /\ n + 1 \in 1 .. N /\ (n + 1) - 1 = n
  BY <1>1
<1>3. RestAt(p, n) \in Seq(Field) /\ RestAt(p, n) # <<>>
  BY <1>1, <1>2, PartIs, StartIs DEF RestAt
<1>4. KindAt(p, n) \in Kinds
  BY <1>3, HeadIs DEF KindAt
<1>5. ValueAt(p, n) \in Seq(Int)
  BY <1>1, <1>2 DEF ValueAt
<1>6. IsValue(KindAt(p, n), ValueAt(p, n))
  BY <1>1, <1>2 DEF WellFormed, RestAt, KindAt, ValueAt
<1>7. BytesAt(p, n) \in Seq(Byte) /\ Len(BytesAt(p, n)) \in Nat \ {0}
  BY <1>4, <1>5, <1>6, EncodingIs DEF BytesAt
<1>8. Parts(p)[n+1] = OnePart(Parts(p)[n], ValueAt(p, n))
  BY <1>1, <1>2, PartsDefined DEF ValueAt
<1>9. /\ RestAt(p, n + 1) = After(RestAt(p, n), ValueAt(p, n))
      /\ Parts(p)[n+1].last = KindAt(p, n)
      /\ UpTo(p, n + 1) = UpTo(p, n) \o BytesAt(p, n)
  <2>1. \A x, v : /\ OnePart(x, v).rest = After(x.rest, v)
                  /\ OnePart(x, v).last = Head(x.rest).kind
                  /\ OnePart(x, v).bytes = x.bytes \o Encoding(Head(x.rest).kind, v)
    BY DEF OnePart
  <2> QED BY <1>8, <2>1, Zenon DEF RestAt, KindAt, UpTo, BytesAt
<1> QED BY <1>3, <1>4, <1>5, <1>6, <1>7, <1>9

LEMMA UpToType ==
  ASSUME NEW p \in Packets, NEW n \in 0 .. Len(p.values)
  PROVE  UpTo(p, n) \in Seq(Byte) /\ Len(UpTo(p, n)) \in Nat
BY PartIs, BytesAreNumbers DEF UpTo

\* x is y, or y with more behind it.
Extends(x, y) ==
  /\ Len(y) <= Len(x)
  /\ \A k \in 1 .. Len(y) : x[k] = y[k]

LEMMA UpToExtends ==
  ASSUME NEW p \in Packets, NEW n \in Nat, n < Len(p.values)
  PROVE  /\ Len(UpTo(p, n + 1)) = Len(UpTo(p, n)) + Len(BytesAt(p, n))
         /\ Extends(UpTo(p, n + 1), UpTo(p, n))
         /\ \A k \in 1 .. Len(BytesAt(p, n)) :
              UpTo(p, n + 1)[Len(UpTo(p, n)) + k] = BytesAt(p, n)[k]
<1> DEFINE x == UpTo(p, n)
           y == BytesAt(p, n)
           z == UpTo(p, n + 1)
<1>1. /\ x \in Seq(Byte) /\ Len(x) \in Nat
      /\ y \in Seq(Byte) /\ Len(y) \in Nat \ {0}
      /\ z = x \o y
  <2>1. n \in 0 .. Len(p.values) /\ n + 1 \in 0 .. Len(p.values)
    BY StartIs
  <2>2. x \in Seq(Byte) /\ Len(x) \in Nat
    BY <2>1, UpToType
  <2> QED BY <2>2, NextIs, Zenon
<1> HIDE DEF x, y, z
<1>2. Len(z) = Len(x) + Len(y)
  BY <1>1
<1>3. \A k \in 1 .. Len(x) : z[k] = x[k]
  BY <1>1
<1>4. \A k \in 1 .. Len(y) : z[Len(x) + k] = y[k]
  <2> SUFFICES ASSUME NEW k \in 1 .. Len(y) PROVE z[Len(x) + k] = y[k]
    OBVIOUS
  <2>1. Len(x) + k \in 1 .. Len(x) + Len(y) /\ ~(Len(x) + k <= Len(x))
        /\ (Len(x) + k) - Len(x) = k
    BY <1>1
  <2> QED BY <1>1, <2>1
<1>5. Extends(z, x)
  BY <1>1, <1>2, <1>3 DEF Extends
<1> QED BY <1>2, <1>4, <1>5 DEF x, y, z

\* The whole packet begins with all of them, and is longer but for the last.
LEMMA WholeExtends ==
  ASSUME NEW p \in Packets, NEW n \in 0 .. Len(p.values)
  PROVE  /\ Extends(Whole(p).bytes, UpTo(p, n))
         /\ n < Len(p.values) => Len(UpTo(p, n)) < Len(Whole(p).bytes)
<1> DEFINE N == Len(p.values)
           L(m) == Len(UpTo(p, m))
           G(m) == /\ Extends(UpTo(p, m), UpTo(p, n))
                   /\ n < m => L(n) < L(m)
           T == {m \in Nat : n <= m /\ m <= N => G(m)}
<1>1. N \in Nat /\ n \in Nat /\ L(n) \in Nat
  BY StartIs, UpToType
<1>2. G(n)
  BY <1>1 DEF Extends
<1>3. 0 \in T
  <2>1. n <= 0 => n = 0
    BY <1>1
  <2> HIDE DEF G
  <2> QED BY <1>2, <2>1
<1>4. ASSUME NEW m \in T PROVE m + 1 \in T
  <2> SUFFICES ASSUME n <= m + 1, m + 1 <= N PROVE G(m + 1)
    BY DEF T
  <2>1. CASE n = m + 1
    <3> HIDE DEF G
    <3> QED BY <1>2, <2>1
  <2>2. CASE n # m + 1
    <3>1. m \in Nat /\ n <= m /\ m <= N /\ m < N /\ m \in 0 .. N /\ n < m + 1
      BY <1>1, <2>2
    <3>2. G(m)
      BY <3>1
    <3>3. /\ L(m + 1) = L(m) + Len(BytesAt(p, m))
          /\ Extends(UpTo(p, m + 1), UpTo(p, m))
      BY <3>1, UpToExtends
    <3>4. L(m) \in Nat /\ Len(BytesAt(p, m)) \in Nat \ {0}
      BY <3>1, UpToType, NextIs
    <3> DEFINE x == UpTo(p, m + 1)
               y == UpTo(p, m)
               z == UpTo(p, n)
    <3>5. Len(z) <= Len(y) /\ Len(y) < Len(x) /\ Len(y) \in Nat /\ Len(z) \in Nat
          /\ Len(x) \in Nat
      BY <1>1, <3>2, <3>3, <3>4 DEF Extends
    <3>6. /\ \A k \in 1 .. Len(z) : y[k] = z[k]
          /\ \A k \in 1 .. Len(y) : x[k] = y[k]
      BY <3>2, <3>3 DEF Extends
    <3> HIDE DEF x, y, z
    <3>7. Extends(x, z) /\ Len(z) < Len(x)
      BY <3>5, <3>6 DEF Extends
    <3> QED BY <3>7 DEF x, z
  <2> QED BY <2>1, <2>2
<1>5. G(N)
  <2> HIDE DEF T
  <2>1. T \in SUBSET Nat
    BY DEF T
  <2>2. N \in T
    BY <1>1, <1>3, <1>4, <2>1, Induction
  <2> HIDE DEF G
  <2> QED BY <1>1, <2>2 DEF T
<1> QED BY <1>5, StartIs

-----------------------------------------------------------------------------
(* Sequences that begin with one another.                                  *)

LEMMA ExtendsIs ==
  ASSUME NEW x \in Seq(Byte), NEW y \in Seq(Byte), Extends(x, y)
  PROVE  /\ IsPrefix(y, x)
         /\ Len(x) <= Len(y) => y = x
<1>1. Len(x) \in Nat /\ Len(y) \in Nat /\ Len(y) <= Len(x)
      /\ \A k \in 1 .. Len(y) : x[k] = y[k]
  BY BytesAreNumbers DEF Extends
<1> DEFINE a == SubSeq(y, 1, Len(y))
           b == SubSeq(x, 1, Len(y))
<1>2. a = y
  BY <1>1
<1>3. b \in Seq(Byte) /\ Len(b) = Len(y) /\ \A k \in 1 .. Len(y) : b[k] = x[k]
  BY <1>1
<1> HIDE DEF a, b
<1>4. y = b
  BY <1>1, <1>3
<1>5. IsPrefix(y, x)
  BY <1>1, <1>2, <1>4 DEF IsPrefix, a, b
<1>6. ASSUME Len(x) <= Len(y) PROVE y = x
  BY <1>1, <1>6
<1> QED BY <1>5, <1>6

LEMMA ExtendsChain ==
  ASSUME NEW x \in Seq(Byte), NEW y \in Seq(Byte), NEW z \in Seq(Byte),
         Extends(x, y), Extends(y, z)
  PROVE  Extends(x, z)
<1>1. Len(x) \in Nat /\ Len(y) \in Nat /\ Len(z) \in Nat
  BY BytesAreNumbers
<1>2. /\ Len(y) <= Len(x) /\ Len(z) <= Len(y)
      /\ \A k \in 1 .. Len(y) : x[k] = y[k]
      /\ \A k \in 1 .. Len(z) : y[k] = z[k]
  BY DEF Extends
<1> QED BY <1>1, <1>2 DEF Extends

\* A beginning of y behind x, and anything behind x.
LEMMA ExtendsByPart ==
  ASSUME NEW x \in Seq(Byte), NEW y \in Seq(Byte), NEW n \in 0 .. Len(y)
  PROVE  /\ x \o SubSeq(y, 1, n) \in Seq(Byte)
         /\ Len(x \o SubSeq(y, 1, n)) = Len(x) + n
         /\ Extends(x \o y, x \o SubSeq(y, 1, n))
<1>1. Len(x) \in Nat /\ Len(y) \in Nat
  BY BytesAreNumbers
<1> DEFINE b == SubSeq(y, 1, n)
           s == x \o b
           t == x \o y
<1>2. b \in Seq(Byte) /\ Len(b) = n /\ \A k \in 1 .. n : b[k] = y[k]
  BY <1>1
<1> HIDE DEF b
<1>3. s \in Seq(Byte) /\ Len(s) = Len(x) + n /\ Len(t) = Len(x) + Len(y)
  BY <1>2
<1>4. ASSUME NEW k \in 1 .. Len(s) PROVE t[k] = s[k]
  <2>1. CASE k <= Len(x)
    BY <1>1, <1>2, <1>3, <2>1
  <2>2. CASE ~(k <= Len(x))
    <3>1. k - Len(x) \in 1 .. n /\ k - Len(x) \in 1 .. Len(y)
          /\ k \in 1 .. Len(x) + Len(b) /\ k \in 1 .. Len(x) + Len(y)
      BY <1>1, <1>2, <1>3, <2>2
    <3>2. s[k] = b[k - Len(x)] /\ t[k] = y[k - Len(x)]
      BY <1>1, <1>2, <2>2, <3>1
    <3> QED BY <1>2, <3>1, <3>2
  <2> QED BY <2>1, <2>2
<1> HIDE DEF s, t
<1>5. Extends(t, s)
  BY <1>1, <1>3, <1>4 DEF Extends
<1> QED BY <1>3, <1>5 DEF s, t, b

LEMMA ExtendsByTail ==
  ASSUME NEW x \in Seq(Byte), NEW y \in Seq(Byte)
  PROVE  x \o y \in Seq(Byte) /\ Extends(x \o y, x)
<1>1. Len(x) \in Nat /\ Len(y) \in Nat
  BY BytesAreNumbers
<1>2. Len(x \o y) = Len(x) + Len(y) /\ \A k \in 1 .. Len(x) : (x \o y)[k] = x[k]
  BY <1>1
<1> QED BY <1>1, <1>2 DEF Extends

-----------------------------------------------------------------------------
(* How much of a field its writer writes.                                  *)

\* It is a beginning of the field that there is room for; it is all of it
\* unless there is no room (for one byte more, where write_byte wants it);
\* and of a tag it is all that there is room for.
LEMMA FittingIs ==
  ASSUME NEW kind \in Kinds, NEW v \in Seq(Int), IsValue(kind, v),
         NEW room \in Nat
  PROVE  /\ Fitting(kind, v, room) \in 0 .. Len(Encoding(kind, v))
         /\ Fitting(kind, v, room) <= room
         /\ Fitting(kind, v, room) < Len(Encoding(kind, v)) =>
              /\ room < Len(Encoding(kind, v)) + Spare(kind)
              /\ kind = "network_nbt" => Fitting(kind, v, room) = room
<1> DEFINE n == Len(Encoding(kind, v))
           free == room - Spare(kind)
           f == Fitting(kind, v, room)
<1>1. n \in Nat \ {0}
  BY EncodingIs
<1>2. Spare(kind) \in {0, 1} /\ (kind \in {"var_str", "network_nbt"} => Spare(kind) = 0)
  BY DEF Spare
<1>3. CASE kind \in Fixed
  <2>1. f = IF n <= free THEN n ELSE 0
    BY <1>3, FixedIs DEF Fitting
  <2>2. kind # "network_nbt"
    BY <1>3, FixedIs
  <2> HIDE DEF n, f
  <2> QED BY <1>1, <1>2, <2>1, <2>2 DEF n, f
<1>4. CASE kind = "var_str"
  <2> DEFINE l == Len(Encode(Len(v)))
  <2>1. f = IF n <= room THEN n
            ELSE IF Len(v) < room THEN EncodedLen(Len(v)) ELSE 0
    BY <1>4, FixedIs DEF Fitting
  <2>2. IsValue("var_str", v)
    BY <1>4
  <2>3. Len(v) \in Word /\ Len(v) \in Nat /\ l \in Nat \ {0} /\ n = l + Len(v)
    BY <1>4, <2>2, StringIs
  <2>4. l = EncodedLen(Len(v)) /\ EncodedLen(Len(v)) <= Len(v) + 1
    BY <2>3, EncodeIs, EncodedLenSmall
  <2> HIDE DEF n, f, l
  <2> QED BY <1>1, <1>2, <1>4, <2>1, <2>3, <2>4 DEF n, f
<1>5. CASE kind \notin Fixed \cup {"var_str"}
  <2>1. f = IF free < 0 THEN 0 ELSE AtMost(n, free)
    BY <1>5 DEF Fitting
  <2> HIDE DEF n, f
  <2>2. f = IF free < 0 THEN 0 ELSE IF n < free THEN n ELSE free
    BY <2>1 DEF AtMost
  <2> QED BY <1>1, <1>2, <2>2 DEF n, f
<1> QED BY <1>3, <1>4, <1>5

-----------------------------------------------------------------------------
(* Packets without a tag.                                                  *)

Tagless(todo) ==
  \A k \in 1 .. Len(todo) :
    /\ todo[k].kind # "network_nbt"
    /\ \A j \in 1 .. Len(todo[k].items) : todo[k].items[j] # "network_nbt"

LEMMA TaglessLayout ==
  ASSUME NEW p \in Packets, ~HasTag(p)
  PROVE  Tagless(p.layout)
<1>1. p.layout \in Seq(Field)
  BY StartIs
<1> SUFFICES ASSUME NEW k \in 1 .. Len(p.layout)
             PROVE  /\ p.layout[k].kind # "network_nbt"
                    /\ \A j \in 1 .. Len(p.layout[k].items) :
                         p.layout[k].items[j] # "network_nbt"
  BY DEF Tagless
<1> DEFINE h == p.layout[k]
<1>2. k \in DOMAIN p.layout /\ h \in Field
  BY <1>1
<1>3. "network_nbt" \notin {h.kind} \cup Range(h.items)
  BY <1>2, Zenon DEF HasTag
<1> HIDE DEF h
<1>4. h.items \in Seq(Kinds \ {"list"})
  BY <1>2 DEF Field
<1>5. ASSUME NEW j \in 1 .. Len(h.items) PROVE h.items[j] # "network_nbt"
  <2>1. j \in DOMAIN h.items
    BY <1>4
  <2>2. h.items[j] \in Range(h.items)
    BY <2>1, Zenon DEF Range
  <2> QED BY <1>3, <2>2
<1> QED BY <1>3, <1>5 DEF h

LEMMA TaglessAfter ==
  ASSUME NEW todo \in Seq(Field), todo # <<>>, NEW v \in Seq(Int),
         Head(todo).kind = "list" => v[1] \in Nat, Tagless(todo)
  PROVE  Tagless(After(todo, v))
<1> DEFINE items == Head(todo).items
           l == Len(items)
           item(k) == [kind |-> items[1 + ((k - 1) % l)], items |-> <<>>]
           n == IF Head(todo).kind = "list" THEN Count(v[1]) * l ELSE 0
           s == [k \in 1 .. n |-> item(k)]
           t == Tail(todo)
<1>1. items \in Seq(Kinds \ {"list"}) /\ l \in Nat
  <2>1. items \in Seq(Kinds \ {"list"})
    BY HeadIs
  <2> HIDE DEF items
  <2> QED BY <2>1
<1>2. n \in Nat /\ (l = 0 => n = 0)
  <2>1. Head(todo).kind = "list" => Count(v[1]) \in Nat
    BY CountIs
  <2> HIDE DEF l
  <2> QED BY <1>1, <2>1
<1>3. After(todo, v) = s \o t
  BY DEF After
<1>4. Len(todo) \in Nat \ {0} /\ Head(todo) = todo[1]
  OBVIOUS
<1>5. \A j \in 1 .. l : items[j] # "network_nbt"
  <2>1. 1 \in 1 .. Len(todo)
    BY <1>4
  <2> QED BY <1>4, <2>1 DEF Tagless
<1>6. ASSUME NEW k \in 1 .. n
      PROVE  item(k).kind # "network_nbt" /\ Len(item(k).items) = 0
  <2>1. l \in Nat \ {0} /\ k - 1 \in Nat
    BY <1>1, <1>2
  <2> HIDE DEF l
  <2>2. 1 + ((k - 1) % l) \in 1 .. l
    BY <2>1
  <2> QED BY <1>5, <2>2
<1>7. t \in Seq(Field) /\ Len(t) = Len(todo) - 1
      /\ \A k \in 1 .. Len(t) : t[k] = todo[k + 1]
  OBVIOUS
<1>8. ASSUME NEW k \in 1 .. Len(t)
      PROVE  /\ t[k].kind # "network_nbt"
             /\ \A j \in 1 .. Len(t[k].items) : t[k].items[j] # "network_nbt"
  <2>1. k + 1 \in 1 .. Len(todo) /\ t[k] = todo[k + 1]
    BY <1>4, <1>7
  <2> QED BY <2>1, Zenon DEF Tagless
<1>9. Len(s) = n /\ \A k \in 1 .. n : s[k] = item(k)
  <2> HIDE DEF n, item
  <2> QED BY <1>2
<1>10. s \in Seq(Field)
  <2>1. ASSUME NEW k \in 1 .. n PROVE item(k) \in Field
    <3>1. l \in Nat \ {0} /\ k - 1 \in Nat
      BY <1>1, <1>2
    <3> HIDE DEF l
    <3> DEFINE j == 1 + ((k - 1) % l)
    <3>2. j \in 1 .. l
      BY <3>1
    <3> HIDE DEF j, items
    <3>3. items[j] \in Kinds
      BY <1>1, <3>2 DEF l
    <3> QED BY <3>3 DEF Field, j
  <2> HIDE DEF item, n
  <2> QED BY <1>2, <2>1
<1> HIDE DEF s, t, n, item
<1> DEFINE x == s \o t
<1>11. Len(t) \in Nat /\ Len(x) = n + Len(t)
  <2>1. t \in Seq(Field) /\ Len(s) = n
    BY <1>7, <1>9
  <2>2. Len(t) \in Nat
    BY <2>1
  <2>3. Len(s \o t) = Len(s) + Len(t)
    BY <1>10, <2>1, ConcatProperties
  <2> QED BY <2>1, <2>2, <2>3
<1>12. ASSUME NEW k \in 1 .. Len(x)
       PROVE  /\ x[k].kind # "network_nbt"
              /\ \A j \in 1 .. Len(x[k].items) : x[k].items[j] # "network_nbt"
  <2>1. CASE k <= n
    <3>1. k \in 1 .. n /\ x[k] = item(k)
      BY <1>2, <1>7, <1>9, <1>10, <1>11, <2>1
    <3>2. x[k].kind # "network_nbt" /\ Len(x[k].items) = 0
      BY <1>6, <3>1
    <3> QED BY <3>2
  <2>2. CASE ~(k <= n)
    <3>1. k - n \in 1 .. Len(t) /\ k \in 1 .. Len(s) + Len(t) /\ ~(k <= Len(s))
      BY <1>2, <1>9, <1>11, <2>2
    <3>2. x[k] = t[k - n]
      BY <1>7, <1>9, <1>10, <3>1
    <3> HIDE DEF x
    <3> QED BY <1>8, <3>1, <3>2
  <2> QED BY <2>1, <2>2
<1> HIDE DEF x
<1>13. Tagless(x)
  BY <1>12 DEF Tagless
<1> QED BY <1>3, <1>13 DEF x

LEMMA TaglessRest ==
  ASSUME NEW p \in Packets, ~HasTag(p), NEW n \in Nat, n <= Len(p.values)
  PROVE  Tagless(RestAt(p, n))
<1> DEFINE T == {m \in Nat : m <= Len(p.values) => Tagless(RestAt(p, m))}
<1>1. 0 \in T
  BY StartIs, TaglessLayout
<1>2. ASSUME NEW m \in T PROVE m + 1 \in T
  <2> SUFFICES ASSUME m + 1 <= Len(p.values) PROVE Tagless(RestAt(p, m + 1))
    OBVIOUS
  <2> DEFINE todo == RestAt(p, m)
             v == ValueAt(p, m)
             kind == KindAt(p, m)
  <2>1. m \in Nat /\ m < Len(p.values) /\ Tagless(todo)
    BY StartIs
  <2>2. /\ todo \in Seq(Field) /\ todo # <<>>
        /\ kind \in Kinds /\ v \in Seq(Int) /\ IsValue(kind, v)
        /\ RestAt(p, m + 1) = After(todo, v)
    BY <2>1, NextIs
  <2>3. kind = Head(todo).kind
    BY DEF KindAt
  <2> HIDE DEF todo, v, kind
  <2>4. kind = "list" => v[1] \in Nat
    BY <2>2, EncodingIs, WordsAreNumbers
  <2> QED BY <2>1, <2>2, <2>3, <2>4, TaglessAfter
<1> HIDE DEF T
<1>3. T \in SUBSET Nat
  BY DEF T
<1>4. n \in T
  BY <1>1, <1>2, <1>3, Induction
<1> QED BY <1>4 DEF T

-----------------------------------------------------------------------------
(* The inductive invariant.                                                *)

\* As many values as the fields that are through; the fields left are the
\* packet's.
InStep ==
  /\ Len(values) <= Len(packet.values)
  /\ fields = RestAt(packet, Len(values))

\* The writer is through with the values, but for a full buffer.
WrittenSoFar ==
  phase = "write" =>
    /\ InStep
    /\ Extends(UpTo(packet, Len(values)), buffer)
    /\ Len(buffer) = Len(UpTo(packet, Len(values))) \/ Len(buffer) = max

SentSoFar ==
  phase # "write" =>
    /\ Extends(Whole(packet).bytes, buffer)
    /\ max >= Len(Whole(packet).bytes) + Spare(Whole(packet).last) => Complete

Received ==
  OnTheWire => buf_len = Len(buffer) /\ Extends(mem, buffer)

\* As long as the reader counts every byte it takes, and whatever it counts
\* of a packet sent whole, it takes every field from its place.
Sure == Complete \/ (~uncounted /\ ~HasTag(packet))
Located ==
  OnTheWire /\ Sure =>
    /\ InStep /\ pos <= ptr
    /\ \A k \in 1 .. Len(values) : values[k] = packet.values[k]
    /\ ptr = Len(UpTo(packet, Len(values)))

LastByteCounted ==
  /\ phase \in {"read", "done"} /\ Complete /\ Whole(packet).last = "byte"
  /\ Len(values) = Len(packet.values)
  => pos < ptr

DoneAtEnd == phase = "done" => fields = <<>>

Counted == ~uncounted => pos = ptr

WriterInv == WrittenSoFar /\ SentSoFar
ReaderInv == /\ Received /\ Located /\ LastByteCounted /\ DoneAtEnd
             /\ Counted /\ RefusesLastByte
IInv == TypeOK /\ WriterInv /\ ReaderInv

LEMMA InitKeeps ==
  ASSUME Init
  PROVE  IInv
<1> USE DEF Init
<1>1. packet \in Packets /\ packet.layout \in Seq(Field) /\ <<>> \in Seq(Byte)
      /\ Len(<<>>) = 0 /\ <<>> \in Seq(Seq(Int))
  BY StartIs
<1>2. UpTo(packet, 0) = <<>> /\ RestAt(packet, 0) = packet.layout
      /\ Len(packet.values) \in Nat /\ Len(Whole(packet).bytes) \in Word
  BY <1>1, StartIs
<1>3. max \in Nat
  <2>1. Len(Whole(packet).bytes) \in Nat
    BY <1>2, WordsAreNumbers
  <2> QED BY <2>1
<1>4. TypeOK
  <2>1. buffer \in Seq(Byte) /\ Len(buffer) = 0 /\ mem \in Seq(Byte)
        /\ Len(mem) = 0 /\ values \in Seq(Seq(Int)) /\ fields \in Seq(Field)
    BY <1>1
  <2>2. Len(buffer) <= max /\ pos \in 0 .. buf_len /\ ptr \in 0 .. Len(mem)
        /\ buf_len \in Nat
    BY <1>3, <2>1
  <2> QED BY <1>1, <1>3, <2>1, <2>2, Zenon DEF TypeOK
<1>5. WriterInv
  BY <1>1, <1>2 DEF WriterInv, WrittenSoFar, SentSoFar, InStep, Extends
<1>6. ReaderInv
  BY DEF ReaderInv, Received, Located, LastByteCounted, DoneAtEnd,
         Counted, RefusesLastByte, OnTheWire
<1> QED BY <1>4, <1>5, <1>6 DEF IInv

\* A field written, or the beginning of one.
LEMMA WriteFieldKeeps ==
  ASSUME IInv, WriteField
  PROVE  IInv'
<1> DEFINE p == packet
           N == Len(p.values)
           j == Len(values)
           kind == Head(fields).kind
           v == p.values[j + 1]
           e == Encoding(kind, v)
           room == max - Len(buffer)
           n == Fitting(kind, v, room)
           x == UpTo(p, j)
           y == UpTo(p, j + 1)
           whole == Whole(p)
<1>1. /\ phase = "write" /\ fields # <<>>
      /\ packet \in Packets /\ max \in Nat /\ buffer \in Seq(Byte)
      /\ Len(buffer) \in Nat /\ Len(buffer) <= max
      /\ j \in Nat /\ fields \in Seq(Field) /\ values \in Seq(Seq(Int))
  BY BytesAreNumbers DEF IInv, TypeOK, WriteField
<1>2. /\ j <= N /\ fields = RestAt(p, j) /\ Extends(x, buffer)
      /\ Len(buffer) = Len(x) \/ Len(buffer) = max
  BY <1>1 DEF IInv, WriterInv, WrittenSoFar, InStep
<1>3. N \in Nat /\ j < N
  <2>1. N \in Nat /\ (j = N => RestAt(p, j) = <<>>)
    BY <1>1, <1>2, StartIs
  <2> QED BY <1>1, <1>2, <2>1
<1>4. /\ kind \in Kinds /\ v \in Seq(Int) /\ IsValue(kind, v)
      /\ e \in Seq(Byte) /\ Len(e) \in Nat \ {0}
      /\ RestAt(p, j + 1) = After(fields, v)
      /\ Parts(p)[j+1].last = kind
      /\ y = x \o e
  BY <1>1, <1>2, <1>3, NextIs, Zenon DEF KindAt, ValueAt, BytesAt
<1>5. x \in Seq(Byte) /\ Len(x) \in Nat /\ y \in Seq(Byte) /\ Len(y) \in Nat
  <2>1. j \in 0 .. N /\ j + 1 \in 0 .. N
    BY <1>1, <1>3
  <2> QED BY <1>1, <2>1, UpToType
<1>6. Len(y) = Len(x) + Len(e) /\ Extends(y, x)
  BY <1>1, <1>3, <1>2, UpToExtends DEF BytesAt, KindAt, ValueAt
<1>7. /\ whole.bytes \in Seq(Byte) /\ Len(whole.bytes) \in Nat
      /\ Extends(whole.bytes, y)
      /\ j + 1 < N => Len(y) < Len(whole.bytes)
      /\ j + 1 = N => whole.bytes = y /\ whole.last = kind
  <2>1. j + 1 \in 0 .. N /\ N \in 0 .. N
    BY <1>1, <1>3
  <2>2. whole.bytes = UpTo(p, N)
    BY <1>1, StartIs
  <2>3. whole.bytes \in Seq(Byte) /\ Len(whole.bytes) \in Nat
    BY <1>1, <2>1, <2>2, UpToType
  <2>4. Extends(whole.bytes, y) /\ (j + 1 < N => Len(y) < Len(whole.bytes))
    BY <1>1, <2>1, WholeExtends
  <2>5. j + 1 = N => whole.last = kind
    BY <1>4 DEF Whole
  <2> QED BY <2>2, <2>3, <2>4, <2>5
<1>8. /\ n \in 0 .. Len(e) /\ n <= room
      /\ n < Len(e) => /\ room < Len(e) + Spare(kind)
                       /\ kind = "network_nbt" => n = room
  <2>1. room \in Nat
    BY <1>1
  <2> HIDE DEF kind, v, room
  <2> QED BY <1>4, <2>1, FittingIs
<1>9. /\ buffer' = buffer \o SubSeq(e, 1, n)
      /\ IF n = Len(e) \/ kind = "network_nbt"
         THEN fields' = After(fields, v) /\ values' = Append(values, v)
              /\ phase' = phase
         ELSE phase' = "send" /\ fields' = fields /\ values' = values
      /\ packet' = packet /\ max' = max /\ mem' = mem /\ buf_len' = buf_len
      /\ pos' = pos /\ ptr' = ptr /\ uncounted' = uncounted
  BY DEF WriteField, receiver
<1>10. buffer' \in Seq(Byte) /\ Len(buffer') = Len(buffer) + n
  BY <1>1, <1>4, <1>8, <1>9, ExtendsByPart
<1>11. Extends(y, buffer')
  <2>1. CASE Len(buffer) = Len(x)
    <3>1. buffer = x
      BY <1>1, <1>2, <1>5, <2>1, ExtendsIs
    <3> HIDE DEF x, y, e, n
    <3> QED BY <1>4, <1>5, <1>8, <1>9, <3>1, ExtendsByPart
  <2>2. CASE Len(buffer) # Len(x)
    <3>1. room = 0 /\ n = 0
      BY <1>1, <1>2, <1>8, <2>2
    <3>2. Len(buffer') = Len(buffer) /\ Extends(y, buffer)
      BY <1>1, <1>2, <1>5, <1>6, <1>10, <3>1, ExtendsChain
    <3>3. Extends(buffer \o e, buffer')
      BY <1>1, <1>4, <1>8, <1>9, ExtendsByPart
    <3>4. Extends(buffer \o e, buffer) /\ buffer \o e \in Seq(Byte)
      BY <1>1, <1>4, ExtendsByTail
    <3>5. buffer' = buffer
      <4> DEFINE b == buffer \o e
      <4> HIDE DEF b
      <4>1. /\ \A k \in 1 .. Len(buffer) : b[k] = buffer[k]
            /\ \A k \in 1 .. Len(buffer') : b[k] = buffer'[k]
        BY <3>3, <3>4 DEF Extends, b
      <4> QED BY <1>1, <1>10, <3>2, <4>1
    <3> QED BY <3>2, <3>5
  <2> QED BY <2>1, <2>2
<1>12. Len(buffer') = Len(y) \/ Len(buffer') = max \/ n < Len(e)
  BY <1>1, <1>2, <1>5, <1>6, <1>8, <1>10
<1>13. CASE n = Len(e) \/ kind = "network_nbt"
  <2>1. /\ phase' = "write" /\ fields' = After(fields, v)
        /\ values' = Append(values, v)
    BY <1>1, <1>9, <1>13
  <2>2. /\ values' \in Seq(Seq(Int)) /\ Len(values') = j + 1
        /\ fields' = RestAt(p, j + 1)
    BY <1>1, <1>4, <2>1
  <2>3. fields' \in Seq(Field)
    <3>1. kind = "list" => v[1] \in Nat
      <4> HIDE DEF kind, v
      <4> QED BY <1>4, EncodingIs, WordsAreNumbers
    <3> HIDE DEF v
    <3> QED BY <1>1, <1>4, <2>1, <3>1, AfterIs
  <2>4. Len(buffer') = Len(y) \/ Len(buffer') = max
    <3>1. n < Len(e) => n = room
      BY <1>8, <1>13
    <3> QED BY <1>1, <1>8, <1>10, <1>12, <3>1
  <2>5. Len(buffer') <= max
    BY <1>1, <1>8, <1>10
  <2> HIDE DEF e, n, kind, v, x, room
  <2>6. TypeOK'
    <3>1. TypeOK
      BY DEF IInv
    <3> QED BY <1>1, <1>9, <1>10, <2>1, <2>2, <2>3, <2>5, <3>1 DEF TypeOK
  <2>7. WrittenSoFar'
    <3>1. Len(values') = j + 1 /\ packet' = p /\ j + 1 <= N
      BY <1>1, <1>3, <1>9, <2>2
    <3>2. Len(values') <= Len(packet'.values)
          /\ fields' = RestAt(packet', Len(values'))
          /\ UpTo(packet', Len(values')) = y
      BY <2>2, <3>1
    <3> HIDE DEF y
    <3> QED BY <1>9, <1>11, <2>4, <3>2 DEF WrittenSoFar, InStep
  <2>8. SentSoFar' /\ ReaderInv'
    <3>1. Counted'
      BY <1>9 DEF IInv, ReaderInv, Counted
    <3> QED BY <2>1, <3>1
            DEF SentSoFar, ReaderInv, Received, Located, LastByteCounted,
                DoneAtEnd, RefusesLastByte, OnTheWire
  <2> QED BY <2>6, <2>7, <2>8 DEF IInv, WriterInv
<1>14. CASE ~(n = Len(e) \/ kind = "network_nbt")
  <2>1. phase' = "send" /\ fields' = fields /\ values' = values
    BY <1>9, <1>14
  <2>2. room < Len(e) + Spare(kind) /\ n < Len(e)
    BY <1>4, <1>8, <1>14
  <2>3. Extends(whole.bytes, buffer')
    BY <1>5, <1>7, <1>10, <1>11, ExtendsChain
  <2>4. max < Len(whole.bytes) + Spare(whole.last)
    <3>1. Spare(kind) \in {0, 1} /\ Spare(whole.last) \in {0, 1}
      BY DEF Spare
    <3>2. max < Len(y) + Spare(kind)
      <4>1. CASE Len(buffer) = Len(x)
        BY <1>1, <1>5, <1>6, <2>2, <3>1, <4>1
      <4>2. CASE Len(buffer) # Len(x)
        <5>1. Len(buffer) = max /\ Len(buffer) <= Len(x)
          BY <1>2, <4>2 DEF Extends
        <5> QED BY <1>1, <1>4, <1>5, <1>6, <3>1, <5>1
      <4> QED BY <4>1, <4>2
    <3> HIDE DEF kind, y, whole
    <3>3. CASE j + 1 = N
      BY <1>7, <3>2, <3>3
    <3>4. CASE j + 1 < N
      BY <1>1, <1>5, <1>7, <3>1, <3>2, <3>4
    <3> QED BY <1>1, <1>3, <3>3, <3>4
  <2>5. Len(buffer') <= max
    BY <1>1, <1>8, <1>10
  <2> HIDE DEF e, n, kind, v, x, y, room
  <2>6. TypeOK'
    <3>1. TypeOK
      BY DEF IInv
    <3> QED BY <1>1, <1>9, <1>10, <2>1, <2>5, <3>1 DEF TypeOK
  <2>7. SentSoFar'
    <3>1. ~(max >= Len(whole.bytes) + Spare(whole.last))
      <4>1. Spare(whole.last) \in {0, 1}
        BY DEF Spare
      <4> HIDE DEF whole
      <4> QED BY <1>1, <1>7, <2>4, <4>1
    <3> QED BY <1>9, <2>3, <3>1 DEF SentSoFar
  <2>8. WrittenSoFar' /\ ReaderInv'
    <3>1. Counted'
      BY <1>9 DEF IInv, ReaderInv, Counted
    <3> QED BY <2>1, <3>1
            DEF WrittenSoFar, ReaderInv, Received, Located, LastByteCounted,
                DoneAtEnd, RefusesLastByte, OnTheWire
  <2> QED BY <2>6, <2>7, <2>8 DEF IInv, WriterInv
<1> QED BY <1>13, <1>14

LEMMA AllWrittenKeeps ==
  ASSUME IInv, AllWritten
  PROVE  IInv'
<1> DEFINE N == Len(packet.values)
           j == Len(values)
           whole == Whole(packet)
<1>1. /\ phase = "write" /\ fields = <<>> /\ phase' = "send"
      /\ packet' = packet /\ max' = max /\ buffer' = buffer /\ mem' = mem
      /\ buf_len' = buf_len /\ pos' = pos /\ ptr' = ptr
      /\ fields' = fields /\ values' = values /\ uncounted' = uncounted
  BY DEF AllWritten, sender, receiver
<1>2. /\ packet \in Packets /\ max \in Nat /\ buffer \in Seq(Byte)
      /\ Len(buffer) \in Nat /\ Len(buffer) <= max /\ j \in Nat
  BY BytesAreNumbers DEF IInv, TypeOK
<1>3. /\ j <= N /\ fields = RestAt(packet, j)
      /\ Extends(UpTo(packet, j), buffer)
      /\ Len(buffer) = Len(UpTo(packet, j)) \/ Len(buffer) = max
  BY <1>1 DEF IInv, WriterInv, WrittenSoFar, InStep
<1>4. j = N /\ N \in Nat
  BY <1>1, <1>2, <1>3, StartIs
<1>5. /\ whole.bytes = UpTo(packet, j) /\ whole.bytes \in Seq(Byte)
      /\ Len(whole.bytes) \in Nat
  <2>1. N \in 0 .. N
    BY <1>4
  <2> QED BY <1>2, <1>4, <2>1, StartIs, UpToType
<1> HIDE DEF whole
<1>6. ASSUME max >= Len(whole.bytes) + Spare(whole.last)
      PROVE  buffer = whole.bytes
  <2>1. Spare(whole.last) \in {0, 1}
    BY DEF Spare
  <2>2. Len(whole.bytes) <= Len(buffer)
    BY <1>2, <1>3, <1>5, <1>6, <2>1
  <2> QED BY <1>2, <1>3, <1>5, <2>2, ExtendsIs
<1>7. TypeOK'
  <2>1. TypeOK
    BY DEF IInv
  <2> QED BY <1>1, <2>1 DEF TypeOK
<1>8. SentSoFar'
  BY <1>1, <1>3, <1>5, <1>6 DEF SentSoFar, Complete, whole
<1>9. WrittenSoFar' /\ ReaderInv'
  <2>1. Counted'
    BY <1>1 DEF IInv, ReaderInv, Counted
  <2> QED BY <1>1, <2>1
          DEF WrittenSoFar, ReaderInv, Received, Located, LastByteCounted,
              DoneAtEnd, RefusesLastByte, OnTheWire
<1> QED BY <1>7, <1>8, <1>9 DEF IInv, WriterInv

\* The length in front of the packet is that of its bytes.
LEMMA ReceiveKeeps ==
  ASSUME IInv, Receive
  PROVE  IInv'
<1> DEFINE N == Len(packet.values)
           whole == Whole(packet)
<1>1. PICK tail \in Tails : mem' = buffer \o tail
  BY DEF Receive
<1>2. /\ phase = "send" /\ phase' = "read" /\ uncounted' = uncounted
      /\ buf_len' = VarIntValue(Header, Len(Header))
      /\ pos' = 0 /\ ptr' = 0 /\ fields' = packet.layout /\ values' = <<>>
      /\ packet' = packet /\ max' = max /\ buffer' = buffer
  BY DEF Receive, sender
<1>3. /\ packet \in Packets /\ max \in Nat /\ buffer \in Seq(Byte)
      /\ Len(buffer) \in Nat /\ Len(buffer) <= max /\ tail \in Seq(Byte)
  BY BytesAreNumbers, CodecAssumption DEF IInv, TypeOK
<1>4. /\ Extends(whole.bytes, buffer)
      /\ max >= Len(whole.bytes) + Spare(whole.last) => Complete
  BY <1>2 DEF IInv, WriterInv, SentSoFar
<1>5. /\ N \in Nat /\ UpTo(packet, 0) = <<>>
      /\ RestAt(packet, 0) = packet.layout /\ packet.layout \in Seq(Field)
      /\ Len(whole.bytes) \in Word
      /\ (N = 0 => whole.last = "none")
  <2>1. Parts(packet)[0].last = "none"
    <3>1. packet \in Packet
      BY <1>3, CodecAssumption
    <3>2. Parts(packet)[0] = NoPart(packet)
      BY <3>1, PartsDefined
    <3>3. NoPart(packet).last = "none"
      BY DEF NoPart
    <3> QED BY <3>2, <3>3
  <2> QED BY <1>3, <2>1, StartIs DEF Whole
<1>6. buf_len' = Len(buffer)
  <2>1. Len(buffer) \in Word
    <3>1. Len(buffer) <= Len(whole.bytes)
      BY <1>4 DEF Extends
    <3> HIDE DEF whole
    <3> QED BY <1>3, <1>5, <3>1, WordsAreNumbers DEF Word
  <2>2. Len(Header) = EncodedLen(Len(buffer)) /\ Header \in Seq(Byte)
    BY <2>1, EncodeIs DEF Header
  <2>3. Len(Header) \in Nat
    BY <2>2, BytesAreNumbers
  <2>4. VarIntValue(Header, EncodedLen(Len(buffer))) = Len(buffer)
    BY <2>1, <2>2, <2>3, ReadsNumber DEF Header
  <2> QED BY <1>2, <2>2, <2>4
<1>7. mem' \in Seq(Byte) /\ Extends(mem', buffer)
  BY <1>1, <1>3, ExtendsByTail
<1>8. TypeOK'
  <2>1. Len(mem') \in Nat
    BY <1>7, BytesAreNumbers
  <2>2. <<>> \in Seq(Seq(Int))
    OBVIOUS
  <2>3. TypeOK
    BY DEF IInv
  <2> HIDE DEF whole
  <2> QED BY <1>2, <1>3, <1>5, <1>6, <1>7, <2>1, <2>2, <2>3 DEF TypeOK
<1>9. WriterInv'
  BY <1>2, <1>4 DEF WriterInv, WrittenSoFar, SentSoFar, Complete
<1>10. Len(values') = 0
  BY <1>2
<1>11. Received'
  BY <1>2, <1>6, <1>7 DEF Received
<1>12. Located'
  <2>1. Len(UpTo(packet, 0)) = 0
    BY <1>5
  <2>2. InStep'
    BY <1>2, <1>5, <1>10 DEF InStep
  <2>3. pos' <= ptr'
    BY <1>2
  <2> QED BY <1>2, <1>10, <2>1, <2>2, <2>3 DEF Located
<1>13. LastByteCounted'
  BY <1>2, <1>5, <1>10 DEF LastByteCounted
<1>14. DoneAtEnd' /\ Counted' /\ RefusesLastByte'
  BY <1>2 DEF DoneAtEnd, Counted, RefusesLastByte
<1> QED BY <1>8, <1>9, <1>11, <1>12, <1>13, <1>14 DEF IInv, ReaderInv

-----------------------------------------------------------------------------
(* What the reader does with a field, whatever the bytes are.              *)

LEMMA AheadIs ==
  ASSUME TypeOK
  PROVE  /\ Ahead \in Seq(Byte) /\ Len(Ahead) = Len(mem) - ptr
         /\ Len(Ahead) \in Nat /\ Left \in Nat
         /\ \A k \in 1 .. Len(Ahead) : Ahead[k] = mem[ptr + k]
         /\ Window \in Seq(Byte) /\ Len(Window) \in Nat
         /\ Len(Window) = IF Left < Len(Ahead) THEN Left ELSE Len(Ahead)
         /\ \A k \in 1 .. Len(Window) : Window[k] = Ahead[k]
<1>1. /\ mem \in Seq(Byte) /\ Len(mem) \in Nat /\ ptr \in Nat /\ ptr <= Len(mem)
      /\ buf_len \in Nat /\ pos \in 0 .. buf_len
  BY BytesAreNumbers DEF TypeOK
<1>2. Left \in Nat
  BY <1>1 DEF Left
<1> DEFINE l == Len(mem) - ptr
<1>3. l \in Nat /\ ptr + l = Len(mem)
  BY <1>1
<1>4. /\ Ahead \in Seq(Byte) /\ Len(Ahead) = l
      /\ \A k \in 1 .. l : Ahead[k] = mem[ptr + k]
  <2>1. Ahead = SubSeq(mem, ptr + 1, ptr + l)
    BY <1>3 DEF Ahead
  <2> HIDE DEF l
  <2> QED BY <1>1, <1>3, <2>1, PieceIs
<1> DEFINE w == AtMost(Left, Len(Ahead))
<1>5. w = IF Left < Len(Ahead) THEN Left ELSE Len(Ahead)
  BY DEF AtMost
<1> HIDE DEF w, l
<1>6. w \in Nat /\ 0 + w <= Len(Ahead) /\ 0 + w = w
  BY <1>2, <1>3, <1>4, <1>5
<1>7. /\ Window \in Seq(Byte) /\ Len(Window) = w
      /\ \A k \in 1 .. w : Window[k] = Ahead[k]
  <2>1. Window = SubSeq(Ahead, 0 + 1, 0 + w)
    BY <1>6 DEF Window, w
  <2> HIDE DEF Ahead, Window
  <2>2. /\ Window \in Seq(Byte) /\ Len(Window) = w
        /\ \A k \in 1 .. w : Window[k] = Ahead[0 + k]
    BY <1>4, <1>6, <2>1, PieceIs
  <2> QED BY <1>6, <2>2
<1> QED BY <1>2, <1>3, <1>4, <1>5, <1>6, <1>7 DEF l

\* Some bytes were taken as the value of the field, and some counted.
Took(n, counted, v) ==
  /\ ptr' = ptr + n
  /\ pos' = IF values = <<>> /\ packet.callback THEN 0 ELSE pos + counted
  /\ fields' = After(fields, v)
  /\ values' = Append(values, v)
  /\ uncounted' = (uncounted \/ pos' # pos + n)
  /\ phase' = phase

Within(n, counted, v) ==
  /\ n \in Int /\ counted \in Nat /\ v \in Seq(Int)
  /\ 0 <= ptr + n /\ n <= Len(Ahead) /\ pos + counted <= buf_len
  /\ Head(fields).kind = "list" => v[1] \in Nat

\* More bytes were taken than counted.
LosesCount == \E n \in Nat, c \in Nat : \E v : c < n /\ Took(n, c, v)

LEMMA AcceptIs ==
  ASSUME NEW n, NEW counted, NEW v, Accept(v, n, counted)
  PROVE  \/ GoAstray /\ (n > Len(Ahead) \/ ptr + n < 0)
         \/ Took(n, counted, v) /\ ~(n > Len(Ahead)) /\ ~(ptr + n < 0)
<1>1. CASE n > Len(Ahead) \/ ptr + n < 0
  BY <1>1, Zenon DEF Accept
<1>2. CASE ~(n > Len(Ahead)) /\ ~(ptr + n < 0)
  BY <1>2, Zenon DEF Accept, Took
<1> QED BY <1>1, <1>2

TakesField ==
  \E n, counted, v : Took(n, counted, v) /\ Within(n, counted, v)

LEMMA AcceptTakes ==
  ASSUME TypeOK, NEW n \in Int, NEW counted \in Nat, NEW v \in Seq(Int),
         Accept(v, n, counted), pos + counted <= buf_len,
         Head(fields).kind = "list" => v[1] \in Nat
  PROVE  GoAstray \/ TakesField
<1>1. CASE GoAstray
  BY <1>1
<1>2. CASE Took(n, counted, v) /\ ~(n > Len(Ahead)) /\ ~(ptr + n < 0)
  <2>1. n <= Len(Ahead) /\ 0 <= ptr + n
    <3>1. Len(Ahead) \in Nat /\ ptr \in Int
      BY AheadIs DEF TypeOK
    <3> HIDE DEF Ahead
    <3> QED BY <1>2, <3>1
  <2>2. Within(n, counted, v)
    BY <2>1 DEF Within
  <2> QED BY <1>2, <2>2 DEF TakesField
<1> QED BY <1>1, <1>2, AcceptIs

LEMMA ReadFieldIs ==
  ASSUME TypeOK, ReadField
  PROVE  Refuse \/ GoAstray \/ TakesField
<1> DEFINE kind == Head(fields).kind
<1>1. /\ Ahead \in Seq(Byte) /\ Len(Ahead) \in Nat /\ Left \in Nat
      /\ Window \in Seq(Byte) /\ Len(Window) \in Nat
      /\ Len(Window) <= Left /\ Len(Window) <= Len(Ahead)
  BY AheadIs
<1>2. pos \in Nat /\ buf_len \in Nat /\ Left = buf_len - pos
  BY DEF TypeOK, Left
<1> HIDE DEF Left
<1>3. CASE kind \in Fixed /\ ReadFixed(kind)
  <2> DEFINE m == AtMost(Size[kind], Len(Ahead))
             u == FromBytes(SubSeq(Ahead, 1, m))
  <2>1. Size[kind] \in Nat \ {0} /\ kind # "list"
    BY <1>3, FixedIs
  <2>2. u \in Int
    <3>1. m \in Nat /\ 0 + m <= Len(Ahead) /\ 0 + m = m
      BY <1>1, <2>1 DEF AtMost
    <3> DEFINE s == SubSeq(Ahead, 0 + 1, 0 + m)
    <3>2. s \in Seq(Byte)
      <4> HIDE DEF m
      <4> QED BY <1>1, <3>1, PieceIs
    <3>3. u = FromBytes(s)
      BY <3>1
    <3> HIDE DEF s
    <3>4. FromBytes(s) \in Int
      <4>1. PICK f : f \in [0 .. Len(s) -> Int] /\ FromBytes(s) = f[Len(s)]
        BY <3>2, FromBytesIs
      <4>2. Len(s) \in 0 .. Len(s)
        BY <3>2, BytesAreNumbers
      <4> QED BY <4>1, <4>2
    <3> QED BY <3>3, <3>4
  <2> HIDE DEF u
  <2> DEFINE w == FixedValue(kind, u)
  <2>3. w \in Seq(Int)
    BY <1>3, <2>2, FixedValueType
  <2>4. CASE ~Enough(kind) \/ (kind = "bool" /\ u > 1)
    BY <1>3, <2>4, Zenon DEF ReadFixed, u
  <2>5. CASE ~(~Enough(kind) \/ (kind = "bool" /\ u > 1))
    <3>1. Accept(w, Size[kind], Size[kind]) /\ Enough(kind)
      BY <1>3, <2>5, Zenon DEF ReadFixed, u, w
    <3>2. pos + Size[kind] <= buf_len
      BY <1>1, <1>2, <2>1, <3>1 DEF Enough
    <3>3. Size[kind] \in Int /\ Size[kind] \in Nat
      BY <2>1
    <3> HIDE DEF w, kind
    <3> QED BY <2>1, <2>3, <3>1, <3>2, <3>3, AcceptTakes DEF kind
  <2> QED BY <2>4, <2>5
<1>4. CASE kind \in {"var_int", "list"} /\ ReadVarInt
  <2> DEFINE n == VarIntLen(Window)
             v == VarIntValue(Window, n)
  <2>1. n \in 0 .. Len(Window)
    BY <1>1, VarIntLenType
  <2>2. v \in Nat
    BY <1>1, <2>1, VarIntValueType, WordsAreNumbers
  <2>3. CASE n = 0
    BY <1>4, <2>3, Zenon DEF ReadVarInt, NoNumber
  <2>4. CASE n # 0
    <3>1. Accept(<<v>>, n, n)
      BY <1>4, <2>4, Zenon DEF ReadVarInt
    <3> HIDE DEF n, v, kind
    <3>2. n \in Nat /\ n \in Int /\ <<v>> \in Seq(Int) /\ <<v>>[1] \in Nat
          /\ pos + n <= buf_len
      BY <1>1, <1>2, <2>1, <2>2
    <3> QED BY <3>1, <3>2, AcceptTakes
  <2> QED BY <2>3, <2>4
<1>5. CASE kind = "var_long" /\ ReadVarLong
  <2> DEFINE n == VarLong!VarIntLen(Window)
             v == VarLong!VarIntValue(Window, n)
  <2>1. n \in 0 .. Len(Window)
    BY <1>1, VarLongType
  <2>2. v \in Int
    BY <1>1, <2>1, VarLongType
  <2>3. CASE n = 0
    BY <1>5, <2>3, Zenon DEF ReadVarLong, NoNumber
  <2>4. CASE n # 0
    <3>1. Accept(<<v>>, n, n) /\ kind # "list"
      BY <1>5, <2>4, Zenon DEF ReadVarLong
    <3> HIDE DEF n, v
    <3>2. n \in Nat /\ n \in Int /\ <<v>> \in Seq(Int)
          /\ pos + n <= buf_len
      BY <1>1, <1>2, <2>1, <2>2
    <3> QED BY <3>1, <3>2, AcceptTakes
  <2> QED BY <2>3, <2>4
<1>6. CASE kind = "var_str" /\ ReadString
  <2> DEFINE n == VarIntLen(Window)
             len == Signed(VarIntValue(Window, n), WordBits)
             w == SubSeq(Ahead, n + 1, n + len)
  <2>1. n \in 0 .. Len(Window)
    BY <1>1, VarIntLenType
  <2>2. len \in Int
    <3>1. VarIntValue(Window, n) \in Nat
      BY <1>1, <2>1, VarIntValueType, WordsAreNumbers
    <3> QED BY <3>1, CountIs
  <2>3. CASE n = 0
    BY <1>6, <2>3, Zenon DEF ReadString, NoNumber
  <2>4. CASE n # 0
    <3>1. Accept(w, n + len, n) /\ kind # "list"
      BY <1>6, <2>4, Zenon DEF ReadString
    <3> HIDE DEF n, len
    <3>2. n + len \in Int /\ n \in Nat /\ pos + n <= buf_len
      BY <1>1, <1>2, <2>1, <2>2
    <3>3. CASE n + len > Len(Ahead)
      BY <3>1, <3>3, AcceptIs
    <3>4. CASE n + len <= Len(Ahead)
      <4>1. w \in Seq(Byte)
        <5>1. CASE len >= 0
          BY <1>1, <2>1, <2>2, <3>4, <5>1, PieceIs
        <5>2. CASE len < 0
          <6>1. n + 1 \in Int /\ n + len \in Int /\ n + len < n + 1
            BY <2>2, <3>2, <5>2
          <6>2. w = <<>>
            BY <6>1, SubSeqEmpty
          <6> HIDE DEF w
          <6> QED BY <6>2
        <5> QED BY <2>2, <5>1, <5>2
      <4>2. w \in Seq(Int)
        <5> HIDE DEF w
        <5> QED BY <4>1, BytesAreNumbers
      <4> HIDE DEF w
      <4> QED BY <3>1, <3>2, <4>2, AcceptTakes
    <3> QED BY <1>1, <3>2, <3>3, <3>4
  <2> QED BY <2>3, <2>4
<1>7. CASE kind = "network_nbt" /\ ReadNBT
  <2> DEFINE n == Head(Window) + 1
             w == Len(Window)
  <2>1. CASE w > 0 /\ n <= w
    <3>1. Accept(SubSeq(Window, 2, n), n, n) /\ kind # "list"
      BY <1>7, <2>1, Zenon DEF ReadNBT
    <3>2. Head(Window) \in Nat
      <4> HIDE DEF Window
      <4>1. Window # <<>>
        BY <2>1
      <4>2. Head(Window) \in Byte
        BY <1>1, <4>1
      <4> QED BY <4>2, BytesAreNumbers
    <3> DEFINE l == Head(Window)
    <3>3. SubSeq(Window, 1 + 1, 1 + l) \in Seq(Byte) /\ l \in Nat
      <4> HIDE DEF Window
      <4> QED BY <1>1, <2>1, <3>2, PieceIs
    <3>4. SubSeq(Window, 2, n) \in Seq(Byte)
      <4>1. 1 + 1 = 2 /\ 1 + l = n
        BY <3>2
      <4> QED BY <3>3, <4>1
    <3>5. SubSeq(Window, 2, n) \in Seq(Int)
      <4> DEFINE s == SubSeq(Window, 2, n)
      <4>1. s \in Seq(Byte)
        BY <3>4
      <4>2. s \in Seq(Int)
        <5> HIDE DEF s
        <5> QED BY <4>1, BytesAreNumbers
      <4> QED BY <4>2
    <3>6. n \in Nat /\ n \in Int /\ pos + n <= buf_len
      <4> HIDE DEF Window
      <4> QED BY <1>1, <1>2, <2>1, <3>2
    <3> HIDE DEF n
    <3> QED BY <3>1, <3>5, <3>6, AcceptTakes
  <2>2. CASE ~(w > 0 /\ n <= w) /\ w < Left
    BY <1>7, <2>2, Zenon DEF ReadNBT
  <2>3. CASE ~(w > 0 /\ n <= w) /\ ~(w < Left)
    <3>1. Accept(<<>>, w, w) /\ kind # "list"
      BY <1>7, <2>3, Zenon DEF ReadNBT
    <3>2. w \in Nat /\ w \in Int /\ pos + w <= buf_len /\ <<>> \in Seq(Int)
      <4> HIDE DEF Window
      <4> QED BY <1>1, <1>2
    <3> HIDE DEF w
    <3> QED BY <3>1, <3>2, AcceptTakes
  <2> QED BY <2>1, <2>2, <2>3
<1> QED BY <1>3, <1>4, <1>5, <1>6, <1>7, Zenon DEF ReadField

-----------------------------------------------------------------------------
(* What the reader does with the bytes of a field.                         *)

\* A number found in a window that begins like the field.
LEMMA WindowAgrees ==
  ASSUME TypeOK, NEW e \in Seq(Byte),
         \A k \in 1 .. Len(e) : k <= Len(Ahead) /\ k <= Left => Ahead[k] = e[k]
  PROVE  Agrees(Window, e)
<1>1. /\ Window \in Seq(Byte) /\ Len(Window) \in Nat /\ Len(Ahead) \in Nat
      /\ Len(Window) <= Left /\ Len(Window) <= Len(Ahead) /\ Left \in Nat
      /\ \A k \in 1 .. Len(Window) : Window[k] = Ahead[k]
  BY AheadIs
<1>2. Len(e) \in Nat
  BY BytesAreNumbers
<1> HIDE DEF Window, Left, Ahead
<1>3. ASSUME NEW k \in 1 .. Len(e), k <= Len(Window) PROVE Window[k] = e[k]
  <2>1. k \in 1 .. Len(Window) /\ k <= Len(Ahead) /\ k <= Left
    BY <1>1, <1>2, <1>3
  <2> QED BY <1>1, <2>1
<1> QED BY <1>3 DEF Agrees

\* All of the field is there: it is read for what it is, except a byte that
\* is the last the reader has not counted.
LEMMA ReadsWhole ==
  ASSUME TypeOK, ReadField, NEW v \in Seq(Int), NEW kind \in Kinds,
         kind = Head(fields).kind, IsValue(kind, v),
         Left >= Len(Encoding(kind, v)), Extends(Ahead, Encoding(kind, v))
  PROVE  \/ \E c \in 0 .. Len(Encoding(kind, v)) :
              /\ Took(Len(Encoding(kind, v)), c, v)
              /\ kind = "byte" => Left >= 2 /\ Len(Encoding(kind, v)) = 1
         \/ kind = "byte" /\ Left < 2 /\ Refuse
<1> DEFINE e == Encoding(kind, v)
           l == Len(e)
<1>1. /\ Ahead \in Seq(Byte) /\ Len(Ahead) \in Nat /\ Left \in Nat
      /\ Window \in Seq(Byte) /\ Len(Window) \in Nat
      /\ Len(Window) = IF Left < Len(Ahead) THEN Left ELSE Len(Ahead)
      /\ \A k \in 1 .. Len(Window) : Window[k] = Ahead[k]
  BY AheadIs
<1>2. /\ e \in Seq(Byte) /\ l \in Nat \ {0}
      /\ kind \in Fixed => l = Size[kind]
      /\ kind \in {"var_int", "list"} => /\ v = <<v[1]>> /\ v[1] \in Word
                                         /\ e = Encode(v[1])
      /\ kind = "var_long" => /\ v = <<v[1]>> /\ v[1] \in VarLong!Word
                              /\ e = VarLong!Encode(v[1])
  BY EncodingIs
<1>3. l <= Len(Ahead) /\ \A k \in 1 .. l : Ahead[k] = e[k]
  BY DEF Extends
<1>4. Agrees(Window, e)
  <2> HIDE DEF e
  <2> QED BY <1>2, <1>3, WindowAgrees
<1>5. l <= Len(Window) /\ l <= Left
  <2> HIDE DEF e
  <2> QED BY <1>1, <1>2, <1>3 DEF e
<1> HIDE DEF Window, Ahead, Left, e
<1>6. ASSUME NEW n, NEW c, NEW w, Accept(w, n, c), n = l
      PROVE  Took(l, c, v) \/ w # v
  <2>1. ~(n > Len(Ahead)) /\ ~(ptr + n < 0)
    <3>1. ptr \in Nat
      BY DEF TypeOK
    <3> QED BY <1>1, <1>2, <1>3, <1>6, <3>1
  <2> QED BY <1>6, <2>1, AcceptIs
<1>7. CASE kind \in Fixed /\ ReadFixed(kind)
  <2> DEFINE s == SubSeq(Ahead, 0 + 1, 0 + l)
  <2>1. s \in Seq(Byte) /\ Len(s) = l /\ \A k \in 1 .. l : s[k] = Ahead[0 + k]
    BY <1>1, <1>2, <1>3, PieceIs
  <2>2. \A k \in 1 .. Len(s) : s[k] = e[k]
    <3> HIDE DEF s
    <3> QED BY <1>2, <1>3, <2>1
  <2>3. l = Size[kind] /\ AtMost(Size[kind], Len(Ahead)) = 0 + l /\ 1 = 0 + 1
    BY <1>1, <1>2, <1>3, <1>7 DEF AtMost
  <2>4. SubSeq(Ahead, 1, AtMost(Size[kind], Len(Ahead))) = s
    BY <2>3
  <2> HIDE DEF s
  <2>5. FixedValue(kind, FromBytes(s)) = v /\ ~(kind = "bool" /\ FromBytes(s) > 1)
    <3>1. Len(s) = Size[kind] /\ kind \in Fixed
          /\ \A k \in 1 .. Len(s) : s[k] = Encoding(kind, v)[k]
      BY <1>7, <2>1, <2>2, <2>3 DEF e
    <3> QED BY <2>1, <3>1, ReadsFixed
  <2>6. CASE ~Enough(kind)
    <3>1. Refuse
      BY <1>7, <2>6, Zenon DEF ReadFixed
    <3>2. kind = "byte" /\ Left < 2
      <4>1. Size["byte"] = 1
        BY DEF Size
      <4> QED BY <1>1, <1>2, <1>5, <2>3, <2>6, <4>1 DEF Enough
    <3> QED BY <3>1, <3>2
  <2>7. CASE Enough(kind)
    <3>1. ~(~Enough(kind) \/ (kind = "bool" /\ FromBytes(s) > 1))
      BY <2>5, <2>7
    <3>2. Accept(FixedValue(kind, FromBytes(s)), Size[kind], Size[kind])
      BY <1>7, <2>4, <3>1, Zenon DEF ReadFixed
    <3>3. Took(l, l, v)
      BY <1>6, <2>3, <2>5, <3>2
    <3>4. kind = "byte" => Left >= 2 /\ l = 1
      <4>1. Size["byte"] = 1
        BY DEF Size
      <4> QED BY <1>1, <2>3, <2>7, <4>1 DEF Enough
    <3>5. l \in 0 .. l
      BY <1>2
    <3> QED BY <3>3, <3>4, <3>5 DEF e
  <2> QED BY <2>6, <2>7
<1>8. ASSUME NEW c \in 0 .. l, Took(l, c, v), kind # "byte"
      PROVE  \E d \in 0 .. Len(Encoding(kind, v)) :
               /\ Took(Len(Encoding(kind, v)), d, v)
               /\ kind = "byte" => Left >= 2 /\ Len(Encoding(kind, v)) = 1
  BY <1>8 DEF e
<1>9. CASE kind \in {"var_int", "list"} /\ ReadVarInt
  <2>1. VarIntLen(Window) = l /\ VarIntValue(Window, l) = v[1] /\ l # 0
    BY <1>1, <1>2, <1>4, <1>5, <1>9, ReadsVarInt
  <2>2. Accept(<<v[1]>>, l, l)
    BY <1>9, <2>1, Zenon DEF ReadVarInt
  <2>3. Took(l, l, v) /\ l \in 0 .. l /\ kind # "byte"
    BY <1>2, <1>6, <1>9, <2>2
  <2> QED BY <1>8, <2>3
<1>10. CASE kind = "var_long" /\ ReadVarLong
  <2>1. VarLong!VarIntLen(Window) = l /\ VarLong!VarIntValue(Window, l) = v[1]
        /\ l # 0
    BY <1>1, <1>2, <1>4, <1>5, <1>10, ReadsVarLong
  <2>2. Accept(<<v[1]>>, l, l)
    BY <1>10, <2>1, Zenon DEF ReadVarLong
  <2>3. Took(l, l, v) /\ l \in 0 .. l /\ kind # "byte"
    BY <1>2, <1>6, <1>10, <2>2
  <2> QED BY <1>8, <2>3
<1>11. CASE kind = "var_str" /\ ReadString
  <2> DEFINE h == Encode(Len(v))
  <2>1. /\ Len(v) \in Word /\ Len(v) \in Nat /\ Len(h) \in Nat \ {0}
        /\ h \in Seq(Byte) /\ l = Len(h) + Len(v)
        /\ \A k \in 1 .. Len(h) : e[k] = h[k]
        /\ \A k \in 1 .. Len(v) : e[Len(h) + k] = v[k]
        /\ Signed(Len(v), WordBits) = Len(v)
    BY <1>11, StringIs DEF e
  <2>2. Agrees(Window, h)
    <3>1. ASSUME NEW k \in 1 .. Len(h), k <= Len(Window) PROVE Window[k] = h[k]
      <4>1. k \in 1 .. l /\ k <= Len(Window)
        BY <2>1, <3>1
      <4> HIDE DEF h
      <4> QED BY <1>4, <2>1, <4>1 DEF Agrees
    <3> HIDE DEF h
    <3> QED BY <3>1 DEF Agrees
  <2>3. VarIntLen(Window) = Len(h) /\ VarIntValue(Window, Len(h)) = Len(v)
        /\ Len(h) # 0
    <3>1. Len(Window) >= Len(h)
      BY <1>1, <1>5, <2>1
    <3> QED BY <1>1, <2>1, <2>2, <3>1, ReadsVarInt
  <2> DEFINE w == SubSeq(Ahead, Len(h) + 1, Len(h) + Len(v))
  <2>4. Accept(w, Len(h) + Len(v), Len(h))
    BY <1>11, <2>1, <2>3, Zenon DEF ReadString
  <2> HIDE DEF h
  <2>5. w = v
    <3>1. /\ w \in Seq(Byte) /\ Len(w) = Len(v)
          /\ \A k \in 1 .. Len(v) : w[k] = Ahead[Len(h) + k]
      BY <1>1, <1>3, <2>1, PieceIs
    <3>2. ASSUME NEW k \in 1 .. Len(v) PROVE w[k] = v[k]
      <4>1. Len(h) + k \in 1 .. l
        BY <2>1
      <4> HIDE DEF w
      <4> QED BY <1>3, <2>1, <3>1, <4>1
    <3>3. v \in Seq(Byte)
      BY <1>11, StringIs
    <3> HIDE DEF w
    <3> QED BY <3>1, <3>2, <3>3
  <2>6. Took(l, Len(h), v)
    BY <1>6, <2>1, <2>4, <2>5
  <2>7. Len(h) \in 0 .. l /\ kind # "byte"
    BY <1>11, <2>1
  <2> QED BY <1>8, <2>6, <2>7
<1>12. CASE kind = "network_nbt" /\ ReadNBT
  <2>1. /\ v \in Seq(Byte) /\ Len(v) \in Nat /\ l = 1 + Len(v)
        /\ e[1] = Len(v) /\ \A k \in 1 .. Len(v) : e[1 + k] = v[k]
    BY <1>12, TagIs DEF e
  <2>2. ASSUME NEW k \in 1 .. l PROVE Window[k] = e[k]
    <3>1. k \in 1 .. Len(Window)
      BY <1>1, <1>2, <1>5
    <3> QED BY <1>1, <1>3, <3>1
  <2>3. Head(Window) = Len(v)
    <3>1. 1 \in 1 .. l /\ Window # <<>> /\ Head(Window) = Window[1]
      BY <1>1, <1>2, <1>5
    <3> QED BY <2>1, <2>2, <3>1
  <2> DEFINE w == SubSeq(Window, 1 + 1, 1 + Len(v))
  <2>4. /\ w \in Seq(Byte) /\ Len(w) = Len(v)
        /\ \A k \in 1 .. Len(v) : w[k] = Window[1 + k]
    BY <1>1, <1>5, <2>1, PieceIs
  <2>5. ASSUME NEW k \in 1 .. Len(v) PROVE w[k] = v[k]
    <3>1. 1 + k \in 1 .. l
      BY <2>1
    <3> HIDE DEF w
    <3> QED BY <2>1, <2>2, <2>4, <3>1
  <2>6. w = v
    <3> HIDE DEF w
    <3> QED BY <2>1, <2>4, <2>5
  <2>7. Head(Window) + 1 = l /\ 1 + 1 = 2 /\ 1 + Len(v) = l
    BY <2>1, <2>3
  <2>8. SubSeq(Window, 2, Head(Window) + 1) = v
    BY <2>6, <2>7
  <2>9. Len(Window) > 0 /\ Head(Window) + 1 <= Len(Window)
    BY <1>1, <1>2, <1>5, <2>7
  <2> HIDE DEF w
  <2>10. Accept(v, l, l)
    <3>1. Accept(SubSeq(Window, 2, Head(Window) + 1), Head(Window) + 1,
                 Head(Window) + 1)
      BY <1>12, <2>9, Zenon DEF ReadNBT
    <3> QED BY <2>7, <2>8, <3>1
  <2>11. Took(l, l, v) /\ l \in 0 .. l /\ kind # "byte"
    BY <1>2, <1>6, <1>12, <2>10
  <2> QED BY <1>8, <2>11
<1> QED BY <1>7, <1>9, <1>10, <1>11, <1>12, Zenon DEF ReadField

\* Part of the field is there, and the reader has counted every byte: it
\* takes nothing, or more than it counts.
LEMMA ReadsShort ==
  ASSUME TypeOK, ReadField, NEW v \in Seq(Int), NEW kind \in Kinds,
         kind = Head(fields).kind, IsValue(kind, v), kind # "network_nbt",
         Left < Len(Encoding(kind, v)), Left <= Len(Ahead),
         \A k \in 1 .. Left : Ahead[k] = Encoding(kind, v)[k]
  PROVE  \/ Refuse
         \/ GoAstray
         \/ LosesCount
<1> DEFINE e == Encoding(kind, v)
           l == Len(e)
<1>1. /\ Ahead \in Seq(Byte) /\ Len(Ahead) \in Nat /\ Left \in Nat
      /\ Window \in Seq(Byte) /\ Len(Window) \in Nat
      /\ Len(Window) = IF Left < Len(Ahead) THEN Left ELSE Len(Ahead)
  BY AheadIs
<1>2. /\ e \in Seq(Byte) /\ l \in Nat \ {0}
      /\ kind \in Fixed => l = Size[kind]
      /\ kind \in {"var_int", "list"} => /\ v = <<v[1]>> /\ v[1] \in Word
                                         /\ e = Encode(v[1])
      /\ kind = "var_long" => /\ v = <<v[1]>> /\ v[1] \in VarLong!Word
                              /\ e = VarLong!Encode(v[1])
  BY EncodingIs
<1>3. /\ \A k \in 1 .. Left : Ahead[k] = e[k]
      /\ Left < l
  OBVIOUS
<1>4. Agrees(Window, e)
  <2>1. ASSUME NEW k \in 1 .. l, k <= Len(Ahead) /\ k <= Left
        PROVE  Ahead[k] = e[k]
    <3>1. k \in 1 .. Left
      BY <1>1, <1>2, <2>1
    <3> QED BY <3>1
  <2> HIDE DEF e
  <2> QED BY <1>2, <2>1, WindowAgrees
<1>5. Len(Window) = Left
  BY <1>1
<1> HIDE DEF Window, Ahead, Left, e
<1>6. CASE kind \in Fixed /\ ReadFixed(kind)
  <2>1. ~Enough(kind)
    BY <1>1, <1>2, <1>3, <1>6 DEF Enough
  <2> QED BY <1>6, <2>1, Zenon DEF ReadFixed
<1>7. CASE kind \in {"var_int", "list"} /\ ReadVarInt
  <2>1. VarIntLen(Window) = 0
    <3>1. Len(Window) < l /\ v[1] \in Word /\ e = Encode(v[1])
      BY <1>2, <1>3, <1>5, <1>7
    <3> QED BY <1>1, <1>4, <3>1, ReadsVarInt
  <2> QED BY <1>7, <2>1, Zenon DEF ReadVarInt, NoNumber
<1>8. CASE kind = "var_long" /\ ReadVarLong
  <2>1. VarLong!VarIntLen(Window) = 0
    <3>1. Len(Window) < l /\ v[1] \in VarLong!Word /\ e = VarLong!Encode(v[1])
      BY <1>2, <1>3, <1>5, <1>8
    <3> QED BY <1>1, <1>4, <3>1, ReadsVarLong
  <2> QED BY <1>8, <2>1, Zenon DEF ReadVarLong, NoNumber
<1>9. CASE kind = "var_str" /\ ReadString
  <2> DEFINE h == Encode(Len(v))
  <2>1. /\ Len(v) \in Word /\ Len(v) \in Nat /\ Len(h) \in Nat \ {0}
        /\ h \in Seq(Byte) /\ l = Len(h) + Len(v)
        /\ \A k \in 1 .. Len(h) : e[k] = h[k]
        /\ Signed(Len(v), WordBits) = Len(v)
    BY <1>9, StringIs DEF e
  <2>2. Agrees(Window, h)
    <3>1. ASSUME NEW k \in 1 .. Len(h), k <= Len(Window) PROVE Window[k] = h[k]
      <4>1. k \in 1 .. l /\ k <= Len(Window)
        BY <2>1, <3>1
      <4> HIDE DEF h
      <4> QED BY <1>4, <2>1, <4>1 DEF Agrees
    <3> HIDE DEF h
    <3> QED BY <3>1 DEF Agrees
  <2>3. CASE Len(Window) < Len(h)
    <3>1. VarIntLen(Window) = 0
      BY <1>1, <2>1, <2>2, <2>3, ReadsVarInt
    <3> QED BY <1>9, <3>1, Zenon DEF ReadString, NoNumber
  <2>4. CASE Len(Window) >= Len(h)
    <3>1. VarIntLen(Window) = Len(h) /\ VarIntValue(Window, Len(h)) = Len(v)
          /\ Len(h) # 0
      BY <1>1, <2>1, <2>2, <2>4, ReadsVarInt
    <3>2. Accept(SubSeq(Ahead, Len(h) + 1, Len(h) + Len(v)), Len(h) + Len(v),
                 Len(h))
      BY <1>9, <2>1, <3>1, Zenon DEF ReadString
    <3> HIDE DEF h
    <3>3. Len(h) + Len(v) \in Nat /\ Len(h) \in Nat /\ Len(h) < Len(h) + Len(v)
      BY <1>1, <1>3, <1>5, <2>1, <2>4
    <3> QED BY <3>2, <3>3, AcceptIs DEF LosesCount
  <2> QED BY <1>1, <2>1, <2>3, <2>4
<1>10. ~(kind = "network_nbt" /\ ReadNBT)
  OBVIOUS
<1> QED BY <1>6, <1>7, <1>8, <1>9, <1>10, Zenon DEF ReadField

-----------------------------------------------------------------------------
(* The reader keeps the invariant.                                         *)

\* The field the reader is at, when it is sure of its place.
LEMMA PlaceIs ==
  ASSUME IInv, phase = "read", Sure, fields # <<>>
  PROVE  LET j == Len(values)
             kind == Head(fields).kind
             v == ValueAt(packet, j)
             e == Encoding(kind, v)
         IN /\ j \in Nat /\ j < Len(packet.values) /\ pos <= ptr
            /\ kind \in Kinds /\ v \in Seq(Int) /\ IsValue(kind, v)
            /\ e \in Seq(Byte) /\ Len(e) \in Nat \ {0}
            /\ Parts(packet)[j+1].last = kind
            /\ RestAt(packet, j + 1) = After(fields, v)
            /\ Len(UpTo(packet, j + 1)) = ptr + Len(e)
            /\ Extends(Whole(packet).bytes, UpTo(packet, j + 1))
            /\ \A k \in 1 .. Len(e) : Whole(packet).bytes[ptr + k] = e[k]
<1> DEFINE p == packet
           N == Len(p.values)
           j == Len(values)
           kind == Head(fields).kind
           v == ValueAt(p, j)
           e == Encoding(kind, v)
           y == UpTo(p, j + 1)
           whole == Whole(p).bytes
<1>1. p \in Packets /\ j \in Nat /\ ptr \in Nat
  BY BytesAreNumbers DEF IInv, TypeOK
<1>2. j <= N /\ fields = RestAt(p, j) /\ ptr = Len(UpTo(p, j)) /\ pos <= ptr
  BY DEF IInv, ReaderInv, Located, InStep, OnTheWire
<1>3. N \in Nat /\ j < N
  <2>1. N \in Nat /\ (j = N => RestAt(p, j) = <<>>)
    BY <1>1, <1>2, StartIs
  <2> QED BY <1>1, <1>2, <2>1
<1>4. kind = KindAt(p, j) /\ e = BytesAt(p, j)
  BY <1>2, Zenon DEF KindAt, BytesAt
<1>5. /\ kind \in Kinds /\ v \in Seq(Int) /\ IsValue(kind, v)
      /\ e \in Seq(Byte) /\ Len(e) \in Nat \ {0}
      /\ RestAt(p, j + 1) = After(fields, v)
      /\ Parts(p)[j+1].last = kind
  BY <1>1, <1>2, <1>3, <1>4, NextIs, Zenon
<1>6. Len(y) = ptr + Len(e) /\ \A k \in 1 .. Len(e) : y[ptr + k] = e[k]
  <2> HIDE DEF p, N, j, kind, v, e, y
  <2>1. /\ Len(UpTo(p, j + 1)) = Len(UpTo(p, j)) + Len(BytesAt(p, j))
        /\ \A k \in 1 .. Len(BytesAt(p, j)) :
             UpTo(p, j + 1)[Len(UpTo(p, j)) + k] = BytesAt(p, j)[k]
    BY <1>1, <1>3, UpToExtends DEF N
  <2> QED BY <1>2, <1>4, <2>1 DEF y
<1>7. Extends(whole, y)
  <2>1. j + 1 \in 0 .. N
    BY <1>1, <1>3
  <2> QED BY <1>1, <2>1, WholeExtends
<1>8. ASSUME NEW k \in 1 .. Len(e) PROVE whole[ptr + k] = e[k]
  <2> HIDE DEF e, y, whole
  <2>1. ptr + k \in 1 .. Len(y)
    BY <1>1, <1>5, <1>6
  <2>2. whole[ptr + k] = y[ptr + k]
    BY <1>7, <2>1 DEF Extends
  <2> QED BY <1>6, <2>2
<1> QED BY <1>1, <1>2, <1>3, <1>5, <1>6, <1>7, <1>8

\* What the places of the reader have to do with one another, and with the
\* bytes of the packet in front of it.
LEMMA BytesAhead ==
  ASSUME IInv, phase = "read"
  PROVE  /\ packet \in Packets /\ buffer \in Seq(Byte) /\ mem \in Seq(Byte)
         /\ Whole(packet).bytes \in Seq(Byte)
         /\ Len(buffer) \in Nat /\ Len(Whole(packet).bytes) \in Nat
         /\ pos \in Nat /\ ptr \in Nat /\ buf_len = Len(buffer)
         /\ Left = Len(buffer) - pos /\ Left \in Nat
         /\ Len(Ahead) \in Nat /\ Len(buffer) - ptr <= Len(Ahead)
         /\ Len(buffer) <= Len(Whole(packet).bytes)
         /\ (~Complete => Len(buffer) < Len(Whole(packet).bytes))
         /\ \A k \in Nat \ {0} : ptr + k <= Len(buffer) =>
              Ahead[k] = Whole(packet).bytes[ptr + k]
<1> DEFINE whole == Whole(packet).bytes
<1>1. /\ packet \in Packets /\ buffer \in Seq(Byte) /\ mem \in Seq(Byte)
      /\ Len(buffer) \in Nat /\ Len(mem) \in Nat
      /\ buf_len \in Nat /\ pos \in 0 .. buf_len /\ ptr \in 0 .. Len(mem)
  BY BytesAreNumbers DEF IInv, TypeOK
<1>2. Extends(whole, buffer) /\ buf_len = Len(buffer) /\ Extends(mem, buffer)
  BY DEF IInv, WriterInv, SentSoFar, ReaderInv, Received, OnTheWire
<1>3. whole \in Seq(Byte) /\ Len(whole) \in Nat
  <2>1. Len(packet.values) \in 0 .. Len(packet.values)
    BY <1>1, StartIs
  <2> QED BY <1>1, <2>1, StartIs, UpToType
<1>4. /\ Len(Ahead) = Len(mem) - ptr /\ Len(Ahead) \in Nat /\ Left \in Nat
      /\ \A k \in 1 .. Len(Ahead) : Ahead[k] = mem[ptr + k]
  BY AheadIs DEF IInv
<1>5. Left = Len(buffer) - pos
  BY <1>2 DEF Left
<1> HIDE DEF whole, Ahead, Left
<1>6. /\ Len(buffer) <= Len(mem) /\ Len(buffer) <= Len(whole)
      /\ \A k \in 1 .. Len(buffer) : mem[k] = buffer[k]
      /\ \A k \in 1 .. Len(buffer) : whole[k] = buffer[k]
  BY <1>2 DEF Extends
<1>7. ~Complete => Len(buffer) < Len(whole)
  <2>1. Len(whole) <= Len(buffer) => buffer = whole
    BY <1>1, <1>2, <1>3, ExtendsIs
  <2> QED BY <1>1, <1>3, <2>1 DEF Complete, whole
<1>8. ASSUME NEW k \in Nat \ {0}, ptr + k <= Len(buffer)
      PROVE  Ahead[k] = whole[ptr + k]
  <2>1. k \in 1 .. Len(Ahead) /\ ptr + k \in 1 .. Len(buffer)
    BY <1>1, <1>4, <1>6, <1>8
  <2> QED BY <1>4, <1>6, <2>1
<1>9. pos \in Nat /\ ptr \in Nat /\ Len(buffer) - ptr <= Len(Ahead)
  BY <1>1, <1>2, <1>4, <1>6
<1> QED BY <1>1, <1>2, <1>3, <1>4, <1>5, <1>6, <1>7, <1>8, <1>9 DEF whole

\* A reader that is sure of its place takes the field that is there, and
\* nothing else; it does not take it only when the packet was cut short, or
\* when it is the last byte.
LEMMA SureReads ==
  ASSUME IInv, ReadField, phase = "read", fields # <<>>, Sure
  PROVE  LET v == ValueAt(packet, Len(values))
             kind == Head(fields).kind
             l == Len(Encoding(kind, v))
         IN \/ \E c \in 0 .. l : /\ Took(l, c, v)
                                 /\ kind = "byte" => Left >= 2 /\ l = 1
            \/ kind = "byte" /\ Left < 2 /\ l <= Left /\ Refuse
            \/ /\ ~Complete
               /\ \/ Refuse
                  \/ GoAstray
                  \/ LosesCount
<1> DEFINE j == Len(values)
           kind == Head(fields).kind
           v == ValueAt(packet, j)
           e == Encoding(kind, v)
           l == Len(e)
           whole == Whole(packet).bytes
<1>1. /\ j \in Nat /\ j < Len(packet.values) /\ pos <= ptr
      /\ kind \in Kinds /\ v \in Seq(Int) /\ IsValue(kind, v)
      /\ e \in Seq(Byte) /\ l \in Nat \ {0}
      /\ Len(UpTo(packet, j + 1)) = ptr + l
      /\ Extends(whole, UpTo(packet, j + 1))
      /\ \A k \in 1 .. l : whole[ptr + k] = e[k]
  BY PlaceIs
<1>2. /\ Len(buffer) \in Nat /\ Len(whole) \in Nat
      /\ pos \in Nat /\ ptr \in Nat
      /\ Left = Len(buffer) - pos /\ Left \in Nat
      /\ Len(Ahead) \in Nat /\ Len(buffer) - ptr <= Len(Ahead)
      /\ \A k \in Nat \ {0} : ptr + k <= Len(buffer) =>
           Ahead[k] = whole[ptr + k]
  BY BytesAhead
<1>3. ptr + l <= Len(whole)
  BY <1>1 DEF Extends
<1>4. TypeOK /\ (Complete => buffer = whole)
  BY DEF IInv, Complete
<1> HIDE DEF kind, v, e, whole, Ahead, Left
<1>5. CASE ptr + l <= Len(buffer)
  <2>1. l <= Left /\ l <= Len(Ahead)
    BY <1>1, <1>2, <1>5
  <2>2. ASSUME NEW k \in 1 .. l PROVE Ahead[k] = e[k]
    <3>1. k \in Nat \ {0} /\ ptr + k <= Len(buffer)
      BY <1>1, <1>2, <1>5
    <3> QED BY <1>1, <1>2, <3>1
  <2>3. Extends(Ahead, e)
    BY <2>1, <2>2 DEF Extends
  <2>4. \/ \E c \in 0 .. l : Took(l, c, v) /\ (kind = "byte" => Left >= 2 /\ l = 1)
        \/ kind = "byte" /\ Left < 2 /\ Refuse
    <3>1. Left >= Len(Encoding(kind, v)) /\ Extends(Ahead, Encoding(kind, v))
      BY <1>1, <1>2, <2>1, <2>3 DEF e
    <3>2. kind = Head(fields).kind
      BY DEF kind
    <3> QED BY <1>1, <1>4, <3>1, <3>2, ReadsWhole DEF e
  <2> QED BY <2>1, <2>4 DEF kind, v, e
<1>6. CASE ~(ptr + l <= Len(buffer))
  <2>1. ~Complete
    BY <1>3, <1>4, <1>6
  <2>2. pos = ptr /\ ~HasTag(packet)
    BY <2>1 DEF Sure, IInv, ReaderInv, Counted
  <2>3. Left < l /\ Left <= Len(Ahead)
    BY <1>1, <1>2, <1>6, <2>2
  <2>4. ASSUME NEW k \in 1 .. Left PROVE Ahead[k] = e[k]
    <3>1. k \in Nat \ {0} /\ ptr + k <= Len(buffer) /\ k \in 1 .. l
      BY <1>1, <1>2, <2>2, <2>3
    <3> QED BY <1>1, <1>2, <3>1
  <2>5. kind # "network_nbt"
    <3>1. packet \in Packets /\ Tagless(RestAt(packet, j))
      <4>1. packet \in Packets /\ j <= Len(packet.values)
        BY <1>1 DEF IInv, TypeOK, ReaderInv, Located, InStep, OnTheWire
      <4> QED BY <1>1, <2>2, <4>1, TaglessRest
    <3>2. fields = RestAt(packet, j) /\ fields \in Seq(Field)
      BY DEF IInv, TypeOK, ReaderInv, Located, InStep, OnTheWire
    <3>3. 1 \in 1 .. Len(fields) /\ Head(fields) = fields[1]
      BY <3>2
    <3> QED BY <3>1, <3>2, <3>3 DEF Tagless, kind
  <2>6. Refuse \/ GoAstray \/ LosesCount
    <3>1. /\ Left < Len(Encoding(kind, v))
          /\ \A k \in 1 .. Left : Ahead[k] = Encoding(kind, v)[k]
      BY <2>3, <2>4 DEF e
    <3>2. kind = Head(fields).kind
      BY DEF kind
    <3> QED BY <1>1, <1>4, <2>3, <2>5, <3>1, <3>2, ReadsShort
  <2> QED BY <2>1, <2>6
<1> QED BY <1>5, <1>6

\* A reader that has lost count does not find its place again.
LEMMA UnsureStays ==
  ASSUME IInv, ReadField, phase = "read", ~Sure
  PROVE  ~Sure'
<1>1. TypeOK /\ packet' = packet /\ buffer' = buffer
  BY DEF IInv, ReadField, sender
<1>2. ~Complete' /\ (HasTag(packet') <=> HasTag(packet))
  <2>1. ~Complete
    BY DEF Sure
  <2> QED BY <1>1, <2>1 DEF Complete
<1>3. uncounted => uncounted'
  <2>1. Refuse \/ GoAstray \/ TakesField
    BY <1>1, ReadFieldIs
  <2>2. TakesField => (uncounted => uncounted')
    BY Zenon DEF TakesField, Took
  <2>3. Refuse \/ GoAstray => uncounted' = uncounted
    BY DEF Refuse, GoAstray
  <2> QED BY <2>1, <2>2, <2>3
<1> QED BY <1>2, <1>3 DEF Sure

\* As long as every byte is counted, the two places are the same.
LEMMA CountedStays ==
  ASSUME TypeOK, Counted, ReadField
  PROVE  Counted'
<1>1. CASE Refuse \/ GoAstray
  BY <1>1 DEF Counted, Refuse, GoAstray
<1>2. CASE TakesField
  <2>1. PICK n, c, v : Took(n, c, v) /\ Within(n, c, v)
    BY <1>2 DEF TakesField
  <2>2. ptr' = ptr + n /\ (uncounted' \/ (~uncounted /\ pos' = pos + n))
    BY <2>1, Zenon DEF Took
  <2> QED BY <2>2 DEF Counted
<1> QED BY <1>1, <1>2, ReadFieldIs

LEMMA ReadFieldType ==
  ASSUME IInv, ReadField
  PROVE  TypeOK'
<1>1. /\ TypeOK /\ phase = "read" /\ fields # <<>>
      /\ packet' = packet /\ max' = max /\ buffer' = buffer
      /\ mem' = mem /\ buf_len' = buf_len
  BY DEF IInv, ReadField, sender
<1>2. CASE Refuse \/ GoAstray
  BY <1>1, <1>2 DEF TypeOK, Refuse, GoAstray
<1>3. CASE TakesField
  <2>1. PICK n, c, v : Took(n, c, v) /\ Within(n, c, v)
    BY <1>3 DEF TakesField
  <2>2. /\ n \in Int /\ c \in Nat /\ v \in Seq(Int) /\ n <= Len(Ahead)
        /\ 0 <= ptr + n /\ pos + c <= buf_len
        /\ Head(fields).kind = "list" => v[1] \in Nat
    BY <2>1 DEF Within
  <2>3. Len(Ahead) = Len(mem) - ptr /\ Len(mem) \in Nat
    BY <1>1, AheadIs, BytesAreNumbers DEF TypeOK
  <2>4. /\ ptr' = ptr + n /\ (pos' = 0 \/ pos' = pos + c)
        /\ fields' = After(fields, v) /\ values' = Append(values, v)
        /\ phase' = phase /\ uncounted' \in BOOLEAN
    <3>1. uncounted' = (uncounted \/ pos' # pos + n)
      BY <2>1, Zenon DEF Took
    <3> QED BY <2>1, <3>1 DEF Took
  <2>5. pos \in 0 .. buf_len /\ ptr \in 0 .. Len(mem) /\ buf_len \in Nat
    BY <1>1 DEF TypeOK
  <2>6. pos' \in 0 .. buf_len' /\ ptr' \in 0 .. Len(mem')
    <3> HIDE DEF Ahead
    <3> QED BY <1>1, <2>2, <2>3, <2>4, <2>5
  <2>7. fields' \in Seq(Field) /\ values' \in Seq(Seq(Int))
    <3>1. fields \in Seq(Field) /\ values \in Seq(Seq(Int))
      BY <1>1 DEF TypeOK
    <3>2. After(fields, v) \in Seq(Field)
      BY <1>1, <2>2, <3>1, AfterIs
    <3> QED BY <2>2, <2>4, <3>1, <3>2
  <2> QED BY <1>1, <2>4, <2>6, <2>7 DEF TypeOK
<1> QED BY <1>1, <1>2, <1>3, ReadFieldIs

LEMMA ReadFieldKeeps ==
  ASSUME IInv, ReadField
  PROVE  IInv'
<1> DEFINE p == packet
           N == Len(p.values)
           j == Len(values)
           kind == Head(fields).kind
           v == ValueAt(p, j)
           l == Len(Encoding(kind, v))
           whole == Whole(p)
<1>1. /\ phase = "read" /\ fields # <<>>
      /\ packet' = packet /\ max' = max /\ buffer' = buffer
      /\ mem' = mem /\ buf_len' = buf_len
      /\ values \in Seq(Seq(Int))
  BY DEF IInv, TypeOK, ReadField, sender
<1>2. phase' \in {"read", "refused", "astray"}
      /\ (phase' = "astray" <=> GoAstray) /\ (phase' = "refused" <=> Refuse)
  <2>1. TakesField => phase' = phase
    BY DEF TakesField, Took
  <2>2. TypeOK
    BY DEF IInv
  <2>3. Refuse \/ GoAstray \/ TakesField
    BY <2>2, ReadFieldIs
  <2>4. (Refuse => phase' = "refused") /\ (GoAstray => phase' = "astray")
    BY DEF Refuse, GoAstray
  <2> QED BY <1>1, <2>1, <2>3, <2>4
<1>3. OnTheWire /\ OnTheWire' /\ (Complete' <=> Complete)
  BY <1>1, <1>2 DEF OnTheWire, Complete
<1>4. WriterInv'
  <2>1. SentSoFar'
    BY <1>1, <1>2, <1>3 DEF IInv, WriterInv, SentSoFar
  <2> QED BY <1>2, <2>1 DEF WriterInv, WrittenSoFar
<1>5. Received' /\ DoneAtEnd' /\ Counted'
  <2>1. Counted'
    BY CountedStays DEF IInv, ReaderInv
  <2> QED BY <1>1, <1>2, <1>3, <2>1 DEF IInv, ReaderInv, Received, DoneAtEnd
<1>6. CASE ~Sure
  <2>1. ~Sure'
    BY <1>1, <1>6, UnsureStays
  <2>2. Located' /\ LastByteCounted' /\ RefusesLastByte'
    BY <2>1 DEF Located, LastByteCounted, RefusesLastByte, Sure
  <2> QED BY <1>4, <1>5, <2>2, ReadFieldType DEF IInv, ReaderInv
<1>7. CASE Sure
  <2>1. /\ InStep /\ ptr = Len(UpTo(p, j)) /\ pos <= ptr
        /\ \A k \in 1 .. j : values[k] = p.values[k]
    BY <1>3, <1>7 DEF IInv, ReaderInv, Located
  <2>2. /\ j \in Nat /\ j < N /\ v \in Seq(Int)
        /\ l \in Nat \ {0}
        /\ Parts(p)[j+1].last = kind
        /\ RestAt(p, j + 1) = After(fields, v)
        /\ Len(UpTo(p, j + 1)) = ptr + l
    BY <1>1, <1>7, PlaceIs
  <2>3. /\ packet \in Packets /\ Len(buffer) \in Nat /\ Len(whole.bytes) \in Nat
        /\ pos \in Nat /\ ptr \in Nat /\ pos <= ptr
        /\ Left = Len(buffer) - pos /\ Left \in Nat
    BY <1>1, <2>1, BytesAhead
  <2>4. N \in Nat /\ p.values \in Seq(Seq(Int))
        /\ whole.bytes = UpTo(p, N)
        /\ (j + 1 = N => whole.last = kind /\ Len(whole.bytes) = ptr + l)
        /\ (j + 1 < N => ptr + l < Len(whole.bytes))
    <3>1. N \in Nat /\ p.values \in Seq(Seq(Int)) /\ whole.bytes = UpTo(p, N)
      BY <2>3, StartIs
    <3>2. j + 1 = N => whole.last = kind /\ Len(whole.bytes) = ptr + l
      BY <2>2, <3>1 DEF Whole
    <3>3. j + 1 < N => ptr + l < Len(whole.bytes)
      <4>1. j + 1 \in 0 .. N
        BY <2>2, <3>1
      <4> QED BY <2>2, <2>3, <4>1, WholeExtends
    <3> QED BY <3>1, <3>2, <3>3
  <2> HIDE DEF l, kind, v, whole, Left
  <2>5. CASE \E c \in 0 .. l : Took(l, c, v) /\ (kind = "byte" => Left >= 2 /\ l = 1)
    <3>1. PICK c \in 0 .. l :
                 Took(l, c, v) /\ (kind = "byte" => Left >= 2 /\ l = 1)
      BY <2>5
    <3>2. /\ ptr' = ptr + l /\ (pos' = 0 \/ pos' = pos + c)
          /\ fields' = After(fields, v) /\ values' = Append(values, v)
          /\ phase' = "read"
      BY <1>1, <3>1 DEF Took
    <3>3. Len(values') = j + 1 /\ values'[j + 1] = v
          /\ \A k \in 1 .. j : values'[k] = values[k]
      BY <1>1, <2>2, <3>2
    <3>4. Located'
      <4>1. InStep'
        <5>1. j + 1 <= N
          BY <2>2, <2>4
        <5> QED BY <1>1, <2>2, <3>2, <3>3, <5>1 DEF InStep
      <4>2. ASSUME NEW k \in 1 .. j + 1 PROVE values'[k] = packet'.values[k]
        <5>1. CASE k = j + 1
          BY <1>1, <3>3, <5>1 DEF v, ValueAt
        <5>2. CASE k # j + 1
          <6>1. k \in 1 .. j
            BY <2>2, <5>2
          <6> QED BY <1>1, <2>1, <3>3, <6>1
        <5> QED BY <5>1, <5>2
      <4>3. ptr' = Len(UpTo(packet', Len(values')))
        BY <1>1, <2>2, <3>2, <3>3
      <4>4. pos' <= ptr'
        BY <2>2, <2>3, <3>1, <3>2
      <4> QED BY <3>3, <4>1, <4>2, <4>3, <4>4 DEF Located
    <3>5. ASSUME Complete, whole.last = "byte", j + 1 = N
          PROVE  pos' < ptr'
      <4>1. Left >= 2 /\ l = 1 /\ Len(whole.bytes) = ptr + l
        BY <2>4, <3>1, <3>5
      <4>2. Len(buffer) = Len(whole.bytes)
        BY <3>5 DEF Complete, whole
      <4> QED BY <2>3, <3>1, <3>2, <4>1, <4>2
    <3>6. LastByteCounted'
      BY <1>1, <1>3, <3>3, <3>5 DEF LastByteCounted, whole
    <3>7. RefusesLastByte'
      BY <3>2 DEF RefusesLastByte
    <3> QED BY <1>4, <1>5, <3>4, <3>6, <3>7, ReadFieldType DEF IInv, ReaderInv
  <2>6. ASSUME pos' = pos, ptr' = ptr, fields' = fields, values' = values
        PROVE  Located'
    <3>1. InStep' /\ ptr' = Len(UpTo(packet', Len(values'))) /\ pos' <= ptr'
          /\ \A k \in 1 .. Len(values') : values'[k] = packet'.values[k]
      BY <1>1, <2>1, <2>6 DEF InStep
    <3> QED BY <3>1 DEF Located
  <2>7. CASE kind = "byte" /\ Left < 2 /\ l <= Left /\ Refuse
    <3>1. /\ phase' = "refused" /\ pos' = pos /\ ptr' = ptr
          /\ fields' = fields /\ values' = values
      BY <2>7 DEF Refuse
    <3>2. ASSUME Complete
          PROVE  /\ values = Front(p.values) /\ whole.last = "byte" /\ ptr = pos
      <4>1. Len(buffer) = Len(whole.bytes)
        BY <3>2 DEF Complete, whole
      <4>2. ptr + l <= Len(whole.bytes)
        BY <2>2, <2>3, <2>4
      <4>3. ptr = pos /\ l = 1 /\ Len(whole.bytes) = ptr + l
        BY <2>2, <2>3, <2>7, <4>1, <4>2
      <4>4. j + 1 = N
        BY <2>2, <2>3, <2>4, <4>3
      <4>5. whole.last = "byte"
        BY <2>4, <2>7, <4>4
      <4>6. values = Front(p.values)
        <5> DEFINE f == SubSeq(p.values, 1, N - 1)
        <5>1. /\ f \in Seq(Seq(Int)) /\ Len(f) = j
              /\ \A k \in 1 .. j : f[k] = p.values[k]
          BY <2>2, <2>4, <4>4
        <5>2. Front(p.values) = f
          BY DEF Front
        <5> HIDE DEF f
        <5>3. values = f
          <6>1. /\ Len(values) = Len(f)
                /\ \A k \in 1 .. Len(values) : values[k] = f[k]
            BY <2>1, <5>1
          <6> QED BY <1>1, <5>1, <6>1, SeqEqual, Zenon
        <5> QED BY <5>2, <5>3
      <4> QED BY <4>3, <4>5, <4>6
    <3>3. RefusesLastByte'
      BY <1>1, <1>3, <3>1, <3>2 DEF RefusesLastByte, whole
    <3>4. LastByteCounted'
      BY <3>1 DEF LastByteCounted
    <3> QED BY <1>4, <1>5, <2>6, <3>1, <3>3, <3>4, ReadFieldType
            DEF IInv, ReaderInv
  <2>8. CASE /\ ~Complete
             /\ \/ Refuse
                \/ GoAstray
                \/ LosesCount
    <3>1. LastByteCounted' /\ RefusesLastByte'
      BY <1>3, <2>8 DEF LastByteCounted, RefusesLastByte
    <3>2. Located'
      <4>1. CASE Refuse \/ GoAstray
        BY <2>6, <4>1 DEF Refuse, GoAstray
      <4>2. CASE LosesCount
        <5>1. PICK n \in Nat, c \in Nat : \E w : c < n /\ Took(n, c, w)
          BY <4>2 DEF LosesCount
        <5>2. /\ pos' = 0 \/ pos' = pos + c
              /\ c < n /\ (pos' # pos + n => uncounted')
          BY <5>1 DEF Took
        <5>3. uncounted'
          BY <2>3, <5>2
        <5> QED BY <1>3, <2>8, <5>3 DEF Located, Sure
      <4> QED BY <2>8, <4>1, <4>2
    <3> QED BY <1>4, <1>5, <3>1, <3>2, ReadFieldType DEF IInv, ReaderInv
  <2> QED BY <1>1, <1>7, <2>5, <2>7, <2>8, SureReads DEF l, kind, v
<1> QED BY <1>6, <1>7

LEMMA AllReadKeeps ==
  ASSUME IInv, AllRead
  PROVE  IInv'
<1>1. /\ phase = "read" /\ fields = <<>> /\ phase' = "done"
      /\ packet' = packet /\ max' = max /\ buffer' = buffer /\ mem' = mem
      /\ buf_len' = buf_len /\ pos' = pos /\ ptr' = ptr
      /\ fields' = fields /\ values' = values /\ uncounted' = uncounted
  BY DEF AllRead, sender, receiver
<1>2. /\ OnTheWire /\ OnTheWire' /\ (Complete' <=> Complete)
      /\ (Sure' <=> Sure) /\ (InStep' <=> InStep)
  BY <1>1 DEF OnTheWire, Complete, Sure, InStep
<1>3. TypeOK'
  <2>1. TypeOK
    BY DEF IInv
  <2> QED BY <1>1, <2>1 DEF TypeOK
<1>4. WriterInv'
  BY <1>1, <1>2 DEF IInv, WriterInv, WrittenSoFar, SentSoFar
<1>5. Received' /\ Located' /\ DoneAtEnd' /\ Counted'
  BY <1>1, <1>2 DEF IInv, ReaderInv, Received, Located, DoneAtEnd, Counted
<1>6. LastByteCounted'
  BY <1>1, <1>2 DEF IInv, ReaderInv, LastByteCounted
<1>7. RefusesLastByte'
  <2> SUFFICES ASSUME Complete, Whole(packet).last = "byte" PROVE pos < ptr
    BY <1>1, <1>2 DEF RefusesLastByte
  <2>1. Len(values) <= Len(packet.values) /\ fields = RestAt(packet, Len(values))
    BY <1>2 DEF IInv, ReaderInv, Located, Sure, InStep
  <2>2. Len(values) \in Nat /\ packet \in Packets
    BY DEF IInv, TypeOK
  <2>3. Len(values) = Len(packet.values)
    BY <1>1, <2>1, <2>2, StartIs
  <2> QED BY <1>1, <2>3 DEF IInv, ReaderInv, LastByteCounted
<1> QED BY <1>3, <1>4, <1>5, <1>6, <1>7 DEF IInv, ReaderInv

LEMMA StutterKeeps ==
  ASSUME IInv, UNCHANGED vars
  PROVE  IInv'
<1>1. /\ packet' = packet /\ max' = max /\ buffer' = buffer /\ mem' = mem
      /\ buf_len' = buf_len /\ pos' = pos /\ ptr' = ptr
      /\ fields' = fields /\ values' = values /\ phase' = phase
      /\ uncounted' = uncounted
  BY DEF vars, sender, receiver
<1>2. /\ (OnTheWire' <=> OnTheWire) /\ (Complete' <=> Complete)
      /\ (Sure' <=> Sure) /\ (InStep' <=> InStep)
  BY <1>1 DEF OnTheWire, Complete, Sure, InStep
<1>3. TypeOK'
  <2>1. TypeOK
    BY DEF IInv
  <2> QED BY <1>1, <2>1 DEF TypeOK
<1>4. WriterInv'
  BY <1>1, <1>2 DEF IInv, WriterInv, WrittenSoFar, SentSoFar
<1>5. Received' /\ Located' /\ DoneAtEnd' /\ Counted'
  BY <1>1, <1>2 DEF IInv, ReaderInv, Received, Located, DoneAtEnd, Counted
<1>6. LastByteCounted' /\ RefusesLastByte'
  BY <1>1, <1>2 DEF IInv, ReaderInv, LastByteCounted, RefusesLastByte
<1> QED BY <1>3, <1>4, <1>5, <1>6 DEF IInv, ReaderInv

-----------------------------------------------------------------------------
(* The theorems.                                                           *)

THEOREM InductiveInvariant == Spec => []IInv
<1>1. Init => IInv
  BY InitKeeps
<1>2. IInv /\ [Next]_vars => IInv'
  <2> SUFFICES ASSUME IInv, [Next]_vars PROVE IInv'
    OBVIOUS
  <2>1. CASE WriteField
    BY <2>1, WriteFieldKeeps
  <2>2. CASE AllWritten
    BY <2>2, AllWrittenKeeps
  <2>3. CASE Receive
    BY <2>3, ReceiveKeeps
  <2>4. CASE ReadField
    BY <2>4, ReadFieldKeeps
  <2>5. CASE AllRead
    BY <2>5, AllReadKeeps
  <2>6. CASE Ended
    <3>1. UNCHANGED vars
      BY <2>6 DEF Ended
    <3> QED BY <3>1, StutterKeeps
  <2>7. CASE UNCHANGED vars
    BY <2>7, StutterKeeps
  <2> QED BY <2>1, <2>2, <2>3, <2>4, <2>5, <2>6, <2>7 DEF Next
<1> QED BY <1>1, <1>2, PTL DEF Spec

\* Every variable keeps its type: of the two places of the reader the counted
\* one stays within the packet and the other within the memory.
THEOREM TypeCorrect == Spec => []TypeOK
<1>1. IInv => TypeOK
  BY DEF IInv
<1> QED BY <1>1, InductiveInvariant, PTL

\* However short the buffer of the sender, a beginning of the packet goes out
\* under its own length; all of it, if there is room.
THEOREM SendsPrefix == Spec => []SentIsPrefix
<1>1. IInv => SentIsPrefix
  <2> SUFFICES ASSUME IInv, OnTheWire
               PROVE  /\ IsPrefix(buffer, Whole(packet).bytes)
                      /\ buf_len = Len(buffer)
                      /\ max >= Len(Whole(packet).bytes)
                                + Spare(Whole(packet).last) => Complete
    BY Zenon DEF SentIsPrefix
  <2>1. /\ Extends(Whole(packet).bytes, buffer) /\ buf_len = Len(buffer)
        /\ max >= Len(Whole(packet).bytes) + Spare(Whole(packet).last)
             => Complete
    BY DEF IInv, WriterInv, SentSoFar, ReaderInv, Received, OnTheWire
  <2>2. buffer \in Seq(Byte) /\ Whole(packet).bytes \in Seq(Byte)
    <3>1. packet \in Packets /\ buffer \in Seq(Byte)
      BY DEF IInv, TypeOK
    <3>2. Len(packet.values) \in 0 .. Len(packet.values)
      BY <3>1, StartIs
    <3> QED BY <3>1, <3>2, StartIs, UpToType
  <2> QED BY <2>1, <2>2, ExtendsIs
<1> QED BY <1>1, InductiveInvariant, PTL

\* A packet sent whole and read through is read for what it is.
THEOREM WholeIsReadBack == Spec => []ReadsBack
<1>1. IInv => ReadsBack
  <2> SUFFICES ASSUME IInv, phase = "done", Complete
               PROVE  values = packet.values /\ ptr = Len(buffer)
    BY DEF ReadsBack
  <2>1. /\ Len(values) <= Len(packet.values)
        /\ fields = RestAt(packet, Len(values))
        /\ \A k \in 1 .. Len(values) : values[k] = packet.values[k]
        /\ ptr = Len(UpTo(packet, Len(values))) /\ fields = <<>>
    BY DEF IInv, ReaderInv, Located, DoneAtEnd, Sure, InStep, OnTheWire
  <2>2. packet \in Packets /\ values \in Seq(Seq(Int)) /\ Len(values) \in Nat
    BY DEF IInv, TypeOK
  <2>3. packet.values \in Seq(Seq(Int)) /\ Len(values) = Len(packet.values)
        /\ Whole(packet).bytes = UpTo(packet, Len(packet.values))
    <3>1. RestAt(packet, Len(values)) = <<>>
      BY <2>1
    <3> QED BY <2>1, <2>2, <3>1, EndIs, StartIs
  <2>4. values = packet.values
    BY <2>1, <2>2, <2>3, SeqEqual, Zenon
  <2> QED BY <2>1, <2>3, <2>4 DEF Complete
<1> QED BY <1>1, InductiveInvariant, PTL

\* A packet sent whole is refused for its last byte and for nothing else.
THEOREM OnlyLastByteRefused == Spec => []RefusesLastByte
<1>1. IInv => RefusesLastByte
  BY DEF IInv, ReaderInv
<1> QED BY <1>1, InductiveInvariant, PTL

\* A reader that has counted every byte it took, of a packet without a tag,
\* has not taken a packet cut short for a whole one.
THEOREM CutIsNoticed == Spec => []CutNoticed
<1>1. IInv => CutNoticed
  <2> SUFFICES ASSUME IInv, phase = "done", ~Complete, ~uncounted,
                      ~HasTag(packet)
               PROVE  FALSE
    BY DEF CutNoticed
  <2>1. /\ packet \in Packets /\ Len(values) \in Nat
        /\ pos \in Nat /\ ptr \in Nat /\ pos <= buf_len
        /\ buf_len \in Nat /\ buffer \in Seq(Byte) /\ Len(buffer) \in Nat
    BY BytesAreNumbers DEF IInv, TypeOK
  <2>2. pos = ptr /\ Sure
    BY DEF IInv, ReaderInv, Counted, Sure
  <2>3. /\ Len(values) <= Len(packet.values)
        /\ fields = RestAt(packet, Len(values))
        /\ ptr = Len(UpTo(packet, Len(values))) /\ fields = <<>>
    BY <2>2 DEF IInv, ReaderInv, Located, DoneAtEnd, Sure, InStep, OnTheWire
  <2>4. /\ Len(values) = Len(packet.values)
        /\ Whole(packet).bytes = UpTo(packet, Len(packet.values))
        /\ Whole(packet).bytes \in Seq(Byte)
    <3>1. RestAt(packet, Len(values)) = <<>>
      BY <2>3
    <3> QED BY <2>1, <2>3, <3>1, EndIs
  <2>5. Extends(Whole(packet).bytes, buffer) /\ buf_len = Len(buffer)
    BY DEF IInv, WriterInv, SentSoFar, ReaderInv, Received, OnTheWire
  <2>6. Len(Whole(packet).bytes) <= Len(buffer)
    BY <2>1, <2>2, <2>3, <2>4, <2>5
  <2>7. buffer = Whole(packet).bytes
    BY <2>1, <2>4, <2>5, <2>6, ExtendsIs
  <2> QED BY <2>7 DEF Complete
<1> QED BY <1>1, InductiveInvariant, PTL
=============================================================================
