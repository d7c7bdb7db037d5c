---------------------------- MODULE FramingProofs ---------------------------
(***************************************************************************)
(* handle_packet implements PacketStream, for every set of packets, every  *)
(* way the network cuts the stream and every size of the buffer, as long   *)
(* as no read brings the end of a packet begun before together with bytes  *)
(* behind it.                                                              *)
(*                                                                         *)
(* The invariant that carries the proofs says where every byte is: the     *)
(* stream of the packets written is that of the packets handed on,         *)
(* followed by the backlog, by the bytes handle_packet has been called     *)
(* with and by those on the wire.                                          *)
(***************************************************************************)
EXTENDS Framing, VarIntProofs

\* No read can bring more than the end of the packet that is in the backlog.
Calm == ~ReadsPast \/ ~Pipelined

-----------------------------------------------------------------------------
(* The stream of a sequence of packets.                                    *)

LEMMA PayloadIs ==
  ASSUME NEW p \in Payloads
  PROVE  /\ p \in Seq(Byte) /\ Len(p) \in Word /\ Len(p) \in Nat
         /\ VarIntLen(p) # 0
BY PayloadsAssumption, WordsAreNumbers

\* The bytes of a packet: its length, and the packet.
LEMMA FrameIs ==
  ASSUME NEW p \in Payloads
  PROVE  /\ Frame(p) \in Seq(Byte)
         /\ EncodedLen(Len(p)) \in Nat \ {0}
         /\ Len(Encode(Len(p))) = EncodedLen(Len(p))
         /\ Len(Frame(p)) = EncodedLen(Len(p)) + Len(p)
         /\ \A n \in 1 .. EncodedLen(Len(p)) : Frame(p)[n] = Encode(Len(p))[n]
         /\ \A n \in 1 .. Len(p) : Frame(p)[EncodedLen(Len(p)) + n] = p[n]
<1> DEFINE h == Encode(Len(p))
           l == EncodedLen(Len(p))
<1>1. p \in Seq(Byte) /\ Len(p) \in Word /\ Len(p) \in Nat
  BY PayloadIs
<1>2. h \in Seq(Byte) /\ Len(h) = l
  BY <1>1, EncodeIs
<1>3. l \in Nat \ {0}
  BY <1>1, EncodedLenIs, EnoughBytes
<1>4. Frame(p) = h \o p
  BY DEF Frame
<1> HIDE DEF h, l
<1>5. /\ h \o p \in Seq(Byte)
      /\ Len(h \o p) = Len(h) + Len(p)
      /\ \A i \in 1 .. Len(h) + Len(p) :
           (h \o p)[i] = IF i <= Len(h) THEN h[i] ELSE p[i - Len(h)]
  BY <1>1, <1>2, ConcatProperties, Zenon
<1>6. \A n \in 1 .. l : Frame(p)[n] = h[n]
  BY <1>1, <1>2, <1>3, <1>4, <1>5
<1>7. \A n \in 1 .. Len(p) : Frame(p)[l + n] = p[n]
  <2> SUFFICES ASSUME NEW n \in 1 .. Len(p) PROVE Frame(p)[l + n] = p[n]
    OBVIOUS
  <2>1. l + n \in 1 .. Len(h) + Len(p) /\ ~(l + n <= Len(h))
        /\ (l + n) - Len(h) = n
    BY <1>1, <1>2, <1>3
  <2> QED BY <1>4, <1>5, <2>1
<1> QED BY <1>2, <1>3, <1>4, <1>5, <1>6, <1>7 DEF h, l

LEMMA BytesIs ==
  ASSUME NEW s \in Seq(Payloads)
  PROVE  /\ Bytes(s)[0] = <<>>
         /\ \A n \in 1 .. Len(s) : Bytes(s)[n] = Bytes(s)[n-1] \o Frame(s[n])
<1> DEFINE N == Len(s)
           S == Seq(Byte)
           g == [p \in Nat \X S |-> IF p[1] < N THEN p[2] \o Frame(s[p[1]+1])
                                    ELSE p[2]]
           E(f) == f = [n \in 0 .. N |->
                          IF n = 0 THEN <<>> ELSE f[n-1] \o Frame(s[n])]
<1>1. N \in Nat /\ <<>> \in S
  BY EmptySeq
<1>2. \A n \in 1 .. N : Frame(s[n]) \in S
  <2>1. \A n \in 1 .. N : s[n] \in Payloads
    BY ElementOfSeq
  <2> QED BY <2>1, FrameIs
<1>3. Bytes(s) = CHOOSE f : E(f)
  BY Zenon DEF Bytes
<1>4. \A x, y \in S : x \o y \in S
  BY ConcatProperties
<1> HIDE DEF N, S
<1>5. g \in [Nat \X S -> S]
  <2>1. ASSUME NEW p \in Nat \X S, p[1] < N
        PROVE  p[2] \o Frame(s[p[1]+1]) \in S
    <3>1. p[1] + 1 \in 1 .. N /\ p[2] \in S
      BY <1>1, <2>1
    <3> QED BY <1>2, <1>4, <3>1
  <2> QED BY <2>1
<1>6. PICK f : Approximates(f, N, S, <<>>, g)
  <2> HIDE DEF g
  <2> QED BY <1>1, <1>5, ApproximationExists
<1>7. ASSUME NEW n \in 1 .. N PROVE f[n] = f[n-1] \o Frame(s[n])
  <2>1. n - 1 \in Nat /\ n - 1 < N /\ (n - 1) + 1 = n /\ n - 1 \in 0 .. N
    BY <1>1
  <2>2. f[n] = g[<<n - 1, f[n-1]>>]
    BY <1>6, <2>1 DEF Approximates
  <2>3. f[n-1] \in S
    BY <1>6, <2>1 DEF Approximates
  <2> QED BY <2>1, <2>2, <2>3
<1>8. E(f)
  <2>1. f = [n \in 0 .. N |-> f[n]] /\ f[0] = <<>>
    BY <1>6 DEF Approximates
  <2>2. \A n \in 0 .. N :
          f[n] = IF n = 0 THEN <<>> ELSE f[n-1] \o Frame(s[n])
    BY <1>1, <1>7, <2>1
  <2> HIDE DEF g
  <2> QED BY <2>1, <2>2, Zenon
<1>9. E(CHOOSE h : E(h))
  BY <1>8, Zenon
<1> DEFINE c == CHOOSE h : E(h)
<1>10. c = [n \in 0 .. N |-> IF n = 0 THEN <<>> ELSE c[n-1] \o Frame(s[n])]
  BY <1>9
<1>11. Bytes(s) = c
  BY <1>3
<1> HIDE DEF c, E, g
<1>12. c[0] = <<>> /\ \A n \in 1 .. N : c[n] = c[n-1] \o Frame(s[n])
  BY <1>1, <1>10
<1> QED BY <1>11, <1>12 DEF N

LEMMA BytesType ==
  ASSUME NEW s \in Seq(Payloads)
  PROVE  \A n \in 0 .. Len(s) : /\ Bytes(s)[n] \in Seq(Byte)
                                /\ Len(Bytes(s)[n]) \in Nat
<1> DEFINE T == {n \in Nat : n <= Len(s) => Bytes(s)[n] \in Seq(Byte)}
<1>1. Len(s) \in Nat
  OBVIOUS
<1>2. 0 \in T
  BY BytesIs, EmptySeq
<1>3. ASSUME NEW n \in T PROVE n + 1 \in T
  <2> SUFFICES ASSUME n + 1 <= Len(s) PROVE Bytes(s)[n+1] \in Seq(Byte)
    OBVIOUS
  <2>1. n + 1 \in 1 .. Len(s) /\ (n + 1) - 1 = n /\ n <= Len(s)
    BY <1>1
  <2>2. Bytes(s)[n+1] = Bytes(s)[n] \o Frame(s[n+1])
    BY <2>1, BytesIs
  <2>3. Bytes(s)[n] \in Seq(Byte) /\ Frame(s[n+1]) \in Seq(Byte)
    <3>1. s[n+1] \in Payloads
      BY <2>1, ElementOfSeq
    <3> QED BY <2>1, <3>1, FrameIs
  <2> QED BY <2>2, <2>3, ConcatProperties
<1> HIDE DEF T
<1>4. T \in SUBSET Nat
  BY DEF T
<1>5. \A n \in Nat : n \in T
  BY <1>2, <1>3, <1>4, Induction
<1>6. \A n \in 0 .. Len(s) : Bytes(s)[n] \in Seq(Byte)
  BY <1>1, <1>5 DEF T
<1> QED BY <1>6, LenProperties

\* A packet more does not change the stream before it.
LEMMA BytesOfMore ==
  ASSUME NEW s \in Seq(Payloads), NEW p \in Payloads
  PROVE  /\ \A n \in 0 .. Len(s) : Bytes(Append(s, p))[n] = Bytes(s)[n]
         /\ Bytes(Append(s, p))[Len(s)+1] = Bytes(s)[Len(s)] \o Frame(p)
<1> DEFINE r == Append(s, p)
           T == {n \in Nat : n <= Len(s) => Bytes(r)[n] = Bytes(s)[n]}
<1>1. Len(s) \in Nat
  OBVIOUS
<1>2. /\ r \in Seq(Payloads) /\ Len(r) = Len(s) + 1
      /\ \A i \in 1 .. Len(s) : r[i] = s[i]
      /\ r[Len(s)+1] = p
  BY AppendProperties
<1> HIDE DEF r
<1>3. 0 \in T
  BY <1>2, BytesIs
<1>4. ASSUME NEW n \in T PROVE n + 1 \in T
  <2> SUFFICES ASSUME n + 1 <= Len(s) PROVE Bytes(r)[n+1] = Bytes(s)[n+1]
    OBVIOUS
  <2>1. n + 1 \in 1 .. Len(s) /\ n + 1 \in 1 .. Len(r) /\ (n + 1) - 1 = n
        /\ n <= Len(s)
    BY <1>1, <1>2
  <2>2. Bytes(s)[n+1] = Bytes(s)[n] \o Frame(s[n+1])
    BY <2>1, BytesIs
  <2>3. Bytes(r)[n+1] = Bytes(r)[n] \o Frame(r[n+1])
    BY <1>2, <2>1, BytesIs
  <2>4. Bytes(r)[n] = Bytes(s)[n] /\ r[n+1] = s[n+1]
    BY <1>2, <2>1
  <2> QED BY <2>2, <2>3, <2>4
<1> HIDE DEF T
<1>5. T \in SUBSET Nat
  BY DEF T
<1>6. \A n \in Nat : n \in T
  BY <1>3, <1>4, <1>5, Induction
<1>7. \A n \in 0 .. Len(s) : Bytes(r)[n] = Bytes(s)[n]
  BY <1>1, <1>6 DEF T
<1>8. Bytes(r)[Len(s)+1] = Bytes(s)[Len(s)] \o Frame(p)
  <2>1. Len(s) + 1 \in 1 .. Len(r) /\ (Len(s) + 1) - 1 = Len(s)
        /\ Len(s) \in 0 .. Len(s)
    BY <1>1, <1>2
  <2>2. Bytes(r)[Len(s)+1] = Bytes(r)[Len(s)] \o Frame(r[Len(s)+1])
    BY <1>2, <2>1, BytesIs
  <2> QED BY <1>2, <1>7, <2>1, <2>2
<1> QED BY <1>7, <1>8 DEF r

\* The stream of the first m packets is a beginning of that of the first n.
LEMMA BytesGrow ==
  ASSUME NEW s \in Seq(Payloads), NEW m \in 0 .. Len(s)
  PROVE  \A n \in m .. Len(s) :
           \E t \in Seq(Byte) : Bytes(s)[n] = Bytes(s)[m] \o t
<1> DEFINE T == {k \in Nat : m + k <= Len(s) =>
                   \E t \in Seq(Byte) : Bytes(s)[m+k] = Bytes(s)[m] \o t}
<1>1. Len(s) \in Nat /\ m \in Nat /\ Bytes(s)[m] \in Seq(Byte)
  BY BytesType
<1>2. 0 \in T
  <2>1. m + 0 = m /\ <<>> \in Seq(Byte)
    BY <1>1, EmptySeq
  <2>2. Bytes(s)[m] = Bytes(s)[m] \o <<>>
    BY <1>1, ConcatEmptySeq
  <2> QED BY <2>1, <2>2
<1>3. ASSUME NEW k \in T PROVE k + 1 \in T
  <2> SUFFICES ASSUME m + (k + 1) <= Len(s)
               PROVE  \E t \in Seq(Byte) :
                        Bytes(s)[m + (k + 1)] = Bytes(s)[m] \o t
    OBVIOUS
  <2>1. m + (k + 1) \in 1 .. Len(s) /\ (m + (k + 1)) - 1 = m + k
        /\ m + k <= Len(s)
    BY <1>1
  <2> DEFINE f == Frame(s[m + (k + 1)])
  <2>2. f \in Seq(Byte)
    <3>1. s[m + (k + 1)] \in Payloads
      BY <2>1, ElementOfSeq
    <3> QED BY <3>1, FrameIs
  <2>3. Bytes(s)[m + (k + 1)] = Bytes(s)[m+k] \o f
    BY <2>1, BytesIs
  <2> HIDE DEF f
  <2>4. PICK t \in Seq(Byte) : Bytes(s)[m+k] = Bytes(s)[m] \o t
    BY <2>1
  <2>5. (Bytes(s)[m] \o t) \o f = Bytes(s)[m] \o (t \o f)
    <3> DEFINE b == Bytes(s)[m]
    <3>1. b \in Seq(Byte)
      BY <1>1
    <3> HIDE DEF b
    <3>2. (b \o t) \o f = b \o (t \o f)
      BY <2>2, <3>1, BytesAssociate
    <3> QED BY <3>2 DEF b
  <2>6. t \o f \in Seq(Byte)
    BY <2>2, ConcatProperties
  <2> QED BY <2>3, <2>4, <2>5, <2>6
<1> HIDE DEF T
<1>4. T \in SUBSET Nat
  BY DEF T
<1>5. \A k \in Nat : k \in T
  BY <1>2, <1>3, <1>4, Induction
<1>6. ASSUME NEW n \in m .. Len(s)
      PROVE  \E t \in Seq(Byte) : Bytes(s)[n] = Bytes(s)[m] \o t
  <2>1. n - m \in Nat /\ m + (n - m) = n /\ n <= Len(s)
    BY <1>1
  <2> QED BY <1>5, <2>1 DEF T
<1> QED BY <1>6

\* Where a buffer that begins at the end of a packet is in the stream: it
\* starts with what there is in it of the next packet.
Holds(s, m, buf, rest) == Bytes(s)[Len(s)] = Bytes(s)[m] \o (buf \o rest)

LEMMA BufferBegins ==
  ASSUME NEW s \in Seq(Payloads), NEW m \in 0 .. Len(s),
         NEW buf \in Seq(Byte), NEW rest \in Seq(Byte),
         Holds(s, m, buf, rest), Len(buf) + Len(rest) # 0
  PROVE  /\ m < Len(s) /\ m + 1 \in 1 .. Len(s) /\ s[m+1] \in Payloads
         /\ \E t \in Seq(Byte) : buf \o rest = Frame(s[m+1]) \o t
<1>1. /\ Len(s) \in Nat /\ m \in Nat /\ Bytes(s)[m] \in Seq(Byte)
      /\ Len(buf) \in Nat /\ Len(rest) \in Nat
  BY BytesType, LenProperties
<1>2. buf \o rest \in Seq(Byte) /\ Len(buf \o rest) = Len(buf) + Len(rest)
  BY ConcatProperties
<1>3. m # Len(s)
  <2> SUFFICES ASSUME m = Len(s) PROVE FALSE
    OBVIOUS
  <2>1. Bytes(s)[m] \o (buf \o rest) = Bytes(s)[m]
    BY DEF Holds
  <2>2. buf \o rest = <<>>
    <3> DEFINE b == Bytes(s)[m]
               x == buf \o rest
    <3>1. b \in Seq(Byte) /\ x \in Seq(Byte) /\ b \o x = b
      BY <1>1, <1>2, <2>1
    <3> HIDE DEF b, x
    <3>2. x = <<>>
      BY <3>1
    <3> QED BY <3>2 DEF x
  <2>3. Len(buf \o rest) = 0
    BY <2>2, EmptySeq
  <2> QED BY <1>2, <2>3
<1>4. m < Len(s) /\ m + 1 \in 1 .. Len(s) /\ m + 1 \in 0 .. Len(s)
      /\ Len(s) \in m + 1 .. Len(s) /\ (m + 1) - 1 = m
  BY <1>1, <1>3
<1>5. s[m+1] \in Payloads
  BY <1>4, ElementOfSeq
<1> DEFINE f == Frame(s[m+1])
<1>6. f \in Seq(Byte) /\ Bytes(s)[m+1] = Bytes(s)[m] \o f
  <2>1. f \in Seq(Byte)
    BY <1>5, FrameIs, Zenon
  <2>2. Bytes(s)[m+1] = Bytes(s)[(m+1) - 1] \o f
    BY <1>4, BytesIs, Zenon
  <2> QED BY <1>4, <2>1, <2>2, Zenon
<1>7. PICK t \in Seq(Byte) : Bytes(s)[Len(s)] = Bytes(s)[m+1] \o t
  BY <1>4, BytesGrow
<1> HIDE DEF f
<1>8. (Bytes(s)[m] \o f) \o t = Bytes(s)[m] \o (f \o t)
  <2> DEFINE b == Bytes(s)[m]
  <2>1. b \in Seq(Byte) /\ f \in Seq(Byte)
    BY <1>1, <1>6
  <2> HIDE DEF b
  <2>2. (b \o f) \o t = b \o (f \o t)
    BY <2>1, BytesAssociate
  <2> QED BY <2>2 DEF b
<1>9. Bytes(s)[m] \o (buf \o rest) = Bytes(s)[m] \o (f \o t)
  BY <1>6, <1>7, <1>8 DEF Holds
<1>10. f \o t \in Seq(Byte)
  BY <1>6, ConcatProperties
<1>11. buf \o rest = f \o t
  BY <1>1, <1>2, <1>9, <1>10, ConcatSimplifications, Zenon
<1> QED BY <1>4, <1>5, <1>11 DEF f

\* The buffer and the packet agree as far as both go; behind the packet, if
\* it is in the buffer, the stream goes on with what is left of the buffer.
LEMMA Agree ==
  ASSUME NEW f \in Seq(Byte), NEW t \in Seq(Byte),
         NEW buf \in Seq(Byte), NEW rest \in Seq(Byte),
         buf \o rest = f \o t
  PROVE  /\ \A i \in 1 .. Len(f) : i <= Len(buf) => buf[i] = f[i]
         /\ Len(f) <= Len(buf) => t = Drop(buf, Len(f)) \o rest
<1>1. /\ Len(f) \in Nat /\ Len(t) \in Nat
      /\ Len(buf) \in Nat /\ Len(rest) \in Nat
  BY LenProperties
<1>2. /\ Len(f \o t) = Len(f) + Len(t)
      /\ \A i \in 1 .. Len(f) + Len(t) :
           (f \o t)[i] = IF i <= Len(f) THEN f[i] ELSE t[i - Len(f)]
  BY ConcatProperties, Zenon
<1>3. /\ Len(buf \o rest) = Len(buf) + Len(rest)
      /\ \A i \in 1 .. Len(buf) + Len(rest) :
           (buf \o rest)[i] = IF i <= Len(buf) THEN buf[i]
                              ELSE rest[i - Len(buf)]
  BY ConcatProperties, Zenon
<1>4. Len(buf) + Len(rest) = Len(f) + Len(t)
  BY <1>2, <1>3
<1>5. ASSUME NEW i \in 1 .. Len(f), i <= Len(buf) PROVE buf[i] = f[i]
  <2>1. i \in 1 .. Len(f) + Len(t) /\ i \in 1 .. Len(buf) + Len(rest)
        /\ i <= Len(f)
    BY <1>1, <1>5
  <2> QED BY <1>2, <1>3, <1>5, <2>1
<1>6. ASSUME Len(f) <= Len(buf) PROVE t = Drop(buf, Len(f)) \o rest
  <2> DEFINE d == Drop(buf, Len(f))
             l == Len(buf) - Len(f)
  <2>1. /\ d \in Seq(Byte) /\ Len(d) = l
        /\ \A i \in 1 .. l : d[i] = buf[i + Len(f)]
    BY <1>1, <1>6 DEF Drop
  <2> HIDE DEF d
  <2>2. /\ d \o rest \in Seq(Byte)
        /\ Len(d \o rest) = Len(d) + Len(rest)
        /\ \A i \in 1 .. Len(d) + Len(rest) :
             (d \o rest)[i] = IF i <= Len(d) THEN d[i] ELSE rest[i - Len(d)]
    <3>1. d \in Seq(Byte)
      BY <2>1
    <3> QED BY <3>1, ConcatProperties, Zenon
  <2>3. Len(d \o rest) = Len(t)
    BY <1>1, <1>4, <2>1, <2>2
  <2>4. ASSUME NEW i \in 1 .. Len(t) PROVE t[i] = (d \o rest)[i]
    <3>1. /\ i + Len(f) \in 1 .. Len(f) + Len(t) /\ ~(i + Len(f) <= Len(f))
          /\ i + Len(f) \in 1 .. Len(buf) + Len(rest)
          /\ (i + Len(f)) - Len(f) = i
      BY <1>1, <1>4
    <3>2. t[i] = IF i + Len(f) <= Len(buf) THEN buf[i + Len(f)]
                 ELSE rest[(i + Len(f)) - Len(buf)]
      BY <1>2, <1>3, <3>1
    <3>3. CASE i + Len(f) <= Len(buf)
      <4>1. i \in 1 .. l /\ i <= Len(d) /\ i \in 1 .. Len(d) + Len(rest)
        BY <1>1, <1>6, <2>1, <3>3
      <4> QED BY <2>1, <2>2, <3>2, <3>3, <4>1
    <3>4. CASE ~(i + Len(f) <= Len(buf))
      <4>1. /\ ~(i <= Len(d)) /\ i \in 1 .. Len(d) + Len(rest)
            /\ i - Len(d) = (i + Len(f)) - Len(buf)
        BY <1>1, <1>4, <1>6, <2>1, <3>4
      <4> QED BY <2>2, <3>2, <3>4, <4>1
    <3> QED BY <3>3, <3>4
  <2>5. t = d \o rest
    BY <2>2, <2>3, <2>4, SeqEqual
  <2> QED BY <2>5 DEF d
<1> QED BY <1>5, <1>6

\* What handle_packet finds in a buffer that is not empty, of a packet p with
\* a length of l bytes: all of it, its length without the rest of it, or less
\* than its length.
Finds(s, m, buf, rest, p, l) ==
  /\ m < Len(s) /\ p \in Payloads /\ l \in Nat \ {0} /\ Len(p) \in Nat
  /\ Len(Frame(p)) = l + Len(p)
  /\ Len(buf) >= l => VarIntLen(buf) = l /\ VarIntValue(buf, l) = Len(p)
  /\ Len(buf) < l => VarIntLen(buf) = 0
  /\ Len(buf) >= l + Len(p) =>
       /\ SubSeq(buf, l + 1, l + Len(p)) = p
       /\ Holds(s, m + 1, Drop(buf, l + Len(p)), rest)
  /\ Len(buf) < l + Len(p) => buf = SubSeq(Frame(p), 1, Len(buf))

LEMMA BufferRead ==
  ASSUME NEW s \in Seq(Payloads), NEW m \in 0 .. Len(s),
         NEW buf \in Seq(Byte), NEW rest \in Seq(Byte),
         Holds(s, m, buf, rest), buf # <<>>
  PROVE  Finds(s, m, buf, rest, s[m+1], EncodedLen(Len(s[m+1])))
<1> DEFINE p == s[m+1]
           l == EncodedLen(Len(p))
           f == Frame(p)
<1>1. Len(buf) \in Nat /\ Len(rest) \in Nat /\ Len(buf) + Len(rest) # 0
  BY EmptySeq, LenProperties
<1>2. m < Len(s) /\ m + 1 \in 1 .. Len(s) /\ p \in Payloads
  BY <1>1, BufferBegins
<1>3. PICK t \in Seq(Byte) : buf \o rest = f \o t
  BY <1>1, BufferBegins
<1>4. /\ f \in Seq(Byte) /\ l \in Nat \ {0} /\ Len(p) \in Nat
      /\ Len(f) = l + Len(p) /\ Len(p) \in Word /\ p \in Seq(Byte)
  BY <1>2, FrameIs, PayloadIs
<1>5. /\ \A n \in 1 .. l : f[n] = Encode(Len(p))[n]
      /\ \A n \in 1 .. Len(p) : f[l + n] = p[n]
  BY <1>2, FrameIs
<1> HIDE DEF f, p, l
<1>6. /\ \A i \in 1 .. Len(f) : i <= Len(buf) => buf[i] = f[i]
      /\ Len(f) <= Len(buf) => t = Drop(buf, Len(f)) \o rest
  <2>1. f \in Seq(Byte) /\ t \in Seq(Byte) /\ buf \o rest = f \o t
    BY <1>3, <1>4, Zenon
  <2> QED BY <2>1, Agree, Zenon
<1>7. ASSUME Len(buf) >= l
      PROVE  VarIntLen(buf) = l /\ VarIntValue(buf, l) = Len(p)
  <2>1. \A n \in 1 .. l : buf[n] = Encode(Len(p))[n]
    BY <1>1, <1>4, <1>5, <1>6, <1>7
  <2> QED BY <1>4, <1>7, <2>1, ReadsNumber DEF l
<1>8. ASSUME Len(buf) < l PROVE VarIntLen(buf) = 0
  <2>1. ASSUME NEW n \in 1 .. Len(buf) PROVE buf[n] = Encode(Len(p))[n]
    <3>1. n \in 1 .. l /\ n \in 1 .. Len(f) /\ n <= Len(buf)
      BY <1>1, <1>4, <1>8
    <3> QED BY <1>5, <1>6, <3>1
  <2> QED BY <1>4, <1>8, <2>1, NoNumberCutShort DEF l
<1>9. ASSUME Len(buf) >= l + Len(p)
      PROVE  /\ SubSeq(buf, l + 1, l + Len(p)) = p
             /\ Holds(s, m + 1, Drop(buf, l + Len(p)), rest)
  <2> DEFINE q == SubSeq(buf, l + 1, l + Len(p))
             d == Drop(buf, Len(f))
             b == Bytes(s)[m]
  <2>1. /\ q \in Seq(Byte) /\ Len(q) = Len(p)
        /\ \A i \in 1 .. Len(p) : q[i] = buf[l + i]
    <3>1. l \in Nat /\ Len(p) \in Nat /\ l + Len(p) <= Len(buf)
      BY <1>1, <1>4, <1>9
    <3> QED BY <3>1, PieceIs
  <2>2. ASSUME NEW i \in 1 .. Len(p) PROVE q[i] = p[i]
    <3>1. l + i \in 1 .. Len(f) /\ l + i <= Len(buf)
      BY <1>1, <1>4, <1>9
    <3>2. buf[l + i] = f[l + i]
      BY <1>6, <3>1
    <3> QED BY <1>5, <2>1, <3>2
  <2> HIDE DEF q
  <2>3. q = p
    BY <1>4, <2>1, <2>2, SeqEqual
  <2>4. t = d \o rest
    BY <1>4, <1>6, <1>9
  <2>5. b \in Seq(Byte)
    BY BytesType
  <2>6. Bytes(s)[m+1] = b \o f
    <3>1. (m + 1) - 1 = m
      OBVIOUS
    <3> QED BY <1>2, <3>1, BytesIs DEF f, p
  <2> HIDE DEF b
  <2>7. b \o (f \o t) = (b \o f) \o t
    BY <1>4, <2>5, BytesAssociate
  <2>8. Bytes(s)[Len(s)] = Bytes(s)[m+1] \o t
    BY <1>3, <2>6, <2>7 DEF Holds, b
  <2>9. Holds(s, m + 1, Drop(buf, l + Len(p)), rest)
    <3> HIDE DEF d
    <3>1. Holds(s, m + 1, d, rest)
      BY <2>4, <2>8 DEF Holds
    <3>2. d = Drop(buf, l + Len(p))
      BY <1>4 DEF d
    <3> QED BY <3>1, <3>2
  <2> QED BY <2>3, <2>9 DEF q
<1>10. ASSUME Len(buf) < l + Len(p) PROVE buf = SubSeq(f, 1, Len(buf))
  <2> DEFINE h == SubSeq(f, 1, Len(buf))
  <2>1. /\ h \in Seq(Byte) /\ Len(h) = Len(buf)
        /\ \A i \in 1 .. Len(buf) : h[i] = f[i]
    BY <1>1, <1>4, <1>10
  <2> HIDE DEF h
  <2>2. \A i \in 1 .. Len(buf) : buf[i] = h[i]
    BY <1>1, <1>4, <1>6, <1>10, <2>1
  <2>3. buf = h
    BY <2>1, <2>2, SeqEqual
  <2> QED BY <2>3 DEF h
<1> QED BY <1>2, <1>4, <1>7, <1>8, <1>9, <1>10 DEF Finds, f, p, l

-----------------------------------------------------------------------------
(* Places in the stream.                                                   *)

\* Written, InsideHead and PastPacket, of a sequence of packets.
At(s, n) == Len(Bytes(s)[n])
Inside(s, x) ==
  \E n \in 1 .. Len(s) :
    At(s, n-1) < x /\ x < At(s, n-1) + Len(Encode(Len(s[n])))

LEMMA AtIs ==
  ASSUME NEW s \in Seq(Payloads)
  PROVE  /\ Len(s) \in Nat
         /\ \A n \in 0 .. Len(s) : At(s, n) \in Nat
         /\ \A n \in 0 .. Len(s) : n < Len(s) =>
              At(s, n+1) = At(s, n) + Len(Frame(s[n+1]))
<1>1. Len(s) \in Nat
  OBVIOUS
<1>2. \A n \in 0 .. Len(s) : At(s, n) \in Nat
  BY BytesType DEF At
<1>3. ASSUME NEW n \in 0 .. Len(s), n < Len(s)
      PROVE  At(s, n+1) = At(s, n) + Len(Frame(s[n+1]))
  <2> DEFINE f == Frame(s[n+1])
             b == Bytes(s)[n]
  <2>1. n + 1 \in 1 .. Len(s) /\ (n + 1) - 1 = n
    BY <1>1, <1>3
  <2>2. s[n+1] \in Payloads
    BY <2>1, ElementOfSeq
  <2>3. f \in Seq(Byte) /\ b \in Seq(Byte)
    BY <2>2, FrameIs, BytesType
  <2>4. Bytes(s)[n+1] = b \o f
    BY <2>1, BytesIs
  <2> HIDE DEF f, b
  <2>5. Len(b \o f) = Len(b) + Len(f)
    BY <2>3, ConcatProperties
  <2> QED BY <2>4, <2>5 DEF At, f, b
<1> QED BY <1>1, <1>2, <1>3

LEMMA AtGrows ==
  ASSUME NEW s \in Seq(Payloads), NEW m \in 0 .. Len(s), NEW n \in m .. Len(s)
  PROVE  At(s, m) <= At(s, n)
<1>1. PICK t \in Seq(Byte) : Bytes(s)[n] = Bytes(s)[m] \o t
  BY BytesGrow
<1>2. n \in 0 .. Len(s)
  OBVIOUS
<1> DEFINE b == Bytes(s)[m]
<1>3. b \in Seq(Byte)
  BY BytesType
<1> HIDE DEF b
<1>4. Len(b \o t) = Len(b) + Len(t) /\ Len(b) \in Nat /\ Len(t) \in Nat
  BY <1>3, ConcatProperties, LenProperties
<1> QED BY <1>1, <1>4 DEF At, b

LEMMA HoldsLen ==
  ASSUME NEW s \in Seq(Payloads), NEW m \in 0 .. Len(s),
         NEW buf \in Seq(Byte), NEW rest \in Seq(Byte), Holds(s, m, buf, rest)
  PROVE  At(s, Len(s)) = At(s, m) + Len(buf) + Len(rest)
<1> DEFINE b == Bytes(s)[m]
           x == buf \o rest
<1>1. b \in Seq(Byte)
  BY BytesType
<1>2. x \in Seq(Byte) /\ Len(x) = Len(buf) + Len(rest)
  BY ConcatProperties
<1> HIDE DEF b, x
<1>3. Len(b \o x) = Len(b) + Len(x)
  BY <1>1, <1>2, ConcatProperties
<1>4. Len(b) \in Nat /\ Len(buf) \in Nat /\ Len(rest) \in Nat
  BY <1>1, LenProperties
<1>5. At(s, Len(s)) = Len(b \o x) /\ At(s, m) = Len(b)
  BY DEF At, Holds, b, x
<1> QED BY <1>2, <1>3, <1>4, <1>5

\* Nothing is left of the stream only behind its last packet.
LEMMA HoldsNothing ==
  ASSUME NEW s \in Seq(Payloads), NEW m \in 0 .. Len(s),
         Holds(s, m, <<>>, <<>>)
  PROVE  m = Len(s)
<1>1. <<>> \in Seq(Byte) /\ Len(<<>>) = 0
  BY EmptySeq
<1>2. Len(s) \in Nat /\ At(s, m) \in Nat /\ At(s, Len(s)) = At(s, m)
  <2> DEFINE e == <<>>
  <2>1. e \in Seq(Byte) /\ Len(e) = 0 /\ Holds(s, m, e, e)
    BY <1>1
  <2> HIDE DEF e
  <2>2. At(s, Len(s)) = At(s, m) + Len(e) + Len(e)
    BY <2>1, HoldsLen
  <2>3. Len(s) \in Nat /\ At(s, m) \in Nat
    BY AtIs
  <2> QED BY <2>1, <2>2, <2>3
<1>3. ASSUME m < Len(s) PROVE FALSE
  <2>1. m + 1 \in 0 .. Len(s) /\ Len(s) \in m + 1 .. Len(s)
        /\ m + 1 \in 1 .. Len(s)
    BY <1>2, <1>3
  <2>2. At(s, m+1) <= At(s, Len(s))
    BY <2>1, AtGrows
  <2>3. At(s, m+1) = At(s, m) + Len(Frame(s[m+1]))
    BY <1>3, AtIs
  <2>4. s[m+1] \in Payloads
    BY <2>1, ElementOfSeq
  <2>5. Len(Frame(s[m+1])) \in Nat \ {0}
    BY <2>4, FrameIs, PayloadIs
  <2> QED BY <1>2, <2>2, <2>3, <2>5
<1> QED BY <1>2, <1>3

\* A packet more goes to the end of the stream.
LEMMA HoldsMore ==
  ASSUME NEW s \in Seq(Payloads), NEW m \in 0 .. Len(s),
         NEW buf \in Seq(Byte), NEW rest \in Seq(Byte),
         Holds(s, m, buf, rest), NEW p \in Payloads
  PROVE  Holds(Append(s, p), m, buf, rest \o Frame(p))
<1> DEFINE r == Append(s, p)
           b == Bytes(s)[m]
           f == Frame(p)
           x == buf \o rest
<1>1. r \in Seq(Payloads) /\ Len(r) = Len(s) + 1
  BY AppendProperties
<1>2. b \in Seq(Byte) /\ f \in Seq(Byte) /\ x \in Seq(Byte)
  BY BytesType, FrameIs, ConcatProperties
<1>3. Bytes(r)[Len(r)] = Bytes(s)[Len(s)] \o f /\ Bytes(r)[m] = b
  BY <1>1, BytesOfMore
<1>4. Bytes(s)[Len(s)] = b \o x
  BY DEF Holds
<1> HIDE DEF r, b, f
<1>5. x \o f = buf \o (rest \o f)
  BY <1>2, BytesAssociate
<1> HIDE DEF x
<1>6. (b \o x) \o f = b \o (x \o f)
  BY <1>2, BytesAssociate
<1>7. Bytes(r)[Len(r)] = Bytes(r)[m] \o (buf \o (rest \o f))
  BY <1>3, <1>4, <1>5, <1>6
<1> QED BY <1>7 DEF Holds, r, f

LEMMA InsideMore ==
  ASSUME NEW s \in Seq(Payloads), NEW p \in Payloads,
         NEW x \in Int, x <= At(s, Len(s)), Inside(Append(s, p), x)
  PROVE  Inside(s, x)
<1> DEFINE r == Append(s, p)
<1>1. /\ r \in Seq(Payloads) /\ Len(r) = Len(s) + 1 /\ Len(s) \in Nat
      /\ \A i \in 1 .. Len(s) : r[i] = s[i]
  BY AppendProperties, LenProperties
<1>2. \A n \in 0 .. Len(s) : At(r, n) = At(s, n)
  BY BytesOfMore DEF At
<1> HIDE DEF r
<1>3. PICK n \in 1 .. Len(r) : /\ At(r, n-1) < x
                               /\ x < At(r, n-1) + Len(Encode(Len(r[n])))
  BY DEF Inside, r
<1>4. n - 1 \in 0 .. Len(s) /\ At(s, Len(s)) \in Nat
  BY <1>1, AtIs
<1>5. n # Len(s) + 1
  <2> SUFFICES ASSUME n = Len(s) + 1 PROVE FALSE
    OBVIOUS
  <2>1. n - 1 = Len(s) /\ At(r, n-1) = At(s, Len(s))
    BY <1>1, <1>2, <1>4
  <2> QED BY <1>3, <1>4, <2>1
<1>6. n \in 1 .. Len(s)
  BY <1>1, <1>5
<1>7. At(r, n-1) = At(s, n-1) /\ r[n] = s[n]
  BY <1>1, <1>2, <1>4, <1>6
<1> QED BY <1>3, <1>6, <1>7 DEF Inside

-----------------------------------------------------------------------------
(* The types, whatever the reads bring.                                    *)

LEMMA HandleTypes ==
  ASSUME TypeOK
  PROVE  /\ read_buf \in Seq(Byte) /\ Len(read_buf) \in Nat
         /\ pos \in 0 .. Len(read_buf)
         /\ packet_len \in Nat
         /\ remaining_data >= packet_len =>
              packet \in Seq(Byte) /\ left_off \in Seq(Byte)
<1>1. arg \in Seq(Byte) /\ backlog \in Seq(Byte)
  BY DEF TypeOK
<1>2. read_buf \in Seq(Byte)
  BY <1>1, ConcatProperties DEF read_buf
<1> DEFINE b == read_buf
           l == packet_len
<1>3. b \in Seq(Byte) /\ Len(b) \in Nat
  BY <1>2, LenProperties
<1>4. pos \in 0 .. Len(b)
  <2> HIDE DEF b
  <2> QED BY <1>3, VarIntLenType DEF pos, b
<1>5. l \in Nat
  <2>1. VarIntValue(b, pos) \in Word
    <3> HIDE DEF b
    <3> QED BY <1>3, <1>4, VarIntValueType
  <2> QED BY <2>1, WordsAreNumbers DEF packet_len
<1>6. ASSUME remaining_data >= l
      PROVE  packet \in Seq(Byte) /\ left_off \in Seq(Byte)
  <2> HIDE DEF b, l
  <2>1. pos \in Nat /\ pos + l <= Len(b)
    <3>1. Len(b) - pos >= l
      BY <1>6 DEF remaining_data, b
    <3> QED BY <1>3, <1>4, <1>5, <3>1
  <2>2. SubSeq(b, pos + 1, pos + l) \in Seq(Byte)
    BY <1>3, <1>5, <2>1, PieceIs
  <2>3. Drop(b, pos + l) \in Seq(Byte)
    BY <1>3, <1>5, <2>1 DEF Drop
  <2> QED BY <2>2, <2>3 DEF packet, left_off, b, l
<1> QED BY <1>3, <1>4, <1>5, <1>6

LEMMA TypeKept == ASSUME TypeOK, [Next]_vars PROVE TypeOK'
<1>0. /\ sent \in Seq(Payloads) /\ wire \in Seq(Byte) /\ arg \in Seq(Byte)
      /\ backlog \in Seq(Byte) /\ got \in Seq(Seq(Byte)) /\ torn \in BOOLEAN
      /\ status \in {"idle", "handle", "closed"}
      /\ status = "handle" <=> arg # <<>>
  BY DEF TypeOK
<1>e. <<>> \in Seq(Byte)
  BY EmptySeq
<1>1. CASE Write
  <2>1. PICK p \in Payloads : /\ sent' = Append(sent, p)
                              /\ wire' = wire \o Frame(p)
    BY <1>1 DEF Write
  <2>2. sent' \in Seq(Payloads)
    BY <1>0, <2>1, AppendProperties
  <2>3. wire' \in Seq(Byte)
    BY <1>0, <2>1, FrameIs, ConcatProperties
  <2>4. /\ arg' = arg /\ backlog' = backlog /\ got' = got
        /\ status' = status /\ torn' = torn
    BY <1>1 DEF Write
  <2> QED BY <1>0, <2>2, <2>3, <2>4, Zenon DEF TypeOK
<1>2. CASE Read
  <2>1. PICK k \in 1 .. Len(wire) :
          /\ arg' = SubSeq(wire, 1, k)
          /\ wire' = Drop(wire, k)
          /\ torn' = (torn \/ InsideHead(Consumed + k))
    BY <1>2 DEF Read
  <2>2. /\ sent' = sent /\ backlog' = backlog /\ got' = got
        /\ status' = "handle"
    BY <1>2 DEF Read
  <2>3. Len(wire) \in Nat
    BY <1>0, LenProperties
  <2>4. arg' \in Seq(Byte) /\ Len(arg') = k
    BY <1>0, <2>1, <2>3
  <2>5. arg' # <<>>
    BY <2>4, EmptySeq
  <2>6. wire' \in Seq(Byte)
    BY <1>0, <2>1, <2>3 DEF Drop
  <2>7. torn' \in BOOLEAN
    BY <1>0, <2>1, Zenon
  <2>8. status' \in {"idle", "handle", "closed"}
        /\ (status' = "handle" <=> arg' # <<>>)
    BY <2>2, <2>5
  <2> QED BY <1>0, <2>2, <2>4, <2>6, <2>7, <2>8, Zenon DEF TypeOK
<1>3. CASE BadLength
  <2>1. /\ sent' = sent /\ wire' = wire /\ backlog' = backlog
        /\ got' = got /\ torn' = torn /\ status' = "closed" /\ arg' = <<>>
    BY <1>3 DEF BadLength
  <2> QED BY <1>0, <1>e, <2>1 DEF TypeOK
<1>4. CASE Incomplete
  <2>1. /\ sent' = sent /\ wire' = wire /\ backlog' = read_buf
        /\ got' = got /\ torn' = torn /\ status' = "idle" /\ arg' = <<>>
    BY <1>4 DEF Incomplete
  <2>2. read_buf \in Seq(Byte)
    BY HandleTypes
  <2> QED BY <1>0, <1>e, <2>1, <2>2 DEF TypeOK
<1>5. CASE Complete
  <2>1. /\ remaining_data >= packet_len /\ status = "handle"
        /\ sent' = sent /\ wire' = wire /\ torn' = torn
        /\ got' = Append(got, packet)
    BY <1>5 DEF Complete
  <2>2. packet \in Seq(Byte) /\ left_off \in Seq(Byte)
    BY <2>1, HandleTypes
  <2>3. got' \in Seq(Seq(Byte))
    BY <1>0, <2>1, <2>2, AppendProperties
  <2>4. \/ status' = "closed" /\ arg' = <<>> /\ backlog' = backlog
        \/ left_off # <<>> /\ arg' = left_off /\ status' = status
           /\ backlog' = backlog
        \/ arg' = <<>> /\ backlog' = <<>> /\ status' = "idle"
    BY <1>5 DEF Complete
  <2>5. /\ arg' \in Seq(Byte) /\ backlog' \in Seq(Byte)
        /\ status' \in {"idle", "handle", "closed"}
        /\ status' = "handle" <=> arg' # <<>>
    BY <1>0, <1>e, <2>1, <2>2, <2>4
  <2> QED BY <1>0, <2>1, <2>3, <2>5 DEF TypeOK
<1>6. ASSUME UNCHANGED vars PROVE TypeOK'
  <2>1. /\ sent' = sent /\ wire' = wire /\ arg' = arg /\ backlog' = backlog
        /\ got' = got /\ status' = status /\ torn' = torn
    BY <1>6 DEF vars
  <2> QED BY <1>0, <2>1, Zenon DEF TypeOK
<1>7. CASE Done
  BY <1>6, <1>7 DEF Done
<1> QED BY <1>1, <1>2, <1>3, <1>4, <1>5, <1>6, <1>7 DEF Next, Server

LEMMA InitTyped == ASSUME Init PROVE TypeOK
<1>1. /\ <<>> \in Seq(Payloads) /\ <<>> \in Seq(Byte) /\ <<>> \in Seq(Seq(Byte))
  BY EmptySeq
<1> QED BY <1>1 DEF Init, TypeOK

\* Every variable keeps its type and handle_packet is called with bytes,
\* whatever the client has written and wherever the reads cut it.
THEOREM TypeCorrect == Spec => []TypeOK
<1>1. Init => TypeOK
  BY InitTyped
<1>2. TypeOK /\ [Next]_vars => TypeOK'
  BY TypeKept
<1> QED BY <1>1, <1>2, PTL DEF Spec

-----------------------------------------------------------------------------
(* The inductive invariant.                                                *)

OneInFlight == Pipelined \/ Len(sent) <= Len(got) + 1

\* Every byte of the stream is in its place.
Located == status # "closed" => Holds(sent, Len(got), read_buf, wire)

\* A backlog is less than the next packet, and is completed, if at all, by
\* bytes of that packet alone.
NextFrame == Frame(sent[Len(got)+1])
Backlogged ==
  status # "closed" /\ backlog # <<>> =>
    /\ Len(got) < Len(sent)
    /\ Len(backlog) < Len(NextFrame)
    /\ Len(read_buf) <= Len(NextFrame)

TornSeen ==
  status = "handle" =>
    (Inside(sent, At(sent, Len(sent)) - Len(wire)) => torn)

Inductive == /\ TypeOK /\ InOrder /\ OnlyTornGivenUp
             /\ OneInFlight /\ Located /\ Backlogged /\ TornSeen

\* What the parts of the invariant say of the buffer handle_packet looks at.
LEMMA BufferType ==
  ASSUME TypeOK, InOrder
  PROVE  /\ sent \in Seq(Payloads) /\ got \in Seq(Seq(Byte))
         /\ wire \in Seq(Byte) /\ arg \in Seq(Byte) /\ backlog \in Seq(Byte)
         /\ Len(sent) \in Nat /\ Len(got) \in 0 .. Len(sent)
         /\ Len(wire) \in Nat /\ Len(arg) \in Nat /\ Len(backlog) \in Nat
         /\ read_buf \in Seq(Byte) /\ Len(read_buf) = Len(backlog) + Len(arg)
<1>1. /\ sent \in Seq(Payloads) /\ got \in Seq(Seq(Byte))
      /\ wire \in Seq(Byte) /\ arg \in Seq(Byte) /\ backlog \in Seq(Byte)
  BY DEF TypeOK
<1>2. /\ Len(sent) \in Nat /\ Len(got) \in Nat
      /\ Len(wire) \in Nat /\ Len(arg) \in Nat /\ Len(backlog) \in Nat
  BY <1>1, LenProperties
<1>3. Len(got) <= Len(sent)
  BY DEF InOrder
<1>4. read_buf \in Seq(Byte) /\ Len(read_buf) = Len(backlog) + Len(arg)
  BY <1>1, ConcatProperties DEF read_buf
<1> QED BY <1>1, <1>2, <1>3, <1>4

\* handle_packet's view of its buffer, in its own terms.
LEMMA HandleReads ==
  ASSUME Inductive, status = "handle",
         NEW p, p = sent[Len(got)+1], NEW l, l = EncodedLen(Len(p))
  PROVE  /\ Holds(sent, Len(got), read_buf, wire)
         /\ read_buf \in Seq(Byte) /\ Len(read_buf) \in Nat \ {0}
         /\ Len(got) < Len(sent) /\ p \in Payloads
         /\ l \in Nat \ {0} /\ Len(p) \in Nat
         /\ NextFrame = Frame(p) /\ Len(Frame(p)) = l + Len(p)
         /\ pos = 0 <=> Len(read_buf) < l
         /\ pos # 0 => /\ pos = l /\ packet_len = Len(p)
                       /\ remaining_data = Len(read_buf) - l
         /\ pos # 0 /\ remaining_data >= packet_len =>
              /\ Len(read_buf) >= l + Len(p)
              /\ packet = p
              /\ left_off = Drop(read_buf, l + Len(p))
              /\ Holds(sent, Len(got) + 1, left_off, wire)
<1>1. Holds(sent, Len(got), read_buf, wire)
  BY DEF Inductive, Located
<1>2. arg # <<>>
  BY DEF Inductive, TypeOK
<1>3. /\ sent \in Seq(Payloads) /\ Len(got) \in 0 .. Len(sent)
      /\ wire \in Seq(Byte) /\ read_buf \in Seq(Byte)
      /\ Len(read_buf) = Len(backlog) + Len(arg)
      /\ arg \in Seq(Byte) /\ Len(arg) \in Nat /\ Len(backlog) \in Nat
  BY BufferType DEF Inductive
<1>4. Len(read_buf) \in Nat \ {0} /\ read_buf # <<>>
  <2>1. Len(arg) # 0
    BY <1>2, <1>3, EmptySeq
  <2>2. Len(read_buf) \in Nat \ {0}
    BY <1>3, <2>1
  <2> QED BY <2>2, EmptySeq
<1> DEFINE m == Len(got)
           b == read_buf
<1> HIDE DEF m, b
<1>5. Finds(sent, m, b, wire, p, l)
  <2>1. m \in 0 .. Len(sent) /\ b \in Seq(Byte) /\ b # <<>>
        /\ sent \in Seq(Payloads) /\ wire \in Seq(Byte)
        /\ Holds(sent, m, b, wire) /\ p = sent[m+1]
    BY <1>1, <1>3, <1>4 DEF m, b
  <2>2. Finds(sent, m, b, wire, sent[m+1], EncodedLen(Len(sent[m+1])))
    BY <2>1, BufferRead
  <2> QED BY <2>1, <2>2
<1>6. Len(b) \in Nat \ {0} /\ pos = VarIntLen(b)
  BY <1>4 DEF b, pos
<1>7. pos = 0 <=> Len(b) < l
  BY <1>5, <1>6 DEF Finds
<1>8. ASSUME pos # 0
      PROVE  pos = l /\ packet_len = Len(p) /\ remaining_data = Len(b) - l
  <2>1. pos = l /\ VarIntValue(b, l) = Len(p)
    BY <1>5, <1>6, <1>7, <1>8 DEF Finds
  <2> QED BY <2>1 DEF packet_len, remaining_data, b
<1>9. ASSUME pos # 0, remaining_data >= packet_len
      PROVE  /\ Len(b) >= l + Len(p)
             /\ packet = p
             /\ left_off = Drop(b, l + Len(p))
             /\ Holds(sent, m + 1, left_off, wire)
  <2>1. pos = l /\ packet_len = Len(p) /\ remaining_data = Len(b) - l
    BY <1>8, <1>9
  <2>2. Len(b) >= l + Len(p)
    BY <1>5, <1>6, <1>9, <2>1 DEF Finds
  <2>3. packet = SubSeq(b, l + 1, l + Len(p))
    BY <2>1 DEF packet, b
  <2>4. left_off = Drop(b, l + Len(p))
    BY <2>1 DEF left_off, b
  <2> QED BY <1>5, <2>2, <2>3, <2>4 DEF Finds
<1>10. NextFrame = Frame(p)
  BY DEF NextFrame
<1> QED BY <1>1, <1>3, <1>4, <1>5, <1>7, <1>8, <1>9, <1>10 DEF Finds, m, b

LEMMA InitInductive == ASSUME Init PROVE Inductive
<1>1. /\ <<>> \in Seq(Payloads) /\ <<>> \in Seq(Byte) /\ Len(<<>>) = 0
      /\ <<>> \o <<>> = <<>>
  BY EmptySeq, ConcatEmptySeq
<1>2. TypeOK
  BY InitTyped
<1>3. InOrder /\ OnlyTornGivenUp /\ OneInFlight
  BY <1>1 DEF Init, InOrder, OnlyTornGivenUp, OneInFlight
<1>4. Located
  <2>1. Bytes(<<>>)[0] = <<>>
    BY <1>1, BytesIs
  <2> QED BY <1>1, <2>1 DEF Init, Located, Holds, read_buf
<1>5. Backlogged /\ TornSeen
  BY DEF Init, Backlogged, TornSeen
<1> QED BY <1>2, <1>3, <1>4, <1>5 DEF Inductive

-----------------------------------------------------------------------------
(* Every action keeps the invariant.                                       *)

LEMMA WriteKeeps == ASSUME Inductive, Write PROVE Inductive'
<1>1. PICK p \in Payloads : sent' = Append(sent, p) /\ wire' = wire \o Frame(p)
  BY DEF Write
<1>2. /\ arg' = arg /\ backlog' = backlog /\ got' = got
      /\ status' = status /\ torn' = torn /\ read_buf' = read_buf
  BY DEF Write, read_buf
<1>3. /\ sent \in Seq(Payloads) /\ wire \in Seq(Byte) /\ Len(wire) \in Nat
      /\ Len(sent) \in Nat /\ Len(got) \in 0 .. Len(sent)
      /\ read_buf \in Seq(Byte)
  BY BufferType DEF Inductive
<1>4. /\ sent' \in Seq(Payloads) /\ Len(sent') = Len(sent) + 1
      /\ \A i \in 1 .. Len(sent) : sent'[i] = sent[i]
  BY <1>1, <1>3, AppendProperties
<1>5. Frame(p) \in Seq(Byte) /\ Len(Frame(p)) \in Nat
  BY FrameIs, LenProperties
<1>6. wire' \in Seq(Byte) /\ Len(wire') = Len(wire) + Len(Frame(p))
  BY <1>1, <1>3, <1>5, ConcatProperties
<1>7. TypeOK'
  BY TypeKept DEF Inductive, Next
<1>8. InOrder'
  BY <1>2, <1>3, <1>4 DEF Inductive, InOrder
<1>9. OnlyTornGivenUp'
  BY <1>2 DEF Inductive, OnlyTornGivenUp
<1>10. OneInFlight'
  <2> SUFFICES ASSUME ~Pipelined PROVE Len(sent') <= Len(got') + 1
    BY DEF OneInFlight
  <2>1. /\ wire = <<>> /\ backlog = <<>> /\ status = "idle" /\ arg = <<>>
        /\ status # "closed"
    BY DEF Write, Inductive, TypeOK
  <2>2. read_buf = <<>>
    BY <2>1, <1>3, ConcatEmptySeq, EmptySeq DEF read_buf
  <2>3. Holds(sent, Len(got), <<>>, <<>>)
    BY <2>1, <2>2 DEF Inductive, Located
  <2>4. Len(got) = Len(sent)
    BY <1>3, <2>3, HoldsNothing
  <2> QED BY <1>2, <1>3, <1>4, <2>4
<1>11. Located'
  <2> SUFFICES ASSUME status # "closed"
               PROVE  Holds(sent', Len(got'), read_buf', wire')
    BY <1>2 DEF Located
  <2>1. Holds(sent, Len(got), read_buf, wire)
    BY DEF Inductive, Located
  <2>2. Holds(Append(sent, p), Len(got), read_buf, wire \o Frame(p))
    BY <1>3, <2>1, HoldsMore
  <2> QED BY <1>1, <1>2, <2>2
<1>13. Backlogged'
  <2> SUFFICES ASSUME status # "closed", backlog # <<>>
               PROVE  /\ Len(got') < Len(sent')
                      /\ Len(backlog') < Len(NextFrame')
                      /\ Len(read_buf') <= Len(NextFrame')
    BY <1>2 DEF Backlogged
  <2>1. /\ Len(got) < Len(sent) /\ Len(backlog) < Len(NextFrame)
        /\ Len(read_buf) <= Len(NextFrame)
    BY DEF Inductive, Backlogged
  <2>2. Len(got) + 1 \in 1 .. Len(sent)
    BY <1>3, <2>1
  <2>3. NextFrame' = NextFrame
    BY <1>2, <1>4, <2>2 DEF NextFrame
  <2> QED BY <1>2, <1>3, <1>4, <2>1, <2>3
<1>14. TornSeen'
  <2> DEFINE x == At(sent, Len(sent)) - Len(wire)
  <2>0. At(sent, Len(sent)) \in Nat
    <3>1. Len(sent) \in 0 .. Len(sent)
      BY <1>3
    <3> QED BY <1>3, <3>1, AtIs
  <2>1. x \in Int /\ x <= At(sent, Len(sent))
    BY <1>3, <2>0
  <2>2. At(sent', Len(sent')) = At(sent, Len(sent)) + Len(Frame(p))
    <3>1. Bytes(sent')[Len(sent')] = Bytes(sent)[Len(sent)] \o Frame(p)
      BY <1>1, <1>3, <1>4, BytesOfMore
    <3>2. Bytes(sent)[Len(sent)] \in Seq(Byte)
      BY <1>3, BytesType
    <3> QED BY <1>5, <3>1, <3>2, ConcatProperties DEF At
  <2>3. At(sent', Len(sent')) - Len(wire') = x
    BY <1>3, <1>5, <1>6, <2>0, <2>2
  <2> HIDE DEF x
  <2>4. Inside(sent', x) => Inside(sent, x)
    BY <1>1, <1>3, <2>1, InsideMore
  <2>5. status = "handle" => (Inside(sent, x) => torn)
    BY DEF Inductive, TornSeen, x
  <2>6. status' = "handle" =>
          (Inside(sent', At(sent', Len(sent')) - Len(wire')) => torn')
    BY <1>2, <2>3, <2>4, <2>5
  <2> QED BY <2>6 DEF TornSeen
<1> QED BY <1>7, <1>8, <1>9, <1>10, <1>11, <1>13, <1>14 DEF Inductive

LEMMA ReadKeeps ==
  ASSUME Calm, Inductive, Read
  PROVE  Inductive'
<1>1. PICK k \in 1 .. Len(wire) :
        /\ ReadsPast \/ ~PastPacket(Consumed + k)
        /\ arg' = SubSeq(wire, 1, k)
        /\ wire' = Drop(wire, k)
        /\ torn' = (torn \/ InsideHead(Consumed + k))
  BY DEF Read
<1>2. /\ status = "idle" /\ status' = "handle"
      /\ sent' = sent /\ backlog' = backlog /\ got' = got
  BY DEF Read
<1>3. /\ sent \in Seq(Payloads) /\ wire \in Seq(Byte) /\ Len(wire) \in Nat
      /\ Len(sent) \in Nat /\ Len(got) \in 0 .. Len(sent)
      /\ backlog \in Seq(Byte) /\ Len(backlog) \in Nat
  BY BufferType DEF Inductive
<1>4. /\ arg' \in Seq(Byte) /\ Len(arg') = k
      /\ wire' \in Seq(Byte) /\ Len(wire') = Len(wire) - k
  <2>1. /\ SubSeq(wire, 1, k) \in Seq(Byte) /\ Len(SubSeq(wire, 1, k)) = k
        /\ Drop(wire, k) \in Seq(Byte) /\ Len(Drop(wire, k)) = Len(wire) - k
    BY <1>3 DEF Drop
  <2> QED BY <1>1, <2>1
<1>5. wire = arg' \o wire'
  BY <1>1, <1>3, SubSeqFull, ConcatAdjacentSubSeq DEF Drop
<1>6. read_buf = backlog
  BY <1>2, <1>3, ConcatEmptySeq DEF Inductive, TypeOK, read_buf
<1>7. read_buf' \in Seq(Byte) /\ Len(read_buf') = Len(backlog) + k
  BY <1>2, <1>3, <1>4, ConcatProperties DEF read_buf
<1>9. TypeOK'
  BY TypeKept DEF Inductive, Next, Server
<1>10. InOrder'
  BY <1>2 DEF Inductive, InOrder
<1>11. OnlyTornGivenUp'
  BY <1>2 DEF OnlyTornGivenUp
<1>12. OneInFlight'
  BY <1>2 DEF Inductive, OneInFlight
<1>13. Holds(sent, Len(got), backlog, wire)
  BY <1>2, <1>6 DEF Inductive, Located
<1>14. Located'
  <2>1. backlog \o wire = read_buf' \o wire'
    BY <1>2, <1>3, <1>4, <1>5, BytesAssociate DEF read_buf
  <2> QED BY <1>2, <1>13, <2>1 DEF Located, Holds
<1>16. Backlogged'
  <2> SUFFICES ASSUME backlog # <<>>
               PROVE  /\ Len(got) < Len(sent)
                      /\ Len(backlog) < Len(NextFrame)
                      /\ Len(backlog) + k <= Len(NextFrame)
    <3>1. NextFrame' = NextFrame
      BY <1>2 DEF NextFrame
    <3> QED BY <1>2, <1>7, <3>1 DEF Backlogged
  <2> DEFINE m == Len(got)
             b == Len(backlog)
             f == Len(NextFrame)
  <2>1. m < Len(sent) /\ b < f
    BY <1>2 DEF Inductive, Backlogged
  <2>2. m \in 0 .. Len(sent) /\ m + 1 \in 1 .. Len(sent)
        /\ m + 1 \in 0 .. Len(sent) /\ (m + 1) - 1 = m
    BY <1>3, <2>1
  <2>3. b \in Nat /\ b # 0
    BY <1>3, EmptySeq
  <2>4. At(sent, m+1) = At(sent, m) + f
    BY <1>3, <2>1, <2>2, AtIs DEF NextFrame
  <2>5. At(sent, Len(sent)) = At(sent, m) + b + Len(wire)
    BY <1>3, <1>13, HoldsLen
  <2>6. At(sent, m) \in Nat /\ At(sent, m+1) \in Nat
    BY <1>3, <2>2, AtIs
  <2>7. Consumed = At(sent, Len(sent)) - Len(wire)
    BY DEF Consumed, Written, At
  <2> HIDE DEF b, f
  <2>8. Consumed = At(sent, m) + b
    BY <1>3, <2>3, <2>5, <2>6, <2>7
  <2>9. f \in Int
    BY <2>4, <2>6, <2>1, <2>3, FrameIs, <1>3, <2>2, ElementOfSeq DEF f, NextFrame
  <2>10. CASE ~ReadsPast
    <3>1. ~PastPacket(Consumed + k)
      BY <1>1, <2>10
    <3>2. At(sent, m) < Consumed /\ Consumed < At(sent, m+1)
      BY <2>1, <2>3, <2>4, <2>6, <2>8, <2>9 DEF b, f
    <3>3. ~(At(sent, m+1) < Consumed + k)
      <4>1. Written(m) = At(sent, m) /\ Written(m+1) = At(sent, m+1)
        BY DEF Written, At
      <4>2. Written((m + 1) - 1) < Consumed /\ Consumed < Written(m+1)
        BY <2>2, <3>2, <4>1
      <4>3. ~(Written(m+1) < Consumed + k)
        BY <2>2, <3>1, <4>2, Zenon DEF PastPacket
      <4> QED BY <4>1, <4>3
    <3>4. b + k <= f
      BY <2>3, <2>4, <2>6, <2>8, <2>9, <3>3
    <3> QED BY <2>1, <3>4 DEF b, f
  <2>11. CASE ~Pipelined
    <3>1. Len(sent) = m + 1
      BY <1>3, <2>1, <2>11 DEF Inductive, OneInFlight
    <3>2. b + Len(wire) = f
      <4>1. At(sent, Len(sent)) = At(sent, m+1)
        BY <3>1
      <4>2. Len(wire) \in Nat
        BY LenProperties, <1>3
      <4> HIDE DEF m
      <4> QED BY <2>3, <2>4, <2>5, <2>6, <2>9, <4>1, <4>2
    <3>3. b + k <= f
      BY <1>3, <2>3, <3>2
    <3> QED BY <2>1, <3>3 DEF b, f
  <2> QED BY <2>10, <2>11 DEF Calm
<1>17. TornSeen'
  <2> DEFINE x == At(sent', Len(sent')) - Len(wire')
  <2>1. At(sent, Len(sent)) \in Nat
    <3>1. Len(sent) \in 0 .. Len(sent)
      BY <1>3
    <3> QED BY <1>3, <3>1, AtIs
  <2>2. Consumed = At(sent, Len(sent)) - Len(wire)
    BY DEF Consumed, Written, At
  <2>3. x = Consumed + k
    BY <1>2, <1>3, <1>4, <2>1, <2>2
  <2> HIDE DEF x
  <2>4. Inside(sent, x) => InsideHead(Consumed + k)
    BY <2>3 DEF Inside, InsideHead, Written, At
  <2>5. Inside(sent', x) => torn'
    BY <1>1, <1>2, <2>4
  <2> QED BY <2>5 DEF TornSeen, x
<1> QED BY <1>9, <1>10, <1>11, <1>12, <1>14, <1>16, <1>17 DEF Inductive

LEMMA BadLengthKeeps == ASSUME Inductive, BadLength PROVE Inductive'
<1>1. /\ status = "handle" /\ pos = 0 /\ status' = "closed" /\ arg' = <<>>
      /\ sent' = sent /\ wire' = wire /\ backlog' = backlog
      /\ got' = got /\ torn' = torn
  BY DEF BadLength
<1> DEFINE m == Len(got)
           p == sent[m+1]
           l == EncodedLen(Len(p))
<1>2. /\ Holds(sent, m, read_buf, wire) /\ read_buf \in Seq(Byte)
      /\ Len(read_buf) \in Nat \ {0} /\ Len(read_buf) < l
      /\ m < Len(sent) /\ p \in Payloads /\ l \in Nat \ {0}
  BY <1>1, HandleReads
<1>3. /\ sent \in Seq(Payloads) /\ wire \in Seq(Byte) /\ Len(wire) \in Nat
      /\ Len(sent) \in Nat /\ m \in 0 .. Len(sent)
  BY BufferType DEF Inductive
<1>4. torn
  <2> DEFINE x == At(sent, Len(sent)) - Len(wire)
  <2>1. m + 1 \in 1 .. Len(sent) /\ (m + 1) - 1 = m
    BY <1>2, <1>3
  <2>2. At(sent, m) \in Nat /\ At(sent, Len(sent)) \in Nat
    <3>1. Len(sent) \in 0 .. Len(sent)
      BY <1>3
    <3> QED BY <1>3, <3>1, AtIs
  <2>3. At(sent, Len(sent)) = At(sent, m) + Len(read_buf) + Len(wire)
    BY <1>2, <1>3, HoldsLen
  <2>4. x = At(sent, m) + Len(read_buf)
    BY <1>2, <1>3, <2>2, <2>3
  <2>5. Len(Encode(Len(p))) = l
    BY <1>2, FrameIs
  <2> HIDE DEF l, p, x
  <2>6. At(sent, m) < x /\ x < At(sent, m) + Len(Encode(Len(p)))
    BY <1>2, <2>2, <2>4, <2>5
  <2>7. Inside(sent, x)
    BY <2>1, <2>6 DEF Inside, p
  <2> QED BY <1>1, <2>7 DEF Inductive, TornSeen, x
<1>5. TypeOK'
  BY TypeKept DEF Inductive, Next, Server
<1>6. InOrder' /\ OneInFlight'
  BY <1>1 DEF Inductive, InOrder, OneInFlight
<1>7. OnlyTornGivenUp'
  BY <1>1, <1>4 DEF OnlyTornGivenUp
<1>8. Located' /\ Backlogged' /\ TornSeen'
  BY <1>1 DEF Located, Backlogged, TornSeen
<1> QED BY <1>5, <1>6, <1>7, <1>8 DEF Inductive

LEMMA IncompleteKeeps == ASSUME Inductive, Incomplete PROVE Inductive'
<1>1. /\ status = "handle" /\ pos # 0 /\ remaining_data < packet_len
      /\ status' = "idle" /\ arg' = <<>> /\ backlog' = read_buf
      /\ sent' = sent /\ wire' = wire /\ got' = got /\ torn' = torn
  BY DEF Incomplete
<1> DEFINE m == Len(got)
           p == sent[m+1]
           l == EncodedLen(Len(p))
<1>2. /\ Holds(sent, m, read_buf, wire) /\ read_buf \in Seq(Byte)
      /\ Len(read_buf) \in Nat \ {0} /\ m < Len(sent)
      /\ l \in Nat \ {0} /\ Len(p) \in Nat
      /\ NextFrame = Frame(p) /\ Len(Frame(p)) = l + Len(p)
      /\ packet_len = Len(p) /\ remaining_data = Len(read_buf) - l
  BY <1>1, HandleReads
<1> HIDE DEF p, l
<1>3. Len(read_buf) < Len(NextFrame)
  BY <1>1, <1>2
<1>4. read_buf' = read_buf
  BY <1>1, <1>2, ConcatEmptySeq DEF read_buf
<1>5. TypeOK'
  BY TypeKept DEF Inductive, Next, Server
<1>6. InOrder' /\ OneInFlight'
  BY <1>1 DEF Inductive, InOrder, OneInFlight
<1>7. OnlyTornGivenUp' /\ TornSeen'
  BY <1>1 DEF OnlyTornGivenUp, TornSeen
<1>8. Located'
  BY <1>1, <1>2, <1>4 DEF Located
<1>9. Backlogged'
  <2>1. NextFrame' = NextFrame
    BY <1>1 DEF NextFrame
  <2>2. Len(NextFrame) \in Nat
    BY <1>2
  <2>3. /\ Len(got') < Len(sent') /\ Len(backlog') < Len(NextFrame')
        /\ Len(read_buf') <= Len(NextFrame')
    BY <1>1, <1>2, <1>3, <1>4, <2>1, <2>2
  <2> QED BY <2>3 DEF Backlogged
<1> QED BY <1>5, <1>6, <1>7, <1>8, <1>9 DEF Inductive

\* The packet handed on is the next one, and the handler goes on or stops.
LEMMA CompleteIs ==
  ASSUME Inductive, Complete
  PROVE  /\ status = "handle" /\ Len(got) < Len(sent)
         /\ sent[Len(got)+1] \in Payloads
         /\ got' = Append(got, sent[Len(got)+1])
         /\ Holds(sent, Len(got) + 1, left_off, wire)
         /\ left_off \in Seq(Byte) /\ backlog' = <<>> /\ arg' = left_off
         /\ \/ left_off # <<>> /\ status' = "handle"
            \/ left_off = <<>> /\ status' = "idle"
<1>1. status = "handle" /\ pos # 0 /\ remaining_data >= packet_len
      /\ got' = Append(got, packet)
  BY DEF Complete
<1> DEFINE m == Len(got)
           p == sent[m+1]
           l == EncodedLen(Len(p))
<1>2. /\ read_buf \in Seq(Byte) /\ Len(read_buf) \in Nat
      /\ m < Len(sent) /\ p \in Payloads
      /\ l \in Nat \ {0} /\ Len(p) \in Nat
      /\ NextFrame = Frame(p) /\ Len(Frame(p)) = l + Len(p)
      /\ Len(read_buf) >= l + Len(p) /\ packet = p
      /\ left_off = Drop(read_buf, l + Len(p))
      /\ Holds(sent, m + 1, left_off, wire)
  BY <1>1, HandleReads
<1>3. VarIntLen(packet) # 0
  BY <1>2, PayloadIs
<1>4. \/ left_off # <<>> /\ arg' = left_off /\ status' = status
         /\ backlog' = backlog
      \/ left_off = <<>> /\ arg' = <<>> /\ backlog' = <<>> /\ status' = "idle"
  BY <1>3 DEF Complete
<1> HIDE DEF p, l
<1> DEFINE n == l + Len(p)
<1>5. /\ n \in Nat /\ n <= Len(read_buf) /\ left_off = Drop(read_buf, n)
      /\ Len(NextFrame) = n
  BY <1>2
<1> HIDE DEF n
<1>6. left_off \in Seq(Byte) /\ Len(left_off) = Len(read_buf) - n
  <2>1. Drop(read_buf, n) \in Seq(Byte)
        /\ Len(Drop(read_buf, n)) = Len(read_buf) - n
    BY <1>2, <1>5 DEF Drop
  <2> QED BY <1>5, <2>1
<1>7. ASSUME left_off # <<>> PROVE backlog = <<>>
  <2>1. Len(left_off) # 0
    BY <1>6, <1>7, EmptySeq
  <2>2. ~(Len(read_buf) <= Len(NextFrame))
    BY <1>2, <1>5, <1>6, <2>1
  <2> QED BY <1>1, <2>2 DEF Inductive, Backlogged
<1> QED BY <1>1, <1>2, <1>4, <1>6, <1>7 DEF p

LEMMA CompleteKeeps == ASSUME Inductive, Complete PROVE Inductive'
<1> DEFINE m == Len(got)
           p == sent[m+1]
<1>1. /\ status = "handle" /\ m < Len(sent) /\ p \in Payloads
      /\ got' = Append(got, p) /\ Holds(sent, m + 1, left_off, wire)
      /\ left_off \in Seq(Byte) /\ backlog' = <<>> /\ arg' = left_off
      /\ \/ left_off # <<>> /\ status' = "handle"
         \/ left_off = <<>> /\ status' = "idle"
  BY CompleteIs
<1>2. sent' = sent /\ wire' = wire /\ torn' = torn
  BY DEF Complete
<1>3. /\ sent \in Seq(Payloads) /\ got \in Seq(Seq(Byte))
      /\ Len(sent) \in Nat /\ m \in 0 .. Len(sent)
  BY BufferType DEF Inductive
<1>4. /\ Len(got') = m + 1
      /\ \A i \in 1 .. m : got'[i] = got[i]
      /\ got'[m+1] = p
  <2>1. p \in Seq(Byte)
    BY <1>1, PayloadIs
  <2> HIDE DEF m, p
  <2>2. m = Len(got)
    BY DEF m
  <2> QED BY <1>1, <1>3, <2>1, <2>2, AppendProperties
<1>5. read_buf' = left_off
  BY <1>1, ConcatEmptySeq DEF read_buf
<1>6. TypeOK'
  BY TypeKept DEF Inductive, Next, Server
<1>7. InOrder'
  <2>1. Len(got') <= Len(sent')
    BY <1>1, <1>2, <1>3, <1>4
  <2>2. ASSUME NEW n \in 1 .. Len(got') PROVE got'[n] = sent'[n]
    <3>1. n \in 1 .. m \/ n = m + 1
      BY <1>3, <1>4
    <3>2. \A i \in 1 .. m : got[i] = sent[i]
      BY DEF Inductive, InOrder
    <3> QED BY <1>2, <1>4, <3>1, <3>2
  <2> QED BY <2>1, <2>2 DEF InOrder
<1>8. OnlyTornGivenUp'
  BY <1>1 DEF OnlyTornGivenUp
<1>9. OneInFlight'
  BY <1>2, <1>3, <1>4 DEF Inductive, OneInFlight
<1>10. Located'
  BY <1>1, <1>2, <1>4, <1>5 DEF Located
<1>12. Backlogged'
  BY <1>1 DEF Backlogged
<1>13. TornSeen'
  BY <1>1, <1>2 DEF Inductive, TornSeen
<1> QED BY <1>6, <1>7, <1>8, <1>9, <1>10, <1>12, <1>13 DEF Inductive

LEMMA StutterKeeps == ASSUME Inductive, UNCHANGED vars PROVE Inductive'
<1>1. /\ sent' = sent /\ wire' = wire /\ arg' = arg /\ backlog' = backlog
      /\ got' = got /\ status' = status /\ torn' = torn
  BY DEF vars
<1>2. TypeOK'
  BY TypeKept DEF Inductive
<1>3. InOrder' /\ OnlyTornGivenUp' /\ OneInFlight'
  BY <1>1 DEF Inductive, InOrder, OnlyTornGivenUp, OneInFlight
<1>4. Located'
  BY <1>1 DEF Inductive, Located, read_buf
<1>5. Backlogged'
  BY <1>1 DEF Inductive, Backlogged, NextFrame, read_buf
<1>6. TornSeen'
  BY <1>1 DEF Inductive, TornSeen
<1> QED BY <1>2, <1>3, <1>4, <1>5, <1>6 DEF Inductive

LEMMA NextKeeps == ASSUME Calm, Inductive, [Next]_vars PROVE Inductive'
<1>1. CASE Write
  BY <1>1, WriteKeeps
<1>2. CASE Read
  BY <1>2, ReadKeeps
<1>3. CASE BadLength
  BY <1>3, BadLengthKeeps
<1>4. CASE Incomplete
  BY <1>4, IncompleteKeeps
<1>5. CASE Complete
  BY <1>5, CompleteKeeps
<1>6. CASE Done
  BY <1>6, StutterKeeps DEF Done
<1>7. CASE UNCHANGED vars
  BY <1>7, StutterKeeps
<1> QED BY <1>1, <1>2, <1>3, <1>4, <1>5, <1>6, <1>7 DEF Next, Server

THEOREM InductiveInvariant == ASSUME Calm PROVE Spec => []Inductive
<1>1. Init => Inductive
  BY InitInductive
<1>2. Inductive /\ [Next]_vars => Inductive'
  BY NextKeeps
<1> QED BY <1>1, <1>2, PTL DEF Spec

-----------------------------------------------------------------------------
(* What follows.                                                           *)

\* The packets handed on are those the client wrote, in order and unchanged.
THEOREM DeliversInOrder == ASSUME Calm PROVE Spec => []InOrder
<1>1. Inductive => InOrder
  BY DEF Inductive
<1> QED BY <1>1, InductiveInvariant, PTL

\* The connection is given up only after a read that ended inside a length.
THEOREM GivesUpOnlyTorn == ASSUME Calm PROVE Spec => []OnlyTornGivenUp
<1>1. Inductive => OnlyTornGivenUp
  BY DEF Inductive
<1> QED BY <1>1, InductiveInvariant, PTL

\* Between reads the backlog is the beginning of the next packet.
LEMMA BacklogBegins == ASSUME Inductive PROVE BacklogIsHead
<1> SUFFICES ASSUME status = "idle" PROVE BacklogIsHead
  BY DEF BacklogIsHead
<1> DEFINE m == Len(got)
           p == sent[m+1]
<1>1. /\ sent \in Seq(Payloads) /\ wire \in Seq(Byte) /\ Len(wire) \in Nat
      /\ Len(sent) \in Nat /\ m \in 0 .. Len(sent)
      /\ backlog \in Seq(Byte) /\ Len(backlog) \in Nat
  BY BufferType DEF Inductive
<1>2. read_buf = backlog
  BY <1>1, ConcatEmptySeq DEF Inductive, TypeOK, read_buf
<1>3. Holds(sent, m, backlog, wire)
  BY <1>2 DEF Inductive, Located
<1>4. At(sent, m) \in Nat /\ At(sent, Len(sent)) \in Nat
  <2>1. Len(sent) \in 0 .. Len(sent)
    BY <1>1
  <2> QED BY <1>1, <2>1, AtIs
<1>5. Consumed - Written(m) = Len(backlog)
  <2>1. At(sent, Len(sent)) = At(sent, m) + Len(backlog) + Len(wire)
    BY <1>1, <1>3, HoldsLen
  <2>2. Consumed - Written(m)
          = (At(sent, Len(sent)) - Len(wire)) - At(sent, m)
    BY DEF Consumed, Written, At
  <2> QED BY <1>1, <1>4, <2>1, <2>2
<1>6. CASE backlog = <<>>
  <2>1. Consumed = Written(m)
    <3>1. Consumed = At(sent, Len(sent)) - Len(wire) /\ Written(m) = At(sent, m)
      BY DEF Consumed, Written, At
    <3>2. Len(backlog) = 0
      BY <1>6, EmptySeq
    <3> QED BY <1>1, <1>4, <1>5, <3>1, <3>2
  <2> QED BY <1>6, <2>1 DEF BacklogIsHead
<1>7. CASE backlog # <<>>
  <2>1. m < Len(sent) /\ Len(backlog) < Len(Frame(p))
    BY <1>7 DEF Inductive, Backlogged, NextFrame
  <2>2. Finds(sent, m, backlog, wire, p, EncodedLen(Len(p)))
    BY <1>1, <1>3, <1>7, BufferRead
  <2>3. backlog = SubSeq(Frame(p), 1, Len(backlog))
    BY <2>1, <2>2 DEF Finds
  <2> QED BY <1>5, <2>1, <2>3 DEF BacklogIsHead
<1> QED BY <1>6, <1>7

THEOREM BacklogIsBeginning == ASSUME Calm PROVE Spec => []BacklogIsHead
<1>1. Inductive => BacklogIsHead
  BY BacklogBegins
<1> QED BY <1>1, InductiveInvariant, PTL

\* handle_packet implements the safety of PacketStream: it starts as the
\* stream does, Write writes, Complete delivers the next packet, BadLength
\* breaks the stream, and Read and Incomplete change nothing of it.
LEMMA StepsImplement ==
  ASSUME Inductive, [Next]_vars
  PROVE  [Stream!Next]_(Stream!vars)
<1>1. CASE Write
  <2>1. Stream!Write
    BY <1>1 DEF Write, Stream!Write
  <2> QED BY <2>1 DEF Stream!Next
<1>2. CASE Read
  <2>1. sent' = sent /\ got' = got /\ status = "idle" /\ status' = "handle"
    BY <1>2 DEF Read
  <2>2. (status' = "closed") = (status = "closed")
    BY <2>1
  <2> QED BY <2>1, <2>2 DEF Stream!vars
<1>3. CASE BadLength
  <2>1. sent' = sent /\ got' = got /\ status' = "closed"
    BY <1>3 DEF BadLength
  <2>2. Stream!Break
    BY <2>1 DEF Stream!Break
  <2> QED BY <2>2 DEF Stream!Next
<1>4. CASE Incomplete
  <2>1. sent' = sent /\ got' = got /\ status = "handle" /\ status' = "idle"
    BY <1>4 DEF Incomplete
  <2>2. (status' = "closed") = (status = "closed")
    BY <2>1
  <2> QED BY <2>1, <2>2 DEF Stream!vars
<1>5. CASE Complete
  <2>1. /\ status = "handle" /\ status' # "closed" /\ sent' = sent
        /\ Len(got) < Len(sent) /\ got' = Append(got, sent[Len(got)+1])
    BY <1>5, CompleteIs DEF Complete
  <2>2. (status' = "closed") = (status = "closed") /\ status # "closed"
    BY <2>1
  <2>3. Stream!Deliver
    BY <2>1, <2>2 DEF Stream!Deliver
  <2> QED BY <2>3 DEF Stream!Next
<1>6. CASE UNCHANGED vars
  BY <1>6 DEF vars, Stream!vars
<1>7. CASE Done
  BY <1>6, <1>7 DEF Done
<1> QED BY <1>1, <1>2, <1>3, <1>4, <1>5, <1>6, <1>7 DEF Next, Server

THEOREM ImplementsPacketStream ==
  ASSUME Calm
  PROVE  Spec => Stream!Init /\ [][Stream!Next]_(Stream!vars)
<1>1. Init => Stream!Init
  BY DEF Init, Stream!Init
<1>2. Inductive /\ [Next]_vars => [Stream!Next]_(Stream!vars)
  BY StepsImplement
<1> QED BY <1>1, <1>2, InductiveInvariant, PTL DEF Spec
=============================================================================
