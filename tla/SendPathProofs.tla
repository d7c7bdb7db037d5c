--------------------------- MODULE SendPathProofs ---------------------------
(***************************************************************************)
(* Theorems about SendPath, for packets of any lengths and number, and a   *)
(* socket with any room.                                                   *)
(***************************************************************************)
EXTENDS SendPath, SequenceTheorems, FiniteSetTheorems, TLAPS

USE SendAssumption

\* A packet is being sent only when there is one.
CurrentKnown == current <= MaxPackets /\ (sending => current > 0)

\* Nothing of a packet is taken that was not handed to send().
NothingAhead ==
  alive => \A n \in 1 .. Len(Taken) :
    /\ Taken[n][1] \in 1 .. current
    /\ sending /\ Taken[n][1] = current => Taken[n][2] < total

\* The last byte taken is the one before total.
EndsAtTotal ==
  alive /\ sending /\ total > 0 =>
    Len(Taken) > 0 /\ Taken[Len(Taken)] = <<current, total - 1>>

\* So many bytes of the current packet are taken as total says.
TotalTaken == alive /\ sending => Cardinality(OfPacket(current)) = total

\* A packet is reported after it was sent.
NotYetReported ==
  /\ reported \subseteq 1 .. current
  /\ sending => current \notin reported

\* If the client was not behind, only the current packet is in the buffer.
OnlyCurrent ==
  alive /\ sending /\ current \notin behind => Len(sndbuf) <= total

IInv == /\ TypeOK /\ CurrentKnown
        /\ NothingAhead /\ EndsAtTotal /\ PrefixesInOrder
        /\ TotalTaken /\ NotYetReported /\ ReportedIffCut
        /\ OnlyCurrent /\ OnlyBehindCut

-----------------------------------------------------------------------------
(* What is taken.                                                          *)

LEMMA CurrentType ==
  ASSUME TypeOK, CurrentKnown
  PROVE  current \in 0 .. MaxPackets /\ \A k \in 1 .. current : lens[k] \in Nat \ {0}
<1>1. current \in Nat /\ \A k \in 1 .. current : lens[k] \in Sizes
  BY ElementOfSeq, LenProperties DEF TypeOK, current
<1>2. current <= MaxPackets
  BY DEF CurrentKnown
<1>3. \A k \in 1 .. current : lens[k] \in Nat \ {0}
  BY <1>1
<1> QED BY <1>1, <1>2, <1>3

LEMMA TakenType ==
  ASSUME TypeOK
  PROVE  /\ Taken \in Seq(Positions)
         /\ Len(Taken) = Len(stream) + Len(sndbuf)
         /\ \A n \in 1 .. Len(Taken) :
              Taken[n] \in Positions /\ Taken[n] = <<Taken[n][1], Taken[n][2]>>
              /\ Taken[n][1] \in Nat /\ Taken[n][2] \in Nat
<1>1. Taken \in Seq(Positions) /\ Len(Taken) = Len(stream) + Len(sndbuf)
  BY ConcatProperties DEF TypeOK, Taken
<1>2. \A n \in 1 .. Len(Taken) : Taken[n] \in Positions
  BY <1>1, ElementOfSeq
<1> QED BY <1>1, <1>2 DEF Positions

\* The bytes of a packet that are taken can be counted.
LEMMA OfPacketFinite ==
  ASSUME TypeOK, NEW k
  PROVE  IsFiniteSet(OfPacket(k)) /\ OfPacket(k) \subseteq 1 .. Len(Taken)
<1>1. OfPacket(k) \subseteq 1 .. Len(Taken)
  BY DEF OfPacket
<1>2. IsFiniteSet(1 .. Len(Taken))
  BY FS_Interval, TakenType
<1> QED BY <1>1, <1>2, FS_Subset

\* The bytes given to one send().
LEMMA BytesProperties ==
  ASSUME NEW from \in Nat, NEW n \in Nat, current \in 1 .. MaxPackets
  PROVE  /\ Bytes(from, n) \in Seq(Positions)
         /\ Len(Bytes(from, n)) = n
         /\ \A k \in 1 .. n : Bytes(from, n)[k] = <<current, from + k - 1>>
<1>1. \A k \in 1 .. n : <<current, from + k - 1>> \in Positions
  BY DEF Positions
<1> QED BY <1>1, IsASeq DEF Bytes

\* A step that leaves the bytes taken, the packets and what is being sent as
\* they are keeps what is said about them.
LEMMA SameTaken ==
  ASSUME Taken' = Taken, UNCHANGED <<lens, total, sending, alive>>,
         NothingAhead, EndsAtTotal, PrefixesInOrder, TotalTaken
  PROVE  NothingAhead' /\ EndsAtTotal' /\ PrefixesInOrder' /\ TotalTaken'
BY DEF NothingAhead, EndsAtTotal, PrefixesInOrder, TotalTaken, OfPacket, current

-----------------------------------------------------------------------------
(* The steps.                                                              *)

LEMMA InitIInv == Init => IInv
<1> SUFFICES ASSUME Init PROVE IInv
  OBVIOUS
<1>1. TypeOK
  <2>1. <<>> \in Seq(Sizes) /\ <<>> \in Seq(Positions) /\ Len(<<>>) = 0
    BY EmptySeq
  <2>2. ~sending /\ sending \in BOOLEAN /\ alive \in BOOLEAN
    BY DEF Init
  <2>3. total \in Nat /\ bytesleft \in Nat /\ Len(sndbuf) <= SndBuf
    BY <2>1 DEF Init
  <2> QED BY <2>1, <2>2, <2>3, Zenon DEF Init, TypeOK
<1>2. Taken = <<>> /\ current = 0 /\ Len(Taken) = 0
  BY DEF Init, Taken, current
<1> QED BY <1>1, <1>2
        DEF Init, IInv, CurrentKnown, NothingAhead, EndsAtTotal,
            PrefixesInOrder, TotalTaken, NotYetReported, ReportedIffCut,
            OnlyCurrent, OnlyBehindCut

LEMMA StartIInv ==
  ASSUME IInv, Start
  PROVE  IInv'
<1>1. PICK len \in Sizes : lens' = Append(lens, len) /\ bytesleft' = len
  BY DEF Start
<1>2. /\ ~sending /\ sending' /\ total' = 0
      /\ current < MaxPackets
      /\ UNCHANGED <<sndbuf, stream, alive, reported>>
      /\ behind' = IF sndbuf = <<>> THEN behind ELSE behind \cup {current + 1}
  BY DEF Start
<1>3. /\ current \in Nat /\ current' = current + 1
      /\ lens' \in Seq(Sizes)
      /\ lens'[current'] = len
      /\ \A k \in 1 .. current : lens'[k] = lens[k]
  BY <1>1, AppendProperties DEF IInv, TypeOK, current
<1>4. Taken' = Taken
  BY <1>2 DEF Taken
<1>5. TypeOK'
  BY <1>1, <1>2, <1>3 DEF IInv, TypeOK, current
<1>6. CurrentKnown'
  BY <1>2, <1>3 DEF CurrentKnown
<1>7. \A n \in 1 .. Len(Taken) : alive => Taken[n][1] \in 1 .. current
  BY DEF IInv, NothingAhead
<1>8. NothingAhead'
  BY <1>2, <1>3, <1>4, <1>7 DEF NothingAhead
<1>9. PrefixesInOrder'
  BY <1>2, <1>3, <1>4, <1>7 DEF IInv, PrefixesInOrder
<1>10. TotalTaken'
  <2>1. alive => {n \in 1 .. Len(Taken) : Taken[n][1] = current + 1} = {}
    BY <1>3, <1>7
  <2>2. alive => OfPacket(current)' = {}
    BY <1>3, <1>4, <2>1 DEF OfPacket
  <2> QED BY <1>2, <2>2, FS_EmptySet DEF TotalTaken
<1>11. NotYetReported'
  BY <1>2, <1>3 DEF IInv, NotYetReported
<1>12. ReportedIffCut'
  <2> SUFFICES ASSUME alive, NEW k \in 1 .. current
               PROVE  k \in reported <=> Cardinality(OfPacket(k)) < lens[k]
    BY <1>2, <1>3, <1>4 DEF ReportedIffCut, OfPacket
  <2> QED BY <1>2 DEF IInv, ReportedIffCut
<1>13. OnlyCurrent'
  <2>1. sndbuf = <<>> => Len(sndbuf) = 0
    OBVIOUS
  <2> QED BY <1>2, <1>3, <2>1 DEF OnlyCurrent
<1>14. OnlyBehindCut'
  BY <1>2, <1>3 DEF IInv, OnlyBehindCut, NotYetReported
<1>15. EndsAtTotal'
  BY <1>2 DEF EndsAtTotal
<1> QED BY <1>5, <1>6, <1>8, <1>9, <1>10, <1>11, <1>12, <1>13, <1>14, <1>15
        DEF IInv

LEMMA SendIInv ==
  ASSUME IInv, Send
  PROVE  IInv'
<1>1. PICK n \in 1 .. bytesleft : Len(sndbuf) + n <= SndBuf /\ Accepted(n)
  BY DEF Send
<1>2. /\ sending /\ alive /\ total < lens[current]
      /\ UNCHANGED <<lens, sending, stream, alive, reported, behind>>
  BY DEF Send
<1>3. /\ total \in Nat /\ bytesleft \in Nat /\ n \in Nat \ {0}
      /\ total' = total + n /\ bytesleft' = bytesleft - n
      /\ total + bytesleft = lens[current]
  BY <1>1, <1>2 DEF Accepted, IInv, TypeOK, current
<1>4. current \in 1 .. MaxPackets /\ current' = current
  <2>1. current > 0
    BY <1>2 DEF IInv, CurrentKnown
  <2>2. current \in 0 .. MaxPackets
    BY CurrentType DEF IInv
  <2> QED BY <1>2, <2>1, <2>2 DEF current
<1> DEFINE B == Bytes(total, n)
           L == Len(Taken)
<1>5. /\ B \in Seq(Positions) /\ Len(B) = n
      /\ \A k \in 1 .. n : B[k] = <<current, total + k - 1>>
  BY <1>3, <1>4, BytesProperties
<1>6. sndbuf' = sndbuf \o B
  BY <1>1 DEF Accepted
<1> HIDE DEF B
<1>7. /\ sndbuf \in Seq(Positions) /\ stream \in Seq(Positions)
      /\ Taken \in Seq(Positions) /\ L \in Nat
      /\ sndbuf' \in Seq(Positions) /\ Len(sndbuf') = Len(sndbuf) + n
  <2>1. sndbuf \in Seq(Positions) /\ stream \in Seq(Positions)
    BY DEF IInv, TypeOK
  <2>2. Taken \in Seq(Positions)
    BY TakenType DEF IInv
  <2> QED BY <1>5, <1>6, <2>1, <2>2, ConcatProperties, LenProperties
<1>8. Taken' = Taken \o B
  <2>1. (stream \o sndbuf) \o B = stream \o (sndbuf \o B)
    <3>1. /\ stream \in Seq(Positions) /\ sndbuf \in Seq(Positions)
          /\ B \in Seq(Positions)
      BY <1>5, <1>7
    <3> QED BY <3>1, ConcatAssociative
  <2>2. Taken' = stream \o (sndbuf \o B)
    BY <1>2, <1>6, Zenon DEF Taken
  <2> QED BY <2>1, <2>2, Zenon DEF Taken
<1>9. /\ Len(Taken') = L + n
      /\ \A m \in 1 .. L : Taken'[m] = Taken[m]
      /\ \A m \in L + 1 .. L + n : Taken'[m] = <<current, total + (m - L) - 1>>
  <2>1. /\ Len(Taken') = L + n
        /\ \A m \in 1 .. L + n :
             Taken'[m] = IF m <= L THEN Taken[m] ELSE B[m - L]
    BY <1>5, <1>7, <1>8, ConcatProperties
  <2>2. \A m \in L + 1 .. L + n : m - L \in 1 .. n /\ ~(m <= L)
    BY <1>3, <1>7
  <2>3. \A m \in 1 .. L : m \in 1 .. L + n /\ m <= L
    BY <1>3, <1>7
  <2>4. \A m \in L + 1 .. L + n : m \in 1 .. L + n
    BY <1>3, <1>7
  <2> HIDE DEF L
  <2>5. \A m \in 1 .. L : Taken'[m] = Taken[m]
    BY <2>1, <2>3
  <2>6. \A m \in L + 1 .. L + n : Taken'[m] = B[m - L]
    BY <2>1, <2>2, <2>4
  <2> QED BY <1>5, <2>1, <2>2, <2>5, <2>6
<1> HIDE DEF L
<1>10. TypeOK'
  <2>1. total' \in Nat /\ bytesleft' \in Nat /\ total' + bytesleft' = lens[current]
    BY <1>1, <1>3
  <2>2. Len(sndbuf') <= SndBuf
    BY <1>1, <1>7
  <2> QED BY <1>2, <1>7, <2>1, <2>2 DEF IInv, TypeOK, current
<1>11. CurrentKnown'
  BY <1>2, <1>4 DEF IInv, CurrentKnown
<1>12. NothingAhead'
  <2> SUFFICES ASSUME NEW m \in 1 .. L + n
               PROVE  /\ Taken'[m][1] \in 1 .. current
                      /\ Taken'[m][1] = current => Taken'[m][2] < total'
    BY <1>4, <1>9 DEF NothingAhead
  <2>1. CASE m \in 1 .. L
    <3>1. /\ Taken[m][1] \in 1 .. current
          /\ Taken[m][1] = current => Taken[m][2] < total
      BY <1>2, <2>1 DEF IInv, NothingAhead, L
    <3>2. Taken[m][2] \in Nat
      BY <2>1, TakenType DEF IInv, L
    <3> QED BY <1>3, <1>9, <2>1, <3>1, <3>2
  <2>2. CASE m \in L + 1 .. L + n
    BY <1>3, <1>4, <1>7, <1>9, <2>2
  <2> QED BY <1>3, <1>7, <2>1, <2>2
<1>13. EndsAtTotal'
  <2>1. L + n \in L + 1 .. L + n /\ L + n > 0
    BY <1>3, <1>7
  <2>2. Taken'[L + n] = <<current, total' - 1>>
    <3>1. total + ((L + n) - L) - 1 = total' - 1
      BY <1>3, <1>7
    <3> QED BY <1>9, <2>1, <3>1
  <2> QED BY <1>4, <1>9, <2>1, <2>2 DEF EndsAtTotal
<1>14. PrefixesInOrder'
  <2> SUFFICES ASSUME NEW m \in 1 .. L + n
               PROVE  LET k == Taken'[m][1]
                          o == Taken'[m][2]
                      IN /\ o < lens[k]
                         /\ IF o = 0 THEN m = 1 \/ Taken'[m-1][1] < k
                            ELSE m > 1 /\ Taken'[m-1] = <<k, o - 1>>
    BY <1>2, <1>9 DEF PrefixesInOrder
  <2>1. CASE m \in 1 .. L
    <3>1. m = 1 \/ m - 1 \in 1 .. L
      BY <1>7, <2>1
    <3>2. Taken'[m] = Taken[m] /\ (m # 1 => Taken'[m-1] = Taken[m-1])
      BY <1>9, <2>1, <3>1
    <3>3. LET k == Taken[m][1]
              o == Taken[m][2]
          IN /\ o < lens[k]
             /\ IF o = 0 THEN m = 1 \/ Taken[m-1][1] < k
                ELSE m > 1 /\ Taken[m-1] = <<k, o - 1>>
      BY <1>2, <2>1 DEF IInv, PrefixesInOrder, L
    <3> QED BY <3>2, <3>3, <2>1, <1>7
  <2>2. CASE m \in L + 2 .. L + n
    <3>1. /\ m \in L + 1 .. L + n /\ m - 1 \in L + 1 .. L + n
          /\ total + (m - L) - 1 > 0 /\ m > 1
          /\ total + ((m - 1) - L) - 1 = (total + (m - L) - 1) - 1
          /\ total + (m - L) - 1 < lens[current]
      BY <1>1, <1>3, <1>7, <2>2
    <3>2. /\ Taken'[m] = <<current, total + (m - L) - 1>>
          /\ Taken'[m-1] = <<current, (total + (m - L) - 1) - 1>>
      BY <1>9, <3>1
    <3> QED BY <3>1, <3>2
  <2>3. CASE m = L + 1
    <3>1. Taken'[m] = <<current, total>> /\ total < lens[current]
      <4>1. m \in L + 1 .. L + n /\ total + (m - L) - 1 = total
        BY <1>3, <1>7, <2>3
      <4> QED BY <1>2, <1>9, <4>1
    <3>2. CASE L = 0
      <4>1. total = 0
        BY <1>2, <1>3, <3>2 DEF IInv, EndsAtTotal, L
      <4> QED BY <2>3, <3>1, <3>2, <4>1
    <3>3. CASE L # 0
      <4>1. m - 1 = L /\ L \in 1 .. L /\ m > 1
        BY <1>7, <2>3, <3>3
      <4>2. Taken'[m-1] = Taken[L]
        BY <1>9, <4>1
      <4>3. CASE total = 0
        <5>1. /\ Taken[L][1] \in 1 .. current
              /\ Taken[L][1] = current => Taken[L][2] < total
          BY <1>2, <4>1 DEF IInv, NothingAhead, L
        <5>2. Taken[L][2] \in Nat
          BY <4>1, TakenType DEF IInv, L
        <5>3. Taken[L][1] < current
          BY <4>3, <5>1, <5>2, <1>4
        <5> QED BY <3>1, <4>2, <4>3, <5>3
      <4>4. CASE total # 0
        <5>1. Taken[L] = <<current, total - 1>>
          BY <1>2, <1>3, <4>4 DEF IInv, EndsAtTotal, L
        <5> QED BY <3>1, <4>1, <4>2, <4>4, <5>1
      <4> QED BY <4>3, <4>4
    <3> QED BY <3>2, <3>3
  <2> QED BY <1>3, <1>7, <2>1, <2>2, <2>3
<1>15. \A k : OfPacket(k)' = IF k = current THEN OfPacket(k) \cup (L + 1 .. L + n)
                             ELSE OfPacket(k)
  <2> SUFFICES ASSUME NEW k, NEW m
               PROVE  m \in OfPacket(k)' <=>
                        m \in (IF k = current THEN OfPacket(k) \cup (L + 1 .. L + n)
                               ELSE OfPacket(k))
    OBVIOUS
  <2>1. m \in OfPacket(k)' <=> m \in 1 .. L + n /\ Taken'[m][1] = k
    BY <1>9 DEF OfPacket
  <2>2. m \in OfPacket(k) <=> m \in 1 .. L /\ Taken[m][1] = k
    BY DEF OfPacket, L
  <2>3. m \in 1 .. L + n <=> m \in 1 .. L \/ m \in L + 1 .. L + n
    BY <1>3, <1>7
  <2>4. m \in L + 1 .. L + n => Taken'[m][1] = current /\ m \notin 1 .. L
    BY <1>7, <1>9
  <2> QED BY <1>9, <2>1, <2>2, <2>3, <2>4
<1>16. TotalTaken'
  <2>1. Cardinality(OfPacket(current)) = total
    BY <1>2 DEF IInv, TotalTaken
  <2>2. IsFiniteSet(OfPacket(current)) /\ OfPacket(current) \subseteq 1 .. L
    BY OfPacketFinite DEF IInv, L
  <2>3. IsFiniteSet(L + 1 .. L + n) /\ Cardinality(L + 1 .. L + n) = n
    <3>1. /\ L + 1 \in Int /\ L + n \in Int
          /\ ~(L + 1 > L + n) /\ (L + n) - (L + 1) + 1 = n
      BY <1>3, <1>7
    <3>2. /\ IsFiniteSet(L + 1 .. L + n)
          /\ Cardinality(L + 1 .. L + n) =
               IF L + 1 > L + n THEN 0 ELSE (L + n) - (L + 1) + 1
      BY <3>1, FS_Interval, Zenon
    <3> QED BY <3>1, <3>2
  <2>4. OfPacket(current) \cap (L + 1 .. L + n) = {}
    BY <1>7, <2>2
  <2>5. Cardinality(OfPacket(current) \cup (L + 1 .. L + n)) = total + n
    <3>1. Cardinality(OfPacket(current) \cup (L + 1 .. L + n)) =
            Cardinality(OfPacket(current)) + Cardinality(L + 1 .. L + n)
              - Cardinality(OfPacket(current) \cap (L + 1 .. L + n))
      BY <2>2, <2>3, FS_Union, Zenon
    <3>2. Cardinality(OfPacket(current) \cap (L + 1 .. L + n)) = 0
      BY <2>4, FS_EmptySet, Zenon
    <3> QED BY <1>3, <2>1, <2>3, <3>1, <3>2
  <2>6. OfPacket(current)' = OfPacket(current) \cup (L + 1 .. L + n)
    BY <1>4, <1>15 DEF OfPacket
  <2> QED BY <1>3, <2>5, <2>6 DEF TotalTaken
<1>17. NotYetReported'
  BY <1>2, <1>4 DEF IInv, NotYetReported
<1>18. ReportedIffCut'
  <2> SUFFICES ASSUME NEW k \in 1 .. current, k < current
               PROVE  k \in reported <=> Cardinality(OfPacket(k)') < lens[k]
    BY <1>2, <1>4 DEF ReportedIffCut, OfPacket
  <2>1. OfPacket(k)' = OfPacket(k)
    BY <1>4, <1>15
  <2> QED BY <1>2, <2>1 DEF IInv, ReportedIffCut
<1>19. OnlyCurrent'
  <2>1. current \notin behind => Len(sndbuf) <= total
    BY <1>2 DEF IInv, OnlyCurrent
  <2>2. Len(sndbuf) \in Nat
    BY <1>7, LenProperties
  <2> QED BY <1>2, <1>3, <1>4, <1>7, <2>1, <2>2 DEF OnlyCurrent
<1>20. OnlyBehindCut'
  BY <1>2 DEF IInv, OnlyBehindCut
<1> QED BY <1>10, <1>11, <1>12, <1>13, <1>14, <1>16, <1>17, <1>18, <1>19, <1>20
        DEF IInv

\* The packet is done with, sent or given up.
LEMMA DoneIInv ==
  ASSUME IInv, sending, sending' = FALSE,
         \/ total >= lens[current] /\ reported' = reported
         \/ /\ total < lens[current] /\ reported' = reported \cup {current}
            /\ ~alive \/ Len(sndbuf) = SndBuf,
         UNCHANGED <<lens, total, bytesleft, sndbuf, stream, alive, behind>>
  PROVE  IInv'
<1>1. Taken' = Taken /\ current' = current /\ \A k : OfPacket(k)' = OfPacket(k)
  BY DEF Taken, OfPacket, current
<1>2. current \in 1 .. MaxPackets /\ lens[current] \in Nat /\ total \in Nat
  <2>1. current > 0
    BY DEF IInv, CurrentKnown
  <2>2. current \in 0 .. MaxPackets /\ \A k \in 1 .. current : lens[k] \in Nat \ {0}
    BY CurrentType DEF IInv
  <2>3. total \in Nat
    BY DEF IInv, TypeOK
  <2> QED BY <2>1, <2>2, <2>3
<1>3. TypeOK'
  <2>1. reported' \subseteq 1 .. MaxPackets
    BY <1>2 DEF IInv, TypeOK
  <2> QED BY <2>1 DEF IInv, TypeOK
<1>4. CurrentKnown' /\ NothingAhead' /\ EndsAtTotal' /\ TotalTaken' /\ OnlyCurrent'
  BY <1>1 DEF IInv, CurrentKnown, NothingAhead, EndsAtTotal, TotalTaken,
              OnlyCurrent
<1>5. PrefixesInOrder'
  BY <1>1 DEF IInv, PrefixesInOrder
<1>6. NotYetReported'
  <2>1. reported' \subseteq 1 .. current
    <3>1. reported \subseteq 1 .. current
      BY DEF IInv, NotYetReported
    <3>2. current \in 1 .. current
      BY <1>2
    <3> QED BY <3>1, <3>2
  <2> QED BY <1>1, <2>1, Zenon DEF NotYetReported
<1>7. ReportedIffCut'
  <2> SUFFICES ASSUME alive, NEW k \in 1 .. current
               PROVE  k \in reported' <=> Cardinality(OfPacket(k)) < lens[k]
    BY <1>1 DEF ReportedIffCut, OfPacket
  <2>1. CASE k # current
    <3>1. k < current
      BY <1>2, <2>1
    <3>2. k \in reported <=> Cardinality(OfPacket(k)) < lens[k]
      BY <3>1 DEF IInv, ReportedIffCut
    <3> QED BY <2>1, <3>2
  <2>2. CASE k = current
    <3>1. current \notin reported /\ Cardinality(OfPacket(current)) = total
      BY DEF IInv, NotYetReported, TotalTaken
    <3>2. total >= lens[current] <=> ~(total < lens[current])
      BY <1>2
    <3> QED BY <2>2, <3>1, <3>2
  <2> QED BY <2>1, <2>2
<1>8. OnlyBehindCut'
  <2> SUFFICES ASSUME alive, NEW k \in reported', k \notin behind
               PROVE  lens[k] > SndBuf
    BY DEF OnlyBehindCut
  <2>1. CASE k \in reported
    BY <2>1 DEF IInv, OnlyBehindCut
  <2>2. CASE k \notin reported
    <3>1. k = current /\ total < lens[current] /\ Len(sndbuf) = SndBuf
      BY <2>2
    <3>2. Len(sndbuf) <= total
      BY <3>1 DEF IInv, OnlyCurrent
    <3> QED BY <1>2, <3>1, <3>2
  <2> QED BY <2>1, <2>2
<1> QED BY <1>3, <1>4, <1>5, <1>6, <1>7, <1>8 DEF IInv

LEMMA FetchIInv ==
  ASSUME IInv, Fetch
  PROVE  IInv'
<1>1. PICK n \in 1 .. Len(sndbuf) :
        /\ stream' = stream \o SubSeq(sndbuf, 1, n)
        /\ sndbuf' = SubSeq(sndbuf, n + 1, Len(sndbuf))
  BY DEF Fetch
<1>2. UNCHANGED <<lens, total, bytesleft, sending, alive, reported, behind>>
  BY DEF Fetch
<1>3. sndbuf \in Seq(Positions) /\ stream \in Seq(Positions) /\ Len(sndbuf) \in Nat
  BY LenProperties DEF IInv, TypeOK
<1>4. /\ SubSeq(sndbuf, 1, n) \in Seq(Positions)
      /\ sndbuf' \in Seq(Positions) /\ Len(sndbuf') = Len(sndbuf) - n
  <2>1. \A m \in 1 .. Len(sndbuf) : sndbuf[m] \in Positions
    BY <1>3, ElementOfSeq
  <2>2. \A m \in 1 .. n : sndbuf[m] \in Positions
    BY <1>3, <2>1
  <2>3. \A m \in n + 1 .. Len(sndbuf) : sndbuf[m] \in Positions
    BY <1>3, <2>1
  <2>4. SubSeq(sndbuf, 1, n) \in Seq(Positions)
    BY <1>3, <2>2, SubSeqProperties
  <2>5. /\ SubSeq(sndbuf, n + 1, Len(sndbuf)) \in Seq(Positions)
        /\ Len(SubSeq(sndbuf, n + 1, Len(sndbuf))) =
             IF n + 1 <= Len(sndbuf) THEN Len(sndbuf) - (n + 1) + 1 ELSE 0
    BY <1>3, <2>3, SubSeqProperties
  <2> QED BY <1>1, <1>3, <2>4, <2>5
<1>5. Taken' = Taken
  <2>1. Taken' = stream \o (SubSeq(sndbuf, 1, n) \o sndbuf')
    <3>1. Taken' = (stream \o SubSeq(sndbuf, 1, n)) \o sndbuf'
      BY <1>1, Zenon DEF Taken
    <3> QED BY <1>3, <1>4, <3>1, ConcatAssociative
  <2>2. SubSeq(sndbuf, 1, n) \o sndbuf' = SubSeq(sndbuf, 1, Len(sndbuf))
    <3>1. 1 \in 1 .. Len(sndbuf) + 1 /\ n \in 0 .. Len(sndbuf)
          /\ Len(sndbuf) \in n .. Len(sndbuf)
      BY <1>3
    <3> QED BY <1>1, <1>3, <3>1, ConcatAdjacentSubSeq
  <2> QED BY <1>3, <2>1, <2>2, SubSeqFull DEF Taken
<1>6. TypeOK'
  <2>1. stream' \in Seq(Positions)
    BY <1>1, <1>3, <1>4, ConcatProperties
  <2>2. Len(sndbuf') <= SndBuf
    BY <1>3, <1>4 DEF IInv, TypeOK
  <2> QED BY <1>2, <1>4, <2>1, <2>2 DEF IInv, TypeOK
<1>7. NothingAhead' /\ EndsAtTotal' /\ PrefixesInOrder' /\ TotalTaken'
  BY <1>2, <1>5, SameTaken DEF IInv
<1>8. CurrentKnown' /\ NotYetReported' /\ OnlyBehindCut'
  BY <1>2 DEF IInv, CurrentKnown, NotYetReported, OnlyBehindCut, current
<1>9. ReportedIffCut'
  BY <1>2, <1>5 DEF IInv, ReportedIffCut, OfPacket, current
<1>10. OnlyCurrent'
  <2>1. alive /\ sending /\ current \notin behind => Len(sndbuf) <= total
    BY DEF IInv, OnlyCurrent
  <2>2. Len(sndbuf') <= Len(sndbuf) /\ total \in Nat
    BY <1>3, <1>4 DEF IInv, TypeOK
  <2> QED BY <1>2, <1>3, <1>4, <2>1, <2>2 DEF OnlyCurrent, current
<1> QED BY <1>6, <1>7, <1>8, <1>9, <1>10 DEF IInv

LEMMA GoAwayIInv ==
  ASSUME IInv, GoAway
  PROVE  IInv'
<1>1. ~alive' /\ sndbuf' = <<>>
      /\ UNCHANGED <<lens, total, bytesleft, sending, stream, reported, behind>>
  BY DEF GoAway
<1>2. TypeOK'
  <2>1. sndbuf' \in Seq(Positions) /\ Len(sndbuf') <= SndBuf
    BY <1>1, EmptySeq
  <2>2. alive' \in BOOLEAN
    BY DEF GoAway
  <2> QED BY <1>1, <2>1, <2>2 DEF IInv, TypeOK
<1> QED BY <1>1, <1>2
        DEF IInv, CurrentKnown, NothingAhead, EndsAtTotal, PrefixesInOrder,
            TotalTaken, NotYetReported, ReportedIffCut, OnlyCurrent,
            OnlyBehindCut, current

-----------------------------------------------------------------------------
(* The theorems.                                                           *)

LEMMA NextIInv ==
  ASSUME IInv, [Next]_vars
  PROVE  IInv'
<1>1. CASE Start
  BY <1>1, StartIInv
<1>2. CASE Send
  BY <1>2, SendIInv
<1>3. CASE Sent
  BY <1>3, DoneIInv DEF Sent
<1>4. CASE SendFails
  BY <1>4, DoneIInv DEF SendFails
<1>5. CASE Fetch
  BY <1>5, FetchIInv
<1>6. CASE GoAway
  BY <1>6, GoAwayIInv
<1>7. CASE UNCHANGED vars
  BY <1>7 DEF vars, IInv, TypeOK, CurrentKnown, NothingAhead, EndsAtTotal,
     PrefixesInOrder, TotalTaken, NotYetReported, ReportedIffCut, OnlyCurrent,
     OnlyBehindCut, OfPacket, Taken, current
<1> QED BY <1>1, <1>2, <1>3, <1>4, <1>5, <1>6, <1>7 DEF Next, SendPacket, Done

\* The inductive invariant: what is taken, against the variables of sendall.
THEOREM Invariant == Spec => []IInv
<1>1. Init => IInv
  BY InitIInv
<1>2. IInv /\ [Next]_vars => IInv'
  BY NextIInv
<1> QED BY <1>1, <1>2, PTL DEF Spec

\* total and bytesleft always add up to the length of the packet.
THEOREM TypeCorrect == Spec => []TypeOK
<1>1. IInv => TypeOK
  BY DEF IInv
<1> QED BY <1>1, Invariant, PTL

\* However send() divides packets, of each the client gets a beginning, in
\* order (the loop of sendall).
THEOREM PrefixesInOrderHolds == Spec => []PrefixesInOrder
<1>1. IInv => PrefixesInOrder
  BY DEF IInv
<1> QED BY <1>1, Invariant, PTL

\* "failed to send all data, very bad" is printed for exactly the packets
\* that were cut.
THEOREM ReportedIffCutHolds == Spec => []ReportedIffCut
<1>1. IInv => ReportedIffCut
  BY DEF IInv
<1> QED BY <1>1, Invariant, PTL

\* Only a client that is behind, or a packet larger than the socket's buffer,
\* makes sendall give up.
THEOREM OnlyBehindCutHolds == Spec => []OnlyBehindCut
<1>1. IInv => OnlyBehindCut
  BY DEF IInv
<1> QED BY <1>1, Invariant, PTL
=============================================================================
