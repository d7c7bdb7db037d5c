-------------------------- MODULE TickClockProofs ---------------------------
(***************************************************************************)
(* Theorems about TickClock, for every period, timeout and cost of the     *)
(* callbacks, and every width of the tick counter.                         *)
(***************************************************************************)
EXTENDS TickClock, TLAPS

USE ClockAssumption

\* How far start_time is behind in each part of the loop.
ElapsedBound ==
  /\ pc = "select" => elapsed <= target - 1 + MaxServe
  /\ pc = "serve" => elapsed <= target - 1

\* The ticks until the next that sends keep-alives: behind the last multiple
\* of KEEP_ALIVE the counter wraps first.
Left ==
  IF total_ticks > MaxInt - (MaxInt % KEEP_ALIVE)
  THEN (MaxInt - total_ticks) + 1 + ((MaxInt + 1) % KEEP_ALIVE)
  ELSE IF total_ticks % KEEP_ALIVE = 0 THEN 0
       ELSE KEEP_ALIVE - (total_ticks % KEEP_ALIVE)

\* Since the last keep-alive every tick but those left took MaxApart at most.
AliveBound ==
  since_alive <= (KEEP_ALIVE - 1 - Left) * MaxApart + MaxTick + elapsed

IInv == TypeOK /\ ElapsedBound /\ AliveBound

-----------------------------------------------------------------------------
(* Remainders.                                                             *)

\* Quotient and remainder of a number.
LEMMA DivMod ==
  ASSUME NEW n \in Int
  PROVE  /\ n \div KEEP_ALIVE \in Int
         /\ n % KEEP_ALIVE \in 0 .. KEEP_ALIVE - 1
         /\ n = KEEP_ALIVE * (n \div KEEP_ALIVE) + (n % KEEP_ALIVE)
OBVIOUS

\* They are the only ones.
LEMMA DivModUnique ==
  ASSUME NEW n \in Int, NEW q \in Int, NEW r \in 0 .. KEEP_ALIVE - 1,
         n = KEEP_ALIVE * q + r
  PROVE  n % KEEP_ALIVE = r
<1> DEFINE p == n \div KEEP_ALIVE
           s == n % KEEP_ALIVE
<1>1. p \in Int /\ s \in 0 .. KEEP_ALIVE - 1 /\ n = KEEP_ALIVE * p + s
  BY DivMod
<1> HIDE DEF p, s
<1>2. KEEP_ALIVE * (p - q) = r - s
  BY <1>1
<1>3. CASE p - q >= 1
  <2>1. KEEP_ALIVE * (p - q) >= KEEP_ALIVE
    BY <1>1, <1>3
  <2> QED
    BY <1>1, <1>2, <2>1
<1>4. CASE q - p >= 1
  <2>1. KEEP_ALIVE * (q - p) >= KEEP_ALIVE
    BY <1>1, <1>4
  <2>2. KEEP_ALIVE * (q - p) = s - r
    BY <1>1, <1>2
  <2> QED
    BY <1>1, <2>1, <2>2
<1>5. CASE p = q
  BY <1>1, <1>2, <1>5 DEF s
<1> QED
  BY <1>1, <1>3, <1>4, <1>5

\* The remainder of the next number.
LEMMA NextMod ==
  ASSUME NEW n \in Int
  PROVE  (n + 1) % KEEP_ALIVE =
           IF n % KEEP_ALIVE = KEEP_ALIVE - 1 THEN 0 ELSE (n % KEEP_ALIVE) + 1
<1> DEFINE q == n \div KEEP_ALIVE
           r == n % KEEP_ALIVE
<1>1. q \in Int /\ r \in 0 .. KEEP_ALIVE - 1 /\ n = KEEP_ALIVE * q + r
  BY DivMod
<1> HIDE DEF q, r
<1>2. CASE r = KEEP_ALIVE - 1
  <2>1. n + 1 = KEEP_ALIVE * (q + 1) + 0
    BY <1>1, <1>2
  <2>2. (n + 1) % KEEP_ALIVE = 0
    BY <1>1, <2>1, DivModUnique
  <2> QED
    BY <1>2, <2>2 DEF r
<1>3. CASE r # KEEP_ALIVE - 1
  <2>1. n + 1 = KEEP_ALIVE * q + (r + 1) /\ r + 1 \in 0 .. KEEP_ALIVE - 1
    BY <1>1, <1>3
  <2>2. (n + 1) % KEEP_ALIVE = r + 1
    BY <1>1, <2>1, DivModUnique
  <2> QED
    BY <1>3, <2>2 DEF r
<1> QED
  BY <1>2, <1>3

\* The remainder of a negative number.
LEMMA NegativeMod ==
  ASSUME NEW n \in Int
  PROVE  (-n) % KEEP_ALIVE =
           IF n % KEEP_ALIVE = 0 THEN 0 ELSE KEEP_ALIVE - (n % KEEP_ALIVE)
<1> DEFINE q == n \div KEEP_ALIVE
           r == n % KEEP_ALIVE
<1>1. q \in Int /\ r \in 0 .. KEEP_ALIVE - 1 /\ n = KEEP_ALIVE * q + r
  BY DivMod
<1> HIDE DEF q, r
<1>2. CASE r = 0
  <2>1. -n = KEEP_ALIVE * (-q) + 0 /\ -q \in Int /\ -n \in Int
    BY <1>1, <1>2
  <2>2. (-n) % KEEP_ALIVE = 0
    BY <2>1, DivModUnique
  <2> QED
    BY <1>2, <2>2 DEF r
<1>3. CASE r # 0
  <2>1. /\ -n = KEEP_ALIVE * (-q - 1) + (KEEP_ALIVE - r)
        /\ KEEP_ALIVE - r \in 0 .. KEEP_ALIVE - 1
        /\ -q - 1 \in Int /\ -n \in Int
    BY <1>1, <1>3
  <2>2. (-n) % KEEP_ALIVE = KEEP_ALIVE - r
    BY <2>1, DivModUnique
  <2> QED
    BY <1>3, <2>2 DEF r
<1> QED
  BY <1>2, <1>3

\* Where the counter stands, against the last multiple of KEEP_ALIVE it can
\* hold.
LEMMA LastMultiple ==
  ASSUME NEW t \in Int, t <= MaxInt
  PROVE  /\ (MaxInt - (MaxInt % KEEP_ALIVE)) % KEEP_ALIVE = 0
         /\ MaxInt - (MaxInt % KEEP_ALIVE) \in 0 .. MaxInt
         /\ t > MaxInt - (MaxInt % KEEP_ALIVE) => t % KEEP_ALIVE # 0
<1> DEFINE q == MaxInt \div KEEP_ALIVE
           r == MaxInt % KEEP_ALIVE
<1>1. q \in Int /\ r \in 0 .. KEEP_ALIVE - 1 /\ MaxInt = KEEP_ALIVE * q + r
  BY DivMod
<1> HIDE DEF q, r
<1>2. (MaxInt - r) % KEEP_ALIVE = 0
  <2>1. MaxInt - r = KEEP_ALIVE * q + 0
    BY <1>1
  <2> QED
    BY <1>1, <2>1, DivModUnique
<1>3. MaxInt - r \in 0 .. MaxInt
  <2>1. CASE q >= 0
    <3>1. KEEP_ALIVE * q >= 0
      BY <1>1, <2>1
    <3> QED
      BY <1>1, <3>1
  <2>2. CASE q <= -1
    <3>1. KEEP_ALIVE * q <= -KEEP_ALIVE
      BY <1>1, <2>2
    <3> QED
      BY <1>1, <3>1
  <2> QED
    BY <1>1, <2>1, <2>2
<1>4. ASSUME t > MaxInt - r PROVE t % KEEP_ALIVE # 0
  <2>1. /\ t = KEEP_ALIVE * q + (t - (MaxInt - r))
        /\ t - (MaxInt - r) \in 0 .. KEEP_ALIVE - 1
        /\ t - (MaxInt - r) # 0
    BY <1>1, <1>4
  <2> QED
    BY <1>1, <2>1, DivModUnique
<1> QED
  BY <1>2, <1>3, <1>4 DEF r

\* What a tick does to the ticks left.
LEMMA LeftAfterTick ==
  ASSUME TypeOK, total_ticks' = NextTick
  PROVE  /\ Left \in 0 .. KEEP_ALIVE - 1 /\ Left' \in 0 .. KEEP_ALIVE - 1
         /\ KeepAliveDue <=> Left = 0
         /\ Left # 0 => Left' = Left - 1
<1> DEFINE t == total_ticks
           r == MaxInt % KEEP_ALIVE
           w == (MaxInt + 1) % KEEP_ALIVE
           last == MaxInt - r
<1>1. t \in -MaxInt - 1 .. MaxInt
  BY DEF TypeOK
<1>2. r \in 0 .. KEEP_ALIVE - 1 /\ w \in 0 .. KEEP_ALIVE - 1 /\ r + 1 + w <= KEEP_ALIVE
  BY DivMod
<1>3. t % KEEP_ALIVE \in 0 .. KEEP_ALIVE - 1
  BY <1>1, DivMod
<1>4. last \in 0 .. MaxInt /\ last % KEEP_ALIVE = 0
      /\ (t > last => t % KEEP_ALIVE # 0)
  <2>1. t \in Int /\ t <= MaxInt
    BY <1>1
  <2> QED
    BY <2>1, LastMultiple, Zenon
<1>5. total_ticks' = IF t = MaxInt THEN -MaxInt - 1 ELSE t + 1
  BY DEF NextTick
<1>6. (t + 1) % KEEP_ALIVE =
        IF t % KEEP_ALIVE = KEEP_ALIVE - 1 THEN 0 ELSE (t % KEEP_ALIVE) + 1
  <2>1. t \in Int
    BY <1>1
  <2> QED
    BY <2>1, NextMod, Zenon
<1>7. (-MaxInt - 1) % KEEP_ALIVE = IF w = 0 THEN 0 ELSE KEEP_ALIVE - w
  <2>1. -(MaxInt + 1) = -MaxInt - 1 /\ MaxInt + 1 \in Int
    OBVIOUS
  <2> QED
    BY <2>1, NegativeMod
<1>8. Left = IF t > last THEN (MaxInt - t) + 1 + w
             ELSE IF t % KEEP_ALIVE = 0 THEN 0 ELSE KEEP_ALIVE - (t % KEEP_ALIVE)
  BY DEF Left
<1>9. Left' = IF total_ticks' > last THEN (MaxInt - total_ticks') + 1 + w
              ELSE IF total_ticks' % KEEP_ALIVE = 0 THEN 0
                   ELSE KEEP_ALIVE - (total_ticks' % KEEP_ALIVE)
  BY DEF Left
<1>10. KeepAliveDue <=> t % KEEP_ALIVE = 0
  BY DEF KeepAliveDue
<1>11. last = MaxInt - r
  OBVIOUS
<1> HIDE DEF t, r, w, last
<1>12. Left \in 0 .. KEEP_ALIVE - 1 /\ (KeepAliveDue <=> Left = 0)
  BY <1>1, <1>2, <1>3, <1>4, <1>8, <1>10, <1>11
<1>13. CASE t = MaxInt
  <2>1. total_ticks' = -MaxInt - 1 /\ ~(total_ticks' > last)
    BY <1>4, <1>5, <1>13
  <2>2. Left' = w
    BY <1>2, <1>7, <1>9, <2>1
  <2>3. Left # 0 => Left = 1 + w
    BY <1>4, <1>8, <1>13, <1>11, <1>3, <1>2
  <2> QED
    BY <1>2, <1>12, <2>2, <2>3
<1>14. CASE t # MaxInt /\ t > last
  <2>1. total_ticks' = t + 1 /\ t + 1 > last
    BY <1>1, <1>4, <1>5, <1>14
  <2>2. Left = (MaxInt - t) + 1 + w /\ Left' = (MaxInt - (t + 1)) + 1 + w
    BY <1>8, <1>9, <1>14, <2>1
  <2> QED
    BY <1>1, <1>2, <1>4, <1>12, <1>14, <2>2
<1>15. CASE t # MaxInt /\ ~(t > last) /\ t % KEEP_ALIVE # 0
  <2>1. total_ticks' = t + 1 /\ ~(t + 1 > last)
    BY <1>1, <1>4, <1>5, <1>15
  <2>2. /\ Left = KEEP_ALIVE - (t % KEEP_ALIVE)
        /\ Left' = IF (t + 1) % KEEP_ALIVE = 0 THEN 0
                   ELSE KEEP_ALIVE - ((t + 1) % KEEP_ALIVE)
    BY <1>8, <1>9, <1>15, <2>1
  <2> QED
    BY <1>3, <1>6, <1>12, <1>15, <2>2
<1>16. CASE t # MaxInt /\ ~(t > last) /\ t % KEEP_ALIVE = 0
  <2>1. total_ticks' = t + 1
    BY <1>5, <1>16
  <2>2. Left = 0
    BY <1>8, <1>16
  <2>3. CASE t + 1 > last
    <3>1. Left' = (MaxInt - (t + 1)) + 1 + w /\ t = last
      BY <1>1, <1>4, <1>9, <1>16, <2>1, <2>3
    <3> QED
      BY <1>1, <1>2, <1>4, <1>11, <1>12, <1>16, <2>2, <3>1
  <2>4. CASE ~(t + 1 > last)
    <3>1. Left' = IF (t + 1) % KEEP_ALIVE = 0 THEN 0
                  ELSE KEEP_ALIVE - ((t + 1) % KEEP_ALIVE)
      BY <1>9, <2>1, <2>4
    <3> QED
      BY <1>3, <1>6, <1>12, <1>16, <2>2, <3>1
  <2> QED
    BY <2>3, <2>4
<1> QED
  BY <1>13, <1>14, <1>15, <1>16

\* The ticks left are fewer than KEEP_ALIVE in every state.
LEMMA LeftType ==
  ASSUME TypeOK
  PROVE  Left \in 0 .. KEEP_ALIVE - 1
<1>1. /\ total_ticks \in -MaxInt - 1 .. MaxInt
      /\ MaxInt % KEEP_ALIVE \in 0 .. KEEP_ALIVE - 1
      /\ (MaxInt + 1) % KEEP_ALIVE \in 0 .. KEEP_ALIVE - 1
      /\ total_ticks % KEEP_ALIVE \in 0 .. KEEP_ALIVE - 1
  BY DivMod DEF TypeOK
<1> QED
  BY <1>1 DEF Left

-----------------------------------------------------------------------------
(* The steps.                                                              *)

\* The sizes that bound the steps.
LEMMA Sizes ==
  /\ MaxElapsed = target - 1 + MaxServe + timeout
  /\ MaxApart = MaxElapsed + MaxTick
  /\ MaxElapsed \in Nat /\ MaxApart \in Nat
BY DEF MaxElapsed, MaxApart

\* The bound of AliveBound is a number.
LEMMA BoundType ==
  ASSUME NEW n \in 0 .. KEEP_ALIVE - 1
  PROVE  (KEEP_ALIVE - 1 - n) * MaxApart \in Nat
<1> DEFINE m == KEEP_ALIVE - 1 - n
<1>1. m \in Nat
  OBVIOUS
<1> HIDE DEF m
<1>2. m * MaxApart \in Nat
  BY <1>1, Sizes
<1> QED
  BY <1>2 DEF m

LEMMA InitIInv == Init => IInv
<1> SUFFICES ASSUME Init PROVE IInv
  OBVIOUS
<1>1. TypeOK /\ ElapsedBound
  <2>1. /\ elapsed \in 0 .. MaxElapsed /\ since_alive \in Nat
        /\ total_ticks \in -MaxInt - 1 .. MaxInt
    BY Sizes DEF Init
  <2>2. TypeOK
    BY <2>1, Zenon DEF Init, TypeOK
  <2> QED
    BY <2>2 DEF Init, ElapsedBound
<1>2. Left \in 0 .. KEEP_ALIVE - 1
  BY <1>1, LeftType
<1>3. (KEEP_ALIVE - 1 - Left) * MaxApart >= 0
  BY <1>2, BoundType
<1>4. AliveBound
  BY <1>2, <1>3, Sizes DEF Init, AliveBound
<1> QED
  BY <1>1, <1>4 DEF IInv

\* Time that passes is counted in both clocks.
LEMMA TimePasses ==
  ASSUME IInv, NEW d \in Nat, elapsed' = elapsed + d,
         since_alive' = since_alive + d, UNCHANGED total_ticks
  PROVE  AliveBound'
<1>1. Left' = Left /\ Left \in Int
  BY LeftType DEF IInv, Left
<1>2. elapsed \in Nat /\ since_alive \in Nat
  BY DEF IInv, TypeOK
<1> DEFINE B == (KEEP_ALIVE - 1 - Left) * MaxApart
<1>3. B \in Int /\ since_alive <= B + MaxTick + elapsed
  BY <1>1, Sizes DEF IInv, AliveBound
<1> HIDE DEF B
<1>4. since_alive' <= B + MaxTick + elapsed'
  BY <1>2, <1>3
<1> QED
  BY <1>1, <1>4 DEF AliveBound, B

LEMMA TickIInv ==
  ASSUME IInv, Tick
  PROVE  IInv'
<1>1. PICK cost \in 0 .. MaxTick :
        since_alive' = cost + (IF KeepAliveDue THEN 0 ELSE since_alive)
  BY DEF Tick
<1>2. /\ elapsed' = 0 /\ total_ticks' = NextTick
      /\ pc' \in {"select", "serve"} /\ ready' = ready
  BY DEF Tick, AfterCheck
<1>3. elapsed \in 0 .. MaxElapsed /\ since_alive \in Nat
  BY DEF IInv, TypeOK
<1>4. TypeOK'
  <2>1. total_ticks' \in -MaxInt - 1 .. MaxInt
    BY <1>2 DEF IInv, TypeOK, NextTick
  <2>2. since_alive' \in Nat
    BY <1>1, <1>3
  <2>3. elapsed' \in 0 .. MaxElapsed
    BY <1>2, Sizes
  <2>4. ready' \in BOOLEAN
    BY <1>2 DEF IInv, TypeOK
  <2> QED
    BY <1>2, <2>1, <2>2, <2>3, <2>4, Zenon DEF TypeOK
<1>5. ElapsedBound'
  BY <1>2 DEF ElapsedBound
<1>6. /\ Left \in 0 .. KEEP_ALIVE - 1 /\ Left' \in 0 .. KEEP_ALIVE - 1
      /\ KeepAliveDue <=> Left = 0
      /\ Left # 0 => Left' = Left - 1
  BY <1>2, LeftAfterTick DEF IInv
<1>7. CASE Left = 0
  <2>1. since_alive' <= MaxTick
    BY <1>1, <1>6, <1>7
  <2>2. (KEEP_ALIVE - 1 - Left') * MaxApart \in Nat
    BY <1>6, BoundType, Zenon
  <2>3. since_alive' \in Nat
    BY <1>4 DEF TypeOK
  <2>4. AliveBound'
    BY <1>2, <2>1, <2>2, <2>3 DEF AliveBound, MaxApart, MaxElapsed
  <2> QED
    BY <1>4, <1>5, <2>4 DEF IInv
<1>8. CASE Left # 0
  <2> DEFINE B == (KEEP_ALIVE - 1 - Left) * MaxApart
  <2>1. (KEEP_ALIVE - 1 - Left') * MaxApart = B + MaxApart
    BY <1>6, <1>8, Sizes
  <2>2. B \in Int /\ since_alive <= B + MaxTick + elapsed
    BY <1>6, Sizes DEF IInv, AliveBound
  <2> HIDE DEF B
  <2>3. since_alive' = cost + since_alive
    BY <1>1, <1>6, <1>8
  <2>4. since_alive' <= (B + MaxApart) + MaxTick + 0
    BY <1>3, <2>2, <2>3, Sizes
  <2>5. AliveBound'
    BY <1>2, <2>1, <2>4 DEF AliveBound, MaxApart, MaxElapsed
  <2> QED
    BY <1>4, <1>5, <2>5 DEF IInv
<1> QED
  BY <1>7, <1>8

LEMMA NextIInv ==
  ASSUME IInv, [Next]_vars
  PROVE  IInv'
<1>1. elapsed \in 0 .. MaxElapsed /\ since_alive \in Nat
  BY DEF IInv, TypeOK
<1>2. CASE Select
  <2>1. PICK wait \in 0 .. timeout :
          /\ elapsed' = elapsed + wait /\ since_alive' = since_alive + wait
          /\ ready' \in IF wait < timeout THEN {TRUE} ELSE BOOLEAN
    BY <1>2 DEF Select
  <2>2. pc = "select" /\ pc' = "check" /\ total_ticks' = total_ticks
    BY <1>2 DEF Select
  <2>3. elapsed' \in 0 .. MaxElapsed /\ since_alive' \in Nat
    BY <1>1, <2>1, <2>2, Sizes DEF IInv, ElapsedBound
  <2>4. ready' \in BOOLEAN
    BY <2>1
  <2>5. TypeOK'
    BY <2>2, <2>3, <2>4, Zenon DEF IInv, TypeOK
  <2>6. ElapsedBound'
    BY <2>2 DEF ElapsedBound
  <2>7. AliveBound'
    BY <2>1, <2>2, TimePasses
  <2> QED
    BY <2>5, <2>6, <2>7 DEF IInv
<1>3. CASE Tick
  BY <1>3, TickIInv
<1>4. CASE NoTick
  <2>1. /\ elapsed < target /\ pc' \in {"select", "serve"}
        /\ UNCHANGED <<ready, elapsed, total_ticks, since_alive>>
    BY <1>4 DEF NoTick, AfterCheck
  <2>2. TypeOK'
    BY <2>1, Zenon DEF IInv, TypeOK
  <2>3. ElapsedBound'
    BY <1>1, <2>1 DEF ElapsedBound
  <2>4. AliveBound'
    BY <2>1 DEF IInv, AliveBound, Left, MaxApart, MaxElapsed
  <2> QED
    BY <2>2, <2>3, <2>4 DEF IInv
<1>5. CASE Serve
  <2>1. PICK cost \in 0 .. MaxServe :
          elapsed' = elapsed + cost /\ since_alive' = since_alive + cost
    BY <1>5 DEF Serve
  <2>2. /\ pc = "serve" /\ pc' = "select"
        /\ ready' = ready /\ total_ticks' = total_ticks
    BY <1>5 DEF Serve
  <2>3. /\ elapsed' <= target - 1 + MaxServe
        /\ elapsed' \in 0 .. MaxElapsed /\ since_alive' \in Nat
    BY <1>1, <2>1, <2>2, Sizes DEF IInv, ElapsedBound
  <2>4. TypeOK'
    BY <2>2, <2>3, Zenon DEF IInv, TypeOK
  <2>5. ElapsedBound'
    BY <2>2, <2>3 DEF ElapsedBound
  <2>6. AliveBound'
    BY <2>1, <2>2, TimePasses
  <2> QED
    BY <2>4, <2>5, <2>6 DEF IInv
<1>6. CASE UNCHANGED vars
  BY <1>6 DEF vars, IInv, TypeOK, ElapsedBound, AliveBound, Left, MaxApart,
     MaxElapsed
<1> QED
  BY <1>2, <1>3, <1>4, <1>5, <1>6 DEF Next

-----------------------------------------------------------------------------
(* The theorems.                                                           *)

\* The inductive invariant: the two clocks against the ticks left.
THEOREM Invariant == Spec => []IInv
<1>1. Init => IInv
  BY InitIInv
<1>2. IInv /\ [Next]_vars => IInv'
  BY NextIInv
<1> QED
  BY <1>1, <1>2, PTL DEF Spec

\* start_time is never further behind than MaxElapsed, and the counter wraps
\* within its range.
THEOREM TypeCorrect == Spec => []TypeOK
<1>1. IInv => TypeOK
  BY DEF IInv
<1> QED
  BY <1>1, Invariant, PTL

\* Keep-alives are due in time, where the counter wraps too.
THEOREM KeepAliveOnTimeHolds == Spec => []KeepAliveOnTime
<1>1. ASSUME IInv PROVE KeepAliveOnTime
  <2>1. Left \in 0 .. KEEP_ALIVE - 1
    BY <1>1, LeftType DEF IInv
  <2>2. elapsed \in 0 .. MaxElapsed /\ since_alive \in Nat
    BY <1>1 DEF IInv, TypeOK
  <2> DEFINE A == (KEEP_ALIVE - 1) * MaxApart
             L == Left * MaxApart
  <2>3. /\ A \in Int /\ L \in Nat
        /\ (KEEP_ALIVE - 1 - Left) * MaxApart = A - L
        /\ KEEP_ALIVE * MaxApart = A + MaxApart
    BY <2>1, Sizes
  <2>4. since_alive <= (KEEP_ALIVE - 1 - Left) * MaxApart + MaxTick + elapsed
    BY <1>1 DEF IInv, AliveBound
  <2> HIDE DEF A, L
  <2>5. since_alive <= A + MaxApart
    BY <2>2, <2>3, <2>4, Sizes
  <2> QED
    BY <2>3, <2>5 DEF KeepAliveOnTime
<1> QED
  BY <1>1, Invariant, PTL
=============================================================================
