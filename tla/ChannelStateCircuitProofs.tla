---------------------- MODULE ChannelStateCircuitProofs ----------------------
(***************************************************************************)
(* For every prime modulus, range, number of steps and set of values a     *)
(* prover may write: what the cells hold, that a decomposition is the one  *)
(* of its cell, that an accepted proof stands for a chain of updates over  *)
(* the integers and carries the signatures of both parties, and that the   *)
(* circuit implements UpdateChain.  The invariants say what the rows       *)
(* already emitted have forced when pc is at a label.                      *)
(***************************************************************************)
EXTENDS ChannelStateCircuit, BabyJubjubChipProofs

-----------------------------------------------------------------------------
(* Decompositions.                                                         *)

\* The bits a decomposition takes, and what its rows have made of them so far.
Width(label) == IF label = "challenge" THEN ChallengeBits
                ELSE IF label = "scalar" THEN ScalarBits ELSE RangeBits

Binary(w) ==
  /\ w.bits \in Seq({0, 1})
  /\ Number(w.bits) < 2^Len(w.bits)
  /\ w.acc = Number(w.bits) % P
  /\ w.weight = 2^Len(w.bits) % P

LEMMA AllWidths ==
  /\ RangeBits \in Nat \ {0} /\ ChallengeBits \in Nat \ {0} /\ ScalarBits \in Nat \ {0}
  /\ AllBits \in Nat /\ RangeBits <= AllBits /\ ChallengeBits <= AllBits /\ ScalarBits <= AllBits
BY CircuitAssumption, WidthAssumption DEF AllBits

LEMMA NextPower ==
  ASSUME NEW n \in 0..AllBits
  PROVE  2^n \in Nat \ {0} /\ 2^(n + 1) = 2 * 2^n
BY PowersOfTwo

LEMMA PowersRise ==
  ASSUME NEW n \in 0..AllBits, NEW m \in 0..n
  PROVE  2^m <= 2^n
<1> DEFINE Good == {k \in 0..n : m <= k => 2^m <= 2^k}
<1>1. n \in Nat /\ m \in Nat /\ AllBits \in Nat
  BY AllWidths
<1>2. 0 \in Good
  <2>1. PICK z \in 0..n : z = 0
    BY <1>1
  <2>2. m <= z => m = z
    BY <1>1, <2>1
  <2>3. 2^z \in Nat
    BY <1>1, <2>1, NextPower
  <2>4. 2^z <= 2^z
    BY <2>3
  <2>5. z \in Good
    BY <2>2, <2>4
  <2> QED BY <2>1, <2>5
<1>3. ASSUME NEW k \in 1..n, k - 1 \in Good
      PROVE  k \in Good
  <2>1. k - 1 \in 0..AllBits /\ k \in 0..AllBits /\ (k - 1) + 1 = k /\ k \in 0..n
    BY <1>1
  <2>2. PICK w \in Nat : w = 2^(k - 1) /\ 2^k = 2 * w
    BY <2>1, NextPower
  <2>3. CASE m = k
    <3>1. 2^k <= 2^k
      BY <2>2
    <3> QED BY <2>1, <2>3, <3>1
  <2>4. CASE m <= k - 1
    <3>1. 2^m <= w /\ 2^m \in Nat
      <4>1. m \in 0..AllBits
        BY <1>1
      <4> QED BY <1>3, <2>2, <2>4, <4>1, NextPower
    <3>2. 2^m <= 2^k
      BY <2>2, <3>1
    <3> QED BY <2>1, <3>2
  <2>5. CASE ~(m <= k)
    BY <2>1, <2>5
  <2> QED BY <1>1, <2>1, <2>3, <2>4, <2>5
<1> HIDE DEF Good
<1>4. n \in Good
  BY <1>1, <1>2, <1>3, TurnInduction
<1> QED BY <1>4 DEF Good

\* No weight but the last of a challenge exceeds the field.
LEMMA Widths ==
  ASSUME NEW label \in Decomposing
  PROVE  /\ Width(label) \in Nat \ {0} /\ Width(label) <= AllBits
         /\ 2^Width(label) \in Nat \ {0} /\ 2^Width(label) < 2 * P
         /\ label # "challenge" => 2^Width(label) <= P
         /\ \A k \in 0..(Width(label) - 1) : 2^k \in Nat \ {0} /\ 2^k < P /\ 2^(k + 1) = 2 * 2^k
<1> DEFINE n == Width(label)
<1>1. n \in Nat \ {0} /\ n <= AllBits /\ AllBits \in Nat
  BY AllWidths DEF Width
<1>2. \/ n = ChallengeBits /\ label = "challenge"
      \/ n = ScalarBits /\ label # "challenge"
      \/ n = RangeBits /\ label # "challenge"
  BY DEF Width
<1> HIDE DEF n
<1>3. PICK h \in Nat \ {0} : h = 2^(n - 1) /\ 2^n = 2 * h
  <2>1. n - 1 \in 0..AllBits /\ (n - 1) + 1 = n
    BY <1>1
  <2> QED BY <2>1, NextPower
<1>4. P \in Nat /\ P > 2
  BY PAssumption
<1>5. h < P /\ (label # "challenge" => 2 * h <= P)
  <2>1. CASE n = ChallengeBits /\ label = "challenge"
    BY <1>3, <2>1, WidthAssumption
  <2>2. CASE n = ScalarBits /\ label # "challenge"
    BY <1>3, <1>4, <2>2, WidthAssumption
  <2>3. CASE n = RangeBits /\ label # "challenge"
    <3>1. 2^(RangeBits + 1) = 2 * (2 * h)
      <4>1. n \in 0..AllBits
        BY <1>1
      <4> QED BY <1>3, <2>3, <4>1, NextPower
    <3> QED BY <1>3, <1>4, <2>3, <3>1, RangeAssumption
  <2> QED BY <1>2, <2>1, <2>2, <2>3
<1>6. ASSUME NEW k \in 0..(n - 1)
      PROVE  2^k \in Nat \ {0} /\ 2^k < P /\ 2^(k + 1) = 2 * 2^k
  <2>1. k \in 0..AllBits /\ n - 1 \in 0..AllBits
    BY <1>1
  <2>2. 2^k \in Nat \ {0} /\ 2^(k + 1) = 2 * 2^k /\ 2^k <= h
    BY <1>3, <2>1, NextPower, PowersRise
  <2> QED BY <1>4, <1>5, <2>2
<1> QED BY <1>1, <1>3, <1>4, <1>5, <1>6 DEF n

LEMMA NumberIsValue ==
  ASSUME NEW bits \in Seq(Nat)
  PROVE  Number(bits) = Value(bits, 2) /\ Number(bits) \in Nat
<1> DEFINE t == CHOOSE t : DigitTable(bits, 2, t)
<1>1. Number(bits) = t[DOMAIN bits]
  BY DEF Number, FoldRight, MapThenFoldSet, DigitTable
<1>2. 2 \in Nat
  OBVIOUS
<1>3. DigitTable(bits, 2, t)
  BY <1>2, DigitTableIsValue
<1> HIDE DEF t
<1> QED BY <1>1, <1>2, <1>3, DigitTableIsValue

\* The next bit is worth the next power of two.
LEMMA NumberAppend ==
  ASSUME NEW bits \in Seq({0, 1}), NEW bit \in {0, 1}, Len(bits) <= AllBits
  PROVE  Number(Append(bits, bit)) = Number(bits) + 2^Len(bits) * bit
<1> DEFINE w == [k \in 0..Len(bits) |-> 2^k]
<1>1. bits \in Seq(Nat) /\ Append(bits, bit) \in Seq(Nat) /\ bit \in Nat /\ Len(bits) \in Nat
  OBVIOUS
<1>2. PICK two \in Nat : two = 2
  OBVIOUS
<1>3. \A k \in 0..Len(bits) : k \in 0..AllBits
  BY <1>1, AllWidths
<1>4. w \in [0..Len(bits) -> Nat] /\ w[0] = 1 /\ w[Len(bits)] = 2^Len(bits)
  BY <1>1, <1>3, NextPower, PowersOfTwo
<1>5. \A k \in 1..Len(bits) : w[k] = two * w[k - 1]
  <2> TAKE k \in 1..Len(bits)
  <2>1. k - 1 \in 0..Len(bits) /\ (k - 1) + 1 = k /\ k \in 0..Len(bits)
    BY <1>1
  <2>2. 2^k = 2 * 2^(k - 1)
    BY <1>3, <2>1, NextPower
  <2> QED BY <1>2, <2>1, <2>2
<1> HIDE DEF w
<1>6. Value(Append(bits, bit), two) = Value(bits, two) + w[Len(bits)] * bit
  BY <1>1, <1>4, <1>5, ValueAppend
<1> QED BY <1>1, <1>2, <1>4, <1>6, NumberIsValue

LEMMA HalfOfQuotient ==
  ASSUME NEW n \in Nat, NEW m \in Nat \ {0}, NEW m2 \in Nat, m2 = 2 * m
  PROVE  n \div m2 = (n \div m) \div 2
<1>1. PICK q \in Nat, r \in Nat : n = q * m + r /\ r < m /\ q = n \div m
  <2>1. n = (n \div m) * m + (n % m) /\ n \div m \in Nat /\ n % m \in Nat /\ n % m < m
    OBVIOUS
  <2> QED BY <2>1
<1>2. PICK h \in Nat, s \in {0, 1} : q = 2 * h + s
  <2>1. q = 2 * (q \div 2) + (q % 2) /\ q \div 2 \in Nat /\ q % 2 \in {0, 1}
    OBVIOUS
  <2> QED BY <2>1
<1>3. PICK y \in Nat : y = h * m2
  OBVIOUS
<1>4. q * m = y + s * m
  <2>1. q * m = (2 * h) * m + s * m
    BY <1>2
  <2>2. (2 * h) * m = h * (2 * m)
    OBVIOUS
  <2> QED BY <1>3, <2>1, <2>2
<1>5. PICK u \in Nat : u = s * m + r /\ u < m2
  BY <1>1
<1>6. n = h * m2 + u
  BY <1>1, <1>3, <1>4, <1>5
<1>7. n \div m2 = h
  BY <1>5, <1>6
<1>8. q \div 2 = h
  BY <1>2
<1> QED BY <1>1, <1>7, <1>8

\* A sequence of bits is the binary form of the number it stands for.
LEMMA BitsOfNumber ==
  ASSUME NEW bits \in Seq({0, 1}), Len(bits) <= AllBits
  PROVE  bits = le_bits(Number(bits), Len(bits))
<1> DEFINE n == Len(bits)
           N == Number(bits)
           g == Horner(bits, 2)
           Good == {i \in 0..n : Loop(g, 0, n - i) = N \div 2^i}
<1>1. n \in Nat /\ \A i \in 1..n : bits[i] \in {0, 1}
  OBVIOUS
<1>2. /\ Looping(n, Nat, 0, g)
      /\ \A k \in 1..n, v \in Nat : g[k][v] = bits[n + 1 - k] + 2 * v
      /\ N = Loop(g, 0, n) /\ N \in Nat
  <2>1. bits \in Seq(Nat)
    OBVIOUS
  <2>2. PICK two \in Nat : two = 2
    OBVIOUS
  <2>3. /\ Looping(Len(bits), Nat, 0, Horner(bits, two))
        /\ \A k \in 1..Len(bits), v \in Nat :
             Horner(bits, two)[k][v] = bits[Len(bits) + 1 - k] + two * v
    BY <2>1, HornerLoops
  <2>4. N = Value(bits, 2) /\ N \in Nat
    BY <2>1, NumberIsValue
  <2> QED BY <2>2, <2>3, <2>4 DEF Value
<1>3. \A i \in 0..n : i \in 0..AllBits
  BY <1>1, AllWidths
<1> HIDE DEF n, N, g
<1>4. 0 \in Good
  <2>1. n - 0 = n /\ 0 \in 0..n /\ N \div 1 = N
    BY <1>1, <1>2
  <2> QED BY <1>2, <2>1, PowersOfTwo
<1>5. ASSUME NEW i \in 1..n, i - 1 \in Good
      PROVE  i \in Good /\ bits[i] = (N \div 2^(i - 1)) % 2
  <2>1. PICK j \in 0..n : j = n - i
    BY <1>1
  <2>2. PICK k \in 1..n : k = j + 1 /\ k = n - (i - 1) /\ k - 1 = j /\ n + 1 - k = i /\ k \in Nat \ {0}
    BY <1>1, <2>1
  <2>3. PICK v \in Nat : v = Loop(g, 0, j)
    BY <1>2, LoopType
  <2>4. Loop(g, 0, k) = g[k][Loop(g, 0, k - 1)]
    BY ONLY <2>2, LoopNext
  <2>5. Loop(g, 0, k) = bits[i] + 2 * v
    BY <1>2, <2>2, <2>3, <2>4
  <2>6. Loop(g, 0, k) = N \div 2^(i - 1)
    BY <1>5, <2>2
  <2>7. PICK b \in {0, 1} : b = bits[i]
    BY <1>1
  <2>8. PICK q \in Nat : q = b + 2 * v /\ q = N \div 2^(i - 1)
    BY <2>5, <2>6, <2>7
  <2>9. q \div 2 = v /\ q % 2 = b
    <3>1. CASE q = 2 * v
      BY <2>8, <3>1
    <3>2. CASE q = 2 * v + 1
      BY <2>8, <3>2
    <3> QED BY <2>8, <3>1, <3>2
  <2>10. N \div 2^i = (N \div 2^(i - 1)) \div 2
    <3>1. i - 1 \in 0..AllBits /\ i \in 0..AllBits /\ (i - 1) + 1 = i
      BY <1>1, <1>3
    <3>2. 2^(i - 1) \in Nat \ {0} /\ 2^i = 2 * 2^(i - 1) /\ 2^i \in Nat
      BY <3>1, NextPower
    <3>3. PICK w \in Nat \ {0} : w = 2^(i - 1)
      BY <3>2
    <3>4. PICK w2 \in Nat : w2 = 2^i /\ w2 = 2 * w
      BY <3>2, <3>3
    <3>5. N \div w2 = (N \div w) \div 2
      BY <1>2, <3>4, HalfOfQuotient
    <3> QED BY ONLY <3>3, <3>4, <3>5
  <2>11. Loop(g, 0, n - i) = N \div 2^i
    BY <2>1, <2>3, <2>8, <2>9, <2>10
  <2> QED BY <1>1, <2>7, <2>8, <2>9, <2>11
<1>6. \A i \in 0..n : i \in Good
  <2> HIDE DEF Good
  <2> QED BY <1>1, <1>4, <1>5, TurnInduction
<1>7. \A i \in 1..n : bits[i] = fr_to_le_bits(N, i - 1)
  <2> TAKE i \in 1..n
  <2>1. i - 1 \in 0..n
    BY <1>1
  <2> HIDE DEF Good
  <2> QED BY <1>5, <1>6, <2>1 DEF fr_to_le_bits
<1>8. bits = [i \in 1..n |-> bits[i]]
  BY DEF n
<1> QED BY <1>7, <1>8 DEF le_bits, n, N

\* The bits the code computes are bits.
LEMMA HintIsBit ==
  ASSUME NEW x \in Fr, NEW i \in 0..AllBits
  PROVE  fr_to_le_bits(x, i) \in {0, 1}
<1>1. PICK w \in Nat \ {0} : w = 2^i
  BY PowersOfTwo
<1>2. x \div w \in Int
  BY <1>1, PAssumption DEF Fr
<1> QED BY <1>1, <1>2 DEF fr_to_le_bits

\* No bits stand for zero.
LEMMA NoBits == Number(<<>>) = 0
<1>1. PICK two \in Nat : two = 2
  OBVIOUS
<1>2. <<>> \in Seq(Nat) /\ Len(<<>>) = 0
  OBVIOUS
<1>3. Value(<<>>, two) = 0
  BY <1>2, LoopTurns DEF Value
<1> QED BY <1>1, <1>2, <1>3, NumberIsValue

\* A decomposition starts with no bits.
LEMMA WordStarts ==
  ASSUME NEW label \in Decomposing, NEW value \in Fr, NEW hint \in Fr,
         NEW w, w = [value |-> value, n |-> Width(label), hint |-> hint, bits |-> <<>>,
                     acc |-> 0, weight |-> 1]
  PROVE  w \in Word /\ Len(w.bits) <= w.n /\ Binary(w)
<1>1. <<>> \in Seq(Fr) /\ <<>> \in Seq({0, 1}) /\ <<>> \in Seq(Nat) /\ Len(<<>>) = 0
  OBVIOUS
<1>2. Width(label) \in Nat \ {0}
  BY Widths
<1>3. w \in Word /\ Len(w.bits) <= w.n
  BY <1>1, <1>2, FrClosed DEF Word
<1>4. 0 % P = 0 /\ 1 % P = 1
  BY PAssumption
<1> QED BY <1>1, <1>3, <1>4, NoBits, PowersOfTwo DEF Binary

\* One turn of to_bits.
LEMMA OneTurn ==
  ASSUME NEW label \in Decomposing, NEW w \in Word, w.n = Width(label), Binary(w),
         Len(w.bits) < w.n, NEW bit \in {0, 1},
         NEW w2, w2 = [w EXCEPT !.bits = Append(@, bit), !.acc = AddBit(@, bit, w.weight),
                                !.weight = DoubleWeight(@)]
  PROVE  w2 \in Word /\ Len(w2.bits) <= w2.n /\ Binary(w2)
<1>1. /\ w.bits \in Seq({0, 1}) /\ Number(w.bits) < 2^Len(w.bits)
      /\ w.acc = Number(w.bits) % P /\ w.weight = 2^Len(w.bits) % P
  BY DEF Binary
<1>2. PICK k \in Nat : k = Len(w.bits)
  BY <1>1
<1>3. k \in 0..(Width(label) - 1) /\ k <= AllBits
  <2>1. PICK n \in Nat \ {0} : n = Width(label) /\ n <= AllBits
    BY Widths
  <2>2. k < n /\ AllBits \in Nat
    BY <1>2, <2>1, AllWidths
  <2> QED BY <2>1, <2>2
<1>4. PICK m \in Nat \ {0} : m = 2^k /\ m < P /\ 2^(k + 1) = 2 * m
  BY <1>3, Widths
<1>5. PICK N \in Nat : N = Number(w.bits) /\ N < m
  <2>1. w.bits \in Seq(Nat)
    BY <1>1
  <2> QED BY <1>1, <1>2, <1>4, <2>1, NumberIsValue
<1>6. w.acc = N /\ w.weight = m
  <2>1. N % P = N /\ m % P = m
    <3>1. P \in Nat /\ N < P /\ m < P
      BY <1>4, <1>5, PAssumption
    <3> QED BY <3>1
  <2> QED BY <1>1, <1>2, <1>4, <1>5, <2>1
<1>7. /\ w2.bits = Append(w.bits, bit) /\ w2.acc = AddBit(N, bit, m)
      /\ w2.weight = DoubleWeight(m)
      /\ w2.n = w.n /\ w2.value = w.value /\ w2.hint = w.hint
      /\ DOMAIN w2 = DOMAIN w
  BY <1>6 DEF Word
<1>8. /\ w2.bits \in Seq({0, 1}) /\ w2.bits \in Seq(Fr) /\ Len(w2.bits) = k + 1
  <2>1. bit \in Fr /\ w.bits \in Seq(Fr)
    BY FrClosed DEF Word
  <2> QED BY <1>1, <1>2, <1>7, <2>1
<1>9. Number(w2.bits) = N + m * bit
  BY <1>1, <1>2, <1>3, <1>4, <1>5, <1>7, NumberAppend
<1>10. PICK t \in Nat : t = m * bit /\ t = bit * m /\ t <= m
  <2>1. CASE bit = 0
    BY <2>1
  <2>2. CASE bit = 1
    BY <2>2
  <2> QED BY <2>1, <2>2
<1>11. AddBit(N, bit, m) = (N + t) % P
  <2>1. t % P = t
    <3>1. t < P /\ P \in Nat
      BY <1>4, <1>10, PAssumption
    <3> QED BY ONLY <1>10, <3>1
  <2> QED BY <1>10, <2>1 DEF AddBit, Add, MulConst, Plus, Times
<1>12. N + t < 2^(k + 1)
  BY <1>4, <1>5, <1>10
<1>13. DoubleWeight(m) = 2^(k + 1) % P
  <2>1. m + m = 2 * m
    OBVIOUS
  <2> QED BY <1>4, <2>1 DEF DoubleWeight, Plus
<1>14. Binary(w2)
  BY <1>7, <1>8, <1>9, <1>10, <1>11, <1>12, <1>13 DEF Binary
<1>15. (N + t) % P \in Fr /\ 2^(k + 1) % P \in Fr
  <2>1. PICK u \in Nat, v \in Nat : u = 2^(k + 1) /\ v = N + t
    BY <1>4, <1>5, <1>10
  <2>2. u % P \in Fr /\ v % P \in Fr
    BY PAssumption DEF Fr
  <2> QED BY ONLY <2>1, <2>2
<1>16. w2 \in Word
  BY <1>7, <1>8, <1>11, <1>13, <1>15 DEF Word
<1>17. Len(w2.bits) <= w2.n
  BY <1>2, <1>7, <1>8 DEF Word
<1> QED BY <1>14, <1>16, <1>17

\* What the last row of a decomposition shows of its cell.
LEMMA WordCloses ==
  ASSUME NEW label \in Decomposing, NEW w \in Word, w.n = Width(label), Binary(w),
         Len(w.bits) = w.n, w.acc = w.value
  PROVE  /\ w.bits \in Seq({0, 1}) /\ Range(w.bits) \subseteq {0, 1}
         /\ \/ Number(w.bits) = w.value
            \/ label = "challenge" /\ Number(w.bits) = w.value + P
         /\ label # "challenge" => w.value < 2^Width(label) /\ w.bits = le_bits(w.value, w.n)
<1>1. w.bits \in Seq({0, 1}) /\ w.bits \in Seq(Nat)
  BY DEF Binary
<1>2. PICK N \in Nat : N = Number(w.bits)
  BY <1>1, NumberIsValue
<1>3. N < 2^Width(label) /\ w.value = N % P
  BY <1>2 DEF Binary
<1>4. PICK m \in Nat : m = 2^Width(label) /\ m < 2 * P /\ (label # "challenge" => m <= P)
  BY Widths
<1>5. N < 2 * P /\ (label # "challenge" => N < P)
  BY <1>3, <1>4, PAssumption
<1>6. Range(w.bits) \subseteq {0, 1}
  BY <1>1 DEF Range
<1>7. CASE N < P
  <2>1. w.value = N
    BY <1>3, <1>7, PAssumption
  <2>2. w.bits = le_bits(w.value, w.n)
    BY <1>1, <1>2, <2>1, BitsOfNumber, Widths
  <2>3. N < 2^Width(label)
    BY <1>3
  <2>4. w.value < 2^Width(label)
    BY <2>1, <2>3
  <2>5. Number(w.bits) = w.value
    BY <1>2, <2>1
  <2> QED BY <1>1, <1>6, <2>2, <2>4, <2>5, Zenon
<1>8. CASE N >= P
  <2>1. N = 1 * P + (N - P) /\ N - P \in Fr
    BY <1>5, <1>8, PAssumption DEF Fr
  <2>2. w.value = N - P
    BY <1>3, <2>1, ModOfMultiple
  <2>3. label = "challenge" /\ N = w.value + P
    BY <1>5, <1>8, <2>1, <2>2, PAssumption
  <2> QED BY <1>1, <1>2, <1>6, <2>3
<1> QED BY <1>7, <1>8, PAssumption

-----------------------------------------------------------------------------
(* The cells.                                                              *)

AnySigs == UNION {[D -> Loaded] : D \in SUBSET Party}
SigsOK == sigs \in AnySigs /\ signer \in Party

CellsOK ==
  /\ circuit \in Circuits /\ circuit \in Public
  /\ instance \in {public_inputs(c) : c \in Circuits} /\ params = PoseidonParams
  /\ pc \in Label
  /\ word \in Word /\ Len(word.bits) <= word.n
  /\ prev_nonce \in Fr /\ update \in Update
  /\ SigsOK
  /\ message \in Fr /\ rhs \in Places
  /\ updates \in Seq(Signed)
  /\ strayed \subseteq Unforced \cup {"bit"}

\* The decomposition under way stands for a number below the weight of its next bit.
WordOK == pc \in Decomposing => word.n = Width(pc) /\ Binary(word)

\* Whose signature cells are loaded.
Held ==
  /\ pc \in {"challenge", "scalar"} => signer \in DOMAIN sigs
  /\ pc \in {"signature", "challenge", "scalar"} /\ signer = "b" => "a" \in DOMAIN sigs
  /\ pc = "carry" => Party \subseteq DOMAIN sigs

InStep == {"load", "balance_a", "balance_b", "nonce", "conservation", "increase",
           "signature", "challenge", "scalar", "carry"}

\* How many updates are complete.
Counted ==
  /\ Len(updates) <= Steps
  /\ pc \in {"public", "start_nonce"} => updates = <<>>
  /\ pc \in InStep => Len(updates) < Steps
  /\ pc \in {"final", "accepted"} => Len(updates) = Steps

Cells == CellsOK /\ WordOK /\ Held /\ Counted

LEMMA TablesRead ==
  /\ ParamsOK(PoseidonParams.t6) /\ PoseidonParams.t6.t = 6
  /\ ParamsOK(PoseidonParams.t7) /\ PoseidonParams.t7.t = 7
<1>1. ParamsOK(FromRaw(RawT6)) /\ FromRaw(RawT6).t = 5 + 1
  BY TableAssumption, ParamsRead
<1>2. ParamsOK(FromRaw(RawT7)) /\ FromRaw(RawT7).t = 6 + 1
  BY TableAssumption, ParamsRead
<1> QED BY <1>1, <1>2 DEF PoseidonParams

LEMMA ChallengeHash ==
  ASSUME NEW a \in Fr, NEW b \in Fr, NEW c \in Fr, NEW d \in Fr, NEW e \in Fr
  PROVE  /\ poseidon_hash(PoseidonParams.t6, <<a, b, c, d, e>>) \in Fr
         /\ poseidon_hash_circuit(PoseidonParams.t6, 0, <<a, b, c, d, e>>)
              = poseidon_hash(PoseidonParams.t6, <<a, b, c, d, e>>)
         /\ \A zero \in Fr : poseidon_hash_circuit(PoseidonParams.t6, zero, <<a, b, c, d, e>>) \in Fr
<1> DEFINE p == PoseidonParams.t6
           inputs == <<a, b, c, d, e>>
<1>1. ParamsOK(p) /\ p.t = 6
  BY TablesRead
<1>2. \A i \in 1..5 : inputs[i] \in Fr
  OBVIOUS
<1> HIDE DEF p, inputs
<1>3. \A i \in 1..(p.t - 1) : inputs[i] \in Fr
  BY <1>1, <1>2
<1>4. /\ poseidon_hash_circuit(p, 0, inputs) = poseidon_hash(p, inputs)
      /\ \A zero \in Fr : poseidon_hash_circuit(p, zero, inputs) \in Fr
  BY <1>1, <1>3, HashAgrees
<1> QED BY <1>4, FrClosed DEF p, inputs

LEMMA MessageHash ==
  ASSUME NEW a \in Fr, NEW b \in Fr, NEW c \in Fr, NEW d \in Fr, NEW e \in Fr, NEW f \in Fr
  PROVE  /\ poseidon_hash(PoseidonParams.t7, <<a, b, c, d, e, f>>) \in Fr
         /\ poseidon_hash_circuit(PoseidonParams.t7, 0, <<a, b, c, d, e, f>>)
              = poseidon_hash(PoseidonParams.t7, <<a, b, c, d, e, f>>)
         /\ \A zero \in Fr : poseidon_hash_circuit(PoseidonParams.t7, zero, <<a, b, c, d, e, f>>) \in Fr
<1> DEFINE p == PoseidonParams.t7
           inputs == <<a, b, c, d, e, f>>
<1>1. ParamsOK(p) /\ p.t = 7
  BY TablesRead
<1>2. \A i \in 1..6 : inputs[i] \in Fr
  OBVIOUS
<1> HIDE DEF p, inputs
<1>3. \A i \in 1..(p.t - 1) : inputs[i] \in Fr
  BY <1>1, <1>2
<1>4. /\ poseidon_hash_circuit(p, 0, inputs) = poseidon_hash(p, inputs)
      /\ \A zero \in Fr : poseidon_hash_circuit(p, zero, inputs) \in Fr
  BY <1>1, <1>3, HashAgrees
<1> QED BY <1>4, FrClosed DEF p, inputs

\* What a prover may write into the cells that no row ties.
LEMMA Strays ==
  /\ \A y \in Fr : Written("Ay", y) \subseteq Fr
  /\ Written("zero", 0) \subseteq Fr
  /\ Written("identity", identity) \subseteq Point
  /\ Written("B8", base8_point) \subseteq Point
  /\ \A bit \in Fr : Written("bit", bit) \subseteq Fr
<1>1. base8_point \in Point
  BY CurveAssumption, ConstantType DEF base8_point, Point
<1>2. identity \in Point
  BY FrClosed DEF identity, Point
<1>3. /\ Stray["Ay"] \subseteq Fr /\ Stray["zero"] \subseteq Fr /\ Stray["bit"] \subseteq Fr
      /\ Stray["identity"] \subseteq Point /\ Stray["B8"] \subseteq Point
  BY CircuitAssumption
<1> QED BY <1>1, <1>2, <1>3, FrClosed DEF Written

LEMMA RangeStarts ==
  ASSUME NEW label \in RangeChecks, NEW value \in Fr, RangeCheck(value)
  PROVE  /\ word' \in Word /\ Len(word'.bits) <= word'.n
         /\ word'.n = Width(label) /\ word'.value = value /\ Binary(word')
<1>1. label \in Decomposing /\ Width(label) = RangeBits
  BY DEF Decomposing, RangeChecks, Width
<1>2. word' = [value |-> value, n |-> Width(label), hint |-> value,
               bits |-> <<>>, acc |-> 0, weight |-> 1]
  BY <1>1 DEF RangeCheck, ToBits
<1>3. word' \in Word /\ Len(word'.bits) <= word'.n /\ Binary(word')
  BY <1>1, <1>2, WordStarts
<1> QED BY <1>2, <1>3

\* The fields of the cells.
LEMMA CellFields ==
  ASSUME CellsOK
  PROVE  /\ circuit.contract_address \in Fr /\ circuit.chain_id \in Fr /\ circuit.channel_id \in Fr
         /\ circuit.start_nonce \in Fr
         /\ update.nonce \in Fr /\ update.balance_a \in Fr /\ update.balance_b \in Fr
         /\ KeyOf(circuit, signer) \in Point
         /\ KeyOf(circuit, signer).x \in Fr /\ KeyOf(circuit, signer).y \in Fr
         /\ message_hash_at(circuit, update) \in Fr
         /\ Rise(update.nonce, prev_nonce) \in Fr
<1>1. circuit \in Public /\ update \in Update /\ params = PoseidonParams /\ prev_nonce \in Fr
  BY DEF CellsOK
<1>2. /\ circuit.contract_address \in Fr /\ circuit.chain_id \in Fr /\ circuit.channel_id \in Fr
      /\ circuit.start_nonce \in Fr
      /\ update.nonce \in Fr /\ update.balance_a \in Fr /\ update.balance_b \in Fr
  BY <1>1 DEF Public, Update
<1>3. KeyOf(circuit, signer) \in Point
  BY <1>1 DEF Public, KeyOf, Point
<1>4. message_hash_at(circuit, update) \in Fr
  BY <1>1, <1>2, MessageHash DEF message_hash_at
<1>5. Rise(update.nonce, prev_nonce) \in Fr
  BY <1>1, <1>2, FrClosed DEF Rise, AddConst, Sub, Add, MulConst
<1> QED BY <1>2, <1>3, <1>4, <1>5 DEF Point

\* A run that turns to the range check of a value, or whose row failed there.
LEMMA RangeOpens ==
  ASSUME CellsOK, NEW label \in RangeChecks, NEW value \in Fr, RangeCheck(value),
         pc' \in {label, "rejected"}, update' \in Update, SigsOK', Counted',
         UNCHANGED <<setup, prev_nonce, message, rhs, updates, strayed>>
  PROVE  Cells'
<1>1. /\ word' \in Word /\ Len(word'.bits) <= word'.n
      /\ word'.n = Width(label) /\ Binary(word')
  BY RangeStarts
<1>2. label \in Decomposing /\ label \in Label /\ "rejected" \in Label /\ "rejected" \notin Decomposing
      /\ label \notin {"challenge", "scalar", "signature", "carry"}
  BY DEF Label, Decomposing, RangeChecks
<1>3. CellsOK'
  BY <1>1, <1>2 DEF CellsOK, setup
<1>4. WordOK'
  BY <1>1, <1>2 DEF WordOK, Binary
<1>5. Held'
  BY <1>2 DEF Held
<1> QED BY <1>3, <1>4, <1>5 DEF Cells

\* A run that goes on to a label where no bits are taken.
LEMMA GoesOn ==
  ASSUME CellsOK, pc' \in Label \ Decomposing, SigsOK', Held', Counted', message' \in Fr,
         strayed' \subseteq Unforced \cup {"bit"},
         UNCHANGED <<setup, word, prev_nonce, update, rhs, updates>>
  PROVE  Cells'
<1>1. CellsOK'
  BY DEF CellsOK, setup
<1>2. WordOK'
  BY DEF WordOK
<1> QED BY <1>1, <1>2 DEF Cells

LEMMA CellsInit == Init => Cells
<1> SUFFICES ASSUME Init PROVE Cells
  OBVIOUS
<1>1. circuit \in Public /\ circuit \in Circuits /\ circuit.start_nonce \in Fr
  BY CircuitAssumption DEF Init, Public
<1>2. <<>> \in Seq(Signed) /\ Len(<<>>) = 0 /\ <<>> \in Seq(Fr)
  OBVIOUS
<1>3. SigsOK
  <2>1. sigs \in [{} -> Loaded]
    BY DEF Init, NoSignatures
  <2> QED BY <2>1 DEF AnySigs, SigsOK, Init, Party
<1>4. 0 \in Fr /\ identity \in Point
  BY FrClosed DEF identity, Point
<1>5. 1 \in Fr
  BY FrClosed
<1>6. word \in Word /\ Len(word.bits) <= word.n
  BY <1>2, <1>4, <1>5 DEF Init, Word
<1>7. update \in Update
  BY <1>4 DEF Init, Update
<1>8. CellsOK
  BY <1>1, <1>2, <1>3, <1>4, <1>6, <1>7 DEF Init, CellsOK, Label, Places
<1>9. pc \notin Decomposing /\ pc = "public" /\ updates = <<>>
  BY DEF Init, Decomposing, RangeChecks
<1>10. Held /\ Counted /\ WordOK
  BY <1>2, <1>9, CircuitAssumption DEF Held, Counted, WordOK, InStep
<1> QED BY <1>8, <1>10 DEF Cells

LEMMA LoadPublicCells == ASSUME Cells, LoadPublic PROVE Cells'
<1>1. CellsOK /\ SigsOK' /\ update' \in Update /\ circuit.start_nonce \in Fr
  BY CellFields DEF Cells, LoadPublic, CellsOK, SigsOK
<1>2. pc' \in {"start_nonce", "rejected"} /\ updates = <<>> /\ updates' = updates
  BY DEF LoadPublic, Goto, Cells, Counted
<1>3. Counted'
  BY <1>2, CircuitAssumption DEF Counted, Cells, InStep
<1> QED BY <1>1, <1>2, <1>3, RangeOpens DEF LoadPublic, RangeChecks

LEMMA StartNonceCells == ASSUME Cells, StartNonceChecked PROVE Cells'
<1>1. CellsOK /\ SigsOK' /\ message' \in Fr /\ strayed' \subseteq Unforced \cup {"bit"}
  BY DEF Cells, StartNonceChecked, CellsOK, SigsOK
<1>2. pc' = "load" /\ pc = "start_nonce" /\ updates = <<>> /\ updates' = updates
  BY DEF StartNonceChecked, Decomposed, Cells, Counted
<1>3. Counted' /\ Held'
  BY <1>2, CircuitAssumption DEF Counted, Cells, Held, InStep
<1>4. pc' \in Label \ Decomposing
  BY <1>2 DEF Label, Decomposing, RangeChecks
<1> QED BY <1>1, <1>3, <1>4, GoesOn DEF StartNonceChecked

LEMMA LoadUpdateCells == ASSUME Cells, LoadUpdate PROVE Cells'
<1>1. sigs' \in [{} -> Loaded]
  BY DEF LoadUpdate, NoSignatures
<1>2. CellsOK /\ SigsOK'
  BY <1>1 DEF AnySigs, LoadUpdate, Cells, CellsOK, SigsOK
<1>3. update' \in Update /\ update'.balance_a \in Fr
  BY CircuitAssumption DEF LoadUpdate, Update
<1>4. pc' = "balance_a" /\ pc = "load" /\ updates' = updates
  BY DEF LoadUpdate
<1>5. Counted'
  BY <1>4 DEF Counted, Cells, InStep
<1> QED BY <1>2, <1>3, <1>4, <1>5, RangeOpens DEF LoadUpdate, RangeChecks

LEMMA BalanceACells == ASSUME Cells, BalanceAChecked PROVE Cells'
<1>1. CellsOK /\ SigsOK' /\ update' \in Update /\ update.balance_b \in Fr
  BY CellFields DEF Cells, BalanceAChecked, CellsOK, SigsOK
<1>2. pc' = "balance_b" /\ pc = "balance_a" /\ updates' = updates
  BY DEF BalanceAChecked, Decomposed
<1>3. Counted'
  BY <1>2 DEF Counted, Cells, InStep
<1> QED BY <1>1, <1>2, <1>3, RangeOpens DEF BalanceAChecked, RangeChecks

LEMMA BalanceBCells == ASSUME Cells, BalanceBChecked PROVE Cells'
<1>1. CellsOK /\ SigsOK' /\ update' \in Update /\ update.nonce \in Fr
  BY CellFields DEF Cells, BalanceBChecked, CellsOK, SigsOK
<1>2. pc' = "nonce" /\ pc = "balance_b" /\ updates' = updates
  BY DEF BalanceBChecked, Decomposed
<1>3. Counted'
  BY <1>2 DEF Counted, Cells, InStep
<1> QED BY <1>1, <1>2, <1>3, RangeOpens DEF BalanceBChecked, RangeChecks

LEMMA NonceCells == ASSUME Cells, NonceChecked PROVE Cells'
<1>1. CellsOK /\ SigsOK' /\ message' \in Fr /\ strayed' \subseteq Unforced \cup {"bit"}
  BY DEF Cells, NonceChecked, CellsOK, SigsOK
<1>2. pc' = "conservation" /\ pc = "nonce" /\ updates' = updates
  BY DEF NonceChecked, Decomposed
<1>3. Counted' /\ Held'
  BY <1>2 DEF Counted, Cells, Held, InStep
<1>4. pc' \in Label \ Decomposing
  BY <1>2 DEF Label, Decomposing, RangeChecks
<1> QED BY <1>1, <1>3, <1>4, GoesOn DEF NonceChecked

LEMMA ConserveCells == ASSUME Cells, Conserve PROVE Cells'
<1>1. CellsOK /\ SigsOK' /\ update' \in Update /\ Rise(update.nonce, prev_nonce) \in Fr
  BY CellFields DEF Cells, Conserve, CellsOK, SigsOK
<1>2. pc' \in {"increase", "rejected"} /\ pc = "conservation" /\ updates' = updates
  BY DEF Conserve, Goto
<1>3. Counted'
  BY <1>2 DEF Counted, Cells, InStep
<1> QED BY <1>1, <1>2, <1>3, RangeOpens DEF Conserve, RangeChecks

LEMMA BitsRejectedCells == ASSUME Cells, BitsRejected PROVE Cells'
<1>1. CellsOK /\ SigsOK' /\ message' \in Fr /\ strayed' \subseteq Unforced \cup {"bit"}
  BY DEF Cells, BitsRejected, CellsOK, SigsOK
<1>2. pc' = "rejected" /\ updates' = updates
  BY DEF BitsRejected
<1>3. Counted' /\ Held'
  BY <1>2 DEF Counted, Cells, Held, InStep
<1>4. pc' \in Label \ Decomposing
  BY <1>2 DEF Label, Decomposing, RangeChecks
<1> QED BY <1>1, <1>3, <1>4, GoesOn DEF BitsRejected

LEMMA VerifyProofCells == ASSUME Cells, VerifyProof PROVE Cells'
<1>1. CellsOK /\ SigsOK' /\ message' \in Fr /\ strayed' \subseteq Unforced \cup {"bit"}
  BY DEF Cells, VerifyProof, CellsOK, SigsOK
<1>2. pc' \in {"accepted", "rejected"} /\ pc = "final" /\ updates' = updates
  BY DEF VerifyProof, Goto
<1>3. Counted' /\ Held'
  BY <1>2 DEF Counted, Cells, Held, InStep
<1>4. pc' \in Label \ Decomposing
  BY <1>2 DEF Label, Decomposing, RangeChecks
<1> QED BY <1>1, <1>3, <1>4, GoesOn DEF VerifyProof

\* Whatever stands in the cells of the identity, the product is a point or there is none.
LEMMA ScalarMulBitsTyped ==
  ASSUME NEW p \in Places, NEW bits \in Seq({0, 1}), NEW id \in Places
  PROVE  ScalarMulBits(p, bits, id) \in Places
<1>1. PICK f : ChipRun(p, bits, id, f) /\ ScalarMulBits(p, bits, id) = Outcome(f[Len(bits)])
  BY ScalarMulBitsRuns
<1>2. PICK end \in Progress : end = f[Len(bits)]
  <2>1. Len(bits) \in 0..Len(bits)
    OBVIOUS
  <2> QED BY <1>1, <2>1 DEF ChipRun
<1> QED BY <1>1, <1>2 DEF Outcome, Progress, Places

LEMMA WitnessBitCells == ASSUME Cells, WitnessBit PROVE Cells'
<1>1. PICK bit \in Written("bit", fr_to_le_bits(word.hint, Len(word.bits))) :
        /\ Goto(AssertEqual(Mul(bit, bit), bit), pc)
        /\ word' = [word EXCEPT !.bits = Append(@, bit),
                                !.acc = AddBit(@, bit, word.weight),
                                !.weight = DoubleWeight(@)]
        /\ strayed' = strayed \cup
             Departs("bit", bit, fr_to_le_bits(word.hint, Len(word.bits)))
  BY DEF WitnessBit, Turn
<1>2. /\ pc \in Decomposing /\ Len(word.bits) < word.n
      /\ UNCHANGED <<setup, prev_nonce, update, signer, sigs, message, rhs, updates>>
  BY DEF WitnessBit, Turn
<1>3. CellsOK /\ word \in Word /\ word.n = Width(pc) /\ Binary(word)
  BY <1>2 DEF Cells, WordOK, CellsOK
<1>4. bit \in Fr
  <2>1. PICK n \in Nat : n = Width(pc) /\ n <= AllBits
    BY <1>2, Widths
  <2>2. Len(word.bits) \in Nat /\ word.hint \in Fr /\ AllBits \in Nat
    BY <1>3, AllWidths DEF Word
  <2>3. Len(word.bits) \in 0..AllBits
    BY <1>2, <1>3, <2>1, <2>2
  <2>4. fr_to_le_bits(word.hint, Len(word.bits)) \in Fr
    BY <2>2, <2>3, HintIsBit, FrClosed
  <2> QED BY <2>4, Strays
<1>5. word' \in Word /\ Len(word'.bits) <= word'.n
  <2>1. /\ word.bits \in Seq(Fr) /\ word.acc \in Fr /\ word.weight \in Fr /\ word.n \in Nat
        /\ word.value \in Fr /\ word.hint \in Fr
    BY <1>3 DEF Word
  <2>2. AddBit(word.acc, bit, word.weight) \in Fr /\ DoubleWeight(word.weight) \in Fr
    BY <1>4, <2>1, FrClosed DEF AddBit, Add, MulConst, DoubleWeight
  <2>3. Append(word.bits, bit) \in Seq(Fr) /\ Len(Append(word.bits, bit)) = Len(word.bits) + 1
    BY <1>4, <2>1
  <2>4. word' = [value |-> word.value, n |-> word.n, hint |-> word.hint,
                 bits |-> Append(word.bits, bit), acc |-> AddBit(word.acc, bit, word.weight),
                 weight |-> DoubleWeight(word.weight)]
    BY <1>1, <1>3 DEF Word
  <2>5. word' \in Word
    BY <2>1, <2>2, <2>3, <2>4 DEF Word
  <2>6. Len(word.bits) + 1 <= word.n
    BY <1>2, <2>1
  <2> QED BY <2>3, <2>4, <2>5, <2>6
<1>6. strayed' \subseteq Unforced \cup {"bit"}
  BY <1>1, <1>3 DEF CellsOK, Departs
<1>7. CASE pc' = "rejected"
  <2>1. "rejected" \in Label /\ "rejected" \notin Decomposing
    BY DEF Label, Decomposing, RangeChecks
  <2>2. CellsOK' /\ WordOK'
    BY <1>2, <1>3, <1>5, <1>6, <1>7, <2>1 DEF CellsOK, SigsOK, WordOK, setup
  <2>3. Held' /\ Counted'
    BY <1>2, <1>7 DEF Held, Cells, Counted, InStep
  <2> QED BY <2>2, <2>3 DEF Cells
<1>8. CASE pc' = pc /\ Mul(bit, bit) = bit
  <2>1. bit \in {0, 1}
    BY <1>4, <1>8, BooleanRow
  <2>2. Binary(word')
    BY <1>1, <1>2, <1>3, <2>1, OneTurn
  <2>3. word'.n = word.n
    BY <1>1, <1>3 DEF Word
  <2>4. CellsOK'
    BY <1>2, <1>3, <1>5, <1>6, <1>8 DEF CellsOK, SigsOK, setup
  <2>5. WordOK'
    BY <1>3, <1>8, <2>2, <2>3 DEF WordOK, Binary
  <2>6. Held' /\ Counted'
    BY <1>2, <1>8 DEF Held, Cells, Counted, InStep
  <2> QED BY <2>4, <2>5, <2>6 DEF Cells
<1> QED BY <1>1, <1>7, <1>8 DEF Goto, AssertEqual

LEMMA HashMessageCells == ASSUME Cells, HashMessage PROVE Cells'
<1>1. PICK zero \in Written("zero", 0) :
        /\ message' = poseidon_hash_circuit(params.t7, zero,
                        <<circuit.contract_address, circuit.chain_id, circuit.channel_id,
                          update.nonce, update.balance_a, update.balance_b>>)
        /\ strayed' = strayed \cup Departs("zero", zero, 0)
  BY DEF HashMessage
<1>2. /\ pc = "increase" /\ pc' = "signature" /\ signer' = "a"
      /\ UNCHANGED <<setup, word, prev_nonce, update, sigs, rhs, updates>>
  BY DEF HashMessage, Decomposed
<1>3. CellsOK /\ params = PoseidonParams
  BY DEF Cells, CellsOK
<1>4. zero \in Fr
  BY Strays
<1>5. message' \in Fr
  BY <1>1, <1>3, <1>4, CellFields, MessageHash
<1>6. strayed' \subseteq Unforced \cup {"bit"}
  BY <1>1, <1>3 DEF CellsOK, Departs, Unforced
<1>7. SigsOK'
  BY <1>2, <1>3 DEF CellsOK, SigsOK, Party
<1>8. pc' \in Label \ Decomposing
  BY <1>2 DEF Label, Decomposing, RangeChecks
<1>9. Held' /\ Counted'
  BY <1>2 DEF Held, Cells, Counted, InStep
<1> QED BY <1>2, <1>3, <1>5, <1>6, <1>7, <1>8, <1>9, GoesOn

LEMMA LoadSignatureCells == ASSUME Cells, LoadSignature PROVE Cells'
<1>1. PICK sig \in Signatures, ay \in Written("Ay", KeyOf(circuit, signer).y),
           zero \in Written("zero", 0) :
        LET key == KeyOf(circuit, signer)
        IN  /\ sigs' = [p \in DOMAIN sigs \cup {signer} |->
                          IF p = signer THEN [r8 |-> [x |-> sig.r8x, y |-> sig.r8y],
                                              s |-> sig.s, ay |-> ay]
                                        ELSE sigs[p]]
            /\ ToBits(poseidon_hash_circuit(params.t6, zero,
                        <<sig.r8x, sig.r8y, key.x, ay, message>>),
                      ChallengeBits,
                      poseidon_hash(params.t6, <<sig.r8x, sig.r8y, key.x, key.y,
                                                 message_hash_at(circuit, update)>>))
            /\ strayed' = strayed \cup Departs("Ay", ay, key.y) \cup Departs("zero", zero, 0)
  BY DEF LoadSignature
<1>2. /\ pc = "signature" /\ pc' = "challenge"
      /\ UNCHANGED <<setup, prev_nonce, update, signer, message, rhs, updates>>
  BY DEF LoadSignature
<1>3. CellsOK /\ params = PoseidonParams /\ message \in Fr
  BY DEF Cells, CellsOK
<1>4. /\ KeyOf(circuit, signer).x \in Fr /\ KeyOf(circuit, signer).y \in Fr
      /\ message_hash_at(circuit, update) \in Fr
  BY <1>3, CellFields
<1>5. zero \in Fr /\ ay \in Fr
  BY <1>4, Strays
<1>6. sig.r8x \in Fr /\ sig.r8y \in Fr /\ sig.s \in Fr
  BY CircuitAssumption DEF SignatureWitness
<1>7. SigsOK'
  <2>1. [r8 |-> [x |-> sig.r8x, y |-> sig.r8y], s |-> sig.s, ay |-> ay] \in Loaded
    BY <1>5, <1>6 DEF Loaded, Point
  <2>2. signer \in Party /\ sigs \in AnySigs
    BY <1>3 DEF CellsOK, SigsOK
  <2>3. PICK D \in SUBSET Party : sigs \in [D -> Loaded]
    BY <2>2 DEF AnySigs
  <2>4. sigs' \in [D \cup {signer} -> Loaded]
    BY <1>1, <2>1, <2>3
  <2>5. D \cup {signer} \in SUBSET Party
    BY <2>2
  <2> QED BY <1>2, <2>2, <2>4, <2>5 DEF AnySigs, SigsOK
<1>8. PICK hash \in Fr, hint \in Fr : ToBits(hash, ChallengeBits, hint)
  <2>1. /\ poseidon_hash_circuit(params.t6, zero,
             <<sig.r8x, sig.r8y, KeyOf(circuit, signer).x, ay, message>>) \in Fr
        /\ poseidon_hash(params.t6, <<sig.r8x, sig.r8y, KeyOf(circuit, signer).x,
             KeyOf(circuit, signer).y, message_hash_at(circuit, update)>>) \in Fr
    BY <1>3, <1>4, <1>5, <1>6, ChallengeHash
  <2> QED BY <1>1, <2>1
<1>9. "challenge" \in Decomposing /\ "challenge" \in Label /\ Width("challenge") = ChallengeBits
  BY DEF Decomposing, Label, Width
<1>10. word' \in Word /\ Len(word'.bits) <= word'.n /\ word'.n = Width("challenge") /\ Binary(word')
  BY <1>8, <1>9, WordStarts DEF ToBits
<1>11. strayed' \subseteq Unforced \cup {"bit"}
  BY <1>1, <1>3 DEF CellsOK, Departs, Unforced
<1>12. CellsOK'
  BY <1>2, <1>3, <1>7, <1>9, <1>10, <1>11 DEF CellsOK, setup
<1>13. WordOK'
  BY <1>2, <1>10 DEF WordOK, Binary
<1>14. Counted'
  BY <1>2 DEF Cells, Counted, InStep
<1>15. Held'
  <2>1. DOMAIN sigs' = DOMAIN sigs \cup {signer}
    BY <1>1
  <2> QED BY <1>2, <2>1 DEF Cells, Held
<1> QED BY <1>12, <1>13, <1>14, <1>15 DEF Cells

\* The cells of a signature that is being checked.
LEMMA SignatureFields ==
  ASSUME CellsOK, signer \in DOMAIN sigs
  PROVE  /\ sigs[signer] \in Loaded /\ sigs[signer].r8 \in Point
         /\ sigs[signer].s \in Fr /\ sigs[signer].ay \in Fr
         /\ [x |-> KeyOf(circuit, signer).x, y |-> sigs[signer].ay] \in Point
<1>1. PICK D \in SUBSET Party : sigs \in [D -> Loaded]
  BY DEF CellsOK, SigsOK, AnySigs
<1>2. sigs[signer] \in Loaded
  BY <1>1
<1>3. KeyOf(circuit, signer).x \in Fr
  BY CellFields
<1> QED BY <1>2, <1>3 DEF Loaded, Point

LEMMA MultiplyChallengeCells == ASSUME Cells, MultiplyChallenge PROVE Cells'
<1> DEFINE a == [x |-> KeyOf(circuit, signer).x, y |-> sigs[signer].ay]
           eight_a == PointDouble(PointDouble(PointDouble(a)))
<1>1. PICK id \in Written("identity", identity) :
        /\ rhs' = PointAdd(sigs[signer].r8, ScalarMulBits(eight_a, word.bits, id))
        /\ strayed' = strayed \cup Departs("identity", id, identity)
                              \cup Departs("challenge", word.bits, le_bits(word.value, word.n))
  BY DEF MultiplyChallenge, RightSide
<1>2. /\ pc = "challenge" /\ pc' \in {"scalar", "rejected"} /\ BitsComplete
      /\ word.acc = word.value
      /\ ToBits(sigs[signer].s, ScalarBits, sigs[signer].s)
      /\ UNCHANGED <<setup, prev_nonce, update, signer, sigs, message, updates>>
  BY DEF MultiplyChallenge, RightSide, Decomposed, Goto, AssertEqual
<1>3. CellsOK /\ signer \in DOMAIN sigs
  BY <1>2 DEF Cells, Held
<1>4. a \in Point /\ sigs[signer].r8 \in Point /\ sigs[signer].s \in Fr
  BY <1>3, SignatureFields
<1>5. eight_a \in Places
  <2> HIDE DEF a
  <2>1. \A p \in Places : PointDouble(p) \in Places
    BY PointAddAgrees DEF PointDouble, Places
  <2> QED BY <1>4, <2>1 DEF Places
<1>6. word.bits \in Seq({0, 1})
  BY <1>2 DEF Cells, WordOK, BitsComplete, Binary
<1>7. ScalarMulBits(eight_a, word.bits, id) \in Places
  <2> HIDE DEF eight_a
  <2>1. id \in Places
    BY Strays DEF Places
  <2> QED BY <1>5, <1>6, <2>1, ScalarMulBitsTyped
<1>8. rhs' \in Places
  <2> HIDE DEF eight_a
  <2> QED BY <1>1, <1>4, <1>7, PointAddAgrees DEF Places
<1>9. "scalar" \in Decomposing /\ {"scalar", "rejected"} \subseteq Label /\ Width("scalar") = ScalarBits
      /\ "rejected" \notin Decomposing
  BY DEF Decomposing, RangeChecks, Label, Width
<1>10. word' \in Word /\ Len(word'.bits) <= word'.n /\ word'.n = Width("scalar") /\ Binary(word')
  BY <1>2, <1>4, <1>9, WordStarts DEF ToBits
<1>11. strayed' \subseteq Unforced \cup {"bit"}
  BY <1>1, <1>3 DEF CellsOK, Departs, Unforced
<1>12. CellsOK'
  BY <1>2, <1>3, <1>8, <1>9, <1>10, <1>11 DEF CellsOK, SigsOK, setup
<1>13. WordOK'
  BY <1>2, <1>9, <1>10 DEF WordOK, Binary
<1>14. Counted' /\ Held'
  BY <1>2 DEF Cells, Counted, Held, InStep
<1> QED BY <1>12, <1>13, <1>14 DEF Cells

LEMMA CheckSignatureCells == ASSUME Cells, CheckSignature PROVE Cells'
<1>1. /\ pc = "scalar" /\ signer' = "b"
      /\ pc' \in {IF signer = "a" THEN "signature" ELSE "carry", "rejected"}
      /\ UNCHANGED <<setup, word, prev_nonce, update, sigs, message, rhs, updates>>
  BY DEF CheckSignature, Decomposed, Goto
<1>2. CellsOK /\ signer \in DOMAIN sigs /\ signer \in Party
  BY <1>1 DEF Cells, Held, CellsOK, SigsOK
<1>3. SigsOK' /\ message' \in Fr
  BY <1>1, <1>2 DEF CellsOK, SigsOK, Party
<1>4. strayed' \subseteq Unforced \cup {"bit"}
  BY <1>2 DEF CheckSignature, CellsOK, Departs, Unforced
<1>5. pc' \in Label \ Decomposing
  BY <1>1 DEF Label, Decomposing, RangeChecks
<1>6. Counted'
  BY <1>1 DEF Cells, Counted, InStep
<1>7. Held'
  BY <1>1, <1>2 DEF Cells, Held, Party
<1> QED BY <1>1, <1>2, <1>3, <1>4, <1>5, <1>6, <1>7, GoesOn

LEMMA CarryCells == ASSUME Cells, Carry PROVE Cells'
<1> DEFINE entry == [update |-> update, sigs |-> sigs]
<1>1. /\ pc = "carry" /\ updates' = Append(updates, entry) /\ prev_nonce' = update.nonce
      /\ pc' = IF Len(updates') < Steps THEN "load" ELSE "final"
      /\ UNCHANGED <<setup, word, update, signer, sigs, message, rhs, strayed>>
  BY DEF Carry, CarryOver
<1>2. CellsOK /\ update.nonce \in Fr /\ updates \in Seq(Signed) /\ Len(updates) < Steps
  BY <1>1, CellFields DEF Cells, CellsOK, Counted, InStep
<1>3. entry \in Signed
  <2>1. PICK D \in SUBSET Party : sigs \in [D -> Loaded]
    BY <1>2 DEF CellsOK, SigsOK, AnySigs
  <2>2. Party \subseteq DOMAIN sigs
    BY <1>1 DEF Cells, Held
  <2>3. sigs \in [Party -> Loaded]
    BY <2>1, <2>2
  <2> QED BY <1>2, <2>3 DEF CellsOK, Signed
<1>4. updates' \in Seq(Signed) /\ Len(updates') = Len(updates) + 1 /\ Len(updates) \in Nat
  <2> HIDE DEF entry
  <2> QED BY <1>1, <1>2, <1>3
<1>5. pc' \in {"load", "final"} /\ {"load", "final"} \subseteq Label \ Decomposing
  BY <1>1 DEF Label, Decomposing, RangeChecks
<1>6. CellsOK'
  <2> HIDE DEF entry
  <2> QED BY <1>1, <1>2, <1>4, <1>5 DEF CellsOK, SigsOK, setup
<1>7. WordOK' /\ Held'
  BY <1>5 DEF WordOK, Held
<1>8. Counted'
  <2>1. Steps \in Nat
    BY CircuitAssumption
  <2>2. CASE Len(updates') < Steps
    BY <1>1, <1>4, <2>1, <2>2 DEF Counted, InStep
  <2>3. CASE ~(Len(updates') < Steps)
    BY <1>1, <1>2, <1>4, <2>1, <2>3 DEF Counted, InStep
  <2> QED BY <2>2, <2>3
<1> QED BY <1>6, <1>7, <1>8 DEF Cells

LEMMA CellsStep == Cells /\ [Next]_vars => Cells'
<1> SUFFICES ASSUME Cells, [Next]_vars PROVE Cells'
  OBVIOUS
<1>1. CASE Next
  BY <1>1, LoadPublicCells, WitnessBitCells, BitsRejectedCells, StartNonceCells, LoadUpdateCells,
     BalanceACells, BalanceBCells, NonceCells, ConserveCells, HashMessageCells,
     LoadSignatureCells, MultiplyChallengeCells, CheckSignatureCells, CarryCells,
     VerifyProofCells DEF Next
<1>2. CASE UNCHANGED vars
  <2>1. CellsOK' /\ WordOK'
    BY <1>2 DEF vars, setup, Cells, CellsOK, SigsOK, WordOK, Binary
  <2>2. Held' /\ Counted'
    BY <1>2 DEF vars, setup, Cells, Held, Counted
  <2> QED BY <2>1, <2>2 DEF Cells
<1> QED BY <1>1, <1>2

-----------------------------------------------------------------------------
(* The constants.                                                          *)

LEMMA SpeltIsLoop ==
  ASSUME NEW hex \in HexString
  PROVE  Spelt(hex) = Loop(Spelling(hex), 0, Len(hex))
<1> DEFINE n == Len(hex)
           g == Spelling(hex)
           DigitsTable(t) == t = [s \in SUBSET (DOMAIN hex) |->
             IF s = {} THEN 0 ELSE 16 * t[s \ {Max(s)}] + hex[Max(s)]]
           h == CHOOSE t : DigitsTable(t)
<1>1. n \in Nat /\ DOMAIN hex = 1..n
  BY DEF HexString
<1>2. Spelt(hex) = h[DOMAIN hex]
  BY DEF Spelt, FoldLeft, MapThenFoldSet
<1>3. Looping(n, Nat, 0, g) /\ \A k \in 1..n, v \in Nat : g[k][v] = 16 * v + hex[k]
  BY SpellingLoops
<1> HIDE DEF n, g
<1>4. \A s \in SUBSET (1..n) : s # {} => Max(s) \in 1..n
  BY <1>1, Extremes
<1>5. ASSUME NEW s \in SUBSET (1..n), s # {}, NEW v \in Nat
      PROVE  g[Max(s)][v] = 16 * v + hex[Max(s)]
  BY <1>3, <1>4, <1>5
<1>6. PICK t : FromLeft(n, Nat, 0, g, t)
  BY <1>3, LeftTable
<1>7. DigitsTable(t)
  <2>1. \A s \in SUBSET (1..n) : t[s] = IF s = {} THEN 0 ELSE 16 * t[s \ {Max(s)}] + hex[Max(s)]
    BY <1>5, <1>6 DEF FromLeft
  <2> QED BY <1>1, <1>6, <2>1 DEF FromLeft
<1>8. DigitsTable(h)
  BY <1>7
<1> HIDE DEF h
<1>9. FoldsLeft(n, Nat, 0, g, h)
  <2>1. \A s \in SUBSET (1..n) : h[s] = IF s = {} THEN 0 ELSE 16 * h[s \ {Max(s)}] + hex[Max(s)]
    BY <1>1, <1>8
  <2> QED BY <1>5, <2>1 DEF FoldsLeft
<1>10. h[1..n] = Loop(g, 0, n)
  BY <1>3, <1>9, LeftFold
<1> QED BY <1>1, <1>2, <1>10 DEF n, g

LEMMA ConstantRead ==
  ASSUME NEW hex, ValidConstant(hex)
  PROVE  fr_from_str(hex) = Spelt(hex)
<1>1. hex \in HexString /\ Len(hex) <= 2 * WordBytes
  BY DEF ValidConstant
<1> QED BY <1>1, ConstantIsSpelt, SpeltIsLoop

RowSpelt(read, row) == \A i \in DOMAIN row : read[i - 1] = Spelt(row[i])
TableSpelt(read, k) ==
  /\ RowSpelt(read.c, k.C) /\ RowSpelt(read.s, k.S)
  /\ \A i \in 1..k.T : RowSpelt(read.m[i - 1], k.M[i]) /\ RowSpelt(read.p[i - 1], k.P[i])

LEMMA RowRead ==
  ASSUME NEW row \in Seq(HexString), \A hex \in Range(row) : ValidConstant(hex)
  PROVE  RowSpelt(Parsed(row), row)
<1> SUFFICES ASSUME NEW i \in DOMAIN row PROVE Parsed(row)[i - 1] = Spelt(row[i])
  BY DEF RowSpelt
<1>1. i - 1 \in 0..(Len(row) - 1) /\ (i - 1) + 1 = i
  OBVIOUS
<1>2. Parsed(row)[i - 1] = fr_from_str(row[i])
  BY <1>1 DEF Parsed
<1>3. ValidConstant(row[i])
  BY DEF Range
<1> QED BY <1>2, <1>3, ConstantRead

LEMMA MatrixRead ==
  ASSUME NEW rows \in Seq(Seq(HexString)),
         \A row \in Range(rows) : \A hex \in Range(row) : ValidConstant(hex),
         NEW i \in 1..Len(rows)
  PROVE  RowSpelt([j \in 0..(Len(rows) - 1) |-> Parsed(rows[j + 1])][i - 1], rows[i])
<1>1. i - 1 \in 0..(Len(rows) - 1) /\ (i - 1) + 1 = i
  OBVIOUS
<1>2. PICK row \in Seq(HexString) : row = rows[i] /\ row \in Range(rows)
  BY DEF Range
<1>3. [j \in 0..(Len(rows) - 1) |-> Parsed(rows[j + 1])][i - 1] = Parsed(row)
  BY <1>1, <1>2
<1>4. RowSpelt(Parsed(row), row)
  BY <1>2, RowRead
<1> QED BY <1>2, <1>3, <1>4

LEMMA TableRead ==
  ASSUME NEW k, NEW n \in {5, 6}, WellFormed(k, n)
  PROVE  TableSpelt(FromRaw(k), k)
<1> DEFINE p == FromRaw(k)
           Matrix(rows) == [j \in 0..(Len(rows) - 1) |-> Parsed(rows[j + 1])]
<1>1. p.c = Parsed(k.C) /\ p.s = Parsed(k.S) /\ p.m = Matrix(k.M) /\ p.p = Matrix(k.P)
  BY DEF FromRaw, Parsed
<1>2. /\ k.C \in Seq(HexString) /\ k.S \in Seq(HexString)
      /\ k.M \in Seq(Seq(HexString)) /\ k.P \in Seq(Seq(HexString))
      /\ Len(k.M) = k.T /\ Len(k.P) = k.T
  BY DEF WellFormed
<1>3. /\ \A hex \in Range(k.C) : ValidConstant(hex)
      /\ \A hex \in Range(k.S) : ValidConstant(hex)
      /\ \A row \in Range(k.M) : \A hex \in Range(row) : ValidConstant(hex)
      /\ \A row \in Range(k.P) : \A hex \in Range(row) : ValidConstant(hex)
  BY DEF WellFormed, Hexes
<1>4. RowSpelt(Parsed(k.C), k.C) /\ RowSpelt(Parsed(k.S), k.S)
  BY <1>2, <1>3, RowRead
<1>5. \A i \in 1..Len(k.M) : RowSpelt(Matrix(k.M)[i - 1], k.M[i])
  BY ONLY <1>2, <1>3, MatrixRead
<1>6. \A i \in 1..Len(k.P) : RowSpelt(Matrix(k.P)[i - 1], k.P[i])
  BY ONLY <1>2, <1>3, MatrixRead
<1> HIDE DEF p, Matrix
<1> QED BY <1>1, <1>2, <1>4, <1>5, <1>6 DEF TableSpelt, p

-----------------------------------------------------------------------------
\* What the cells hold at each label: the values of their kinds, and of a
\* decomposition the bits, sum and weight its turns have produced so far.
THEOREM CellsAlways == Spec => []Cells
<1> QED BY CellsInit, CellsStep, PTL DEF Spec

\* Every cell of synthesize holds a field element, whatever a prover writes, and a
\* completed update has the signature cells of both parties.
THEOREM TypeCorrect == Spec => []TypeOK
<1>1. Cells => TypeOK
  <2> SUFFICES ASSUME Cells PROVE TypeOK
    OBVIOUS
  <2>1. CellsOK /\ Len(updates) <= Steps
    BY DEF Cells, Counted
  <2>2. instance \in [1..12 -> Fr]
    <3>1. PICK c \in Circuits : instance = public_inputs(c)
      BY <2>1 DEF CellsOK
    <3>2. c \in Public
      BY CircuitAssumption
    <3> QED BY <3>1, <3>2 DEF public_inputs, Public
  <2>3. DOMAIN sigs \subseteq Party /\ \A p \in DOMAIN sigs : sigs[p] \in Loaded
    <3>1. PICK D \in SUBSET Party : sigs \in [D -> Loaded]
      BY <2>1 DEF CellsOK, SigsOK, AnySigs
    <3> QED BY <3>1
  <2> QED BY <2>1, <2>2, <2>3 DEF CellsOK, SigsOK, Places, TypeOK
<1> QED BY <1>1, CellsAlways, PTL

\* to_bits: when its rows hold, the bits of a prover are the binary form of the
\* decomposed cell; only a challenge, as wide as the modulus, has a second one.
THEOREM BitsAreTheCells == Spec => []DecompositionSound
<1>1. Cells => DecompositionSound
  <2> SUFFICES ASSUME Cells, Decomposed(pc)
               PROVE  /\ Range(word.bits) \subseteq {0, 1}
                      /\ \/ Number(word.bits) = word.value
                         \/ pc = "challenge" /\ Number(word.bits) = word.value + P
    BY DEF DecompositionSound
  <2>1. pc \in Decomposing /\ Len(word.bits) = word.n /\ word.acc = word.value
    BY DEF Decomposed, BitsComplete, AssertEqual
  <2>2. word \in Word /\ word.n = Width(pc) /\ Binary(word)
    BY <2>1 DEF Cells, CellsOK, WordOK
  <2> QED BY <2>1, <2>2, WordCloses
<1> QED BY <1>1, CellsAlways, PTL

\* field.rs: the tables and the base point both hashes and verify_eddsa use are the
\* numbers the digits of their source spell, each in its place.
THEOREM ConstantsAreSpelt == Spec => []ConstantsRead
<1>1. Cells => ConstantsRead
  <2> SUFFICES ASSUME Cells PROVE ConstantsRead
    OBVIOUS
  <2>1. params = PoseidonParams
    BY DEF Cells, CellsOK
  <2>2. TableSpelt(params.t6, RawT6) /\ TableSpelt(params.t7, RawT7)
    BY <2>1, TableAssumption, TableRead DEF PoseidonParams
  <2>3. base8_point = [x |-> Spelt(BASE8_X), y |-> Spelt(BASE8_Y)]
    BY CurveAssumption, ConstantRead DEF base8_point
  <2> QED BY <2>2, <2>3 DEF ConstantsRead, TableSpelt, RowSpelt
<1> QED BY <1>1, CellsAlways, PTL

-----------------------------------------------------------------------------
(* The rows.  What those emitted so far have forced when pc is at a label. *)

\* Labels at which a check has been passed.
AfterStart == Label \ {"public", "start_nonce", "rejected"}
AfterA == {"balance_b", "nonce", "conservation", "increase", "signature",
           "challenge", "scalar", "carry"}
AfterB == AfterA \ {"balance_b"}
AfterNonce == AfterB \ {"nonce"}
AfterSum == AfterNonce \ {"conservation"}
AfterRise == AfterSum \ {"increase"}

\* The copy constraints of load_public hold once they are emitted.
Tied ==
  pc \notin {"public", "rejected"} =>
    \A f \in DOMAIN InstanceRow : circuit[f] = instance[InstanceRow[f] + 1]

\* The cell a range check decomposes.
Checked(label) ==
  CASE label = "start_nonce" -> circuit.start_nonce
    [] label = "balance_a" -> update.balance_a
    [] label = "balance_b" -> update.balance_b
    [] label = "nonce" -> update.nonce
    [] label = "increase" -> Rise(update.nonce, prev_nonce)

ValueOK == pc \in RangeChecks => word.value = Checked(pc)

\* What the checks passed so far say of the update under way.
ChecksOK ==
  /\ pc \in AfterStart => prev_nonce < Limit
  /\ pc \in AfterA => update.balance_a < Limit
  /\ pc \in AfterB => update.balance_b < Limit
  /\ pc \in AfterNonce => update.nonce < Limit
  /\ pc \in AfterSum => update.balance_a + update.balance_b = circuit.total_deposit
  /\ pc \in AfterRise => prev_nonce < update.nonce

LastNonce(i) == IF i = 0 THEN circuit.start_nonce ELSE updates[i].update.nonce

\* The completed updates form a chain.
ChainOK ==
  /\ prev_nonce = LastNonce(Len(updates))
  /\ \A i \in 1..Len(updates) :
       LET u == updates[i].update
       IN  /\ LastNonce(i - 1) < u.nonce /\ u.nonce < Limit
           /\ u.balance_a < Limit /\ u.balance_b < Limit
           /\ u.balance_a + u.balance_b = circuit.total_deposit
  /\ pc \in {"final", "accepted"} => update = updates[Steps].update

Claimed ==
  pc = "accepted" =>
    update = [nonce |-> circuit.out_nonce, balance_a |-> circuit.final_balance_a,
              balance_b |-> circuit.final_balance_b]

Inv == Cells /\ Tied /\ ValueOK /\ ChecksOK /\ ChainOK /\ Claimed

-----------------------------------------------------------------------------
LEMMA Limits == Limit \in Nat /\ Limit > 0 /\ 2 * Limit <= P /\ 1 \in Fr /\ 0 \in Fr
<1>1. RangeBits \in 0..AllBits
  BY AllWidths
<1>2. 2^RangeBits \in Nat \ {0} /\ 2^(RangeBits + 1) = 2 * 2^RangeBits
  BY <1>1, NextPower
<1> QED BY <1>2, RangeAssumption, FrClosed DEF Limit

\* Balances in range do not wrap: their sum modulo P is their sum.
LEMMA SumInRange ==
  ASSUME NEW a \in Fr, NEW b \in Fr, a < Limit, b < Limit
  PROVE  Add(a, b) = a + b
  BY Limits, PAssumption DEF Add, Plus, Fr

\* The difference of the nonces less one is in range only if they rise.
LEMMA RiseInRange ==
  ASSUME NEW nonce \in Fr, NEW prev \in Fr, nonce < Limit, prev < Limit,
         Rise(nonce, prev) < Limit
  PROVE  prev < nonce
<1> DEFINE d == Sub(nonce, prev)
<1>1. d = IF nonce >= prev THEN nonce - prev ELSE P + nonce - prev
  BY SubIsDifference
<1>2. Rise(nonce, prev) = (d + (P - 1)) % P
  BY PAssumption DEF Rise, AddConst, Plus, Neg
<1> HIDE DEF d
<1>3. ASSUME nonce = prev PROVE FALSE
  BY <1>1, <1>2, <1>3, Limits, PAssumption DEF Fr
<1>4. ASSUME nonce < prev PROVE FALSE
  <2>1. d + (P - 1) = 1 * P + (P + nonce - prev - 1) /\ P + nonce - prev - 1 \in Fr
    BY <1>1, <1>4, Limits, PAssumption DEF Fr
  <2>2. Rise(nonce, prev) = P + nonce - prev - 1
    BY <1>2, <2>1, ModOfMultiple
  <2> QED BY <1>4, <2>2, Limits, PAssumption DEF Fr
<1> QED BY <1>3, <1>4, PAssumption DEF Fr

-----------------------------------------------------------------------------
\* A range check that closes has shown its cell to be in range.
LEMMA InRange ==
  ASSUME Inv, NEW label \in RangeChecks, Decomposed(label)
  PROVE  Checked(label) < Limit
<1>1. label \in Decomposing /\ Width(label) = RangeBits /\ label # "challenge"
  BY DEF Decomposing, RangeChecks, Width
<1>2. pc = label /\ Len(word.bits) = word.n /\ word.acc = word.value
  BY DEF Decomposed, BitsComplete, AssertEqual
<1>3. word \in Word /\ word.n = Width(label) /\ Binary(word) /\ word.value = Checked(label)
  BY <1>1, <1>2 DEF Inv, Cells, CellsOK, WordOK, ValueOK
<1>4. word.value < 2^Width(label)
  BY <1>1, <1>2, <1>3, WordCloses
<1> QED BY <1>1, <1>3, <1>4 DEF Limit

\* A range check is of the value it was started with.
LEMMA ValueStarts ==
  ASSUME NEW value, RangeCheck(value)
  PROVE  word'.value = value
  BY DEF RangeCheck, ToBits

\* What a step keeps that leaves the chain alone.
LEMMA KeepsChain ==
  ASSUME Inv, UNCHANGED <<circuit, prev_nonce, updates>>
  PROVE  /\ prev_nonce' = LastNonce(Len(updates))'
         /\ \A i \in 1..Len(updates') :
              /\ LastNonce(i - 1)' < updates'[i].update.nonce
              /\ updates'[i].update.nonce < Limit
              /\ updates'[i].update.balance_a < Limit
              /\ updates'[i].update.balance_b < Limit
              /\ updates'[i].update.balance_a + updates'[i].update.balance_b
                   = circuit'.total_deposit
  BY DEF Inv, ChainOK, LastNonce

\* A run whose row failed keeps the invariant.
LEMMA Rejects ==
  ASSUME Inv, Cells', pc' = "rejected",
         UNCHANGED <<circuit, prev_nonce, updates>>
  PROVE  Inv'
<1>1. Tied' /\ ValueOK' /\ Claimed'
  BY DEF Tied, ValueOK, Claimed, RangeChecks
<1>2. ChecksOK'
  BY DEF ChecksOK, AfterStart, AfterA, AfterB, AfterNonce, AfterSum, AfterRise
<1>3. ChainOK'
  BY KeepsChain DEF ChainOK
<1> QED BY <1>1, <1>2, <1>3 DEF Inv

\* A check that passed and goes on to a label of the same update: what is left
\* to show is what the check adds.
LEMMA Passes ==
  ASSUME Inv, pc # "public", pc # "rejected", pc' \notin {"final", "accepted"},
         UNCHANGED <<circuit, instance, prev_nonce, updates>>
  PROVE  Tied' /\ ChainOK' /\ Claimed'
<1>1. Tied'
  BY DEF Inv, Tied
<1>2. Claimed'
  BY DEF Claimed
<1>3. ChainOK'
  BY KeepsChain DEF ChainOK
<1> QED BY <1>1, <1>2, <1>3

-----------------------------------------------------------------------------
(* One lemma per action.                                                   *)

LEMMA LoadPublicKeeps == ASSUME Inv, Cells', LoadPublic PROVE Inv'
<1>1. UNCHANGED <<circuit, instance, prev_nonce, update, updates>>
  BY DEF LoadPublic, setup
<1>2. CASE pc' = "rejected"
  BY <1>1, <1>2, Rejects
<1>3. CASE pc' = "start_nonce"
  <2>1. Tied'
    BY <1>1, <1>3 DEF LoadPublic, Goto, Tied
  <2>2. ChainOK'
    BY <1>1, <1>3, KeepsChain DEF ChainOK
  <2>3. ValueOK'
    BY <1>1, <1>3, ValueStarts DEF LoadPublic, ValueOK, Checked
  <2>4. ChecksOK' /\ Claimed'
    BY <1>3 DEF ChecksOK, Claimed, AfterStart, AfterA, AfterB, AfterNonce, AfterSum, AfterRise
  <2> QED BY <2>1, <2>2, <2>3, <2>4 DEF Inv
<1> QED BY <1>2, <1>3 DEF LoadPublic, Goto

LEMMA WitnessBitKeeps == ASSUME Inv, Cells', WitnessBit PROVE Inv'
<1>1. UNCHANGED <<circuit, instance, prev_nonce, update, updates>> /\ pc' \in {pc, "rejected"}
  BY DEF WitnessBit, Turn, Goto, setup
<1>2. CASE pc' = "rejected"
  BY <1>1, <1>2, Rejects
<1>3. CASE pc' = pc
  <2>1. word'.value = word.value
    BY DEF WitnessBit, Turn, Inv, Cells, CellsOK, Word
  <2>2. ValueOK'
    BY <1>1, <1>3, <2>1 DEF Inv, ValueOK, Checked
  <2>3. Tied' /\ ChecksOK' /\ Claimed'
    BY <1>1, <1>3 DEF Inv, Tied, ChecksOK, Claimed
  <2>4. ChainOK'
    BY <1>1, <1>3, KeepsChain DEF Inv, ChainOK
  <2> QED BY <2>2, <2>3, <2>4 DEF Inv
<1> QED BY <1>1, <1>2, <1>3

LEMMA BitsRejectedKeeps == ASSUME Inv, Cells', BitsRejected PROVE Inv'
  BY Rejects DEF BitsRejected, setup

LEMMA StartNonceCheckedKeeps == ASSUME Inv, Cells', StartNonceChecked PROVE Inv'
<1>1. pc = "start_nonce" /\ pc' = "load" /\ updates = <<>>
      /\ UNCHANGED <<circuit, instance, prev_nonce, update, updates>>
  BY DEF StartNonceChecked, Decomposed, setup, Inv, Cells, Counted
<1>2. Tied' /\ ChainOK' /\ Claimed'
  BY <1>1, Passes
<1>3. Checked("start_nonce") < Limit
  BY InRange DEF StartNonceChecked, RangeChecks
<1>4. prev_nonce = circuit.start_nonce
  BY <1>1 DEF Inv, ChainOK, LastNonce
<1>5. ChecksOK'
  BY <1>1, <1>3, <1>4 DEF ChecksOK, Checked,
     AfterStart, AfterA, AfterB, AfterNonce, AfterSum, AfterRise
<1>6. ValueOK'
  BY <1>1 DEF ValueOK, RangeChecks
<1> QED BY <1>2, <1>5, <1>6 DEF Inv

LEMMA LoadUpdateKeeps == ASSUME Inv, Cells', LoadUpdate PROVE Inv'
<1>1. pc = "load" /\ pc' = "balance_a" /\ UNCHANGED <<circuit, instance, prev_nonce, updates>>
  BY DEF LoadUpdate, setup
<1>2. Tied' /\ ChainOK' /\ Claimed'
  BY <1>1, Passes
<1>3. ChecksOK'
  BY <1>1 DEF Inv, ChecksOK, Label, AfterStart, AfterA, AfterB, AfterNonce, AfterSum, AfterRise
<1>4. ValueOK'
  BY <1>1, ValueStarts DEF LoadUpdate, ValueOK, Checked
<1> QED BY <1>2, <1>3, <1>4 DEF Inv

LEMMA BalanceACheckedKeeps == ASSUME Inv, Cells', BalanceAChecked PROVE Inv'
<1>1. pc = "balance_a" /\ pc' = "balance_b"
      /\ UNCHANGED <<circuit, instance, prev_nonce, update, updates>>
  BY DEF BalanceAChecked, Decomposed, setup
<1>2. Tied' /\ ChainOK' /\ Claimed'
  BY <1>1, Passes
<1>3. Checked("balance_a") < Limit
  BY InRange DEF BalanceAChecked, RangeChecks
<1>4. ChecksOK'
  BY <1>1, <1>3 DEF Inv, ChecksOK, Checked, Label, Decomposing,
     RangeChecks, AfterStart, AfterA, AfterB, AfterNonce, AfterSum, AfterRise
<1>5. ValueOK'
  BY <1>1, ValueStarts DEF BalanceAChecked, ValueOK, Checked
<1> QED BY <1>2, <1>4, <1>5 DEF Inv

LEMMA BalanceBCheckedKeeps == ASSUME Inv, Cells', BalanceBChecked PROVE Inv'
<1>1. pc = "balance_b" /\ pc' = "nonce"
      /\ UNCHANGED <<circuit, instance, prev_nonce, update, updates>>
  BY DEF BalanceBChecked, Decomposed, setup
<1>2. Tied' /\ ChainOK' /\ Claimed'
  BY <1>1, Passes
<1>3. Checked("balance_b") < Limit
  BY InRange DEF BalanceBChecked, RangeChecks
<1>4. ChecksOK'
  BY <1>1, <1>3 DEF Inv, ChecksOK, Checked, Label, Decomposing,
     RangeChecks, AfterStart, AfterA, AfterB, AfterNonce, AfterSum, AfterRise
<1>5. ValueOK'
  BY <1>1, ValueStarts DEF BalanceBChecked, ValueOK, Checked
<1> QED BY <1>2, <1>4, <1>5 DEF Inv

LEMMA NonceCheckedKeeps == ASSUME Inv, Cells', NonceChecked PROVE Inv'
<1>1. pc = "nonce" /\ pc' = "conservation"
      /\ UNCHANGED <<circuit, instance, prev_nonce, update, updates>>
  BY DEF NonceChecked, Decomposed, setup
<1>2. Tied' /\ ChainOK' /\ Claimed'
  BY <1>1, Passes
<1>3. Checked("nonce") < Limit
  BY InRange DEF NonceChecked, RangeChecks
<1>4. ChecksOK'
  BY <1>1, <1>3 DEF Inv, ChecksOK, Checked, Label, Decomposing,
     RangeChecks, AfterStart, AfterA, AfterB, AfterNonce, AfterSum, AfterRise
<1>5. ValueOK'
  BY <1>1 DEF ValueOK, RangeChecks
<1> QED BY <1>2, <1>4, <1>5 DEF Inv

LEMMA ConserveKeeps == ASSUME Inv, Cells', Conserve PROVE Inv'
<1>1. pc = "conservation" /\ UNCHANGED <<circuit, instance, prev_nonce, update, updates>>
  BY DEF Conserve, setup
<1>2. CASE pc' = "rejected"
  BY <1>1, <1>2, Rejects
<1>3. CASE pc' = "increase"
  <2>1. /\ update.balance_a \in Fr /\ update.balance_b \in Fr
        /\ update.balance_a < Limit /\ update.balance_b < Limit
    BY <1>1, CellFields DEF Inv, Cells, ChecksOK, AfterA, AfterB
  <2>2. Add(update.balance_a, update.balance_b) = circuit.total_deposit
    BY <1>3 DEF Conserve, Goto, AssertEqual
  <2>3. update.balance_a + update.balance_b = circuit.total_deposit
    BY <2>1, <2>2, SumInRange
  <2>4. Tied' /\ ChainOK' /\ Claimed'
    BY <1>1, <1>3, Passes
  <2>5. ChecksOK'
    BY <1>1, <1>3, <2>3 DEF Inv, ChecksOK, Label, Decomposing, RangeChecks,
       AfterStart, AfterA, AfterB, AfterNonce, AfterSum, AfterRise
  <2>6. ValueOK'
    BY <1>1, <1>3, ValueStarts DEF Conserve, ValueOK, Checked
  <2> QED BY <2>4, <2>5, <2>6 DEF Inv
<1> QED BY <1>2, <1>3 DEF Conserve, Goto

LEMMA HashMessageKeeps == ASSUME Inv, Cells', HashMessage PROVE Inv'
<1>1. pc = "increase" /\ pc' = "signature"
      /\ UNCHANGED <<circuit, instance, prev_nonce, update, updates>>
  BY DEF HashMessage, Decomposed, setup
<1>2. Tied' /\ ChainOK' /\ Claimed'
  BY <1>1, Passes
<1>3. Rise(update.nonce, prev_nonce) < Limit
  BY InRange DEF HashMessage, RangeChecks, Checked
<1>4. prev_nonce < update.nonce
  <2>1. update.nonce \in Fr /\ prev_nonce \in Fr /\ update.nonce < Limit /\ prev_nonce < Limit
    BY <1>1, CellFields DEF Inv, Cells, CellsOK, ChecksOK, Label, Decomposing, RangeChecks,
       AfterStart, AfterA, AfterB, AfterNonce
  <2> QED BY <1>3, <2>1, RiseInRange
<1>5. ChecksOK'
  BY <1>1, <1>4 DEF Inv, ChecksOK, Label, Decomposing, RangeChecks,
     AfterStart, AfterA, AfterB, AfterNonce, AfterSum, AfterRise
<1>6. ValueOK'
  BY <1>1 DEF ValueOK, RangeChecks
<1> QED BY <1>2, <1>5, <1>6 DEF Inv

\* The steps of a signature leave what the checks have shown alone.
LEMMA SignatureStep ==
  ASSUME Inv, Cells', pc \in {"signature", "challenge", "scalar"},
         pc' \in {"signature", "challenge", "scalar", "carry", "rejected"},
         UNCHANGED <<circuit, instance, prev_nonce, update, updates>>
  PROVE  Inv'
<1>1. CASE pc' = "rejected"
  BY <1>1, Rejects
<1>2. CASE pc' \in {"signature", "challenge", "scalar", "carry"}
  <2>1. Tied' /\ ChainOK' /\ Claimed'
    BY <1>2, Passes
  <2>2. ChecksOK'
    BY <1>2 DEF Inv, ChecksOK, Label, Decomposing,
       AfterStart, AfterA, AfterB, AfterNonce, AfterSum, AfterRise
  <2>3. ValueOK'
    BY <1>2 DEF ValueOK, RangeChecks
  <2> QED BY <2>1, <2>2, <2>3 DEF Inv
<1> QED BY <1>1, <1>2

LEMMA LoadSignatureKeeps == ASSUME Inv, Cells', LoadSignature PROVE Inv'
  BY SignatureStep DEF LoadSignature, setup

LEMMA MultiplyChallengeKeeps == ASSUME Inv, Cells', MultiplyChallenge PROVE Inv'
<1>1. pc = "challenge" /\ pc' \in {"scalar", "rejected"}
  BY DEF MultiplyChallenge, RightSide, Decomposed, Goto
<1> QED BY <1>1, SignatureStep DEF MultiplyChallenge, RightSide, setup

LEMMA CheckSignatureKeeps == ASSUME Inv, Cells', CheckSignature PROVE Inv'
<1>1. pc = "scalar" /\ pc' \in {"signature", "carry", "rejected"}
  BY DEF CheckSignature, Decomposed, Goto
<1> QED BY <1>1, SignatureStep DEF CheckSignature, setup

\* What Carry appends to the completed updates, and where it goes.
LEMMA Carried ==
  ASSUME Cells, Carry
  PROVE  /\ pc = "carry" /\ prev_nonce' = update.nonce
         /\ UNCHANGED <<circuit, instance, update, sigs, strayed>>
         /\ Len(updates) \in Nat /\ Len(updates') = Len(updates) + 1 /\ Len(updates) < Steps
         /\ updates'[Len(updates) + 1] = [update |-> update, sigs |-> sigs]
         /\ \A i \in 1..Len(updates) : updates'[i] = updates[i]
         /\ pc' = IF Len(updates') < Steps THEN "load" ELSE "final"
<1> DEFINE entry == [update |-> update, sigs |-> sigs]
<1>1. /\ pc = "carry" /\ updates' = Append(updates, entry) /\ prev_nonce' = update.nonce
      /\ pc' = IF Len(updates') < Steps THEN "load" ELSE "final"
      /\ UNCHANGED <<circuit, instance, update, sigs, strayed>>
  BY DEF Carry, CarryOver, setup
<1>2. updates \in Seq(Signed) /\ Len(updates) < Steps
  BY <1>1 DEF Cells, CellsOK, Counted, InStep
<1>3. /\ Len(updates) \in Nat /\ Len(updates') = Len(updates) + 1
      /\ updates'[Len(updates) + 1] = entry
      /\ \A i \in 1..Len(updates) : updates'[i] = updates[i]
  <2> HIDE DEF entry
  <2> QED BY <1>1, <1>2
<1> QED BY <1>1, <1>2, <1>3

LEMMA CarryKeeps == ASSUME Inv, Cells', Carry PROVE Inv'
<1>1. /\ pc = "carry" /\ prev_nonce' = update.nonce
      /\ UNCHANGED <<circuit, instance, update>>
      /\ Len(updates) \in Nat /\ Len(updates') = Len(updates) + 1 /\ Len(updates) < Steps
      /\ updates'[Len(updates) + 1].update = update
      /\ \A i \in 1..Len(updates) : updates'[i] = updates[i]
      /\ pc' = IF Len(updates') < Steps THEN "load" ELSE "final"
  BY Carried DEF Inv
<1>2. /\ prev_nonce < update.nonce /\ update.nonce < Limit
      /\ update.balance_a < Limit /\ update.balance_b < Limit
      /\ update.balance_a + update.balance_b = circuit.total_deposit
  BY <1>1 DEF Inv, ChecksOK, Label, Decomposing, RangeChecks,
     AfterStart, AfterA, AfterB, AfterNonce, AfterSum, AfterRise
<1>3. pc' \in {"load", "final"} /\ Steps \in Nat
  BY <1>1, CircuitAssumption
<1>4. Tied' /\ ValueOK' /\ Claimed'
  BY <1>1, <1>3 DEF Inv, Tied, ValueOK, Claimed, RangeChecks
<1>5. ChecksOK'
  BY <1>1, <1>2, <1>3 DEF ChecksOK, AfterStart, AfterA, AfterB, AfterNonce, AfterSum, AfterRise
<1>6. ChainOK'
  <2>1. LastNonce(Len(updates))' = update.nonce
    BY <1>1 DEF LastNonce
  <2>2. \A i \in 0..Len(updates) : LastNonce(i)' = LastNonce(i)
    BY <1>1 DEF LastNonce
  <2>3. prev_nonce = LastNonce(Len(updates))
    BY DEF Inv, ChainOK
  <2>4. ASSUME NEW i \in 1..Len(updates')
        PROVE  /\ LastNonce(i - 1)' < updates'[i].update.nonce
               /\ updates'[i].update.nonce < Limit
               /\ updates'[i].update.balance_a < Limit
               /\ updates'[i].update.balance_b < Limit
               /\ updates'[i].update.balance_a + updates'[i].update.balance_b
                    = circuit'.total_deposit
    <3>1. CASE i = Len(updates) + 1
      BY <1>1, <1>2, <2>2, <2>3, <3>1
    <3>2. CASE i \in 1..Len(updates)
      <4>1. i - 1 \in 0..Len(updates) /\ updates'[i] = updates[i]
        BY <1>1, <3>2
      <4> QED BY <1>1, <2>2, <3>2, <4>1 DEF Inv, ChainOK
    <3> QED BY <1>1, <3>1, <3>2
  <2>5. pc' \in {"final", "accepted"} => update' = updates'[Steps].update
    BY <1>1, <1>3
  <2> QED BY <1>1, <2>1, <2>4, <2>5 DEF ChainOK
<1> QED BY <1>4, <1>5, <1>6 DEF Inv

LEMMA VerifyProofKeeps == ASSUME Inv, Cells', VerifyProof PROVE Inv'
<1>1. pc = "final" /\ UNCHANGED <<circuit, instance, prev_nonce, update, updates>>
  BY DEF VerifyProof, setup
<1>2. CASE pc' = "rejected"
  BY <1>1, <1>2, Rejects
<1>3. CASE pc' = "accepted"
  <2>1. /\ prev_nonce = circuit.out_nonce
        /\ update.balance_a = circuit.final_balance_a
        /\ update.balance_b = circuit.final_balance_b
    BY <1>3 DEF VerifyProof, Goto, AssertEqual
  <2>2. Len(updates) = Steps /\ update = updates[Steps].update /\ Steps \in Nat \ {0}
    BY <1>1, CircuitAssumption DEF Inv, Cells, Counted, ChainOK
  <2>3. update = [nonce |-> circuit.out_nonce, balance_a |-> circuit.final_balance_a,
                  balance_b |-> circuit.final_balance_b]
    <3>1. prev_nonce = update.nonce
      BY <2>2 DEF Inv, ChainOK, LastNonce
    <3>2. update \in Update
      BY DEF Inv, Cells, CellsOK
    <3> QED BY <2>1, <3>1, <3>2 DEF Update
  <2>4. Tied' /\ ValueOK' /\ Claimed'
    BY <1>1, <1>3, <2>3 DEF Inv, Tied, ValueOK, Claimed, RangeChecks
  <2>5. ChecksOK'
    BY <1>1, <1>3 DEF Inv, ChecksOK, Label, Decomposing, RangeChecks,
       AfterStart, AfterA, AfterB, AfterNonce, AfterSum, AfterRise
  <2>6. ChainOK'
    BY <1>1, <1>3, <2>2, KeepsChain DEF ChainOK
  <2> QED BY <2>4, <2>5, <2>6 DEF Inv
<1> QED BY <1>2, <1>3 DEF VerifyProof, Goto

-----------------------------------------------------------------------------
LEMMA InitInv == Init => Inv
<1> SUFFICES ASSUME Init PROVE Inv
  OBVIOUS
<1>1. Cells
  BY CellsInit
<1>2. Tied /\ ValueOK /\ Claimed
  BY DEF Init, Tied, ValueOK, Claimed, RangeChecks
<1>3. ChecksOK
  BY DEF Init, ChecksOK, AfterStart, AfterA, AfterB, AfterNonce, AfterSum, AfterRise
<1>4. ChainOK
  <2>1. updates = <<>> /\ Len(<<>>) = 0 /\ pc = "public" /\ prev_nonce = circuit.start_nonce
    BY DEF Init
  <2> QED BY <2>1 DEF ChainOK, LastNonce
<1> QED BY <1>1, <1>2, <1>3, <1>4 DEF Inv

LEMMA StepInv == Inv /\ [Next]_vars => Inv'
<1> SUFFICES ASSUME Inv, [Next]_vars PROVE Inv'
  OBVIOUS
<1>1. Cells'
  BY CellsStep DEF Inv
<1>2. CASE Next
  BY <1>1, <1>2, LoadPublicKeeps, WitnessBitKeeps, BitsRejectedKeeps, StartNonceCheckedKeeps,
     LoadUpdateKeeps, BalanceACheckedKeeps, BalanceBCheckedKeeps, NonceCheckedKeeps,
     ConserveKeeps, HashMessageKeeps, LoadSignatureKeeps, MultiplyChallengeKeeps,
     CheckSignatureKeeps, CarryKeeps, VerifyProofKeeps
  DEF Next
<1>3. CASE UNCHANGED vars
  <2>1. Tied' /\ ValueOK' /\ ChecksOK' /\ Claimed'
    BY <1>3 DEF vars, setup, Inv, Tied, ValueOK, Checked, ChecksOK, Claimed
  <2>2. ChainOK'
    BY <1>3 DEF vars, setup, Inv, ChainOK, LastNonce
  <2> QED BY <1>1, <2>1, <2>2 DEF Inv
<1> QED BY <1>2, <1>3

\* The strengthening holds whatever a prover writes into the cells.
THEOREM Invariance == Spec => []Inv
<1> QED BY InitInv, StepInv, PTL DEF Spec

-----------------------------------------------------------------------------
\* After load_public the claim of the instance column is that of the struct.
LEMMA ClaimIsTheStructs ==
  ASSUME Inv, pc \notin {"public", "rejected"}
  PROVE  Claim = [start_nonce |-> circuit.start_nonce, total_deposit |-> circuit.total_deposit,
                  out_nonce |-> circuit.out_nonce, final_balance_a |-> circuit.final_balance_a,
                  final_balance_b |-> circuit.final_balance_b]
<1>1. /\ InstanceRow.start_nonce = 3 /\ InstanceRow.total_deposit = 4
      /\ InstanceRow.out_nonce = 9 /\ InstanceRow.final_balance_a = 10
      /\ InstanceRow.final_balance_b = 11
      /\ {"start_nonce", "total_deposit", "out_nonce", "final_balance_a", "final_balance_b"}
           \subseteq DOMAIN InstanceRow
  BY DEF InstanceRow
<1>2. \A f \in DOMAIN InstanceRow : circuit[f] = instance[InstanceRow[f] + 1]
  BY DEF Inv, Tied
<1>3. /\ circuit.start_nonce = instance[4] /\ circuit.total_deposit = instance[5]
      /\ circuit.out_nonce = instance[10] /\ circuit.final_balance_a = instance[11]
      /\ circuit.final_balance_b = instance[12]
  BY <1>1, <1>2
<1> QED BY <1>3 DEF Claim

\* An accepted proof stands for a chain of updates over the
\* integers: the range checks and the nonce comparison of synthesize leave no
\* room for values that only agree modulo the field.
THEOREM AcceptedIsAChain == Spec => []ChainSound
<1>1. Inv => ChainSound
  <2> SUFFICES ASSUME Inv, pc = "accepted" PROVE ChainSound
    BY DEF ChainSound
  <2>1. /\ Claim.start_nonce = circuit.start_nonce
        /\ Claim.total_deposit = circuit.total_deposit
        /\ Claim.out_nonce = circuit.out_nonce
        /\ Claim.final_balance_a = circuit.final_balance_a
        /\ Claim.final_balance_b = circuit.final_balance_b
    BY ClaimIsTheStructs
  <2>2. Len(updates) = Steps /\ update = updates[Steps].update /\ Steps \in Nat \ {0}
    BY CircuitAssumption DEF Inv, Cells, Counted, ChainOK
  <2>3. \A i \in 0..Steps : Nonce(i) = LastNonce(i)
    BY <2>1 DEF Nonce, LastNonce
  <2>4. ASSUME NEW i \in 1..Steps
        PROVE  /\ Nonce(i - 1) < updates[i].update.nonce /\ updates[i].update.nonce < Limit
               /\ updates[i].update.balance_a < Limit /\ updates[i].update.balance_b < Limit
               /\ updates[i].update.balance_a + updates[i].update.balance_b = Claim.total_deposit
    <3>1. i - 1 \in 0..Steps
      BY <2>2
    <3> QED BY <2>1, <2>2, <2>3, <3>1 DEF Inv, ChainOK
  <2>5. updates[Steps].update = [nonce |-> Claim.out_nonce, balance_a |-> Claim.final_balance_a,
                                 balance_b |-> Claim.final_balance_b]
    BY <2>1, <2>2 DEF Inv, Claimed
  <2> QED BY <2>2, <2>4, <2>5 DEF ChainSound
<1> QED BY <1>1, Invariance, PTL

-----------------------------------------------------------------------------
Verdict == IF pc \in {"accepted", "rejected"} THEN pc ELSE "open"
Updated == [i \in 1..Len(updates) |-> updates[i].update]

\* A step that completes no update and reaches no verdict stutters, and one
\* whose row fails is a Reject.
LEMMA QuietStep ==
  ASSUME Inv, Inv', pc \notin {"accepted", "rejected", "final"}, pc' # "accepted",
         UNCHANGED <<instance, updates>>
  PROVE  Chain!Reject \/ UNCHANGED <<Claim, Updated, Verdict>>
<1>1. UNCHANGED <<Claim, Updated>>
  BY DEF Claim, Updated
<1>2. CASE pc' = "rejected"
  <2>1. Verdict = "open" /\ Verdict' = "rejected"
    BY <1>2 DEF Verdict
  <2> QED BY <1>1, <2>1 DEF Chain!Reject, Verdict, Updated
<1>3. CASE pc' # "rejected"
  BY <1>1, <1>3 DEF Verdict
<1> QED BY <1>2, <1>3

LEMMA UpdatedIsSequence ==
  ASSUME Inv
  PROVE  /\ Updated \in Seq(Update) /\ Len(Updated) = Len(updates)
         /\ \A i \in 1..Len(updates) : Updated[i] = updates[i].update
<1>1. updates \in Seq(Signed) /\ Len(updates) \in Nat
  BY DEF Inv, Cells, CellsOK
<1>2. \A i \in 1..Len(updates) : updates[i].update \in Update
  <2>1. \A i \in 1..Len(updates) : updates[i] \in Signed
    BY <1>1
  <2> QED BY <2>1 DEF Signed
<1> QED BY <1>1, <1>2 DEF Updated

LEMMA InitRefines == Init => Chain!Init
<1> SUFFICES ASSUME Init PROVE Chain!Init
  OBVIOUS
<1>1. Updated \in Seq(Update) /\ Len(Updated) = 0
  BY InitInv, UpdatedIsSequence DEF Init
<1>2. Updated = <<>>
  BY <1>1
<1>3. Verdict = "open"
  BY DEF Init, Verdict
<1> QED BY <1>2, <1>3 DEF Chain!Init, Updated, Verdict

\* Carry is the step that adds an update to the chain.
LEMMA CarryRefines == ASSUME Inv, Inv', Carry PROVE Chain!Extend
<1>1. /\ pc = "carry" /\ UNCHANGED <<circuit, instance>>
      /\ Len(updates') = Len(updates) + 1 /\ updates'[Len(updates) + 1].update = update
      /\ \A i \in 1..Len(updates) : updates'[i] = updates[i]
      /\ pc' \in {"load", "final"}
  BY Carried DEF Inv
<1>2. /\ update \in Update /\ Len(updates) < Steps /\ Len(updates) \in Nat
      /\ prev_nonce < update.nonce /\ update.nonce < Limit
      /\ update.balance_a < Limit /\ update.balance_b < Limit
      /\ update.balance_a + update.balance_b = circuit.total_deposit
      /\ prev_nonce = LastNonce(Len(updates))
  BY <1>1, Carried DEF Inv, Cells, CellsOK, ChecksOK, ChainOK, Label, Decomposing, RangeChecks,
     AfterStart, AfterA, AfterB, AfterNonce, AfterSum, AfterRise
<1>3. /\ Claim.start_nonce = circuit.start_nonce
      /\ Claim.total_deposit = circuit.total_deposit
      /\ UNCHANGED Claim
  BY <1>1, ClaimIsTheStructs DEF Claim
<1>4. Updated' = Append(Updated, update)
  <2>1. /\ Updated \in Seq(Update) /\ Len(Updated) = Len(updates)
        /\ \A i \in 1..Len(updates) : Updated[i] = updates[i].update
    BY UpdatedIsSequence
  <2>2. Updated' = [i \in 1..(Len(updates) + 1) |-> IF i = Len(updates) + 1 THEN update ELSE Updated[i]]
    BY <1>1, <1>2, <2>1 DEF Updated
  <2>3. /\ Updated' \in Seq(Update) /\ Len(Updated') = Len(updates) + 1
        /\ Updated'[Len(updates) + 1] = update
        /\ \A i \in 1..Len(updates) : Updated'[i] = Updated[i]
    <3> HIDE DEF Updated
    <3> QED BY <1>2, <2>1, <2>2
  <2>4. PICK longer \in Seq(Update) : longer = Updated'
    BY <2>3
  <2>5. /\ Append(Updated, update) \in Seq(Update)
        /\ Len(Append(Updated, update)) = Len(updates) + 1
        /\ Append(Updated, update)[Len(updates) + 1] = update
        /\ \A i \in 1..Len(updates) : Append(Updated, update)[i] = Updated[i]
    BY <1>2, <2>1, AppendProperties
  <2>6. PICK appended \in Seq(Update) : appended = Append(Updated, update)
    BY <2>5
  <2>7. longer = appended
    <3>1. /\ Len(longer) = Len(appended)
          /\ \A i \in 1..Len(longer) : longer[i] = appended[i]
      BY <1>2, <2>3, <2>4, <2>5, <2>6
    <3> QED BY <3>1, SeqEqual
  <2> QED BY <2>4, <2>6, <2>7
<1>5. [nonce |-> update.nonce, balance_a |-> update.balance_a, balance_b |-> update.balance_b] = update
  BY <1>2 DEF Update
<1>6. (IF Updated = <<>> THEN Claim.start_nonce ELSE Updated[Len(Updated)].nonce) = prev_nonce
  <2>1. /\ Updated \in Seq(Update) /\ Len(Updated) = Len(updates)
        /\ \A i \in 1..Len(updates) : Updated[i] = updates[i].update
    BY UpdatedIsSequence
  <2>2. Updated = <<>> <=> Len(Updated) = 0
    <3> HIDE DEF Updated
    <3> QED BY <2>1
  <2>3. CASE Len(updates) = 0
    BY <1>2, <1>3, <2>1, <2>2, <2>3 DEF LastNonce
  <2>4. CASE Len(updates) > 0
    BY <1>2, <2>1, <2>2, <2>4 DEF LastNonce
  <2> QED BY <1>2, <2>3, <2>4
<1>7. /\ update.nonce \in 0..(Limit - 1) /\ update.balance_a \in 0..(Limit - 1)
      /\ update.balance_b \in 0..(Limit - 1)
  BY <1>2, Limits, PAssumption DEF Update, Fr
<1>8. Verdict = "open" /\ Verdict' = "open"
  BY <1>1 DEF Verdict
<1>9. Len(Updated) < Steps
  BY <1>2, UpdatedIsSequence
<1>10. \E nonce, a, b \in 0..(Limit - 1) :
         /\ nonce > prev_nonce
         /\ a + b = Claim.total_deposit
         /\ Updated' = Append(Updated, [nonce |-> nonce, balance_a |-> a, balance_b |-> b])
  <2> HIDE DEF Updated, Claim
  <2>1. update.nonce > prev_nonce
    BY <1>2, <1>7 DEF Inv, Cells, CellsOK, Fr
  <2> QED BY <1>2, <1>3, <1>4, <1>5, <1>7, <2>1
<1>11. Chain!Head0 = prev_nonce
  BY <1>6 DEF Chain!Head0, Updated
<1> QED BY <1>3, <1>8, <1>9, <1>10, <1>11 DEF Chain!Extend, Updated, Verdict

LEMMA VerifyProofRefines ==
  ASSUME Inv, Inv', VerifyProof PROVE Chain!Accept \/ Chain!Reject
<1>1. pc = "final" /\ UNCHANGED <<circuit, instance, update, updates>>
  BY DEF VerifyProof, setup
<1>2. UNCHANGED <<Claim, Updated>> /\ Verdict = "open"
  BY <1>1 DEF Claim, Updated, Verdict
<1>3. CASE pc' = "rejected"
  <2>1. Verdict' = "rejected"
    BY <1>3 DEF Verdict
  <2> QED BY <1>2, <2>1 DEF Chain!Reject, Verdict, Updated
<1>4. CASE pc' = "accepted"
  <2>1. Len(updates) = Steps /\ update = updates[Steps].update /\ Steps \in Nat \ {0}
    BY <1>1, CircuitAssumption DEF Inv, Cells, Counted, ChainOK
  <2>2. Len(Updated) = Steps /\ Updated[Steps] = update
    BY <2>1, UpdatedIsSequence
  <2>3. update = [nonce |-> Claim.out_nonce, balance_a |-> Claim.final_balance_a,
                  balance_b |-> Claim.final_balance_b]
    BY <1>1, <1>4, ClaimIsTheStructs DEF Inv, Claimed
  <2>4. Verdict' = "accepted"
    BY <1>4 DEF Verdict
  <2> QED BY <1>2, <2>2, <2>3, <2>4 DEF Chain!Accept, Verdict, Updated
<1> QED BY <1>3, <1>4 DEF VerifyProof, Goto

LEMMA NextRefines ==
  ASSUME Inv, Inv', [Next]_vars
  PROVE  Chain!Next \/ UNCHANGED <<Claim, Updated, Verdict>>
<1>1. CASE Carry
  BY <1>1, CarryRefines DEF Chain!Next
<1>2. CASE VerifyProof
  BY <1>2, VerifyProofRefines DEF Chain!Next
<1>3. CASE UNCHANGED vars
  BY <1>3 DEF vars, setup, Claim, Updated, Verdict
<1>4. CASE Next /\ ~Carry /\ ~VerifyProof
  <2>1. /\ pc \notin {"accepted", "rejected", "final"} /\ pc' # "accepted"
        /\ UNCHANGED <<instance, updates>>
    <3>1. CASE LoadPublic
      BY <3>1 DEF LoadPublic, Goto, setup
    <3>2. CASE WitnessBit
      BY <3>2 DEF WitnessBit, Turn, Goto, setup, Decomposing, RangeChecks
    <3>3. CASE BitsRejected
      BY <3>3 DEF BitsRejected, BitsComplete, setup, Decomposing, RangeChecks
    <3>4. CASE StartNonceChecked \/ BalanceAChecked \/ BalanceBChecked \/ NonceChecked
      BY <3>4 DEF StartNonceChecked, BalanceAChecked, BalanceBChecked, NonceChecked,
         Decomposed, setup
    <3>5. CASE LoadUpdate \/ Conserve \/ HashMessage
      BY <3>5 DEF LoadUpdate, Conserve, HashMessage, Decomposed, Goto, setup
    <3>6. CASE LoadSignature \/ MultiplyChallenge \/ CheckSignature
      BY <3>6 DEF LoadSignature, MultiplyChallenge, RightSide, CheckSignature, Decomposed,
         Goto, setup
    <3> QED BY <1>4, <3>1, <3>2, <3>3, <3>4, <3>5, <3>6 DEF Next
  <2> QED BY <2>1, QuietStep DEF Chain!Next
<1> QED BY <1>1, <1>2, <1>3, <1>4

\* The circuit implements the chain of updates: every step of a run is a step
\* of UpdateChain or a stutter.
THEOREM CircuitImplementsChain == Spec => ImplementsChain
<1>1. Inv /\ Inv' /\ [Next]_vars => [Chain!Next]_<<Claim, Updated, Verdict>>
  BY NextRefines
<1> QED BY <1>1, InitRefines, Invariance, PTL
    DEF Spec, ImplementsChain, Chain!Spec, Updated, Verdict

-----------------------------------------------------------------------------
(* The cell of Ay: what would hold were it tied to its public input.       *)

Keyed(c, some) == \A p \in DOMAIN some : some[p].ay = KeyOf(c, p).y

KeyInv ==
  /\ Keyed(circuit, sigs)
  /\ \A i \in 1..Len(updates) : Keyed(circuit, updates[i].sigs)

LEMMA KeyStep ==
  ASSUME Stray.Ay = {}, Cells, KeyInv, [Next]_vars
  PROVE  KeyInv'
<1>1. CASE LoadSignature
  <2>1. PICK sig \in Signatures, ay \in Written("Ay", KeyOf(circuit, signer).y) :
          sigs' = [p \in DOMAIN sigs \cup {signer} |->
                     IF p = signer THEN [r8 |-> [x |-> sig.r8x, y |-> sig.r8y],
                                         s |-> sig.s, ay |-> ay]
                                   ELSE sigs[p]]
    BY <1>1 DEF LoadSignature
  <2>2. UNCHANGED <<circuit, updates>>
    BY <1>1 DEF LoadSignature, setup
  <2>3. ay = KeyOf(circuit, signer).y
    BY DEF Written
  <2>4. Keyed(circuit, sigs)'
    BY <2>1, <2>2, <2>3 DEF KeyInv, Keyed, KeyOf
  <2> QED BY <2>2, <2>4 DEF KeyInv, Keyed, KeyOf
<1>2. CASE Carry
  <2>1. /\ UNCHANGED <<circuit, sigs>>
        /\ Len(updates) \in Nat /\ Len(updates') = Len(updates) + 1
        /\ updates'[Len(updates) + 1].sigs = sigs
        /\ \A i \in 1..Len(updates) : updates'[i] = updates[i]
    BY <1>2, Carried
  <2>2. ASSUME NEW i \in 1..Len(updates')
        PROVE  Keyed(circuit', updates'[i].sigs)
    <3>1. CASE i = Len(updates) + 1
      BY <2>1, <3>1 DEF KeyInv
    <3>2. CASE i \in 1..Len(updates)
      BY <2>1, <3>2 DEF KeyInv
    <3> QED BY <2>1, <3>1, <3>2
  <2> QED BY <2>1, <2>2 DEF KeyInv, Keyed, KeyOf
<1>3. CASE LoadUpdate
  <2>1. DOMAIN sigs' = {} /\ UNCHANGED <<circuit, updates>>
    BY <1>3 DEF LoadUpdate, NoSignatures, setup
  <2> QED BY <2>1 DEF KeyInv, Keyed
<1>4. CASE UNCHANGED <<circuit, sigs, updates>>
  BY <1>4 DEF KeyInv, Keyed, KeyOf
<1>5. CASE Next /\ ~LoadSignature /\ ~Carry /\ ~LoadUpdate
  <2>1. UNCHANGED <<circuit, sigs, updates>>
    BY <1>5 DEF Next, LoadPublic, WitnessBit, Turn, BitsRejected, StartNonceChecked,
       BalanceAChecked, BalanceBChecked, NonceChecked, Conserve, HashMessage,
       MultiplyChallenge, RightSide, CheckSignature, VerifyProof, setup
  <2> QED BY <1>4, <2>1
<1> QED BY <1>1, <1>2, <1>3, <1>4, <1>5 DEF vars, setup

\* Were the cells of Ay and By the public ones, as verify_eddsa reuses that of
\* Ax, every accepted proof would have used the keys of its public inputs:
\* nothing but the missing tie stands in the way.
THEOREM TiedKeysAreUsed ==
  ASSUME Stray.Ay = {}
  PROVE  Spec => []KeysConstrained
<1>1. Init => KeyInv
  BY DEF Init, NoSignatures, KeyInv, Keyed
<1>2. Cells /\ KeyInv /\ [Next]_vars => KeyInv'
  BY KeyStep
<1>3. Inv /\ KeyInv => KeysConstrained
  <2> SUFFICES ASSUME Inv, KeyInv, pc = "accepted" PROVE KeysConstrained
    BY DEF KeysConstrained
  <2>1. /\ InstanceRow.pub_key_ay = 6 /\ InstanceRow.pub_key_by = 8
        /\ {"pub_key_ay", "pub_key_by"} \subseteq DOMAIN InstanceRow
    BY DEF InstanceRow
  <2>2. circuit.pub_key_ay = instance[7] /\ circuit.pub_key_by = instance[9]
    BY <2>1 DEF Inv, Tied
  <2>3. updates \in Seq(Signed) /\ Len(updates) = Steps
    BY DEF Inv, Cells, CellsOK, Counted
  <2>4. ASSUME NEW i \in 1..Steps
        PROVE  updates[i].sigs["a"].ay = instance[7] /\ updates[i].sigs["b"].ay = instance[9]
    <3>1. updates[i] \in Signed
      BY <2>3
    <3>2. DOMAIN updates[i].sigs = Party
      BY <3>1 DEF Signed
    <3> QED BY <2>2, <2>3, <3>2 DEF KeyInv, Keyed, KeyOf, Party
  <2> QED BY <2>4 DEF KeysConstrained
<1> QED BY <1>1, <1>2, <1>3, CellsAlways, Invariance, PTL DEF Spec

-----------------------------------------------------------------------------
(* The signatures.  While a prover has written the hints into the unforced *)
(* cells, Ay aside, the rows compute the terms of eddsa_poseidon_verify.   *)

MessageOf(c, u) ==
  poseidon_hash(PoseidonParams.t7, <<c.contract_address, c.chain_id, c.channel_id,
                                     u.nonce, u.balance_a, u.balance_b>>)

ClaimedKey(c, sig, p) == [x |-> KeyOf(c, p).x, y |-> sig.ay]

Challenge(c, u, sig, p) ==
  poseidon_hash(PoseidonParams.t6,
                <<sig.r8.x, sig.r8.y, KeyOf(c, p).x, sig.ay, MessageOf(c, u)>>)

RightPoint(c, u, sig, p) ==
  point_add(sig.r8,
            scalar_mul_bits(point_double(point_double(point_double(ClaimedKey(c, sig, p)))),
                            le_bits(Challenge(c, u, sig, p), ChallengeBits)))

Verified(c, u, sig, p) ==
  /\ scalar_mul_bits(base8_point, le_bits(sig.s, ScalarBits)) = RightPoint(c, u, sig, p)
  /\ RightPoint(c, u, sig, p) # NoPoint

AsWritten == strayed \cap Unforced \subseteq {"Ay"}

Signing == {"signature", "challenge", "scalar"}

SignaturesOK ==
  /\ pc \in Signing => message = MessageOf(circuit, update)
  /\ pc \in Signing /\ signer = "b" => Verified(circuit, update, sigs["a"], "a")
  /\ pc = "challenge" => word.value = Challenge(circuit, update, sigs[signer], signer)
  /\ pc = "scalar" => /\ word.value = sigs[signer].s
                      /\ rhs = RightPoint(circuit, update, sigs[signer], signer)
                      /\ rhs # NoPoint
  /\ pc = "carry" => \A p \in Party : Verified(circuit, update, sigs[p], p)
  /\ \A i \in 1..Len(updates), p \in Party :
       Verified(circuit, updates[i].update, updates[i].sigs[p], p)

SignInv == AsWritten => SignaturesOK

\* With the tables of the circuit, Verified is the verification outside it.
LEMMA VerifiedIsCoSigned ==
  ASSUME params = PoseidonParams, NEW c, NEW u, NEW sig, NEW p
  PROVE  Verified(c, u, sig, p) <=> CoSigned(c, u, sig, p, sig.ay)
  BY DEF CoSigned, Verified, RightPoint, Challenge, ClaimedKey, MessageOf, message_hash_at,
     eddsa_poseidon_verify

\* What a cell held stays recorded.
LEMMA StillAsWritten ==
  ASSUME strayed \subseteq strayed', AsWritten'
  PROVE  AsWritten
  BY DEF AsWritten

\* A step that verifies nothing.
LEMMA NotSigning ==
  ASSUME SignInv, UNCHANGED <<circuit, updates>>, strayed \subseteq strayed',
         pc' \notin Signing \cup {"carry"}
  PROVE  SignInv'
  BY StillAsWritten DEF SignInv, SignaturesOK, Signing

LEMMA HashMessageSigns ==
  ASSUME Cells, SignInv, HashMessage PROVE SignInv'
<1> SUFFICES ASSUME AsWritten' PROVE SignaturesOK'
  BY DEF SignInv
<1>1. PICK zero \in Written("zero", 0) :
        /\ message' = poseidon_hash_circuit(params.t7, zero,
                        <<circuit.contract_address, circuit.chain_id, circuit.channel_id,
                          update.nonce, update.balance_a, update.balance_b>>)
        /\ strayed' = strayed \cup Departs("zero", zero, 0)
  BY DEF HashMessage
<1>2. /\ pc' = "signature" /\ signer' = "a" /\ UNCHANGED <<circuit, update, updates>>
  BY DEF HashMessage, setup
<1>3. SignaturesOK
  BY <1>1, StillAsWritten DEF SignInv
<1>4. zero = 0
  BY <1>1 DEF AsWritten, Departs, Unforced
<1>5. CellsOK /\ params = PoseidonParams
  BY DEF Cells, CellsOK
<1>6. message' = MessageOf(circuit, update)
  <2>1. /\ circuit.contract_address \in Fr /\ circuit.chain_id \in Fr /\ circuit.channel_id \in Fr
        /\ update.nonce \in Fr /\ update.balance_a \in Fr /\ update.balance_b \in Fr
    BY <1>5, CellFields
  <2>2. PICK a \in Fr, b \in Fr, c \in Fr, d \in Fr, e \in Fr, f \in Fr :
          <<a, b, c, d, e, f>> = <<circuit.contract_address, circuit.chain_id, circuit.channel_id,
                                   update.nonce, update.balance_a, update.balance_b>>
    BY <2>1
  <2>3. poseidon_hash_circuit(PoseidonParams.t7, 0, <<a, b, c, d, e, f>>)
          = poseidon_hash(PoseidonParams.t7, <<a, b, c, d, e, f>>)
    BY MessageHash
  <2>4. message' = poseidon_hash_circuit(PoseidonParams.t7, 0, <<a, b, c, d, e, f>>)
    BY <1>1, <1>4, <1>5, <2>2
  <2>5. MessageOf(circuit, update) = poseidon_hash(PoseidonParams.t7, <<a, b, c, d, e, f>>)
    BY <2>2 DEF MessageOf
  <2> QED BY <2>3, <2>4, <2>5
<1> QED BY <1>2, <1>3, <1>6 DEF SignaturesOK

LEMMA LoadSignatureSigns ==
  ASSUME Cells, SignInv, LoadSignature PROVE SignInv'
<1> SUFFICES ASSUME AsWritten' PROVE SignaturesOK'
  BY DEF SignInv
<1>1. PICK sig \in Signatures, ay \in Written("Ay", KeyOf(circuit, signer).y),
           zero \in Written("zero", 0) :
        LET key == KeyOf(circuit, signer)
        IN  /\ sigs' = [p \in DOMAIN sigs \cup {signer} |->
                          IF p = signer THEN [r8 |-> [x |-> sig.r8x, y |-> sig.r8y],
                                              s |-> sig.s, ay |-> ay]
                                        ELSE sigs[p]]
            /\ ToBits(poseidon_hash_circuit(params.t6, zero,
                        <<sig.r8x, sig.r8y, key.x, ay, message>>),
                      ChallengeBits,
                      poseidon_hash(params.t6, <<sig.r8x, sig.r8y, key.x, key.y,
                                                 message_hash_at(circuit, update)>>))
            /\ strayed' = strayed \cup Departs("Ay", ay, key.y) \cup Departs("zero", zero, 0)
  BY DEF LoadSignature
<1>2. /\ pc = "signature" /\ pc' = "challenge"
      /\ UNCHANGED <<circuit, update, signer, message, updates>>
  BY DEF LoadSignature, setup
<1>3. SignaturesOK
  BY <1>1, StillAsWritten DEF SignInv
<1>4. zero = 0
  BY <1>1 DEF AsWritten, Departs, Unforced
<1>5. CellsOK /\ params = PoseidonParams /\ message \in Fr /\ signer \in Party
  BY DEF Cells, CellsOK, SigsOK
<1>6. /\ KeyOf(circuit, signer).x \in Fr /\ KeyOf(circuit, signer).y \in Fr
  BY <1>5, CellFields
<1>7. sig.r8x \in Fr /\ sig.r8y \in Fr /\ ay \in Fr
  BY <1>6, CircuitAssumption, Strays DEF SignatureWitness
<1>8. message = MessageOf(circuit, update)
  BY <1>2, <1>3 DEF SignaturesOK, Signing
<1>9. word'.value = poseidon_hash(PoseidonParams.t6,
                      <<sig.r8x, sig.r8y, KeyOf(circuit, signer).x, ay, message>>)
  <2>1. word'.value = poseidon_hash_circuit(params.t6, zero,
                        <<sig.r8x, sig.r8y, KeyOf(circuit, signer).x, ay, message>>)
    BY <1>1 DEF ToBits
  <2>2. PICK x \in Fr : x = KeyOf(circuit, signer).x
    BY <1>6
  <2>3. poseidon_hash_circuit(PoseidonParams.t6, 0, <<sig.r8x, sig.r8y, x, ay, message>>)
          = poseidon_hash(PoseidonParams.t6, <<sig.r8x, sig.r8y, x, ay, message>>)
    BY ONLY <1>5, <1>7, ChallengeHash
  <2> QED BY <1>4, <1>5, <2>1, <2>2, <2>3
<1>10. /\ sigs'[signer] = [r8 |-> [x |-> sig.r8x, y |-> sig.r8y], s |-> sig.s, ay |-> ay]
       /\ signer = "b" => sigs'["a"] = sigs["a"]
  <2>1. signer = "b" => "a" \in DOMAIN sigs
    BY <1>2 DEF Cells, Held
  <2> QED BY <1>1, <2>1
<1>11. word'.value = Challenge(circuit, update, sigs'[signer], signer)
  BY <1>8, <1>9, <1>10 DEF Challenge
<1> QED BY <1>2, <1>3, <1>8, <1>10, <1>11 DEF SignaturesOK, Signing

LEMMA MultiplyChallengeSigns ==
  ASSUME Cells, SignInv, MultiplyChallenge PROVE SignInv'
<1> DEFINE a == [x |-> KeyOf(circuit, signer).x, y |-> sigs[signer].ay]
           eight_a == PointDouble(PointDouble(PointDouble(a)))
<1>1. PICK id \in Written("identity", identity) :
        /\ rhs' = PointAdd(sigs[signer].r8, ScalarMulBits(eight_a, word.bits, id))
        /\ strayed' = strayed \cup Departs("identity", id, identity)
                              \cup Departs("challenge", word.bits, le_bits(word.value, word.n))
  BY DEF MultiplyChallenge, RightSide
<1>2. /\ pc = "challenge" /\ BitsComplete /\ word'.value = sigs[signer].s
      /\ UNCHANGED <<circuit, update, signer, sigs, message, updates>>
  BY DEF MultiplyChallenge, RightSide, Decomposed, ToBits, setup
<1>3. pc' = IF rhs' # NoPoint THEN "scalar" ELSE "rejected"
  BY DEF MultiplyChallenge, RightSide, Goto
<1>4. CASE rhs' = NoPoint
  <2>1. strayed \subseteq strayed'
    BY <1>1
  <2> QED BY <1>2, <1>3, <1>4, <2>1, NotSigning DEF Signing
<1>5. CASE rhs' # NoPoint
  <2> SUFFICES ASSUME AsWritten' PROVE SignaturesOK'
    BY DEF SignInv
  <2>1. SignaturesOK
    <3>1. strayed \subseteq strayed'
      BY <1>1
    <3> QED BY <3>1, StillAsWritten DEF SignInv
  <2>2. id = identity /\ word.bits = le_bits(word.value, word.n)
    BY <1>1 DEF AsWritten, Departs, Unforced
  <2>3. word.n = ChallengeBits /\ word.bits \in Seq({0, 1})
    BY <1>2 DEF Cells, WordOK, BitsComplete, Binary, Width
  <2>4. CellsOK /\ signer \in DOMAIN sigs
    BY <1>2 DEF Cells, Held
  <2>5. a \in Point /\ sigs[signer].r8 \in Point
    BY <2>4, SignatureFields
  <2>6. eight_a = point_double(point_double(point_double(a))) /\ eight_a \in Places
    <3> HIDE DEF a
    <3>1. \A p \in Places : PointDouble(p) = point_double(p) /\ PointDouble(p) \in Places
      BY PointAddAgrees DEF PointDouble, point_double, Places
    <3> QED BY <2>5, <3>1 DEF Places
  <2>7. PICK q \in Places : q = ScalarMulBits(eight_a, word.bits, identity)
    <3> HIDE DEF eight_a
    <3>1. identity \in Places
      BY Strays DEF Places, Written
    <3> QED BY <2>3, <2>6, <3>1, ScalarMulBitsTyped
  <2>8. rhs' = PointAdd(sigs[signer].r8, q)
    BY <1>1, <2>2, <2>7
  <2>9. q # NoPoint /\ rhs' = point_add(sigs[signer].r8, q)
    <3>1. /\ PointAdd(sigs[signer].r8, q) = point_add(sigs[signer].r8, q)
          /\ q = NoPoint => point_add(sigs[signer].r8, q) = NoPoint
      BY <2>5, PointAddAgrees DEF Places
    <3> QED BY <1>5, <2>8, <3>1
  <2>10. q = scalar_mul_bits(eight_a, word.bits)
    <3> HIDE DEF eight_a
    <3> QED BY <2>3, <2>6, <2>7, <2>9, ScalarMulAgrees
  <2>11. word.bits = le_bits(Challenge(circuit, update, sigs[signer], signer), ChallengeBits)
    BY <1>2, <2>1, <2>2, <2>3 DEF SignaturesOK
  <2>12. rhs' = RightPoint(circuit, update, sigs[signer], signer)
    BY <2>6, <2>9, <2>10, <2>11 DEF RightPoint, ClaimedKey
  <2> QED BY <1>2, <1>3, <1>5, <2>1, <2>12 DEF SignaturesOK, Signing
<1> QED BY <1>4, <1>5

LEMMA CheckSignatureSigns ==
  ASSUME Cells, SignInv, CheckSignature PROVE SignInv'
<1>1. PICK id \in Written("identity", identity), b8 \in Written("B8", base8_point) :
        /\ Goto(AssertEqual(ScalarMulBits(b8, word.bits, id), rhs),
                IF signer = "a" THEN "signature" ELSE "carry")
        /\ strayed' = strayed \cup Departs("identity", id, identity)
                              \cup Departs("B8", b8, base8_point)
  BY DEF CheckSignature
<1>2. /\ pc = "scalar" /\ BitsComplete /\ word.acc = word.value /\ signer' = "b"
      /\ UNCHANGED <<circuit, update, sigs, message, updates>>
  BY DEF CheckSignature, Decomposed, AssertEqual, setup
<1>3. strayed \subseteq strayed'
  BY <1>1
<1>4. CASE pc' = "rejected"
  BY <1>2, <1>3, <1>4, NotSigning DEF Signing
<1>5. CASE /\ ScalarMulBits(b8, word.bits, id) = rhs
           /\ pc' = IF signer = "a" THEN "signature" ELSE "carry"
  <2> SUFFICES ASSUME AsWritten' PROVE SignaturesOK'
    BY DEF SignInv
  <2>1. SignaturesOK
    BY <1>3, StillAsWritten DEF SignInv
  <2>2. id = identity /\ b8 = base8_point
    BY <1>1 DEF AsWritten, Departs, Unforced
  <2>3. /\ word.value = sigs[signer].s /\ rhs # NoPoint
        /\ rhs = RightPoint(circuit, update, sigs[signer], signer)
    BY <1>2, <2>1 DEF SignaturesOK
  <2>4. word.bits \in Seq({0, 1}) /\ word.bits = le_bits(sigs[signer].s, ScalarBits)
    <3>1. /\ "scalar" \in Decomposing /\ Width("scalar") = ScalarBits /\ Len(word.bits) = word.n
          /\ word \in Word /\ word.n = Width("scalar") /\ Binary(word)
      BY <1>2 DEF Decomposing, Width, Cells, CellsOK, WordOK, BitsComplete
    <3> QED BY <1>2, <2>3, <3>1, WordCloses
  <2>5. base8_point \in Places
    BY Strays DEF Written, Places
  <2>6. ScalarMulBits(base8_point, word.bits, identity) = rhs
    BY <1>5, <2>2
  <2>7. scalar_mul_bits(base8_point, word.bits) = rhs
    BY <2>3, <2>4, <2>5, <2>6, ScalarMulAgrees
  <2>8. Verified(circuit, update, sigs[signer], signer)
    BY <2>3, <2>4, <2>7 DEF Verified
  <2>9. signer \in Party
    BY DEF Cells, CellsOK, SigsOK
  <2>10. CASE signer = "a"
    BY <1>2, <1>5, <2>1, <2>8, <2>10 DEF SignaturesOK, Signing
  <2>11. CASE signer = "b"
    <3>1. \A p \in Party : Verified(circuit, update, sigs[p], p)
      BY <1>2, <2>1, <2>8, <2>11 DEF SignaturesOK, Signing, Party
    <3> QED BY <1>2, <1>5, <2>1, <2>11, <3>1 DEF SignaturesOK, Signing
  <2> QED BY <2>9, <2>10, <2>11 DEF Party
<1> QED BY <1>1, <1>4, <1>5 DEF Goto, AssertEqual

LEMMA CarrySigns ==
  ASSUME Cells, SignInv, Carry PROVE SignInv'
<1> SUFFICES ASSUME AsWritten' PROVE SignaturesOK'
  BY DEF SignInv
<1>1. /\ pc = "carry" /\ UNCHANGED <<circuit, update, sigs, strayed>>
      /\ Len(updates) \in Nat /\ Len(updates') = Len(updates) + 1
      /\ updates'[Len(updates) + 1] = [update |-> update, sigs |-> sigs]
      /\ \A i \in 1..Len(updates) : updates'[i] = updates[i]
      /\ pc' \in {"load", "final"}
  BY Carried
<1>2. SignaturesOK
  BY <1>1, StillAsWritten DEF SignInv
<1>3. ASSUME NEW i \in 1..Len(updates'), NEW p \in Party
      PROVE  Verified(circuit, updates'[i].update, updates'[i].sigs[p], p)
  <2>1. CASE i = Len(updates) + 1
    BY <1>1, <1>2, <2>1 DEF SignaturesOK
  <2>2. CASE i \in 1..Len(updates)
    BY <1>1, <1>2, <2>2 DEF SignaturesOK
  <2> QED BY <1>1, <2>1, <2>2
<1> QED BY <1>1, <1>3 DEF SignaturesOK, Signing

\* A turn of to_bits changes neither the cell decomposed nor the signature.
LEMMA WitnessBitSigns ==
  ASSUME Cells, SignInv, WitnessBit PROVE SignInv'
<1>1. /\ word'.value = word.value /\ strayed \subseteq strayed'
      /\ UNCHANGED <<circuit, update, signer, sigs, message, rhs, updates>>
      /\ pc' \in {pc, "rejected"}
  BY DEF WitnessBit, Turn, Goto, setup, Cells, CellsOK, Word
<1>2. CASE pc' = "rejected"
  BY <1>1, <1>2, NotSigning DEF Signing
<1>3. CASE pc' = pc
  BY <1>1, <1>3, StillAsWritten DEF SignInv, SignaturesOK
<1> QED BY <1>1, <1>2, <1>3

LEMMA InitSigns == Init => SignInv
<1> SUFFICES ASSUME Init PROVE SignaturesOK
  BY DEF SignInv
<1>1. Len(updates) = 0 /\ pc = "public"
  BY DEF Init
<1> QED BY <1>1 DEF SignaturesOK, Signing

LEMMA SignStep == Cells /\ SignInv /\ [Next]_vars => SignInv'
<1> SUFFICES ASSUME Cells, SignInv, [Next]_vars PROVE SignInv'
  OBVIOUS
<1>1. CASE \/ LoadPublic \/ BitsRejected \/ StartNonceChecked \/ LoadUpdate \/ BalanceAChecked
           \/ BalanceBChecked \/ NonceChecked \/ Conserve \/ VerifyProof
  <2>1. /\ pc' \in {"start_nonce", "load", "balance_a", "balance_b", "nonce", "conservation",
                    "increase", "accepted", "rejected"}
        /\ UNCHANGED <<circuit, updates, strayed>>
    BY <1>1 DEF LoadPublic, BitsRejected, StartNonceChecked, LoadUpdate, BalanceAChecked,
       BalanceBChecked, NonceChecked, Conserve, VerifyProof, Goto, setup
  <2> QED BY <2>1, NotSigning DEF Signing
<1>2. CASE UNCHANGED vars
  BY <1>2 DEF vars, setup, SignInv, AsWritten, SignaturesOK
<1> QED BY <1>1, <1>2, WitnessBitSigns, HashMessageSigns, LoadSignatureSigns,
           MultiplyChallengeSigns, CheckSignatureSigns, CarrySigns DEF Next

\* Whatever else a prover writes into the cells, an accepted proof whose
\* unforced cells, Ay aside, hold what the code computes carries a signature of
\* each party on each update, under the y its cell holds: the rows of both
\* hashes, of the doublings and of the two scalar multiplications compute what
\* eddsa_poseidon_verify computes.
THEOREM AcceptedIsSigned == Spec => []SignaturesSound
<1>1. Inv /\ SignInv => SignaturesSound
  <2> SUFFICES ASSUME Inv, SignInv, pc = "accepted", AsWritten PROVE SignaturesSound
    BY DEF SignaturesSound, AsWritten
  <2>1. /\ circuit \in Circuits /\ params = PoseidonParams /\ Len(updates) = Steps
        /\ instance \in {public_inputs(c) : c \in Circuits}
    BY DEF Inv, Cells, CellsOK, Counted
  <2>2. public_inputs(circuit) = instance
    <3>1. PICK c \in Circuits : instance = public_inputs(c)
      BY <2>1
    <3>2. \A f \in DOMAIN InstanceRow : circuit[f] = instance[InstanceRow[f] + 1]
      BY DEF Inv, Tied
    <3>3. /\ circuit.contract_address = instance[1] /\ circuit.chain_id = instance[2]
          /\ circuit.channel_id = instance[3] /\ circuit.start_nonce = instance[4]
          /\ circuit.total_deposit = instance[5] /\ circuit.pub_key_ax = instance[6]
          /\ circuit.pub_key_ay = instance[7] /\ circuit.pub_key_bx = instance[8]
          /\ circuit.pub_key_by = instance[9] /\ circuit.out_nonce = instance[10]
          /\ circuit.final_balance_a = instance[11] /\ circuit.final_balance_b = instance[12]
      BY <3>2 DEF InstanceRow
    <3> QED BY <3>1, <3>3 DEF public_inputs
  <2>3. \A i \in 1..Steps, p \in Party :
          CoSigned(circuit, updates[i].update, updates[i].sigs[p], p, updates[i].sigs[p].ay)
    <3> TAKE i \in 1..Steps, p \in Party
    <3>1. Verified(circuit, updates[i].update, updates[i].sigs[p], p)
      BY <2>1 DEF SignInv, SignaturesOK
    <3> QED BY <2>1, <3>1, VerifiedIsCoSigned
  <2> QED BY <2>1, <2>2, <2>3 DEF SignaturesSound
<1> QED BY <1>1, InitSigns, SignStep, CellsAlways, Invariance, PTL DEF Spec

-----------------------------------------------------------------------------
(* Multiples of points.                                                    *)

LEMMA UnitInverse == InverseOf(1) = 1
<1>1. InverseOf(1) = CHOOSE inv \in Fr : Times(1, inv) = 1
  BY DEF InverseOf, Once
<1>2. \A inv \in Fr : Times(1, inv) = inv
  BY PAssumption DEF Times, Fr
<1>3. 1 \in Fr
  BY FrClosed
<1> QED BY <1>1, <1>2, <1>3

LEMMA UnitsAndZeros ==
  ASSUME NEW x \in Fr
  PROVE  /\ Times(x, 0) = 0 /\ Times(0, x) = 0 /\ Times(x, 1) = x /\ Times(1, x) = x
         /\ Plus(x, 0) = x /\ Plus(0, x) = x
         /\ Neg(0) = 0
BY PAssumption DEF Times, Plus, Neg, Fr

\* The identity is neutral, on and off the curve.
LEMMA IdentityIsNeutral ==
  ASSUME NEW p \in Point
  PROVE  point_add(p, identity) = p /\ point_add(identity, p) = p
<1>1. PICK x \in Fr, y \in Fr : p = [x |-> x, y |-> y]
  BY DEF Point
<1>2. identity.x = 0 /\ identity.y = 1 /\ p.x = x /\ p.y = y
  BY <1>1 DEF identity
<1>3. /\ Times(x, 0) = 0 /\ Times(0, x) = 0 /\ Times(x, 1) = x /\ Times(1, x) = x
      /\ Times(y, 0) = 0 /\ Times(0, y) = 0 /\ Times(y, 1) = y /\ Times(1, y) = y
      /\ Plus(x, 0) = x /\ Plus(0, x) = x /\ Plus(y, 0) = y /\ Plus(0, y) = y
      /\ Neg(0) = 0 /\ Plus(1, 0) = 1 /\ Times(d_coeff, 0) = 0 /\ Times(a_coeff, 0) = 0
  BY UnitsAndZeros, FrClosed, CurveAssumption
<1>4. InverseOf(1) = 1
  BY UnitInverse
<1>5. NoPoint \notin {p, identity} /\ 0 # 1
  BY NoPointIsNone, FrClosed DEF identity, Point
<1>6. Sum(p, identity) = [x |-> x, y |-> y]
  BY <1>2, <1>3, <1>4, <1>5 DEF Sum, Quotient
<1>7. Sum(identity, p) = [x |-> x, y |-> y]
  BY <1>2, <1>3, <1>4, <1>5 DEF Sum, Quotient
<1>8. point_add(p, identity) = Sum(p, identity) /\ point_add(identity, p) = Sum(identity, p)
  BY DEF point_add, Once
<1> QED BY <1>1, <1>6, <1>7, <1>8

LEMMA IdentityOnCurve == identity \in Curve
<1>1. /\ identity \in Point /\ identity.x = 0 /\ identity.y = 1
      /\ d_coeff \in Fr /\ a_coeff \in Fr
  BY FrClosed, CurveAssumption DEF identity, Point
<1>2. /\ Times(0, 0) = 0 /\ Times(1, 1) = 1 /\ Times(0, 1) = 0 /\ Times(a_coeff, 0) = 0
      /\ Times(d_coeff, 0) = 0 /\ Plus(0, 1) = 1 /\ Plus(1, 0) = 1
  BY <1>1, UnitsAndZeros, FrClosed
<1> QED BY <1>1, <1>2 DEF Curve

\* Adding p once more.
Adding(p) == [k \in Nat \ {0} |-> [q \in Curve |-> point_add(q, p)]]

LEMMA MultipleIsLoop ==
  ASSUME CurveIsClosed, NEW p \in Curve, NEW n \in Nat
  PROVE  Multiple(p, n) = Loop(Adding(p), identity, n)
<1> DEFINE g == [k \in 1..n |-> [q \in Curve |-> point_add(q, p)]]
           Eq(f) == f = [k \in 0..n |-> IF k = 0 THEN identity ELSE point_add(f[k - 1], p)]
           h == CHOOSE f : Eq(f)
<1>1. Multiple(p, n) = h[n]
  BY DEF Multiple
<1>2. Looping(n, Curve, identity, g)
  BY IdentityOnCurve DEF Looping, CurveIsClosed
<1>3. \A k \in 1..n, q \in Curve : g[k][q] = point_add(q, p)
  OBVIOUS
<1> HIDE DEF g
<1>4. PICK f : Values(n, Curve, identity, g, f)
  BY <1>2, LoopExists
<1>5. /\ f \in [0..n -> Curve] /\ f[0] = identity
      /\ \A k \in 1..n : f[k] = g[k][f[k - 1]]
  BY <1>4 DEF Values
<1>6. \A k \in 1..n : k - 1 \in 0..n /\ k \in 0..n /\ k # 0
  OBVIOUS
<1>7. \A k \in 0..n : f[k] = IF k = 0 THEN identity ELSE point_add(f[k - 1], p)
  <2> TAKE k \in 0..n
  <2>1. CASE k = 0
    BY <1>5, <2>1
  <2>2. CASE k \in 1..n
    BY <1>3, <1>5, <1>6, <2>2
  <2> QED BY <2>1, <2>2
<1>8. Eq(h)
  <2>1. f = [k \in 0..n |-> f[k]]
    BY <1>5
  <2>2. Eq(f)
    BY <1>7, <2>1
  <2> QED BY <2>2
<1> HIDE DEF h
<1>9. h[0] = identity /\ \A k \in 1..n : h[k] = point_add(h[k - 1], p)
  BY <1>6, <1>8
<1>10. Follows(n, Curve, identity, g, h)
  BY <1>3, <1>9 DEF Follows
<1>11. \A k \in 0..n : h[k] \in Curve
  BY <1>2, <1>10, LoopFollowed
<1> DEFINE Good == {k \in 0..n : h[k] = Loop(Adding(p), identity, k)}
<1>12. 0 \in Good
  BY <1>9, LoopTurns
<1>13. ASSUME NEW k \in 1..n, k - 1 \in Good
       PROVE  k \in Good
  <2>1. k \in Nat \ {0} /\ k - 1 \in 0..n
    OBVIOUS
  <2>2. Loop(Adding(p), identity, k) = Adding(p)[k][Loop(Adding(p), identity, k - 1)]
    BY ONLY <2>1, LoopNext
  <2>3. PICK q \in Curve : q = h[k - 1]
    BY <1>11, <2>1
  <2>4. Adding(p)[k][q] = point_add(q, p)
    BY <2>1 DEF Adding
  <2> QED BY <1>9, <1>13, <2>2, <2>3, <2>4
<1> HIDE DEF Good
<1>14. n \in Good
  BY <1>12, <1>13, TurnInduction
<1> QED BY <1>1, <1>14 DEF Good

LEMMA MultipleNext ==
  ASSUME CurveIsClosed, NEW p \in Curve
  PROVE  /\ Multiple(p, 0) = identity
         /\ \A n \in Nat : /\ Multiple(p, n) \in Curve
                           /\ Multiple(p, n + 1) = point_add(Multiple(p, n), p)
<1>1. Multiple(p, 0) = identity
  BY MultipleIsLoop, LoopTurns
<1>2. ASSUME NEW n \in Nat
      PROVE  Multiple(p, n) \in Curve
  <2> DEFINE g == [k \in 1..n |-> Adding(p)[k]]
             Good == {k \in 0..n : Loop(Adding(p), identity, k) \in Curve}
  <2>1. 0 \in Good
    BY IdentityOnCurve, LoopTurns
  <2>2. ASSUME NEW k \in 1..n, k - 1 \in Good
        PROVE  k \in Good
    <3>1. k \in Nat \ {0} /\ k - 1 \in 0..n
      OBVIOUS
    <3>2. Loop(Adding(p), identity, k) = Adding(p)[k][Loop(Adding(p), identity, k - 1)]
      BY ONLY <3>1, LoopNext
    <3>3. PICK q \in Curve : q = Loop(Adding(p), identity, k - 1)
      BY <2>2
    <3>4. Adding(p)[k][q] = point_add(q, p) /\ point_add(q, p) \in Curve
      BY <3>1 DEF Adding, CurveIsClosed
    <3> QED BY <3>2, <3>3, <3>4
  <2> HIDE DEF Good
  <2>3. n \in Good
    BY <2>1, <2>2, TurnInduction
  <2> QED BY <2>3, MultipleIsLoop DEF Good
<1>3. ASSUME NEW n \in Nat
      PROVE  Multiple(p, n + 1) = point_add(Multiple(p, n), p)
  <2>1. n + 1 \in Nat \ {0} /\ (n + 1) - 1 = n
    OBVIOUS
  <2>2. Loop(Adding(p), identity, n + 1) = Adding(p)[n + 1][Loop(Adding(p), identity, n)]
    BY <2>1, LoopNext
  <2>3. PICK q \in Curve : q = Multiple(p, n)
    BY <1>2
  <2>4. q = Loop(Adding(p), identity, n) /\ Multiple(p, n + 1) = Loop(Adding(p), identity, n + 1)
    BY <2>1, <2>3, MultipleIsLoop
  <2>5. Adding(p)[n + 1][q] = point_add(q, p)
    BY <2>1 DEF Adding
  <2> QED BY <2>2, <2>3, <2>4, <2>5
<1> QED BY <1>1, <1>2, <1>3

LEMMA MultipleAdds ==
  ASSUME CurveIsGroup, NEW p \in Curve, NEW m \in Nat, NEW n \in Nat
  PROVE  Multiple(p, m + n) = point_add(Multiple(p, m), Multiple(p, n))
<1> DEFINE Good == {k \in 0..n :
                      Multiple(p, m + k) = point_add(Multiple(p, m), Multiple(p, k))}
<1>1. CurveIsClosed
  BY DEF CurveIsGroup
<1>2. /\ Multiple(p, 0) = identity
      /\ \A k \in Nat : /\ Multiple(p, k) \in Curve
                        /\ Multiple(p, k + 1) = point_add(Multiple(p, k), p)
  BY <1>1, MultipleNext
<1>3. \A q \in Curve : q \in Point
  BY DEF Curve
<1>4. 0 \in Good
  <2>1. m + 0 = m /\ 0 \in 0..n
    OBVIOUS
  <2>2. point_add(Multiple(p, m), identity) = Multiple(p, m)
    BY <1>2, <1>3, IdentityIsNeutral
  <2> QED BY <1>2, <2>1, <2>2
<1>5. ASSUME NEW k \in 1..n, k - 1 \in Good
      PROVE  k \in Good
  <2>1. PICK j \in Nat : j = k - 1 /\ j + 1 = k /\ m + k = (m + j) + 1 /\ m + j \in Nat
                         /\ k \in 0..n
    OBVIOUS
  <2>2. PICK r \in Curve, s \in Curve : r = Multiple(p, m) /\ s = Multiple(p, j)
    BY <1>2
  <2>3. Multiple(p, m + j) = point_add(r, s)
    BY <1>5, <2>1, <2>2
  <2>4. Multiple(p, k) = point_add(s, p) /\ Multiple(p, m + k) = point_add(point_add(r, s), p)
    BY <1>2, <2>1, <2>2, <2>3
  <2>5. point_add(point_add(r, s), p) = point_add(r, point_add(s, p))
    BY DEF CurveIsGroup
  <2> QED BY <2>1, <2>2, <2>4, <2>5
<1> HIDE DEF Good
<1>6. n \in Good
  BY <1>4, <1>5, TurnInduction
<1> QED BY <1>6 DEF Good

\* A turn of the multiplication on the curve, in and outside the circuit.
LEMMA CurveTurn ==
  ASSUME CurveIsClosed, NEW last \in Progress, NEW bit \in {0, 1},
         last.acc \in Curve, last.base \in Curve
  PROVE  /\ ChipTurn(last, bit).acc = IF bit = 1 THEN point_add(last.acc, last.base) ELSE last.acc
         /\ ChipTurn(last, bit).base = point_add(last.base, last.base)
         /\ ChipTurn(last, bit).acc \in Curve /\ ChipTurn(last, bit).base \in Curve
<1>1. PICK acc \in Curve, base \in Curve : acc = last.acc /\ base = last.base
  OBVIOUS
<1>2. acc \in Point /\ base \in Point
  BY DEF Curve
<1>3. /\ PointAdd(acc, base) = point_add(acc, base)
      /\ PointAdd(base, base) = point_add(base, base)
  BY <1>2, PointAddAgrees
<1>4. PICK sum \in Curve : sum = point_add(acc, base)
  BY DEF CurveIsClosed
<1>5. sum \in Point /\ NoPoint \notin {sum, acc}
  BY <1>2, NoPointIsNone DEF Curve
<1>6. SelectPoint(bit, sum, acc) = IF bit = 1 THEN sum ELSE acc
  <2>1. /\ sum.x \in Fr /\ sum.y \in Fr /\ acc.x \in Fr /\ acc.y \in Fr
        /\ sum = [x |-> sum.x, y |-> sum.y] /\ acc = [x |-> acc.x, y |-> acc.y]
    BY <1>2, <1>5 DEF Point
  <2>2. /\ Select(bit, sum.x, acc.x) = IF bit = 1 THEN sum.x ELSE acc.x
        /\ Select(bit, sum.y, acc.y) = IF bit = 1 THEN sum.y ELSE acc.y
    BY <2>1, SelectChooses
  <2> QED BY <1>5, <2>1, <2>2 DEF SelectPoint
<1>7. point_add(base, base) \in Curve
  BY DEF CurveIsClosed
<1>8. ChipTurn(last, bit) = [acc |-> SelectPoint(bit, sum, acc), base |-> point_add(base, base)]
  BY <1>1, <1>3, <1>4 DEF ChipTurn, PointDouble
<1> QED BY <1>1, <1>4, <1>6, <1>7, <1>8

\* Multiplication has a result for every point of the curve, in the circuit as
\* outside.
LEMMA CurveMul ==
  ASSUME CurveIsClosed, NEW p \in Curve, NEW bits \in Seq({0, 1})
  PROVE  /\ ScalarMulBits(p, bits, identity) \in Curve
         /\ scalar_mul_bits(p, bits) = ScalarMulBits(p, bits, identity)
<1>1. p \in Places /\ identity \in Places /\ identity \in Curve
  BY IdentityOnCurve DEF Curve, Places
<1>2. PICK f : /\ ChipRun(p, bits, identity, f)
               /\ ScalarMulBits(p, bits, identity) = Outcome(f[Len(bits)])
  BY <1>1, ScalarMulBitsRuns
<1> DEFINE Good == {i \in 0..Len(bits) : f[i].acc \in Curve /\ f[i].base \in Curve}
<1>3. Len(bits) \in Nat
  OBVIOUS
<1>4. 0 \in Good
  BY <1>1, <1>2, <1>3 DEF ChipRun
<1>5. ASSUME NEW i \in 1..Len(bits), i - 1 \in Good
      PROVE  i \in Good
  <2>1. i - 1 \in 0..Len(bits) /\ i \in 0..Len(bits)
    BY <1>3
  <2>2. PICK bit \in {0, 1} : bit = bits[i]
    BY <1>3
  <2>3. PICK last \in Progress : last = f[i - 1]
    BY <1>2, <2>1 DEF ChipRun
  <2>4. last.acc \in Curve /\ last.base \in Curve
    BY <1>5, <2>3
  <2>5. f[i] = ChipTurn(last, bit)
    BY <1>2, <2>2, <2>3 DEF ChipRun
  <2>6. ChipTurn(last, bit).acc \in Curve /\ ChipTurn(last, bit).base \in Curve
    BY <2>4, CurveTurn
  <2> QED BY <2>1, <2>5, <2>6
<1> HIDE DEF Good
<1>6. Len(bits) \in Good
  <2>1. \A i \in 0..Len(bits) : i \in Good
    BY <1>3, <1>4, <1>5, TurnInduction
  <2> QED BY <1>3, <2>1
<1>7. ScalarMulBits(p, bits, identity) \in Curve
  <2>1. f[Len(bits)].acc \in Curve /\ f[Len(bits)].base \in Curve
    BY <1>6 DEF Good
  <2>2. f[Len(bits)].base # NoPoint
    BY <2>1, NoPointIsNone DEF Curve
  <2> QED BY <1>2, <2>1, <2>2 DEF Outcome
<1>8. ScalarMulBits(p, bits, identity) # NoPoint
  BY <1>7, NoPointIsNone DEF Curve
<1> QED BY <1>1, <1>7, <1>8, ScalarMulAgrees

\* Double and add over bits adds the point as often as they say.
LEMMA ScalarMulIsMultiple ==
  ASSUME CurveIsGroup, NEW p \in Curve, NEW bits \in Seq({0, 1}), Len(bits) <= AllBits
  PROVE  ScalarMulBits(p, bits, identity) = Multiple(p, Number(bits))
<1> DEFINE n == Len(bits)
           first(i) == [j \in 1..i |-> bits[j]]
<1>1. n \in Nat /\ AllBits \in Nat /\ \A i \in 0..n : i \in 0..AllBits /\ i \in Nat
  BY AllWidths
<1>2. /\ CurveIsClosed /\ Multiple(p, 0) = identity
      /\ \A m \in Nat : /\ Multiple(p, m) \in Curve
                        /\ Multiple(p, m + 1) = point_add(Multiple(p, m), p)
  BY MultipleNext DEF CurveIsGroup
<1>3. p \in Places /\ identity \in Places /\ identity \in Curve /\ p \in Point
  BY IdentityOnCurve DEF Curve, Places
<1>4. PICK f : /\ ChipRun(p, bits, identity, f)
               /\ ScalarMulBits(p, bits, identity) = Outcome(f[n])
  BY <1>3, ScalarMulBitsRuns
<1>5. /\ f \in [0..n -> Progress] /\ f[0] = [acc |-> identity, base |-> p]
      /\ \A i \in 1..n : f[i] = ChipTurn(f[i - 1], bits[i])
  BY <1>4 DEF ChipRun
<1>6. \A i \in 1..n : bits[i] \in {0, 1}
  OBVIOUS
<1>7. \A i \in 0..n : first(i) \in Seq({0, 1}) /\ Len(first(i)) = i
  BY <1>1, <1>6
<1>8. first(0) = <<>> /\ first(n) = bits
  BY <1>1
<1>9. \A i \in 1..n : first(i) = Append(first(i - 1), bits[i])
  <2> TAKE i \in 1..n
  <2>1. /\ i - 1 \in 0..n /\ (i - 1) + 1 = i /\ i \in 0..n
        /\ first(i) \in Seq({0, 1}) /\ Len(first(i)) = i
    BY <1>1, <1>7
  <2>2. /\ Append(first(i - 1), bits[i]) \in Seq({0, 1})
        /\ Len(Append(first(i - 1), bits[i])) = i
    BY <1>6, <1>7, <2>1
  <2>3. \A j \in 1..i : Append(first(i - 1), bits[i])[j] = bits[j]
    BY <1>7, <2>1
  <2> QED BY <2>1, <2>2, <2>3
<1> HIDE DEF n, first
<1> DEFINE Good == {i \in 0..n : /\ f[i].acc = Multiple(p, Number(first(i)))
                                 /\ f[i].base = Multiple(p, 2^i)}
<1>10. 0 \in Good
  <2>1. Multiple(p, 0 + 1) = point_add(identity, p) /\ 0 + 1 = 1 /\ 0 \in 0..n
    BY <1>1, <1>2
  <2>2. Multiple(p, 1) = p
    BY <1>3, <2>1, IdentityIsNeutral
  <2> QED BY <1>2, <1>5, <1>8, <2>1, <2>2, NoBits, PowersOfTwo
<1>11. ASSUME NEW i \in 1..n, i - 1 \in Good
       PROVE  i \in Good
  <2>1. PICK j \in 0..n : j = i - 1 /\ j + 1 = i /\ i \in 0..n
    BY <1>1
  <2>2. PICK m \in Nat : m = 2^j /\ 2^i = 2 * m
    BY <1>1, <2>1, NextPower
  <2>3. PICK before \in Seq({0, 1}) : before = first(j) /\ Len(before) = j
    BY <1>7
  <2>4. PICK N \in Nat : N = Number(before)
    <3>1. before \in Seq(Nat)
      OBVIOUS
    <3> QED BY <3>1, NumberIsValue
  <2>5. PICK bit \in {0, 1} : bit = bits[i]
    BY <1>6
  <2>6. Number(first(i)) = N + m * bit
    <3>1. first(i) = Append(before, bit)
      BY <1>9, <2>1, <2>3, <2>5
    <3>2. Len(before) <= AllBits
      BY <1>1, <2>3
    <3> QED BY <2>2, <2>3, <2>4, <3>1, <3>2, NumberAppend
  <2>7. PICK last \in Progress : last = f[j] /\ f[i] = ChipTurn(last, bit)
    BY <1>5, <2>1, <2>5
  <2>8. last.acc = Multiple(p, N) /\ last.base = Multiple(p, m)
    BY <1>11, <2>1, <2>2, <2>3, <2>4, <2>7
  <2>9. last.acc \in Curve /\ last.base \in Curve
    BY <1>2, <2>8
  <2>10. /\ f[i].acc = IF bit = 1 THEN point_add(last.acc, last.base) ELSE last.acc
         /\ f[i].base = point_add(last.base, last.base)
    <3>1. CurveIsClosed
      BY <1>2
    <3>2. /\ ChipTurn(last, bit).acc = IF bit = 1 THEN point_add(last.acc, last.base) ELSE last.acc
          /\ ChipTurn(last, bit).base = point_add(last.base, last.base)
      BY ONLY <2>9, <3>1, CurveTurn
    <3> QED BY <2>7, <3>2
  <2>11. f[i].base = Multiple(p, 2^i)
    <3>1. 2^i = m + m
      BY <2>2
    <3>2. Multiple(p, m + m) = point_add(Multiple(p, m), Multiple(p, m))
      BY MultipleAdds
    <3> QED BY <2>8, <2>10, <3>1, <3>2
  <2>12. f[i].acc = Multiple(p, Number(first(i)))
    <3>1. CASE bit = 1
      <4>1. N + m * bit = N + m
        BY <3>1
      <4>2. Multiple(p, N + m) = point_add(Multiple(p, N), Multiple(p, m))
        BY MultipleAdds
      <4> QED BY <2>6, <2>8, <2>10, <3>1, <4>1, <4>2
    <3>2. CASE bit = 0
      <4>1. N + m * bit = N
        BY <3>2
      <4> QED BY <2>6, <2>8, <2>10, <3>2, <4>1
    <3> QED BY <3>1, <3>2
  <2> QED BY <2>1, <2>11, <2>12
<1> HIDE DEF Good
<1>12. n \in Good
  <2>1. \A i \in 0..n : i \in Good
    BY <1>1, <1>10, <1>11, TurnInduction
  <2> QED BY <1>1, <2>1
<1>13. f[n].acc = Multiple(p, Number(bits)) /\ f[n].base = Multiple(p, 2^n)
  BY <1>8, <1>12 DEF Good
<1>14. 2^n \in Nat /\ Multiple(p, 2^n) # NoPoint
  <2>1. PICK m \in Nat : m = 2^n
    BY <1>1, NextPower
  <2>2. Multiple(p, m) \in Point
    BY <1>2 DEF Curve
  <2> QED BY <2>1, <2>2, NoPointIsNone
<1> QED BY <1>4, <1>13, <1>14 DEF Outcome

\* Double and add over decomposed bits is repeated addition, in verify_eddsa and
\* outside, on a curve whose addition is a group's.
THEOREM MultiplicationIsRepeated ==
  ASSUME CurveIsGroup, KeysOnCurve
  PROVE  Spec => []ScalarMulIsRepeated
<1>1. ASSUME Cells, pc \in {"challenge", "scalar"}, Decomposed(pc),
             NEW p, p = IF pc = "scalar" THEN base8_point ELSE KeyOf(circuit, signer)
      PROVE  /\ ScalarMulBits(p, word.bits, identity) = Multiple(p, Number(word.bits))
             /\ scalar_mul_bits(p, word.bits) = Multiple(p, Number(word.bits))
  <2>1. pc \in Decomposing /\ Len(word.bits) = word.n
    BY <1>1 DEF Decomposed, BitsComplete
  <2>2. word.n = Width(pc) /\ word.bits \in Seq({0, 1})
    BY <1>1, <2>1 DEF Cells, WordOK, Binary
  <2>3. Len(word.bits) <= AllBits
    BY <2>1, <2>2, Widths
  <2>4. p \in Curve
    BY <1>1 DEF Cells, CellsOK, SigsOK, KeysOnCurve
  <2>5. ScalarMulBits(p, word.bits, identity) = Multiple(p, Number(word.bits))
    BY <2>2, <2>3, <2>4, ScalarMulIsMultiple
  <2>6. scalar_mul_bits(p, word.bits) = ScalarMulBits(p, word.bits, identity)
    BY <2>2, <2>4, CurveMul DEF CurveIsGroup
  <2> QED BY <2>5, <2>6
<1>2. Cells => ScalarMulIsRepeated
  BY <1>1 DEF ScalarMulIsRepeated
<1> QED BY <1>2, CellsAlways, PTL

-----------------------------------------------------------------------------
(* Rejections.  A prover who runs this code on the verifier's inputs writes  *)
(* the bits of the cell he decomposes and the y of the key he claims.        *)

\* The bits the code computes, as a sequence.
LEMMA BitsListed ==
  ASSUME NEW v, NEW k \in Nat, NEW S, \A i \in 1..k : fr_to_le_bits(v, i - 1) \in S
  PROVE  /\ le_bits(v, k) \in Seq(S) /\ Len(le_bits(v, k)) = k
         /\ \A i \in 1..k : le_bits(v, k)[i] = fr_to_le_bits(v, i - 1)
<1>1. PICK s \in [1..k -> S] : s = [i \in 1..k |-> fr_to_le_bits(v, i - 1)]
  OBVIOUS
<1>2. s \in Seq(S)
  BY SeqDef
<1>3. Len(s) = k
  BY <1>2
<1>4. s = le_bits(v, k)
  BY <1>1 DEF le_bits
<1> QED BY <1>1, <1>2, <1>3, <1>4

\* One turn of to_bits adds one bit to those of the cell.
LEMMA NextBit ==
  ASSUME NEW v, NEW k \in Nat
  PROVE  Append(le_bits(v, k), fr_to_le_bits(v, k)) = le_bits(v, k + 1)
<1> DEFINE S == {fr_to_le_bits(v, i - 1) : i \in 1..(k + 1)}
           b == fr_to_le_bits(v, k)
<1>1. \A i \in 1..(k + 1) : fr_to_le_bits(v, i - 1) \in S
  OBVIOUS
<1>2. (k + 1) - 1 = k /\ k + 1 \in 1..(k + 1) /\ \A i \in 1..k : i \in 1..(k + 1)
  OBVIOUS
<1>3. b \in S
  BY <1>1, <1>2
<1> HIDE DEF S, b
<1>4. PICK s \in Seq(S) : /\ s = le_bits(v, k) /\ Len(s) = k
                         /\ \A i \in 1..k : s[i] = fr_to_le_bits(v, i - 1)
  <2>1. \A i \in 1..k : fr_to_le_bits(v, i - 1) \in S
    BY <1>1, <1>2
  <2> QED BY <2>1, BitsListed
<1>5. PICK r \in Seq(S) : /\ r = le_bits(v, k + 1) /\ Len(r) = k + 1
                         /\ \A i \in 1..(k + 1) : r[i] = fr_to_le_bits(v, i - 1)
  <2>1. k + 1 \in Nat
    OBVIOUS
  <2> QED BY ONLY <1>1, <2>1, BitsListed
<1>6. Append(s, b) \in Seq(S) /\ Len(Append(s, b)) = k + 1
  BY <1>3, <1>4
<1>7. r[k + 1] = b /\ Append(s, b)[k + 1] = b
  BY <1>2, <1>3, <1>4, <1>5 DEF b
<1>8. \A i \in 1..k : Append(s, b)[i] = r[i]
  BY <1>2, <1>3, <1>4, <1>5
<1>9. \A i \in 1..(k + 1) : i \in 1..k \/ i = k + 1
  OBVIOUS
<1>10. \A i \in 1..(k + 1) : Append(s, b)[i] = r[i]
  BY <1>7, <1>8, <1>9
<1>11. Append(s, b) = r
  BY <1>5, <1>6, <1>10
<1> QED BY <1>4, <1>5, <1>11 DEF b

\* The bits of a number below the weight of the next one make it up.
LEMMA BitsMakeNumber ==
  ASSUME NEW v \in Nat, NEW n \in Nat, n <= AllBits, v < 2^n
  PROVE  Number(le_bits(v, n)) = v
<1> DEFINE bits(k) == le_bits(v, k)
           Good == {k \in 0..n : /\ bits(k) \in Seq({0, 1}) /\ Len(bits(k)) = k
                                 /\ v = Number(bits(k)) + 2^k * (v \div 2^k)}
<1>1. AllBits \in Nat /\ \A k \in 0..n : k \in 0..AllBits /\ k \in Nat
  BY AllWidths
<1>2. 0 \in Good
  <2>1. bits(0) = <<>> /\ 0 \in 0..n /\ <<>> \in Seq({0, 1}) /\ Len(<<>>) = 0
    BY DEF le_bits
  <2>2. v = 0 + 1 * (v \div 1)
    OBVIOUS
  <2>3. v = Number(bits(0)) + 2^0 * (v \div 2^0)
    BY ONLY <2>1, <2>2, NoBits, PowersOfTwo
  <2> HIDE DEF bits
  <2> QED BY <2>1, <2>3
<1>3. ASSUME NEW k \in 1..n, k - 1 \in Good
      PROVE  k \in Good
  <2>1. PICK j \in 0..n : j = k - 1 /\ j + 1 = k /\ j \in Nat /\ k \in 0..n
    BY <1>1
  <2>2. PICK before \in Seq({0, 1}) : before = bits(j) /\ Len(before) = j
    BY <1>3, <2>1
  <2>3. PICK m \in Nat \ {0} : m = 2^j /\ 2^k = 2 * m
    BY <1>1, <2>1, NextPower
  <2>4. PICK q \in Nat : q = v \div m
    <3>1. v \div m \in Nat
      BY ONLY v \in Nat, m \in Nat \ {0}
    <3> QED BY <3>1
  <2>5. PICK h \in Nat, bit \in {0, 1} : q = 2 * h + bit /\ h = q \div 2 /\ bit = q % 2
    <3>1. q = 2 * (q \div 2) + (q % 2) /\ q \div 2 \in Nat /\ q % 2 \in {0, 1}
      OBVIOUS
    <3> QED BY <3>1
  <2>6. PICK m2 \in Nat : m2 = 2 * m
    OBVIOUS
  <2>7. v \div m2 = h
    <3>1. v \div m2 = (v \div m) \div 2
      BY ONLY v \in Nat, m \in Nat \ {0}, <2>6, HalfOfQuotient
    <3> QED BY ONLY <2>4, <2>5, <3>1
  <2>8. bit = fr_to_le_bits(v, j)
    BY <2>3, <2>4, <2>5 DEF fr_to_le_bits
  <2>9. bits(k) = Append(before, bit)
    BY <2>1, <2>2, <2>8, NextBit
  <2>10. Append(before, bit) \in Seq({0, 1}) /\ Len(Append(before, bit)) = k
    BY <2>1, <2>2
  <2>11. PICK N \in Nat : N = Number(before)
    <3>1. before \in Seq(Nat)
      OBVIOUS
    <3> QED BY <3>1, NumberIsValue
  <2>12. Number(Append(before, bit)) = N + m * bit
    <3>1. Len(before) <= AllBits
      BY <1>1, <2>1, <2>2
    <3> QED BY <2>2, <2>3, <2>11, <3>1, NumberAppend
  <2>13. v = N + m * q
    BY <1>3, <2>1, <2>2, <2>3, <2>4, <2>11
  <2>14. m * q = m * bit + (2 * m) * h
    <3>1. m * (2 * h + bit) = m * (2 * h) + m * bit
      OBVIOUS
    <3>2. m * (2 * h) = (2 * m) * h
      OBVIOUS
    <3>3. m * bit \in Nat /\ (2 * m) * h \in Nat
      OBVIOUS
    <3> QED BY <2>5, <3>1, <3>2, <3>3
  <2>15. v = (N + m * bit) + m2 * h
    <3>1. PICK x \in Nat, y \in Nat : x = m * bit /\ y = (2 * m) * h /\ y = m2 * h
      BY <2>6
    <3> QED BY <2>13, <2>14, <3>1
  <2> HIDE DEF bits
  <2>16. v = Number(bits(k)) + 2^k * (v \div 2^k)
    BY <2>3, <2>6, <2>7, <2>9, <2>12, <2>15
  <2> QED BY <2>1, <2>9, <2>10, <2>16
<1> HIDE DEF Good
<1>4. n \in Good
  <2>1. \A k \in 0..n : k \in Good
    BY <1>2, <1>3, TurnInduction
  <2> QED BY <2>1
<1>5. v = Number(bits(n)) + 2^n * (v \div 2^n) /\ bits(n) \in Seq({0, 1})
  BY <1>4 DEF Good
<1> HIDE DEF bits
<1>6. v \div 2^n = 0
  <2>1. PICK w \in Nat \ {0} : w = 2^n
    BY <1>1, NextPower
  <2>2. v < w
    BY <2>1
  <2>3. v \div w = 0
    BY <2>2
  <2> QED BY <2>1, <2>3
<1>7. PICK N \in Nat : N = Number(bits(n))
  <2>1. bits(n) \in Seq(Nat)
    BY <1>5
  <2> QED BY <2>1, NumberIsValue
<1>8. 2^n * 0 = 0
  <2>1. PICK w \in Nat \ {0} : w = 2^n
    BY <1>1, NextPower
  <2> QED BY <2>1
<1> QED BY <1>5, <1>6, <1>7, <1>8 DEF bits

\* A decomposition into the bits of its own cell closes when they suffice.
LEMMA OwnBitsClose ==
  ASSUME NEW label \in Decomposing, NEW w \in Word, w.n = Width(label), Binary(w),
         w.bits = le_bits(w.value, w.n), w.acc # w.value
  PROVE  /\ w.value >= 2^Width(label)
         /\ label # "challenge"
<1>1. PICK n \in Nat \ {0} : n = Width(label) /\ n <= AllBits
  BY Widths
<1>2. PICK v \in Fr : v = w.value /\ v \in Nat /\ v < P
  BY PAssumption DEF Word, Fr
<1>3. PICK m \in Nat : m = 2^n
  BY <1>1, Widths
<1>4. ASSUME v < m PROVE FALSE
  <2>1. Number(le_bits(v, n)) = v
    BY <1>1, <1>2, <1>3, <1>4, BitsMakeNumber
  <2>2. w.acc = v % P
    BY <1>1, <1>2, <2>1 DEF Binary
  <2>3. v % P = v
    BY <1>2, PAssumption
  <2> QED BY <1>2, <2>2, <2>3
<1>5. label # "challenge"
  <2> SUFFICES ASSUME label = "challenge" PROVE FALSE
    OBVIOUS
  <2>1. m > P
    BY <1>1, <1>3, WidthAssumption DEF Width
  <2> QED BY <1>2, <1>3, <1>4, <2>1, PAssumption
<1> QED BY <1>1, <1>2, <1>3, <1>4, <1>5

Honest == strayed = {} /\ instance = public_inputs(circuit)

\* What a prover who runs this code has in the cells.
OwnBits ==
  pc \in Decomposing =>
    word.hint = word.value /\ word.bits = le_bits(word.value, Len(word.bits))
OwnKeys == \A p \in DOMAIN sigs : sigs[p].ay = KeyOf(circuit, p).y

\* The signature cells of the update under way do not verify.
BadSignature(p) ==
  \/ sigs[p].s >= 2^ScalarBits
  \/ ~CoSigned(circuit, update, sigs[p], p, KeyOf(circuit, p).y)

\* What turns an update away, and what a finished chain.
BadUpdate ==
  \/ \E x \in {update.nonce, update.balance_a, update.balance_b} : x >= Limit
  \/ update.balance_a + update.balance_b # circuit.total_deposit
  \/ update.nonce <= Nonce(Len(updates))
  \/ \E p \in DOMAIN sigs : BadSignature(p)
BadEnd ==
  update # [nonce |-> circuit.out_nonce, balance_a |-> circuit.final_balance_a,
            balance_b |-> circuit.final_balance_b]
Cause ==
  \/ circuit.start_nonce >= Limit
  \/ Len(updates) < Steps /\ BadUpdate
  \/ Len(updates) = Steps /\ BadEnd

CauseOK == OwnBits /\ OwnKeys /\ (pc = "rejected" => Cause)
CauseInv == Honest => CauseOK

LEMMA StillHonest ==
  ASSUME strayed \subseteq strayed', UNCHANGED <<circuit, instance>>, Honest'
  PROVE  Honest
  BY DEF Honest

\* A decomposition starts with the bits of its cell: none.
LEMMA OwnStart ==
  ASSUME NEW value, NEW n, ToBits(value, n, value)
  PROVE  OwnBits'
<1>1. word'.hint = value /\ word'.value = value /\ word'.bits = <<>>
  BY DEF ToBits
<1>2. le_bits(value, 0) = <<>> /\ Len(<<>>) = 0
  BY DEF le_bits
<1> QED BY <1>1, <1>2 DEF OwnBits

\* A step that passes, and starts a decomposition or none.
LEMMA Honestly ==
  ASSUME CauseInv, UNCHANGED <<circuit, instance>>, strayed \subseteq strayed',
         pc' # "rejected", pc' \in Decomposing => OwnBits',
         OwnKeys => OwnKeys'
  PROVE  CauseInv'
<1> SUFFICES ASSUME Honest' PROVE CauseOK'
  BY DEF CauseInv
<1>1. CauseOK
  BY StillHonest DEF CauseInv
<1> QED BY <1>1 DEF CauseOK, OwnBits

\* A step that fails for a reason.
LEMMA FailsForCause ==
  ASSUME CauseInv, UNCHANGED <<circuit, instance, sigs>>, strayed \subseteq strayed',
         pc' = "rejected", Honest' => Cause'
  PROVE  CauseInv'
<1> SUFFICES ASSUME Honest' PROVE CauseOK'
  BY DEF CauseInv
<1>1. CauseOK
  BY StillHonest DEF CauseInv
<1>2. "rejected" \notin Decomposing
  BY DEF Decomposing, RangeChecks
<1> QED BY <1>1, <1>2 DEF CauseOK, OwnBits, OwnKeys

\* The cells the cause of a rejection is read from.
LEMMA SameCause ==
  ASSUME UNCHANGED <<circuit, instance, params, update, sigs, updates>>
  PROVE  Cause' <=> Cause
  BY DEF Cause, BadUpdate, BadEnd, BadSignature, CoSigned, message_hash_at, Nonce, Claim

\* The verifier's column read back.
LEMMA ColumnOf ==
  ASSUME instance = public_inputs(circuit), circuit \in Public
  PROVE  \A f \in DOMAIN InstanceRow : circuit[f] = instance[InstanceRow[f] + 1]
<1>1. /\ instance[1] = circuit.contract_address /\ instance[2] = circuit.chain_id
      /\ instance[3] = circuit.channel_id /\ instance[4] = circuit.start_nonce
      /\ instance[5] = circuit.total_deposit /\ instance[6] = circuit.pub_key_ax
      /\ instance[7] = circuit.pub_key_ay /\ instance[8] = circuit.pub_key_bx
      /\ instance[9] = circuit.pub_key_by /\ instance[10] = circuit.out_nonce
      /\ instance[11] = circuit.final_balance_a /\ instance[12] = circuit.final_balance_b
  BY DEF public_inputs
<1> QED BY <1>1 DEF InstanceRow

\* Before the nonces of an update are compared, the last is the one claimed or
\* that of the update before.
LEMMA LastNonceIs ==
  ASSUME Inv, Honest
  PROVE  prev_nonce = Nonce(Len(updates))
<1>1. prev_nonce = LastNonce(Len(updates))
  BY DEF Inv, ChainOK
<1>2. instance[4] = circuit.start_nonce
  BY DEF Honest, public_inputs
<1> QED BY <1>1, <1>2 DEF LastNonce, Nonce, Claim

LEMMA LoadPublicCauses == ASSUME Inv, CauseInv, LoadPublic PROVE CauseInv'
<1>1. /\ UNCHANGED <<circuit, instance, params, update, sigs, updates, strayed>>
      /\ RangeCheck(circuit.start_nonce)
      /\ pc' = IF \A f \in DOMAIN InstanceRow : circuit[f] = instance[InstanceRow[f] + 1]
               THEN "start_nonce" ELSE "rejected"
  BY DEF LoadPublic, Goto, setup
<1>2. OwnBits'
  BY <1>1, OwnStart DEF RangeCheck
<1>3. circuit \in Public
  BY DEF Inv, Cells, CellsOK
<1>4. CASE Honest
  <2>1. pc' = "start_nonce"
    BY <1>1, <1>3, <1>4, ColumnOf DEF Honest
  <2>2. OwnKeys => OwnKeys'
    BY <1>1 DEF OwnKeys
  <2> QED BY <1>1, <1>2, <2>1, <2>2, Honestly
<1>5. CASE ~Honest
  BY <1>1, <1>5 DEF CauseInv, Honest
<1> QED BY <1>4, <1>5

\* Steps between two checks.
LEMMA NextCheckCauses ==
  ASSUME CauseInv, \/ StartNonceChecked \/ LoadUpdate \/ BalanceAChecked
                   \/ BalanceBChecked \/ NonceChecked
  PROVE  CauseInv'
<1>1. /\ UNCHANGED <<circuit, instance, strayed>>
      /\ pc' \in {"load", "balance_a", "balance_b", "nonce", "conservation"}
      /\ pc' \in {"balance_a", "balance_b", "nonce"} => \E value : RangeCheck(value)
      /\ sigs' = sigs \/ sigs' = NoSignatures
  BY DEF StartNonceChecked, LoadUpdate, BalanceAChecked, BalanceBChecked, NonceChecked, setup
<1>2. pc' \in Decomposing => OwnBits'
  <2>1. {"load", "conservation"} \cap Decomposing = {}
    BY DEF Decomposing, RangeChecks
  <2> QED BY <1>1, <2>1, OwnStart DEF RangeCheck
<1>3. OwnKeys => OwnKeys'
  BY <1>1 DEF OwnKeys, NoSignatures
<1> QED BY <1>1, <1>2, <1>3, Honestly

LEMMA WitnessBitCauses == ASSUME Inv, CauseInv, WitnessBit PROVE CauseInv'
<1> SUFFICES ASSUME Honest' PROVE CauseOK'
  BY DEF CauseInv
<1>1. PICK bit \in Written("bit", fr_to_le_bits(word.hint, Len(word.bits))) :
        /\ Goto(AssertEqual(Mul(bit, bit), bit), pc)
        /\ word' = [word EXCEPT !.bits = Append(@, bit),
                                !.acc = AddBit(@, bit, word.weight),
                                !.weight = DoubleWeight(@)]
        /\ strayed' = strayed \cup
             Departs("bit", bit, fr_to_le_bits(word.hint, Len(word.bits)))
  BY DEF WitnessBit, Turn
<1>2. /\ pc \in Decomposing /\ Len(word.bits) < word.n
      /\ UNCHANGED <<circuit, instance, params, update, sigs, updates>>
  BY DEF WitnessBit, Turn, setup
<1>3. word \in Word /\ word.n = Width(pc)
  BY <1>2 DEF Inv, Cells, CellsOK, WordOK
<1>4. CauseOK
  BY <1>1, <1>2, StillHonest DEF CauseInv
<1>5. bit = fr_to_le_bits(word.hint, Len(word.bits))
  BY <1>1 DEF Honest, Departs
<1>6. PICK k \in Nat : k = Len(word.bits) /\ k \in 0..AllBits
  <2>1. PICK n \in Nat : n = Width(pc) /\ n <= AllBits
    BY <1>2, Widths
  <2>2. Len(word.bits) \in Nat /\ AllBits \in Nat
    BY <1>3, AllWidths DEF Word
  <2> QED BY <1>2, <1>3, <2>1, <2>2
<1>7. word.hint \in Fr
  BY <1>3 DEF Word
<1>8. bit \in {0, 1} /\ bit \in Fr
  BY <1>5, <1>6, <1>7, HintIsBit, FrClosed
<1>9. pc' = pc
  BY <1>1, <1>8, BooleanRow DEF Goto, AssertEqual
<1>10. /\ word.hint = word.value /\ word.bits = le_bits(word.value, k)
  BY <1>2, <1>4, <1>6 DEF CauseOK, OwnBits
<1>11. /\ word'.bits = Append(word.bits, bit) /\ word'.value = word.value /\ word'.hint = word.hint
  BY <1>1, <1>3 DEF Word
<1>12. word'.bits = le_bits(word.value, k + 1) /\ Len(word'.bits) = k + 1
  <2>1. word'.bits = le_bits(word.value, k + 1)
    BY <1>5, <1>6, <1>10, <1>11, NextBit
  <2>2. word.bits \in Seq(Fr)
    BY <1>3 DEF Word
  <2>3. Len(Append(word.bits, bit)) = k + 1
    BY <1>6, <1>8, <2>2
  <2> QED BY <1>11, <2>1, <2>3
<1>13. OwnBits'
  BY <1>10, <1>11, <1>12 DEF OwnBits
<1>14. pc' # "rejected"
  BY <1>2, <1>9 DEF Decomposing, RangeChecks
<1> QED BY <1>2, <1>4, <1>13, <1>14 DEF CauseOK, OwnKeys

\* A nonce in range that rises passes the check of its rise.
LEMMA RisePasses ==
  ASSUME NEW nonce \in Fr, NEW prev \in Fr, nonce < Limit, prev < nonce
  PROVE  Rise(nonce, prev) < Limit
<1>1. PICK d \in Int : d = nonce - prev /\ d - 1 \in Fr /\ d - 1 < Limit
  BY Limits, PAssumption DEF Fr
<1>2. Sub(nonce, prev) = d
  BY <1>1, SubIsDifference, PAssumption DEF Fr
<1>3. d + (P - 1) = 1 * P + (d - 1)
  BY <1>1, PAssumption
<1>4. (1 * P + (d - 1)) % P = d - 1
  BY <1>1, ModOfMultiple
<1>5. Rise(nonce, prev) = (d + (P - 1)) % P
  BY <1>2, PAssumption DEF Rise, AddConst, Plus, Neg
<1> QED BY <1>1, <1>3, <1>4, <1>5

LEMMA BitsRejectedCauses == ASSUME Inv, SignInv, CauseInv, BitsRejected PROVE CauseInv'
<1>1. /\ pc \in Decomposing /\ Len(word.bits) = word.n /\ word.acc # word.value
      /\ pc' = "rejected"
      /\ UNCHANGED <<circuit, instance, params, update, sigs, updates, strayed>>
  BY DEF BitsRejected, BitsComplete, AssertEqual, setup
<1>2. ASSUME Honest
      PROVE  Cause
  <2>1. word.bits = le_bits(word.value, word.n)
    BY <1>1, <1>2 DEF CauseInv, CauseOK, OwnBits
  <2>2. word \in Word /\ word.n = Width(pc) /\ Binary(word)
    BY <1>1 DEF Inv, Cells, CellsOK, WordOK
  <2>3. word.value >= 2^Width(pc) /\ pc # "challenge"
    BY <1>1, <2>1, <2>2, OwnBitsClose
  <2>4. pc \in RangeChecks => word.value >= Limit /\ word.value = Checked(pc)
    <3>1. pc \in RangeChecks => Width(pc) = RangeBits
      BY DEF RangeChecks, Width
    <3> QED BY <2>3, <3>1 DEF Limit, Inv, ValueOK
  <2>5. pc # "start_nonce" => Len(updates) < Steps
    BY <1>1 DEF Inv, Cells, Counted, InStep, Decomposing, RangeChecks
  <2>6. CASE pc = "start_nonce"
    BY <2>4, <2>6 DEF RangeChecks, Checked, Cause
  <2>7. CASE pc \in {"balance_a", "balance_b", "nonce"}
    BY <2>4, <2>5, <2>7 DEF RangeChecks, Checked, Cause, BadUpdate
  <2>8. CASE pc = "increase"
    <3>1. Rise(update.nonce, prev_nonce) >= Limit
      BY <2>4, <2>8 DEF RangeChecks, Checked
    <3>2. /\ update.nonce \in Fr /\ prev_nonce \in Fr /\ update.nonce < Limit
          /\ Rise(update.nonce, prev_nonce) \in Fr
      BY <2>8, CellFields DEF Inv, Cells, CellsOK, ChecksOK, AfterNonce, AfterB, AfterA
    <3>3. Limit \in Nat /\ update.nonce \in Int /\ prev_nonce \in Int
          /\ Rise(update.nonce, prev_nonce) \in Int
      BY <3>2, Limits, PAssumption DEF Fr
    <3>4. ~(prev_nonce < update.nonce)
      BY <3>1, <3>2, <3>3, RisePasses
    <3>5. update.nonce <= Nonce(Len(updates))
      BY <1>2, <3>3, <3>4, LastNonceIs
    <3> QED BY <2>5, <2>8, <3>5 DEF Cause, BadUpdate
  <2>9. CASE pc = "scalar"
    <3>1. SignaturesOK
      BY <1>2 DEF SignInv, AsWritten, Honest
    <3>2. word.value = sigs[signer].s /\ signer \in DOMAIN sigs
      BY <2>9, <3>1 DEF SignaturesOK, Inv, Cells, Held
    <3>3. sigs[signer].s >= 2^ScalarBits
      BY <2>3, <2>9, <3>2 DEF Width
    <3> QED BY <2>5, <2>9, <3>2, <3>3 DEF Cause, BadUpdate, BadSignature
  <2> QED BY <1>1, <2>3, <2>6, <2>7, <2>8, <2>9 DEF Decomposing, RangeChecks
<1>3. Honest' => Honest
  BY <1>1, StillHonest
<1> QED BY <1>1, <1>2, <1>3, SameCause, FailsForCause

LEMMA ConserveCauses == ASSUME Inv, CauseInv, Conserve PROVE CauseInv'
<1>1. /\ pc = "conservation" /\ RangeCheck(Rise(update.nonce, prev_nonce))
      /\ UNCHANGED <<circuit, instance, params, update, sigs, updates, strayed>>
      /\ pc' = IF Add(update.balance_a, update.balance_b) = circuit.total_deposit
               THEN "increase" ELSE "rejected"
  BY DEF Conserve, Goto, AssertEqual, setup
<1>2. OwnBits'
  BY <1>1, OwnStart DEF RangeCheck
<1>3. CASE pc' = "increase"
  BY <1>1, <1>2, <1>3, Honestly DEF OwnKeys
<1>4. CASE pc' = "rejected"
  <2>1. /\ update.balance_a \in Fr /\ update.balance_b \in Fr
        /\ update.balance_a < Limit /\ update.balance_b < Limit
    BY <1>1, CellFields DEF Inv, Cells, ChecksOK, AfterA, AfterB
  <2>2. update.balance_a + update.balance_b # circuit.total_deposit
    BY <1>1, <1>4, <2>1, SumInRange
  <2>3. Len(updates) < Steps
    BY <1>1 DEF Inv, Cells, Counted, InStep
  <2>4. Cause
    BY <2>2, <2>3 DEF Cause, BadUpdate
  <2> QED BY <1>1, <1>4, <2>4, SameCause, FailsForCause
<1> QED BY <1>1, <1>3, <1>4

LEMMA HashMessageCauses == ASSUME CauseInv, HashMessage PROVE CauseInv'
<1>1. /\ UNCHANGED <<circuit, instance, sigs>> /\ strayed \subseteq strayed' /\ pc' = "signature"
  BY DEF HashMessage, setup
<1>2. "signature" \notin Decomposing
  BY DEF Decomposing, RangeChecks
<1> QED BY <1>1, <1>2, Honestly DEF OwnKeys

LEMMA LoadSignatureCauses ==
  ASSUME Inv, SignInv', CauseInv, LoadSignature PROVE CauseInv'
<1> SUFFICES ASSUME Honest' PROVE CauseOK'
  BY DEF CauseInv
<1>1. PICK sig \in Signatures, ay \in Written("Ay", KeyOf(circuit, signer).y),
           zero \in Written("zero", 0) :
        LET key == KeyOf(circuit, signer)
        IN  /\ sigs' = [p \in DOMAIN sigs \cup {signer} |->
                          IF p = signer THEN [r8 |-> [x |-> sig.r8x, y |-> sig.r8y],
                                              s |-> sig.s, ay |-> ay]
                                        ELSE sigs[p]]
            /\ ToBits(poseidon_hash_circuit(params.t6, zero,
                        <<sig.r8x, sig.r8y, key.x, ay, message>>),
                      ChallengeBits,
                      poseidon_hash(params.t6, <<sig.r8x, sig.r8y, key.x, key.y,
                                                 message_hash_at(circuit, update)>>))
            /\ strayed' = strayed \cup Departs("Ay", ay, key.y) \cup Departs("zero", zero, 0)
  BY DEF LoadSignature
<1>2. /\ pc = "signature" /\ pc' = "challenge"
      /\ UNCHANGED <<circuit, instance, params, update, signer>>
  BY DEF LoadSignature, setup
<1>3. CauseOK
  BY <1>1, <1>2, StillHonest DEF CauseInv
<1>4. ay = KeyOf(circuit, signer).y
  BY <1>1 DEF Honest, Departs
<1>5. params = PoseidonParams
  BY DEF Inv, Cells, CellsOK
<1>6. sigs'[signer] = [r8 |-> [x |-> sig.r8x, y |-> sig.r8y], s |-> sig.s, ay |-> ay]
  BY <1>1
<1>7. OwnKeys'
  BY <1>1, <1>2, <1>3, <1>4 DEF CauseOK, OwnKeys, KeyOf
<1>8. SignaturesOK'
  BY DEF SignInv, AsWritten, Honest
<1>9. word'.value = Challenge(circuit, update, sigs'[signer], signer)
  BY <1>2, <1>8 DEF SignaturesOK
<1>10. word'.hint = Challenge(circuit, update, sigs'[signer], signer)
  BY <1>1, <1>4, <1>5, <1>6 DEF ToBits, Challenge, MessageOf, message_hash_at
<1>11. word'.bits = <<>> /\ le_bits(word'.value, 0) = <<>> /\ Len(<<>>) = 0
  BY <1>1 DEF ToBits, le_bits
<1> QED BY <1>2, <1>7, <1>9, <1>10, <1>11 DEF CauseOK, OwnBits

\* The key a prover claims, doubled three times and multiplied.
LEMMA MultiplyChallengeCauses ==
  ASSUME CurveIsClosed, KeysOnCurve, Inv, SignInv, CauseInv, MultiplyChallenge
  PROVE  CauseInv'
<1> DEFINE a == [x |-> KeyOf(circuit, signer).x, y |-> sigs[signer].ay]
           eight_a == PointDouble(PointDouble(PointDouble(a)))
<1>1. PICK id \in Written("identity", identity) :
        /\ rhs' = PointAdd(sigs[signer].r8, ScalarMulBits(eight_a, word.bits, id))
        /\ strayed' = strayed \cup Departs("identity", id, identity)
                              \cup Departs("challenge", word.bits, le_bits(word.value, word.n))
  BY DEF MultiplyChallenge, RightSide
<1>2. /\ pc = "challenge" /\ BitsComplete
      /\ ToBits(sigs[signer].s, ScalarBits, sigs[signer].s)
      /\ UNCHANGED <<circuit, instance, params, update, signer, sigs, updates>>
  BY DEF MultiplyChallenge, RightSide, Decomposed, setup
<1>3. pc' = IF rhs' # NoPoint THEN "scalar" ELSE "rejected"
  BY DEF MultiplyChallenge, RightSide, Goto
<1>4. strayed \subseteq strayed'
  BY <1>1
<1>5. CASE rhs' # NoPoint
  <2>1. OwnBits'
    BY <1>2, OwnStart
  <2> QED BY <1>2, <1>3, <1>4, <1>5, <2>1, Honestly DEF OwnKeys
<1>6. CASE rhs' = NoPoint
  <2> SUFFICES ASSUME Honest' PROVE Cause
    BY <1>2, <1>3, <1>4, <1>6, SameCause, FailsForCause
  <2>1. Honest /\ CauseOK
    BY <1>2, <1>4, StillHonest DEF CauseInv
  <2>2. SignaturesOK
    BY <2>1 DEF SignInv, AsWritten, Honest
  <2>3. id = identity /\ word.bits = le_bits(word.value, word.n)
    BY <1>1 DEF Honest, Departs
  <2>4. word.n = ChallengeBits /\ word.bits \in Seq({0, 1})
    BY <1>2 DEF Inv, Cells, WordOK, BitsComplete, Binary, Width
  <2>5. /\ CellsOK /\ signer \in DOMAIN sigs /\ signer \in Party /\ circuit \in Circuits
        /\ params = PoseidonParams
    BY <1>2 DEF Inv, Cells, Held, CellsOK, SigsOK
  <2>6. sigs[signer].ay = KeyOf(circuit, signer).y
    BY <2>1, <2>5 DEF CauseOK, OwnKeys
  <2>7. a \in Curve
    <3>1. a = KeyOf(circuit, signer)
      BY <2>6 DEF KeyOf
    <3> QED BY <2>5, <3>1 DEF KeysOnCurve
  <2>8. eight_a = point_double(point_double(point_double(a))) /\ eight_a \in Curve
    <3> HIDE DEF a
    <3>1. \A p \in Curve : PointDouble(p) = point_double(p) /\ PointDouble(p) \in Curve
      BY PointAddAgrees DEF PointDouble, point_double, CurveIsClosed, Curve
    <3> QED BY <2>7, <3>1
  <2>9. PICK q \in Curve : /\ q = ScalarMulBits(eight_a, word.bits, identity)
                           /\ q = scalar_mul_bits(eight_a, word.bits)
    <3> HIDE DEF eight_a
    <3> QED BY <2>4, <2>8, CurveMul
  <2>10. word.bits = le_bits(Challenge(circuit, update, sigs[signer], signer), ChallengeBits)
    BY <1>2, <2>2, <2>3, <2>4 DEF SignaturesOK
  <2>11. rhs' = RightPoint(circuit, update, sigs[signer], signer)
    <3>1. sigs[signer].r8 \in Point /\ q \in Point
      BY <2>5, SignatureFields DEF Curve
    <3>2. PointAdd(sigs[signer].r8, q) = point_add(sigs[signer].r8, q)
      BY <3>1, PointAddAgrees
    <3> QED BY <1>1, <2>3, <2>8, <2>9, <2>10, <3>2 DEF RightPoint, ClaimedKey
  <2>12. ~Verified(circuit, update, sigs[signer], signer)
    BY <1>6, <2>11 DEF Verified
  <2>13. ~CoSigned(circuit, update, sigs[signer], signer, KeyOf(circuit, signer).y)
    BY <2>5, <2>6, <2>12, VerifiedIsCoSigned
  <2>14. Len(updates) < Steps
    BY <1>2 DEF Inv, Cells, Counted, InStep
  <2> QED BY <2>5, <2>13, <2>14 DEF Cause, BadUpdate, BadSignature
<1> QED BY <1>5, <1>6

LEMMA CheckSignatureCauses ==
  ASSUME CurveIsClosed, KeysOnCurve, Inv, SignInv, CauseInv, CheckSignature
  PROVE  CauseInv'
<1>1. PICK id \in Written("identity", identity), b8 \in Written("B8", base8_point) :
        /\ Goto(AssertEqual(ScalarMulBits(b8, word.bits, id), rhs),
                IF signer = "a" THEN "signature" ELSE "carry")
        /\ strayed' = strayed \cup Departs("identity", id, identity)
                              \cup Departs("B8", b8, base8_point)
  BY DEF CheckSignature
<1>2. /\ pc = "scalar" /\ BitsComplete /\ word.acc = word.value
      /\ UNCHANGED <<circuit, instance, params, update, sigs, updates>>
  BY DEF CheckSignature, Decomposed, AssertEqual, setup
<1>3. strayed \subseteq strayed'
  BY <1>1
<1>4. CASE pc' \in {"signature", "carry"}
  <2>1. pc' \notin Decomposing /\ pc' # "rejected"
    BY <1>4 DEF Decomposing, RangeChecks
  <2> QED BY <1>2, <1>3, <2>1, Honestly DEF OwnKeys
<1>5. CASE pc' = "rejected" /\ ScalarMulBits(b8, word.bits, id) # rhs
  <2> SUFFICES ASSUME Honest' PROVE Cause
    BY <1>2, <1>3, <1>5, SameCause, FailsForCause
  <2>1. Honest /\ CauseOK
    BY <1>2, <1>3, StillHonest DEF CauseInv
  <2>2. SignaturesOK
    BY <2>1 DEF SignInv, AsWritten, Honest
  <2>3. id = identity /\ b8 = base8_point
    BY <1>1 DEF Honest, Departs
  <2>4. /\ word.value = sigs[signer].s
        /\ rhs = RightPoint(circuit, update, sigs[signer], signer)
    BY <1>2, <2>2 DEF SignaturesOK
  <2>5. word.bits \in Seq({0, 1}) /\ word.bits = le_bits(sigs[signer].s, ScalarBits)
    <3>1. /\ "scalar" \in Decomposing /\ Width("scalar") = ScalarBits /\ Len(word.bits) = word.n
          /\ word \in Word /\ word.n = Width("scalar") /\ Binary(word)
      BY <1>2 DEF Decomposing, Width, Inv, Cells, CellsOK, WordOK, BitsComplete
    <3> QED BY <1>2, <2>4, <3>1, WordCloses
  <2>6. /\ signer \in DOMAIN sigs /\ params = PoseidonParams
    BY <1>2 DEF Inv, Cells, Held, CellsOK
  <2>7. sigs[signer].ay = KeyOf(circuit, signer).y
    BY <2>1, <2>6 DEF CauseOK, OwnKeys
  <2>8. ScalarMulBits(base8_point, word.bits, identity) = scalar_mul_bits(base8_point, word.bits)
    BY <2>5, CurveMul DEF KeysOnCurve
  <2>9. ~Verified(circuit, update, sigs[signer], signer)
    BY <1>5, <2>3, <2>4, <2>5, <2>8 DEF Verified
  <2>10. ~CoSigned(circuit, update, sigs[signer], signer, KeyOf(circuit, signer).y)
    BY <2>6, <2>7, <2>9, VerifiedIsCoSigned
  <2>11. Len(updates) < Steps
    BY <1>2 DEF Inv, Cells, Counted, InStep
  <2> QED BY <2>6, <2>10, <2>11 DEF Cause, BadUpdate, BadSignature
<1> QED BY <1>1, <1>4, <1>5 DEF Goto, AssertEqual

LEMMA CarryCauses == ASSUME Inv, CauseInv, Carry PROVE CauseInv'
<1>1. /\ pc' \in {"load", "final"} /\ strayed \subseteq strayed'
      /\ UNCHANGED <<circuit, instance, sigs>>
  BY Carried DEF Inv
<1>2. pc' \notin Decomposing /\ pc' # "rejected"
  BY <1>1 DEF Decomposing, RangeChecks
<1> QED BY <1>1, <1>2, Honestly DEF OwnKeys

LEMMA VerifyProofCauses == ASSUME Inv, CauseInv, VerifyProof PROVE CauseInv'
<1>1. /\ pc = "final"
      /\ UNCHANGED <<circuit, instance, params, update, sigs, updates, strayed>>
      /\ pc' = IF /\ prev_nonce = circuit.out_nonce
                  /\ update.balance_a = circuit.final_balance_a
                  /\ update.balance_b = circuit.final_balance_b
               THEN "accepted" ELSE "rejected"
  BY DEF VerifyProof, Goto, AssertEqual, setup
<1>2. CASE pc' = "accepted"
  <2>1. "accepted" \notin Decomposing
    BY DEF Decomposing, RangeChecks
  <2> QED BY <1>1, <1>2, <2>1, Honestly DEF OwnKeys
<1>3. CASE pc' = "rejected"
  <2>1. Len(updates) = Steps
    BY <1>1 DEF Inv, Cells, Counted
  <2>2. prev_nonce = update.nonce
    <3>1. prev_nonce = LastNonce(Steps) /\ update = updates[Steps].update
      BY <1>1, <2>1 DEF Inv, ChainOK
    <3>2. Steps # 0
      BY CircuitAssumption
    <3> QED BY <3>1, <3>2 DEF LastNonce
  <2>3. BadEnd
    BY <1>1, <1>3, <2>2 DEF BadEnd
  <2>4. Cause
    BY <2>1, <2>3 DEF Cause
  <2> QED BY <1>1, <1>3, <2>4, SameCause, FailsForCause
<1> QED BY <1>1, <1>2, <1>3

LEMMA CauseStep ==
  ASSUME CurveIsClosed, KeysOnCurve, Inv, SignInv, SignInv', CauseInv, [Next]_vars
  PROVE  CauseInv'
<1>1. CASE UNCHANGED vars
  <2>1. UNCHANGED <<circuit, instance, params, pc, word, update, sigs, updates, strayed>>
    BY <1>1 DEF vars, setup
  <2> QED BY <2>1, SameCause DEF CauseInv, Honest, CauseOK, OwnBits, OwnKeys
<1> QED BY <1>1, LoadPublicCauses, WitnessBitCauses, BitsRejectedCauses, NextCheckCauses,
           ConserveCauses, HashMessageCauses, LoadSignatureCauses, MultiplyChallengeCauses,
           CheckSignatureCauses, CarryCauses, VerifyProofCauses DEF Next

\* The circuit turns nothing away that it should prove, on a complete curve with the
\* keys and the base point on it: when a prover runs this code on the verifier's
\* inputs, a row of synthesize fails only for a value out of range, a lost deposit, a
\* nonce that does not rise, a signature eddsa_poseidon_verify refuses as well, or a
\* final state that is not the claimed one.
THEOREM RefusesForCause ==
  ASSUME CurveIsClosed, KeysOnCurve
  PROVE  Spec => []RejectedForCause
<1>1. Init => CauseInv
  <2>1. ASSUME Init PROVE CauseOK
    <3>1. pc = "public" /\ DOMAIN sigs = {}
      BY <2>1 DEF Init, NoSignatures
    <3> QED BY <3>1 DEF CauseOK, OwnBits, OwnKeys, Decomposing, RangeChecks
  <2> QED BY <2>1 DEF CauseInv
<1>2. Inv /\ SignInv /\ SignInv' /\ CauseInv /\ [Next]_vars => CauseInv'
  BY CauseStep
<1>3. CauseInv => RejectedForCause
  BY DEF CauseInv, CauseOK, Honest, RejectedForCause, Cause, BadUpdate, BadEnd, BadSignature
<1>4. Init => SignInv
  BY InitSigns
<1>5. Inv => Cells
  BY DEF Inv
<1> QED BY <1>1, <1>2, <1>3, <1>4, <1>5, SignStep, Invariance, PTL DEF Spec
=============================================================================
