------------------------ MODULE BabyJubjubChipProofs ------------------------
(***************************************************************************)
(* What the chips compute, for every prime modulus, every table of         *)
(* constants and every curve: the rows of chip.rs leave a prover no        *)
(* choice, and the hash and the curve arithmetic in the circuit are those  *)
(* outside.                                                                *)
(***************************************************************************)
EXTENDS BabyJubjubChip, FoldProofs, SequenceTheorems, TLAPS

(***************************************************************************)
(* What the rows of chip.rs force, for every prime modulus: each gate has  *)
(* one solution for its output cell, the value the chip assigns, so a      *)
(* prover who departs from the code gains nothing there; and the values    *)
(* the composed methods return.                                            *)
(***************************************************************************)

LEMMA FrClosed ==
  /\ 0 \in Fr /\ 1 \in Fr
  /\ \A a, b \in Fr : Plus(a, b) \in Fr /\ Times(a, b) \in Fr /\ Neg(a) \in Fr
  BY PAssumption DEF Fr, Plus, Times, Neg

LEMMA ModOfMultiple == \A q \in Int, r \in Fr : (q * P + r) % P = r
  BY PAssumption DEF Fr

LEMMA ProductModP ==
  ASSUME NEW a \in Fr, NEW b \in Fr
  PROVE  \E q \in Int : a * b = q * P + ((a * b) % P)
<1>1. PICK u \in Int : u = a * b
  BY PAssumption DEF Fr
<1>2. u = (u \div P) * P + (u % P) /\ u \div P \in Int
  BY PAssumption
<1> QED BY <1>1, <1>2

\* A sum that is zero modulo P with the negation of an element is that element.
LEMMA Cancel ==
  ASSUME NEW a \in Fr, NEW out \in Fr
  PROVE  Plus(a, Neg(out)) = 0 <=> out = a
<1>1. Neg(out) = IF out = 0 THEN 0 ELSE P - out
  BY PAssumption DEF Neg, Fr
<1>2. CASE out = 0
  BY <1>1, <1>2, PAssumption DEF Plus, Fr
<1>3. CASE out # 0
  <2>1. Plus(a, Neg(out)) = (a + (P - out)) % P
    BY <1>1, <1>3 DEF Plus
  <2>2. CASE a < out
    BY <2>1, <2>2, PAssumption DEF Fr
  <2>3. CASE a >= out
    <3>1. /\ a + (P - out) = 1 * P + (a - out)
          /\ a - out \in Fr
      BY <2>3, PAssumption DEF Fr
    <3>2. (1 * P + (a - out)) % P = a - out
      BY <3>1, ModOfMultiple
    <3> QED BY <2>1, <3>1, <3>2 DEF Fr
  <2> QED BY <2>2, <2>3 DEF Fr
<1> QED BY <1>2, <1>3

-----------------------------------------------------------------------------
\* Every row of the five gates has exactly one solution for its output cell:
\* the value the chip's method assigns there (chip.rs, configure and mul to
\* assert_const).
THEOREM GatesDetermineOutput ==
  \A a, b, out \in Fr :
    /\ MulGate(a, b, out) <=> out = Mul(a, b)
    /\ AddGate(a, b, out) <=> out = Add(a, b)
    /\ AddConstGate(a, b, out) <=> out = AddConst(a, b)
    /\ MulConstGate(a, b, out) <=> out = MulConst(a, b)
    /\ AssertConstGate(a, b) <=> b = a
<1> TAKE a, b, out \in Fr
<1>1. Plus(a, b) \in Fr /\ Times(a, b) \in Fr
  BY FrClosed
<1>2. Plus(Times(a, b), Neg(out)) = 0 <=> out = Times(a, b)
  BY <1>1, Cancel
<1>3. Plus(Plus(a, b), Neg(out)) = 0 <=> out = Plus(a, b)
  BY <1>1, Cancel
<1>4. Plus(a, Neg(b)) = 0 <=> b = a
  BY Cancel
<1> QED
  BY <1>2, <1>3, <1>4
  DEF MulGate, AddGate, AddConstGate, MulConstGate, AssertConstGate,
      Mul, Add, AddConst, MulConst

\* A product with minus one is the negation.
LEMMA MinusOne ==
  ASSUME NEW b \in Fr
  PROVE  Times(b, Neg(1)) = Neg(b) /\ Neg(b) = IF b = 0 THEN 0 ELSE P - b
<1>1. Neg(1) = P - 1
  BY PAssumption DEF Neg
<1>2. Neg(b) = IF b = 0 THEN 0 ELSE P - b
  BY PAssumption DEF Neg, Fr
<1>3. CASE b = 0
  BY <1>1, <1>2, <1>3, PAssumption DEF Times
<1>4. CASE b # 0
  <2>1. b * (P - 1) = (b - 1) * P + (P - b) /\ P - b \in Fr
    BY <1>4, PAssumption DEF Fr
  <2>2. ((b - 1) * P + (P - b)) % P = P - b
    BY <2>1, ModOfMultiple DEF Fr
  <2> QED BY <1>1, <1>2, <1>4, <2>1, <2>2 DEF Times
<1> QED BY <1>3, <1>4

\* sub returns the difference modulo P.
LEMMA SubIsDifference ==
  ASSUME NEW a \in Fr, NEW b \in Fr
  PROVE  Sub(a, b) = IF a >= b THEN a - b ELSE P + a - b
<1>1. Times(b, Neg(1)) = IF b = 0 THEN 0 ELSE P - b
  BY MinusOne
<1>2. Sub(a, b) = Plus(a, Times(b, Neg(1)))
  BY DEF Sub, Add, MulConst
<1>3. CASE b = 0
  BY <1>1, <1>2, <1>3, PAssumption DEF Plus, Fr
<1>4. CASE b # 0 /\ a < b
  BY <1>1, <1>2, <1>4, PAssumption DEF Plus, Fr
<1>5. CASE b # 0 /\ a >= b
  <2>1. a + (P - b) = 1 * P + (a - b) /\ a - b \in Fr
    BY <1>5, PAssumption DEF Fr
  <2>2. (1 * P + (a - b)) % P = a - b
    BY <2>1, ModOfMultiple
  <2> QED BY <1>1, <1>2, <1>5, <2>1, <2>2 DEF Plus
<1> QED BY <1>3, <1>4, <1>5 DEF Fr

\* A product of nonzero elements is not zero.
LEMMA NoZeroDivisors ==
  ASSUME NEW a \in Fr, NEW b \in Fr, (a * b) % P = 0
  PROVE  a = 0 \/ b = 0
  BY Primality, PAssumption DEF Fr

\* The row that to_bits emits for each bit, b * b == b, leaves 0 and 1.
THEOREM BooleanRow ==
  \A b \in Fr : Mul(b, b) = b <=> b \in {0, 1}
<1> TAKE b \in Fr
<1>1. ASSUME b \in {0, 1} PROVE Mul(b, b) = b
  BY <1>1, PAssumption DEF Mul, Times, Fr
<1>2. ASSUME Mul(b, b) = b, b # 0 PROVE b = 1
  <2>1. PICK q \in Int : b * b = q * P + b
    BY <1>2, ProductModP DEF Mul, Times
  <2>2. b * (b - 1) = q * P + 0
    BY <2>1, PAssumption DEF Fr
  <2>3. (q * P + 0) % P = 0
    BY ModOfMultiple, FrClosed
  <2>4. (b * (b - 1)) % P = 0 /\ b - 1 \in Fr
    BY <1>2, <2>2, <2>3, PAssumption DEF Fr
  <2>5. b - 1 = 0
    BY <1>2, <2>4, NoZeroDivisors
  <2> QED BY <2>5, PAssumption DEF Fr
<1> QED BY <1>1, <1>2

LEMMA InverseCancels ==
  ASSUME NEW a \in Fr, NEW x \in Fr, NEW y \in Fr,
         Times(a, x) = 1, Times(a, y) = 1, x >= y
  PROVE  x = y
<1>1. PICK q \in Int : a * x = q * P + 1
  BY ProductModP DEF Times
<1>2. PICK r \in Int : a * y = r * P + 1
  BY ProductModP DEF Times
<1>3. a * (x - y) = (q - r) * P + 0
  BY <1>1, <1>2, PAssumption DEF Fr
<1>4. ((q - r) * P + 0) % P = 0
  BY ModOfMultiple, FrClosed
<1>5. (a * (x - y)) % P = 0 /\ x - y \in Fr
  BY <1>3, <1>4, PAssumption DEF Fr
<1>6. a # 0
  BY PAssumption DEF Times, Fr
<1>7. x - y = 0
  BY <1>5, <1>6, NoZeroDivisors
<1> QED BY <1>7, PAssumption DEF Fr

LEMMA InverseRowIs ==
  ASSUME NEW a \in Fr, NEW v \in Fr
  PROVE  InverseRow(a, v) <=> Times(a, v) = 1
BY FrClosed, GatesDetermineOutput DEF InverseRow, AssertConst, Mul

\* The witness of an inversion is the only one its row admits.
THEOREM InverseUnique ==
  \A a, x, y \in Fr : InverseRow(a, x) /\ InverseRow(a, y) => x = y
<1> TAKE a, x, y \in Fr
<1>1. \A v \in Fr : InverseRow(a, v) => Times(a, v) = 1
  BY InverseRowIs
<1>2. x >= y \/ y >= x
  BY PAssumption DEF Fr
<1> QED BY <1>1, <1>2, InverseCancels

\* select takes one alternative or the other (babyjubjub_chip.rs).
THEOREM SelectChooses ==
  \A on, off \in Fr : Select(1, on, off) = on /\ Select(0, on, off) = off
<1> TAKE on, off \in Fr
<1>1. Sub(on, off) \in Fr
  BY FrClosed, PAssumption DEF Sub, Add, MulConst
<1>2. \A d \in Fr : Times(1, d) = d /\ Times(0, d) = 0
  BY PAssumption DEF Times, Fr
<1>3. Plus(off, 0) = off
  BY PAssumption DEF Plus, Fr
<1>4. Plus(off, Sub(on, off)) = on
  <2>1. CASE on >= off
    <3>1. Sub(on, off) = on - off
      BY <2>1, SubIsDifference
    <3> QED BY <2>1, <3>1, PAssumption DEF Plus, Fr
  <2>2. CASE on < off
    <3>1. off + Sub(on, off) = 1 * P + on
      BY <2>2, SubIsDifference, PAssumption DEF Fr
    <3>2. (1 * P + on) % P = on
      BY ModOfMultiple
    <3> QED BY <3>1, <3>2 DEF Plus
  <2> QED BY <2>1, <2>2, PAssumption DEF Fr
<1> QED BY <1>1, <1>2, <1>3, <1>4 DEF Select, Add, Mul

-----------------------------------------------------------------------------
(* The field.                                                              *)

LEMMA ModSplit ==
  ASSUME NEW u \in Int
  PROVE  \E q \in Int, r \in Fr : u = q * P + r /\ r = u % P
<1>1. u = (u \div P) * P + (u % P) /\ u \div P \in Int /\ u % P \in Fr
  BY PAssumption DEF Fr
<1> QED BY <1>1

\* A factor may be reduced before the product is.
LEMMA ModProduct ==
  ASSUME NEW u \in Int, NEW v \in Int
  PROVE  ((u % P) * v) % P = (u * v) % P
<1>1. PICK q \in Int, r \in Fr : u = q * P + r /\ r = u % P
  BY ModSplit
<1>2. r \in Int /\ P \in Int
  BY PAssumption DEF Fr
<1>3. r * v \in Int
  BY <1>2
<1>4. PICK q2 \in Int, r2 \in Fr : r * v = q2 * P + r2 /\ r2 = (r * v) % P
  BY <1>3, ModSplit
<1>5. u * v = (q * v + q2) * P + r2
  <2>1. u * v = q * P * v + r * v
    <3>1. PICK w \in Int : w = q * P
      BY <1>2
    <3>2. u = w + r
      BY <1>1, <3>1
    <3>3. (w + r) * v = w * v + r * v
      BY <1>2
    <3> QED BY <3>1, <3>2, <3>3
  <2>2. q * P * v = q * v * P
    BY <1>2
  <2>3. q * v * P + q2 * P = (q * v + q2) * P
    BY <1>2
  <2>4. r2 \in Int
    BY PAssumption DEF Fr
  <2> QED BY <1>2, <1>4, <2>1, <2>2, <2>3, <2>4
<1>6. PICK m \in Int : m = q * v + q2
  OBVIOUS
<1>7. (m * P + r2) % P = r2
  BY ModOfMultiple
<1> QED BY <1>1, <1>4, <1>5, <1>6, <1>7

LEMMA TimesCommutes ==
  \A a, b \in Fr : Times(a, b) = Times(b, a)
<1> TAKE a, b \in Fr
<1>1. a \in Int /\ b \in Int
  BY PAssumption DEF Fr
<1>2. a * b = b * a
  BY <1>1
<1> QED BY <1>2 DEF Times

LEMMA TimesAssociates ==
  ASSUME NEW a \in Fr, NEW b \in Fr, NEW c \in Fr
  PROVE  Times(Times(a, b), c) = Times(a, Times(b, c))
<1>1. a \in Int /\ b \in Int /\ c \in Int /\ P \in Int
  BY PAssumption DEF Fr
<1>2. a * b \in Int /\ b * c \in Int
  BY <1>1
<1>3. Times(Times(a, b), c) = (a * b * c) % P
  BY <1>1, <1>2, ModProduct DEF Times
<1>4. Times(Times(b, c), a) = (b * c * a) % P
  BY <1>1, <1>2, ModProduct DEF Times
<1>5. a * b * c = b * c * a
  BY <1>1
<1>6. Times(b, c) \in Fr
  BY FrClosed
<1> QED BY <1>3, <1>4, <1>5, <1>6, TimesCommutes

LEMMA PlusCommutes ==
  \A a, b \in Fr : Plus(a, b) = Plus(b, a)
BY PAssumption DEF Plus, Fr

\* A factor that is not zero cancels.
LEMMA TimesCancels ==
  ASSUME NEW a \in Fr \ {0}, NEW x \in Fr, NEW y \in Fr,
         Times(a, x) = Times(a, y), x >= y
  PROVE  x = y
<1>1. PICK q \in Int : a * x = q * P + Times(a, x)
  BY ProductModP DEF Times
<1>2. PICK r \in Int : a * y = r * P + Times(a, y)
  BY ProductModP DEF Times
<1>3. Times(a, x) \in Int
  BY FrClosed, PAssumption DEF Fr
<1>4. a * (x - y) = (q - r) * P + 0
  BY <1>3, <1>1, <1>2, PAssumption DEF Fr
<1>5. ((q - r) * P + 0) % P = 0
  BY ModOfMultiple, FrClosed
<1>6. (a * (x - y)) % P = 0 /\ x - y \in Fr
  BY <1>4, <1>5, PAssumption DEF Fr
<1>7. x - y = 0
  BY <1>6, NoZeroDivisors
<1> QED BY <1>7, PAssumption DEF Fr

\* Every element but zero has an inverse: products with it are distinct, so
\* they are all the elements, one among them.
LEMMA InverseExists ==
  ASSUME NEW a \in Fr \ {0}
  PROVE  \E v \in Fr : Times(a, v) = 1
<1> DEFINE Units == 1..(P - 1)
           f == [v \in Units |-> Times(a, v)]
<1>1. Units \subseteq Fr /\ 1 \in Units /\ Units = Fr \ {0}
  BY PAssumption DEF Fr
<1>2. ASSUME NEW v \in Units PROVE Times(a, v) \in Units
  <2>1. Times(a, v) \in Fr
    BY <1>1, FrClosed
  <2>2. Times(a, v) # 0
    BY <1>1, NoZeroDivisors DEF Times
  <2> QED BY <1>1, <2>1, <2>2
<1>3. f \in [Units -> Units]
  BY <1>2
<1>4. \A x, y \in Units : f[x] = f[y] => x = y
  <2> TAKE x, y \in Units
  <2>1. x \in Fr /\ y \in Fr /\ (x >= y \/ y >= x)
    BY <1>1, PAssumption DEF Fr
  <2>2. f[x] = Times(a, x) /\ f[y] = Times(a, y)
    OBVIOUS
  <2> QED BY <2>1, <2>2, TimesCancels
<1>5. IsFiniteSet(Units)
  BY PAssumption, FS_Interval
<1> HIDE DEF f, Units
<1>6. f \in Injection(Units, Units)
  BY <1>3, <1>4 DEF Injection, IsInjective
<1>7. f \in Surjection(Units, Units)
  BY <1>5, <1>6, FS_Injection
<1>8. PICK v \in Units : f[v] = 1
  BY <1>1, <1>7 DEF Surjection
<1> QED BY <1>1, <1>8 DEF f

-----------------------------------------------------------------------------
(* The curve.                                                              *)

\* The rows of an inversion have a solution for every element but zero, the
\* inverse the program computes.
LEMMA InverseAgrees ==
  ASSUME NEW b \in Fr
  PROVE  /\ Invertible(b) <=> b # 0
         /\ b # 0 => Invert(b) = InverseOf(b) /\ InverseOf(b) \in Fr
<1>1. Invertible(b) <=> \E inv \in Fr : InverseRow(b, inv)
  BY DEF Invertible, Once
<1>2. Invert(b) = CHOOSE inv \in Fr : InverseRow(b, inv)
  BY DEF Invert, Once
<1>3. InverseOf(b) = CHOOSE inv \in Fr : Times(b, inv) = 1
  BY DEF InverseOf, Once
<1>4. \A inv \in Fr : InverseRow(b, inv) <=> Times(b, inv) = 1
  BY InverseRowIs
<1>5. CASE b = 0
  <2>1. \A inv \in Fr : Times(b, inv) = 0
    BY <1>5, PAssumption DEF Times, Fr
  <2> QED BY <1>1, <1>4, <1>5, <2>1
<1>6. CASE b # 0
  <2>1. \E inv \in Fr : Times(b, inv) = 1
    BY <1>6, InverseExists
  <2>2. PICK v : v = Invert(b)
    OBVIOUS
  <2>3. v \in Fr /\ Times(b, v) = 1
    BY <1>2, <1>4, <2>1, <2>2
  <2>4. PICK w : w = InverseOf(b)
    OBVIOUS
  <2>5. w \in Fr /\ Times(b, w) = 1
    BY <1>3, <2>1, <2>4
  <2>6. v = w
    BY <1>4, <2>3, <2>5, InverseUnique
  <2> QED BY <1>1, <1>4, <1>6, <2>1, <2>2, <2>4, <2>5, <2>6
<1> QED BY <1>5, <1>6

LEMMA NoPointIsNone == NoPoint \notin Point
BY PAssumption DEF NoPoint, Point, Fr

\* The rows that add two points leave the sum the program computes, and none
\* where it panics.
LEMMA SumAgrees ==
  ASSUME NEW p1 \in Point, NEW p2 \in Point
  PROVE  SumRows(p1, p2) = Sum(p1, p2) /\ Sum(p1, p2) \in Point \cup {NoPoint}
<1>1. /\ p1.x \in Fr /\ p1.y \in Fr /\ p2.x \in Fr /\ p2.y \in Fr
      /\ a_coeff \in Fr /\ d_coeff \in Fr /\ 1 \in Fr /\ Neg(1) \in Fr
  BY CurveAssumption, FrClosed DEF Point
<1>2. NoPoint \notin {p1, p2}
  BY NoPointIsNone
<1> DEFINE xx == Times(p1.x, p2.x)
           yy == Times(p1.y, p2.y)
           xn == Plus(Times(p1.x, p2.y), Times(p1.y, p2.x))
           dd == Times(Times(d_coeff, xx), yy)
           ax == Times(a_coeff, xx)
           yn == Plus(yy, Neg(ax))
           xd == Plus(1, dd)
           yd == Plus(1, Neg(dd))
<1>3. xx \in Fr /\ yy \in Fr /\ xn \in Fr
  BY <1>1, FrClosed
<1>4. dd \in Fr /\ ax \in Fr /\ Neg(dd) \in Fr /\ Neg(ax) \in Fr
  BY <1>1, <1>3, FrClosed
<1>5. yn \in Fr /\ xd \in Fr /\ yd \in Fr
  BY <1>1, <1>3, <1>4, FrClosed
<1>6. Sum(p1, p2) = IF 0 \in {xd, yd} THEN NoPoint
                    ELSE [x |-> Times(xn, InverseOf(xd)), y |-> Times(yn, InverseOf(yd))]
  BY <1>2 DEF Sum, Quotient
<1>7. Times(Times(xx, yy), d_coeff) = dd
  <2> HIDE DEF xx, yy
  <2>1. Times(Times(xx, yy), d_coeff) = Times(d_coeff, Times(xx, yy))
    BY <1>1, <1>3, FrClosed, TimesCommutes
  <2> QED BY <1>1, <1>3, <2>1, TimesAssociates
<1>8. Times(xx, a_coeff) = ax
  BY <1>1, <1>3, TimesCommutes
<1> HIDE DEF xx, yy, xn, dd, ax
<1>9. Sub(yy, ax) = yn
  BY <1>4, MinusOne DEF Sub, Add, MulConst
<1>10. Plus(dd, 1) = xd
  BY <1>1, <1>4, PlusCommutes
<1>11. Plus(Times(dd, Neg(1)), 1) = yd
  BY <1>1, <1>4, MinusOne, PlusCommutes
<1> HIDE DEF yn, xd, yd
<1>12. SumRows(p1, p2) = IF Invertible(xd) /\ Invertible(yd)
                         THEN [x |-> Times(xn, Invert(xd)), y |-> Times(yn, Invert(yd))]
                         ELSE NoPoint
  BY <1>2, <1>7, <1>8, <1>9, <1>10, <1>11
  DEF SumRows, Div, Mul, Add, MulConst, AddConst, xx, yy, xn
<1>13. CASE 0 \in {xd, yd}
  BY <1>5, <1>6, <1>12, <1>13, InverseAgrees
<1>14. CASE xd # 0 /\ yd # 0
  <2>1. /\ Invertible(xd) /\ Invert(xd) = InverseOf(xd) /\ InverseOf(xd) \in Fr
        /\ Invertible(yd) /\ Invert(yd) = InverseOf(yd) /\ InverseOf(yd) \in Fr
    BY <1>5, <1>14, InverseAgrees
  <2>2. Times(xn, InverseOf(xd)) \in Fr /\ Times(yn, InverseOf(yd)) \in Fr
    BY <1>3, <1>5, <2>1, FrClosed
  <2> QED BY <1>6, <1>12, <1>14, <2>1, <2>2 DEF Point
<1> QED BY <1>13, <1>14

LEMMA PointAddAgrees ==
  ASSUME NEW p1 \in Point \cup {NoPoint}, NEW p2 \in Point \cup {NoPoint}
  PROVE  /\ PointAdd(p1, p2) = point_add(p1, p2)
         /\ point_add(p1, p2) \in Point \cup {NoPoint}
         /\ NoPoint \in {p1, p2} => point_add(p1, p2) = NoPoint
<1>1. PointAdd(p1, p2) = SumRows(p1, p2)
  BY DEF PointAdd, Once
<1>2. point_add(p1, p2) = Sum(p1, p2)
  BY DEF point_add, Once
<1>3. CASE NoPoint \in {p1, p2}
  <2>1. SumRows(p1, p2) = NoPoint
    BY <1>3 DEF SumRows
  <2>2. Sum(p1, p2) = NoPoint
    BY <1>3 DEF Sum
  <2> QED BY <1>1, <1>2, <1>3, <2>1, <2>2
<1>4. CASE p1 \in Point /\ p2 \in Point
  BY <1>1, <1>2, <1>4, SumAgrees, NoPointIsNone
<1> QED BY <1>3, <1>4

-----------------------------------------------------------------------------
(* Multiplication by bits.                                                 *)

Places == Point \cup {NoPoint}
Progress == [acc : Places, base : Places]

ChipTurn(last, bit) ==
  [acc  |-> SelectPoint(bit, PointAdd(last.acc, last.base), last.acc),
   base |-> PointDouble(last.base)]

RefTurn(last, bit) ==
  [acc  |-> IF bit = 1 THEN point_add(last.acc, last.base) ELSE last.acc,
   base |-> point_double(last.base)]

Outcome(end) == IF end.base = NoPoint THEN NoPoint ELSE end.acc

LEMMA SelectPointAgrees ==
  ASSUME NEW bit \in {0, 1}, NEW on \in Places, NEW off \in Places
  PROVE  /\ SelectPoint(bit, on, off) \in Places
         /\ SelectPoint(bit, on, off) # NoPoint =>
              off # NoPoint /\ SelectPoint(bit, on, off) = IF bit = 1 THEN on ELSE off
<1>1. CASE NoPoint \in {on, off}
  BY <1>1 DEF SelectPoint, Places
<1>2. CASE on \in Point /\ off \in Point
  <2>1. /\ on.x \in Fr /\ on.y \in Fr /\ off.x \in Fr /\ off.y \in Fr
        /\ on = [x |-> on.x, y |-> on.y] /\ off = [x |-> off.x, y |-> off.y]
    BY <1>2 DEF Point
  <2>2. /\ Select(bit, on.x, off.x) = IF bit = 1 THEN on.x ELSE off.x
        /\ Select(bit, on.y, off.y) = IF bit = 1 THEN on.y ELSE off.y
    BY <2>1, SelectChooses
  <2>3. SelectPoint(bit, on, off) = IF bit = 1 THEN on ELSE off
    BY <1>2, <2>1, <2>2, NoPointIsNone DEF SelectPoint
  <2> QED BY <1>2, <2>3, NoPointIsNone DEF Places
<1> QED BY <1>1, <1>2 DEF Places

LEMMA TurnsTyped ==
  ASSUME NEW last \in Progress, NEW bit \in {0, 1}
  PROVE  ChipTurn(last, bit) \in Progress /\ RefTurn(last, bit) \in Progress
<1>1. last.acc \in Places /\ last.base \in Places
  BY DEF Progress
<1>2. /\ PointAdd(last.acc, last.base) \in Places /\ PointDouble(last.base) \in Places
      /\ point_add(last.acc, last.base) \in Places /\ point_double(last.base) \in Places
  BY <1>1, PointAddAgrees DEF Places, PointDouble, point_double
<1>3. SelectPoint(bit, PointAdd(last.acc, last.base), last.acc) \in Places
  BY <1>1, <1>2, SelectPointAgrees
<1> QED BY <1>1, <1>2, <1>3 DEF ChipTurn, RefTurn, Progress

ChipRun(p, bits, id, f) ==
  /\ f \in [0..Len(bits) -> Progress]
  /\ f[0] = [acc |-> id, base |-> p]
  /\ \A i \in 1..Len(bits) : f[i] = ChipTurn(f[i - 1], bits[i])

RefRun(p, bits, f) ==
  /\ f \in [0..Len(bits) -> Progress]
  /\ f[0] = [acc |-> identity, base |-> p]
  /\ \A i \in 1..Len(bits) : f[i] = RefTurn(f[i - 1], bits[i])

LEMMA OnceChip ==
  ASSUME NEW last, NEW bit
  PROVE  [acc  |-> Once(LAMBDA added : SelectPoint(bit, added, last.acc),
                        PointAdd(last.acc, last.base)),
          base |-> PointDouble(last.base)] = ChipTurn(last, bit)
BY DEF Once, ChipTurn

\* The run of the multiplication in the circuit, turn by turn.
LEMMA ScalarMulBitsRuns ==
  ASSUME NEW p \in Places, NEW bits \in Seq({0, 1}), NEW id \in Places
  PROVE  \E f : /\ ChipRun(p, bits, id, f)
                /\ ScalarMulBits(p, bits, id) = Outcome(f[Len(bits)])
<1> DEFINE n == Len(bits)
           e == [acc |-> id, base |-> p]
           turn(last, bit) ==
             [acc  |-> Once(LAMBDA added : SelectPoint(bit, added, last.acc),
                            PointAdd(last.acc, last.base)),
              base |-> PointDouble(last.base)]
           next(i, f) == Once(LAMBDA last : turn(last, bits[i]), f[i - 1])
           Eq(f) == f = [i \in 0..n |-> IF i = 0 THEN e ELSE next(i, f)]
           h == CHOOSE f : Eq(f)
           g == [i \in 1..n |-> [s \in Progress |-> ChipTurn(s, bits[i])]]
<1>1. n \in Nat /\ e \in Progress
  BY DEF Progress
<1>2. \A i \in 1..n : bits[i] \in {0, 1}
  OBVIOUS
<1>3. ScalarMulBits(p, bits, id)
        = Once(LAMBDA end : IF end.base = NoPoint THEN NoPoint ELSE end.acc, h[n])
  BY DEF ScalarMulBits
<1>4. ScalarMulBits(p, bits, id) = Outcome(h[n])
  <2> HIDE DEF h
  <2> QED BY <1>3 DEF Once, Outcome
<1>5. \A i, f : next(i, f) = ChipTurn(f[i - 1], bits[i])
  BY OnceChip DEF Once
<1>6. g \in [1..n -> [Progress -> Progress]]
  BY <1>2, TurnsTyped
<1>7. \A i \in 1..n, s \in Progress : g[i][s] = ChipTurn(s, bits[i])
  OBVIOUS
<1>8. Looping(n, Progress, e, g)
  BY <1>1, <1>6 DEF Looping
<1> HIDE DEF g, e, n, next
<1>9. PICK f : Values(n, Progress, e, g, f)
  BY <1>8, LoopExists
<1>10. f \in [0..n -> Progress] /\ f[0] = e /\ \A i \in 1..n : f[i] = g[i][f[i - 1]]
  BY <1>9 DEF Values
<1>11. \A i \in 1..n : i - 1 \in 0..n /\ i \in 0..n /\ i # 0
  BY <1>1
<1>12. \A i \in 0..n : f[i] = IF i = 0 THEN e ELSE next(i, f)
  BY <1>1, <1>5, <1>7, <1>10, <1>11
<1>13. Eq(h)
  <2>1. f = [i \in 0..n |-> f[i]]
    BY <1>10
  <2>2. Eq(f)
    BY <1>12, <2>1
  <2> QED BY <2>2
<1> HIDE DEF h
<1>14. h[0] = e /\ \A i \in 1..n : h[i] = ChipTurn(h[i - 1], bits[i])
  BY <1>1, <1>5, <1>11, <1>13
<1>15. Follows(n, Progress, e, g, h)
  BY <1>7, <1>14 DEF Follows
<1>16. \A i \in 0..n : h[i] \in Progress
  BY <1>15, <1>8, LoopFollowed
<1>17. h \in [0..n -> Progress]
  BY <1>13, <1>16
<1> QED BY <1>4, <1>14, <1>17 DEF ChipRun, e, n

\* The run of the multiplication in the program.
LEMMA scalar_mul_bits_Runs ==
  ASSUME NEW p \in Places, NEW bits \in Seq({0, 1})
  PROVE  \E f : /\ RefRun(p, bits, f)
                /\ scalar_mul_bits(p, bits) = Outcome(f[Len(bits)])
<1> DEFINE n == Len(bits)
           e == [acc |-> identity, base |-> p]
           next(i, f) == Once(LAMBDA last : RefTurn(last, bits[i]), f[i - 1])
           Eq(f) == f = [i \in 0..n |-> IF i = 0 THEN e ELSE next(i, f)]
           h == CHOOSE f : Eq(f)
           g == [i \in 1..n |-> [s \in Progress |-> RefTurn(s, bits[i])]]
<1>1. n \in Nat /\ e \in Progress
  BY FrClosed DEF Progress, Places, identity, Point
<1>2. \A i \in 1..n : bits[i] \in {0, 1}
  OBVIOUS
<1>3. scalar_mul_bits(p, bits)
        = Once(LAMBDA end : IF end.base = NoPoint THEN NoPoint ELSE end.acc, h[n])
  BY DEF scalar_mul_bits, RefTurn
<1>4. scalar_mul_bits(p, bits) = Outcome(h[n])
  <2> HIDE DEF h
  <2> QED BY <1>3 DEF Once, Outcome
<1>5. \A i, f : next(i, f) = RefTurn(f[i - 1], bits[i])
  BY DEF Once
<1>6. g \in [1..n -> [Progress -> Progress]]
  BY <1>2, TurnsTyped
<1>7. \A i \in 1..n, s \in Progress : g[i][s] = RefTurn(s, bits[i])
  OBVIOUS
<1>8. Looping(n, Progress, e, g)
  BY <1>1, <1>6 DEF Looping
<1> HIDE DEF g, e, n, next
<1>9. PICK f : Values(n, Progress, e, g, f)
  BY <1>8, LoopExists
<1>10. f \in [0..n -> Progress] /\ f[0] = e /\ \A i \in 1..n : f[i] = g[i][f[i - 1]]
  BY <1>9 DEF Values
<1>11. \A i \in 1..n : i - 1 \in 0..n /\ i \in 0..n /\ i # 0
  BY <1>1
<1>12. \A i \in 0..n : f[i] = IF i = 0 THEN e ELSE next(i, f)
  BY <1>1, <1>5, <1>7, <1>10, <1>11
<1>13. Eq(h)
  <2>1. f = [i \in 0..n |-> f[i]]
    BY <1>10
  <2>2. Eq(f)
    BY <1>12, <2>1
  <2> QED BY <2>2
<1> HIDE DEF h
<1>14. h[0] = e /\ \A i \in 1..n : h[i] = RefTurn(h[i - 1], bits[i])
  BY <1>1, <1>5, <1>11, <1>13
<1>15. Follows(n, Progress, e, g, h)
  BY <1>7, <1>14 DEF Follows
<1>16. \A i \in 0..n : h[i] \in Progress
  BY <1>8, <1>15, LoopFollowed
<1>17. h \in [0..n -> Progress]
  BY <1>13, <1>16
<1> QED BY <1>4, <1>14, <1>17 DEF RefRun, e, n

\* Whenever the circuit has a product it is the product the program computes: a
\* sum that is formed and not taken can only cost the proof.
THEOREM ScalarMulAgrees ==
  ASSUME NEW p \in Places, NEW bits \in Seq({0, 1}),
         ScalarMulBits(p, bits, identity) # NoPoint
  PROVE  /\ ScalarMulBits(p, bits, identity) = scalar_mul_bits(p, bits)
         /\ ScalarMulBits(p, bits, identity) \in Point
<1>1. identity \in Places
  BY FrClosed DEF Places, identity, Point
<1>2. PICK f : /\ ChipRun(p, bits, identity, f)
               /\ ScalarMulBits(p, bits, identity) = Outcome(f[Len(bits)])
  BY <1>1, ScalarMulBitsRuns
<1>3. PICK h : /\ RefRun(p, bits, h)
               /\ scalar_mul_bits(p, bits) = Outcome(h[Len(bits)])
  BY scalar_mul_bits_Runs
<1> DEFINE Good == {i \in 0..Len(bits) : f[i].base = h[i].base
                                         /\ (f[i].acc # NoPoint => f[i].acc = h[i].acc)}
<1>4. Len(bits) \in Nat
  OBVIOUS
<1>5. 0 \in Good
  BY <1>2, <1>3, <1>4 DEF ChipRun, RefRun
<1>6. ASSUME NEW i \in 1..Len(bits), i - 1 \in Good
      PROVE  i \in Good
  <2>1. i - 1 \in 0..Len(bits) /\ i \in 0..Len(bits) /\ bits[i] \in {0, 1}
    BY <1>4
  <2>2. PICK bit \in {0, 1} : bit = bits[i]
    BY <2>1
  <2>3. PICK c \in Progress : c = f[i - 1]
    BY <1>2, <2>1 DEF ChipRun
  <2>4. PICK r \in Progress : r = h[i - 1]
    BY <1>3, <2>1 DEF RefRun
  <2>5. c.base = r.base /\ (c.acc # NoPoint => c.acc = r.acc)
    BY <1>6, <2>3, <2>4
  <2>6. f[i] = ChipTurn(c, bit) /\ h[i] = RefTurn(r, bit)
    BY <1>2, <1>3, <2>2, <2>3, <2>4 DEF ChipRun, RefRun
  <2>7. /\ c.acc \in Places /\ c.base \in Places
        /\ PointAdd(c.acc, c.base) = point_add(c.acc, c.base)
        /\ PointAdd(c.acc, c.base) \in Places
        /\ PointDouble(c.base) = point_double(r.base)
    <3>1. c.acc \in Places /\ c.base \in Places
      BY DEF Progress
    <3>2. /\ PointAdd(c.acc, c.base) = point_add(c.acc, c.base)
          /\ PointAdd(c.acc, c.base) \in Places
          /\ PointAdd(c.base, c.base) = point_add(c.base, c.base)
      BY <3>1, PointAddAgrees DEF Places
    <3> QED BY <2>5, <3>1, <3>2 DEF PointDouble, point_double
  <2>8. f[i].acc = SelectPoint(bit, PointAdd(c.acc, c.base), c.acc) /\ f[i].base = h[i].base
    BY <2>6, <2>7 DEF ChipTurn, RefTurn
  <2>9. ASSUME f[i].acc # NoPoint PROVE f[i].acc = h[i].acc
    <3>1. /\ c.acc # NoPoint
          /\ f[i].acc = IF bit = 1 THEN PointAdd(c.acc, c.base) ELSE c.acc
      BY <2>7, <2>8, <2>9, SelectPointAgrees
    <3>2. h[i].acc = IF bit = 1 THEN point_add(r.acc, r.base) ELSE r.acc
      BY <2>6 DEF RefTurn
    <3> QED BY <2>5, <2>7, <3>1, <3>2
  <2> QED BY <2>1, <2>8, <2>9
<1> HIDE DEF Good
<1>7. Len(bits) \in Good
  <2>1. \A i \in 0..Len(bits) : i \in Good
    BY <1>4, <1>5, <1>6, TurnInduction
  <2> QED BY <1>4, <2>1
<1>8. f[Len(bits)].acc \in Places
  BY <1>2, <1>4 DEF ChipRun, Progress
<1> QED BY <1>2, <1>3, <1>7, <1>8 DEF Good, Outcome, Places

-----------------------------------------------------------------------------
(* Numbers from their digits, the least significant first.                 *)

DigitTable(digits, b, t) ==
  t = [s \in SUBSET (DOMAIN digits) |->
         IF s = {} THEN 0 ELSE digits[Min(s)] + b * t[s \ {Min(s)}]]

\* Horner's rule: turn k takes digit Len(digits) + 1 - k.
Horner(digits, b) ==
  [k \in 1..Len(digits) |-> [v \in Nat |-> digits[Len(digits) + 1 - k] + b * v]]

Value(digits, b) == Loop(Horner(digits, b), 0, Len(digits))

LEMMA HornerLoops ==
  ASSUME NEW digits \in Seq(Nat), NEW b \in Nat
  PROVE  /\ Looping(Len(digits), Nat, 0, Horner(digits, b))
         /\ \A k \in 1..Len(digits), v \in Nat :
              Horner(digits, b)[k][v] = digits[Len(digits) + 1 - k] + b * v
<1> DEFINE n == Len(digits)
           g == Horner(digits, b)
<1>1. n \in Nat /\ \A k \in 1..n : digits[n + 1 - k] \in Nat
  OBVIOUS
<1>2. \A v \in Nat : b * v \in Nat
  OBVIOUS
<1>3. \A k \in 1..n, v \in Nat : digits[n + 1 - k] + b * v \in Nat
  <2> HIDE DEF n
  <2> TAKE k \in 1..n, v \in Nat
  <2>1. PICK d \in Nat : d = digits[n + 1 - k]
    BY <1>1
  <2>2. PICK w \in Nat : w = b * v
    BY <1>2
  <2>3. d + w \in Nat
    OBVIOUS
  <2> QED BY ONLY <2>1, <2>2, <2>3
<1>4. \A k \in 1..n, v \in Nat : g[k][v] = digits[n + 1 - k] + b * v
  BY DEF Horner
<1>5. g \in [1..n -> [Nat -> Nat]]
  BY <1>3 DEF Horner
<1> QED BY <1>1, <1>4, <1>5 DEF Looping

\* What FoldRight computes from a sequence of digits.
LEMMA DigitTableIsValue ==
  ASSUME NEW digits \in Seq(Nat), NEW b \in Nat
  PROVE  /\ \E t : DigitTable(digits, b, t)
         /\ \A t : DigitTable(digits, b, t) => t[DOMAIN digits] = Value(digits, b)
         /\ Value(digits, b) \in Nat
<1> DEFINE n == Len(digits)
           g == Horner(digits, b)
<1>1. n \in Nat /\ DOMAIN digits = 1..n /\ n \in 0..n
  OBVIOUS
<1>2. Looping(n, Nat, 0, g)
  BY HornerLoops
<1>3. \A k \in 1..n, v \in Nat : g[k][v] = digits[n + 1 - k] + b * v
  BY HornerLoops
<1>4. \A s \in SUBSET (1..n) : s # {} => Min(s) \in 1..n /\ n + 1 - Min(s) \in 1..n
                                          /\ n + 1 - (n + 1 - Min(s)) = Min(s)
  <2> HIDE DEF n
  <2> TAKE s \in SUBSET (1..n)
  <2> HAVE s # {}
  <2>1. Min(s) \in 1..n
    BY <1>1, Extremes
  <2> QED BY <1>1, <2>1
<1> HIDE DEF n, g
<1>5. ASSUME NEW s \in SUBSET (1..n), s # {}, NEW v \in Nat
      PROVE  g[n + 1 - Min(s)][v] = digits[Min(s)] + b * v
  BY <1>3, <1>4, <1>5
<1>6. \E t : DigitTable(digits, b, t)
  <2>1. PICK t : FromRight(n, Nat, 0, g, t)
    BY <1>2, RightTable
  <2>2. \A s \in SUBSET (1..n) :
           t[s] = IF s = {} THEN 0 ELSE digits[Min(s)] + b * t[s \ {Min(s)}]
    BY <1>5, <2>1 DEF FromRight
  <2>3. DigitTable(digits, b, t)
    BY <1>1, <2>1, <2>2 DEF DigitTable, FromRight
  <2> QED BY <2>3
<1>7. ASSUME NEW t, DigitTable(digits, b, t)
      PROVE  t[1..n] = Loop(g, 0, n)
  <2>1. \A s \in SUBSET (1..n) :
           t[s] = IF s = {} THEN 0 ELSE digits[Min(s)] + b * t[s \ {Min(s)}]
    BY <1>1, <1>7 DEF DigitTable
  <2>2. FoldsRight(n, Nat, 0, g, t)
    BY <1>5, <2>1 DEF FoldsRight
  <2> QED BY <1>2, <2>2, RightFold
<1>8. Loop(g, 0, n) \in Nat
  BY <1>1, <1>2, LoopType
<1> QED BY <1>1, <1>6, <1>7, <1>8 DEF Value, g, n

\* A digit added at the end, worth w[Len(digits)].
LEMMA ValueAppend ==
  ASSUME NEW digits \in Seq(Nat), NEW b \in Nat, NEW d \in Nat,
         NEW w \in [0..Len(digits) -> Nat], w[0] = 1,
         \A k \in 1..Len(digits) : w[k] = b * w[k - 1]
  PROVE  Value(Append(digits, d), b) = Value(digits, b) + w[Len(digits)] * d
<1> DEFINE n == Len(digits)
           more == Append(digits, d)
           g == Horner(digits, b)
           h == Horner(more, b)
           Good == {k \in 0..n : Loop(h, 0, k + 1) = Loop(g, 0, k) + w[k] * d}
<1>1. /\ n \in Nat /\ more \in Seq(Nat) /\ Len(more) = n + 1
      /\ more[n + 1] = d /\ \A i \in 1..n : more[i] = digits[i]
  OBVIOUS
<1>2. /\ Looping(n, Nat, 0, g) /\ Looping(n + 1, Nat, 0, h)
      /\ \A k \in 1..n, v \in Nat : g[k][v] = digits[n + 1 - k] + b * v
      /\ \A k \in 1..(n + 1), v \in Nat : h[k][v] = more[n + 2 - k] + b * v
  <2>1. Looping(n, Nat, 0, g) /\ \A k \in 1..n, v \in Nat : g[k][v] = digits[n + 1 - k] + b * v
    BY HornerLoops
  <2> HIDE DEF more
  <2>2. Looping(Len(more), Nat, 0, h)
    BY <1>1, HornerLoops
  <2>3. \A k \in 1..Len(more), v \in Nat : h[k][v] = more[Len(more) + 1 - k] + b * v
    BY <1>1, HornerLoops
  <2>4. \A k \in 1..(n + 1) : Len(more) + 1 - k = n + 2 - k
    BY <1>1
  <2> HIDE DEF g, h, n
  <2>5. \A k \in 1..(n + 1), v \in Nat : h[k][v] = more[n + 2 - k] + b * v
    BY <1>1, <2>3, <2>4
  <2> QED BY <1>1, <2>1, <2>2, <2>5
<1> HIDE DEF g, h, n, more
<1>3. 0 \in Good
  <2>1. Loop(h, 0, 1) = h[1][0]
    <3>1. 1 \in Nat \ {0} /\ 1 - 1 = 0
      OBVIOUS
    <3>2. Loop(h, 0, 1) = h[1][Loop(h, 0, 1 - 1)] /\ Loop(h, 0, 0) = 0
      BY <3>1, LoopNext, LoopTurns
    <3> QED BY <3>1, <3>2
  <2>2. Loop(g, 0, 0) = 0
    BY LoopTurns
  <2>3. 1 \in 1..(n + 1) /\ n + 2 - 1 = n + 1
    BY <1>1
  <2>4. h[1][0] = d + b * 0
    BY <1>1, <1>2, <2>3
  <2> QED BY <1>1, <2>1, <2>2, <2>4
<1>4. ASSUME NEW k \in 1..n, k - 1 \in Good
      PROVE  k \in Good
  <2>1. /\ k \in Nat \ {0} /\ k + 1 \in Nat \ {0} /\ k \in 0..n /\ k - 1 \in 0..n
        /\ k \in 1..(n + 1) /\ k + 1 \in 1..(n + 1) /\ k \in 0..(n + 1)
        /\ (k + 1) - 1 = k /\ (k - 1) + 1 = k
        /\ n + 2 - (k + 1) = n + 1 - k /\ n + 1 - k \in 1..n
    BY <1>1
  <2>2. PICK u \in Nat : u = Loop(g, 0, k - 1)
    BY <1>2, <2>1, LoopType
  <2>3. PICK v \in Nat : v = Loop(h, 0, k)
    BY <1>2, <2>1, LoopType
  <2>4. PICK x \in Nat : x = w[k - 1]
    BY <2>1 DEF n
  <2>5. v = u + x * d /\ w[k] = b * x
    BY <1>4, <2>1, <2>2, <2>3, <2>4 DEF n
  <2>6. PICK e \in Nat : e = digits[n + 1 - k]
    BY <2>1 DEF n
  <2>7. Loop(g, 0, k) = e + b * u
    <3>1. Loop(g, 0, k) = g[k][u]
      BY <2>1, <2>2, LoopNext
    <3> QED BY <1>2, <2>1, <2>6, <3>1
  <2>8. Loop(h, 0, k + 1) = e + b * v
    <3>1. Loop(h, 0, k + 1) = h[k + 1][Loop(h, 0, (k + 1) - 1)]
      BY <2>1, LoopNext
    <3>2. Loop(h, 0, k + 1) = h[k + 1][v]
      BY <2>1, <2>3, <3>1
    <3>4. h[k + 1][v] = more[n + 2 - (k + 1)] + b * v
      BY <1>2, <2>1
    <3>3. h[k + 1][v] = more[n + 1 - k] + b * v
      BY <2>1, <3>4
    <3> QED BY <1>1, <2>1, <2>6, <3>2, <3>3
  <2>9. b * (u + x * d) = b * u + b * x * d
    OBVIOUS
  <2>10. PICK y \in Nat : y = b * u
    OBVIOUS
  <2>11. PICK z \in Nat : z = b * x * d
    OBVIOUS
  <2>12. Loop(h, 0, k + 1) = Loop(g, 0, k) + w[k] * d
    BY <2>5, <2>7, <2>8, <2>9, <2>10, <2>11
  <2> QED BY <2>1, <2>12
<1> HIDE DEF Good
<1>5. \A k \in 0..n : k \in Good
  BY <1>1, <1>3, <1>4, TurnInduction
<1>6. n \in Good
  BY <1>1, <1>5
<1> QED BY <1>1, <1>6 DEF Good, Value, g, h, n, more

LEMMA FromReprIsValue ==
  ASSUME NEW bytes \in Seq(Nat)
  PROVE  FromRepr(bytes) = Value(bytes, 256) /\ FromRepr(bytes) \in Nat
<1> DEFINE t == CHOOSE t : DigitTable(bytes, 256, t)
<1>1. FromRepr(bytes) = t[DOMAIN bytes]
  BY DEF FromRepr, FoldRight, MapThenFoldSet, DigitTable
<1>2. 256 \in Nat
  OBVIOUS
<1>3. DigitTable(bytes, 256, t)
  BY <1>2, DigitTableIsValue
<1> HIDE DEF t
<1> QED BY <1>1, <1>2, <1>3, DigitTableIsValue

-----------------------------------------------------------------------------
(* The constants of the tables.                                            *)

Evened(hex) == IF Len(hex) % 2 = 1 THEN <<0>> \o hex ELSE hex
Pairs(hex) == Len(Evened(hex)) \div 2
Bytes(hex) == [i \in 1..Pairs(hex) |-> 16 * Evened(hex)[2 * i - 1] + Evened(hex)[2 * i]]
Padded(hex) == [i \in 1..(WordBytes - Pairs(hex)) |-> 0] \o Bytes(hex)

LEMMA EvenedHex ==
  ASSUME NEW hex \in HexString, Len(hex) <= 2 * WordBytes
  PROVE  /\ Evened(hex) \in HexString
         /\ Pairs(hex) \in 0..WordBytes /\ Len(Evened(hex)) = 2 * Pairs(hex)
<1>1. Len(hex) \in Nat /\ hex \in Seq(0..15) /\ <<0>> \in Seq(0..15) /\ Len(<<0>>) = 1
  BY DEF HexString
<1>2. <<0>> \o hex \in Seq(0..15) /\ Len(<<0>> \o hex) = 1 + Len(hex)
  BY <1>1, ConcatProperties
<1>3. Evened(hex) \in HexString
  BY <1>1, <1>2 DEF Evened, HexString
<1>4. PICK n \in Nat : n = Len(hex)
  BY <1>1
<1>5. PICK m \in Nat : m = Len(Evened(hex))
  BY <1>3 DEF HexString
<1>6. m = IF n % 2 = 1 THEN n + 1 ELSE n
  BY <1>2, <1>4, <1>5 DEF Evened
<1>7. PICK q \in Nat : n = 2 * q + (n % 2) /\ n % 2 \in {0, 1}
  <2>1. n = 2 * (n \div 2) + (n % 2) /\ n \div 2 \in Nat /\ n % 2 \in {0, 1}
    OBVIOUS
  <2> QED BY <2>1
<1>8. PICK h \in 0..WordBytes : m = 2 * h
  <2>1. n <= 2 * WordBytes /\ WordBytes \in Nat
    BY <1>4, WordAssumption
  <2>2. CASE n % 2 = 1
    <3>1. m = 2 * (q + 1) /\ q + 1 \in 0..WordBytes
      BY <1>6, <1>7, <2>1, <2>2
    <3> QED BY <3>1
  <2>3. CASE n % 2 = 0
    <3>1. m = 2 * q /\ q \in 0..WordBytes
      BY <1>6, <1>7, <2>1, <2>3
    <3> QED BY <3>1
  <2> QED BY <1>7, <2>2, <2>3
<1>9. m \div 2 = h
  BY <1>8, WordAssumption
<1> QED BY <1>3, <1>5, <1>8, <1>9 DEF Pairs

LEMMA PaddedBytes ==
  ASSUME NEW hex \in HexString, Len(hex) <= 2 * WordBytes
  PROVE  /\ Padded(hex) \in Seq(Nat) /\ Len(Padded(hex)) = WordBytes
         /\ \A i \in 1..WordBytes :
              Padded(hex)[i] = IF i <= WordBytes - Pairs(hex) THEN 0
                               ELSE 16 * Evened(hex)[2 * (i - (WordBytes - Pairs(hex))) - 1]
                                      + Evened(hex)[2 * (i - (WordBytes - Pairs(hex)))]
<1> DEFINE n == Pairs(hex)
           z == WordBytes - n
           zeros == [i \in 1..z |-> 0]
           bytes == Bytes(hex)
<1>1. /\ n \in Nat /\ z \in Nat /\ z + n = WordBytes
      /\ Evened(hex) \in Seq(0..15) /\ Len(Evened(hex)) = 2 * n
  BY EvenedHex, WordAssumption DEF HexString
<1>2. zeros \in Seq(Nat) /\ Len(zeros) = z /\ \A i \in 1..z : zeros[i] = 0
  BY <1>1
<1>3. \A i \in 1..n : 16 * Evened(hex)[2 * i - 1] + Evened(hex)[2 * i] \in Nat
  <2> HIDE DEF n
  <2> TAKE i \in 1..n
  <2>1. 2 * i - 1 \in 1..(2 * n) /\ 2 * i \in 1..(2 * n)
    BY <1>1
  <2>2. \A j \in 1..(2 * n) : Evened(hex)[j] \in 0..15
    BY <1>1, ElementOfSeq
  <2>3. PICK u \in 0..15 : u = Evened(hex)[2 * i - 1]
    BY <2>1, <2>2
  <2>4. PICK v \in 0..15 : v = Evened(hex)[2 * i]
    BY <2>1, <2>2
  <2>5. 16 * u + v \in Nat
    OBVIOUS
  <2> QED BY <2>3, <2>4, <2>5
<1>4. bytes \in Seq(Nat) /\ Len(bytes) = n
      /\ \A i \in 1..n : bytes[i] = 16 * Evened(hex)[2 * i - 1] + Evened(hex)[2 * i]
  <2> DEFINE byte(i) == 16 * Evened(hex)[2 * i - 1] + Evened(hex)[2 * i]
  <2>1. bytes = [i \in 1..n |-> byte(i)]
    BY DEF Bytes
  <2>2. \A i \in 1..n : byte(i) \in Nat
    BY <1>3
  <2> HIDE DEF byte, n, bytes
  <2>3. bytes \in Seq(Nat) /\ Len(bytes) = n /\ \A i \in 1..n : bytes[i] = byte(i)
    BY <1>1, <2>1, <2>2
  <2> QED BY <2>3 DEF byte
<1> HIDE DEF n, z, zeros, bytes
<1>5. /\ zeros \o bytes \in Seq(Nat) /\ Len(zeros \o bytes) = z + n
      /\ \A i \in 1..(z + n) : (zeros \o bytes)[i] = IF i <= z THEN zeros[i] ELSE bytes[i - z]
  BY <1>2, <1>4, ConcatProperties
<1>6. Padded(hex) = zeros \o bytes
  BY DEF Padded, zeros, bytes, z, n
<1>7. ASSUME NEW i \in 1..WordBytes
      PROVE  Padded(hex)[i] = IF i <= z THEN 0
                              ELSE 16 * Evened(hex)[2 * (i - z) - 1] + Evened(hex)[2 * (i - z)]
  <2>1. i \in 1..(z + n)
    BY <1>1
  <2>2. CASE i <= z
    <3>1. i \in 1..z
      BY <1>1, <2>2
    <3> QED BY <1>2, <1>5, <1>6, <2>1, <2>2, <3>1
  <2>3. CASE ~(i <= z)
    <3>1. i - z \in 1..n
      BY <1>1, <2>1, <2>3
    <3> QED BY <1>4, <1>5, <1>6, <2>1, <2>3, <3>1
  <2> QED BY <2>2, <2>3
<1> QED BY <1>1, <1>5, <1>6, <1>7 DEF z, n

\* The word is the padded bytes turned round, so the first byte is the last
\* turn of Horner's rule.
LEMMA WordTurned ==
  ASSUME NEW hex \in HexString, Len(hex) <= 2 * WordBytes
  PROVE  /\ HexToLeBytes(hex) \in Seq(Nat) /\ Len(HexToLeBytes(hex)) = WordBytes
         /\ \A i \in 1..WordBytes : HexToLeBytes(hex)[WordBytes + 1 - i] = Padded(hex)[i]
<1> DEFINE s == Padded(hex)
<1>1. s \in Seq(Nat) /\ Len(s) = WordBytes /\ WordBytes \in Nat
  BY PaddedBytes, WordAssumption
<1>2. HexToLeBytes(hex) = [i \in 1..WordBytes |-> s[(WordBytes - i) + 1]]
  <2>1. HexToLeBytes(hex) = Reverse(s)
    BY DEF HexToLeBytes, Padded, Bytes, Pairs, Evened
  <2> QED BY <1>1, <2>1 DEF Reverse
<1> HIDE DEF s
<1>3. \A i \in 1..WordBytes : (WordBytes - i) + 1 \in 1..WordBytes /\ WordBytes + 1 - i \in 1..WordBytes
                              /\ (WordBytes - (WordBytes + 1 - i)) + 1 = i
  BY <1>1
<1>4. \A i \in 1..WordBytes : s[(WordBytes - i) + 1] \in Nat
  BY <1>1, <1>3
<1>5. HexToLeBytes(hex) \in Seq(Nat) /\ Len(HexToLeBytes(hex)) = WordBytes
  BY <1>1, <1>2, <1>4
<1>6. ASSUME NEW i \in 1..WordBytes
      PROVE  HexToLeBytes(hex)[WordBytes + 1 - i] = s[i]
  <2>1. PICK j \in 1..WordBytes : j = WordBytes + 1 - i /\ (WordBytes - j) + 1 = i
    BY <1>3
  <2>2. HexToLeBytes(hex)[j] = s[(WordBytes - j) + 1]
    BY <1>2
  <2> QED BY <2>1, <2>2
<1> QED BY <1>5, <1>6 DEF s

LEMMA ConstantType ==
  ASSUME NEW hex, ValidConstant(hex)
  PROVE  fr_from_str(hex) \in Fr
<1>1. HexToLeBytes(hex) \in Seq(Nat)
  BY WordTurned DEF ValidConstant
<1> QED BY <1>1, FromReprIsValue, PAssumption DEF fr_from_str, ValidConstant, Fr

\* The number hex digits spell, the most significant first.
Spelling(hex) == [k \in 1..Len(hex) |-> [v \in Nat |-> 16 * v + hex[k]]]

LEMMA SpellingLoops ==
  ASSUME NEW hex \in HexString
  PROVE  /\ Looping(Len(hex), Nat, 0, Spelling(hex))
         /\ \A k \in 1..Len(hex), v \in Nat : Spelling(hex)[k][v] = 16 * v + hex[k]
<1>1. Len(hex) \in Nat /\ \A k \in 1..Len(hex) : hex[k] \in 0..15
  BY DEF HexString
<1>2. \A k \in 1..Len(hex), v \in Nat : 16 * v + hex[k] \in Nat
  <2> TAKE k \in 1..Len(hex), v \in Nat
  <2>1. PICK d \in 0..15 : d = hex[k]
    BY <1>1
  <2>2. 16 * v + d \in Nat
    OBVIOUS
  <2> QED BY ONLY <2>1, <2>2
<1>3. Spelling(hex) \in [1..Len(hex) -> [Nat -> Nat]]
  BY <1>2 DEF Spelling
<1> QED BY <1>1, <1>3 DEF Looping, Spelling

\* A leading zero spells nothing.
LEMMA EvenedSpelling ==
  ASSUME NEW hex \in HexString, Len(hex) <= 2 * WordBytes
  PROVE  Loop(Spelling(Evened(hex)), 0, 2 * Pairs(hex)) = Loop(Spelling(hex), 0, Len(hex))
<1> DEFINE n == Len(hex)
           e == Evened(hex)
           g == Spelling(hex)
           h == Spelling(e)
<1>1. n \in Nat /\ Len(e) = 2 * Pairs(hex) /\ e \in HexString
  BY EvenedHex DEF HexString
<1>2. CASE n % 2 # 1
  BY <1>1, <1>2 DEF Evened
<1>3. CASE n % 2 = 1
  <2>1. /\ Len(e) = n + 1 /\ e[1] = 0
        /\ \A k \in 1..n : e[k + 1] = hex[k]
    <3>1. e = <<0>> \o hex /\ hex \in Seq(0..15) /\ <<0>> \in Seq(0..15)
      BY <1>3 DEF Evened, HexString
    <3>2. Len(<<0>>) = 1 /\ <<0>>[1] = 0
      OBVIOUS
    <3> HIDE DEF e
    <3>3. /\ Len(e) = 1 + n
          /\ \A i \in 1..(1 + n) : e[i] = IF i <= 1 THEN <<0>>[i] ELSE hex[i - 1]
      BY <3>1, <3>2, ConcatProperties
    <3>4. 1 \in 1..(1 + n) /\ 1 <= 1 /\ n + 1 = 1 + n
      BY <1>1
    <3>5. ASSUME NEW k \in 1..n PROVE e[k + 1] = hex[k]
      <4>1. PICK j \in 1..(1 + n) : j = k + 1 /\ ~(j <= 1) /\ j - 1 = k
        BY <1>1
      <4> QED BY <3>3, <4>1
    <3> QED BY <3>2, <3>3, <3>4, <3>5
  <2> HIDE DEF e
  <2>2. \A k \in 1..(n + 1), v \in Nat : h[k][v] = 16 * v + e[k]
    BY <1>1, <2>1, SpellingLoops
  <2>3. Looping(n, Nat, 0, g) /\ \A k \in 1..n, v \in Nat : g[k][v] = 16 * v + hex[k]
    BY SpellingLoops
  <2> DEFINE Good == {k \in 0..n : Loop(h, 0, k + 1) = Loop(g, 0, k)}
  <2> HIDE DEF n, g, h
  <2>4. 0 \in Good
    <3>1. 1 \in Nat \ {0} /\ 1 - 1 = 0 /\ 1 \in 1..(n + 1) /\ 0 \in Nat /\ 0 + 1 = 1
      BY <1>1
    <3>2. Loop(h, 0, 1) = h[1][Loop(h, 0, 1 - 1)] /\ Loop(h, 0, 0) = 0 /\ Loop(g, 0, 0) = 0
      BY <3>1, LoopNext, LoopTurns
    <3>3. Loop(h, 0, 1) = h[1][0]
      BY <3>1, <3>2
    <3>4. h[1][0] = 16 * 0 + 0
      BY <2>1, <2>2, <3>1
    <3> QED BY <1>1, <3>1, <3>2, <3>3, <3>4
  <2>5. ASSUME NEW k \in 1..n, k - 1 \in Good
        PROVE  k \in Good
    <3>1. /\ k \in Nat \ {0} /\ k + 1 \in Nat \ {0} /\ k \in 0..n /\ k - 1 \in 0..n
          /\ k + 1 \in 1..(n + 1) /\ (k + 1) - 1 = k /\ (k - 1) + 1 = k
      BY <1>1
    <3>2. PICK u \in Nat : u = Loop(g, 0, k - 1)
      BY <2>3, <3>1, LoopType
    <3>3. Loop(h, 0, k) = u
      BY <2>5, <3>1, <3>2
    <3>4. Loop(g, 0, k) = 16 * u + hex[k]
      <4>1. Loop(g, 0, k) = g[k][u]
        BY <3>1, <3>2, LoopNext
      <4> QED BY <2>3, <4>1
    <3>5. Loop(h, 0, k + 1) = 16 * u + hex[k]
      <4>1. Loop(h, 0, k + 1) = h[k + 1][Loop(h, 0, (k + 1) - 1)]
        BY <3>1, LoopNext
      <4>2. Loop(h, 0, k + 1) = h[k + 1][u]
        BY <3>1, <3>3, <4>1
      <4>3. h[k + 1][u] = 16 * u + e[k + 1]
        BY <2>2, <3>1
      <4> QED BY <2>1, <4>2, <4>3
    <3> QED BY <3>1, <3>4, <3>5
  <2> HIDE DEF Good
  <2>6. \A k \in 0..n : k \in Good
    BY <1>1, <2>4, <2>5, TurnInduction
  <2>7. n \in Good
    BY <1>1, <2>6
  <2>8. n + 1 = 2 * Pairs(hex)
    BY <1>1, <2>1
  <2> QED BY <2>7, <2>8 DEF Good, n, g, h, e
<1> QED BY <1>2, <1>3

\* However the digits are padded, paired and turned round, what is read is the
\* number they spell (field.rs).
THEOREM ConstantIsSpelt ==
  ASSUME NEW hex \in HexString, Len(hex) <= 2 * WordBytes
  PROVE  fr_from_str(hex) = Loop(Spelling(hex), 0, Len(hex))
<1>1. PICK base \in Nat : base = 256
  OBVIOUS
<1> DEFINE e == Evened(hex)
           n == Pairs(hex)
           z == WordBytes - n
           word == HexToLeBytes(hex)
           g == Horner(word, base)
           h == Spelling(e)
<1>2. /\ n \in Nat /\ z \in Nat /\ z + n = WordBytes /\ WordBytes \in Nat
      /\ e \in HexString /\ Len(e) = 2 * n
  BY EvenedHex, WordAssumption
<1>3. word \in Seq(Nat) /\ Len(word) = WordBytes
  BY WordTurned
<1>4. Looping(WordBytes, Nat, 0, g)
  <2> HIDE DEF word
  <2> QED BY <1>3, HornerLoops
<1>5. \A k \in 1..WordBytes, v \in Nat : g[k][v] = Padded(hex)[k] + base * v
  <2>1. \A k \in 1..WordBytes : word[WordBytes + 1 - k] = Padded(hex)[k]
    BY WordTurned
  <2> HIDE DEF word
  <2>2. \A k \in 1..Len(word), v \in Nat : g[k][v] = word[Len(word) + 1 - k] + base * v
    BY <1>3, HornerLoops
  <2>3. \A k \in 1..WordBytes, v \in Nat : g[k][v] = word[WordBytes + 1 - k] + base * v
    <3> HIDE DEF g
    <3> QED BY <1>3, <2>2
  <2> HIDE DEF g
  <2> QED BY <2>1, <2>3
<1>6. \A k \in 1..WordBytes :
        Padded(hex)[k] = IF k <= z THEN 0 ELSE 16 * e[2 * (k - z) - 1] + e[2 * (k - z)]
  BY PaddedBytes
<1>7. Looping(2 * n, Nat, 0, h) /\ \A k \in 1..(2 * n), v \in Nat : h[k][v] = 16 * v + e[k]
  <2> HIDE DEF e
  <2> QED BY <1>2, SpellingLoops
<1>8. fr_from_str(hex) = Loop(g, 0, WordBytes)
  <2> HIDE DEF word
  <2> QED BY <1>1, <1>3, FromReprIsValue DEF fr_from_str, Value, word
<1> HIDE DEF g, h, e, n, z, word
<1>9. Loop(g, 0, z) = 0
  <2> DEFINE Good == {k \in 0..z : Loop(g, 0, k) = 0}
  <2>1. 0 \in Good
    BY <1>2, LoopTurns
  <2>2. ASSUME NEW k \in 1..z, k - 1 \in Good
        PROVE  k \in Good
    <3>1. k \in Nat \ {0} /\ k \in 1..WordBytes /\ k <= z /\ k \in 0..z
      BY <1>2
    <3>2. Loop(g, 0, k) = g[k][0]
      BY <2>2, <3>1, LoopNext
    <3>3. Padded(hex)[k] = 0
      BY <1>6, <3>1
    <3>4. PICK v \in Nat : v = 0
      OBVIOUS
    <3>5. g[k][v] = Padded(hex)[k] + base * v
      BY <1>5, <3>1
    <3>6. g[k][v] = 0
      BY <3>3, <3>4, <3>5
    <3> QED BY <3>1, <3>2, <3>4, <3>6
  <2> HIDE DEF Good
  <2>3. \A k \in 0..z : k \in Good
    BY <1>2, <2>1, <2>2, TurnInduction
  <2> QED BY <1>2, <2>3 DEF Good
<1> DEFINE Good == {k \in 0..n : Loop(g, 0, z + k) = Loop(h, 0, 2 * k)}
<1>10. 0 \in Good
  <2>1. z + 0 = z /\ 2 * 0 = 0 /\ 0 \in 0..n
    BY <1>2
  <2>2. Loop(h, 0, 0) = 0
    BY LoopTurns
  <2> QED BY <1>9, <2>1, <2>2
<1>11. ASSUME NEW k \in 1..n, k - 1 \in Good
       PROVE  k \in Good
  <2>1. /\ k \in 0..n /\ z + k \in 1..WordBytes /\ z + k \in Nat \ {0} /\ ~(z + k <= z)
        /\ (z + k) - 1 = z + (k - 1) /\ (z + k) - z = k /\ z + (k - 1) \in 0..WordBytes
    BY <1>2
  <2>2. /\ 2 * k \in 1..(2 * n) /\ 2 * k - 1 \in 1..(2 * n)
        /\ 2 * k \in Nat \ {0} /\ 2 * k - 1 \in Nat \ {0} /\ (2 * k - 1) - 1 = 2 * (k - 1)
    BY <1>2
  <2>3. PICK u \in Nat : u = Loop(g, 0, z + (k - 1))
    BY <1>4, <2>1, LoopType
  <2>4. Loop(h, 0, 2 * (k - 1)) = u
    BY <1>11, <2>3
  <2> e \in Seq(0..15) /\ Len(e) = 2 * n
    BY <1>2 DEF HexString
  <2>5. PICK a \in 0..15 : a = e[2 * k - 1]
    BY <2>2, ElementOfSeq
  <2>6. PICK b \in 0..15 : b = e[2 * k]
    BY <2>2, ElementOfSeq
  <2>7. Loop(g, 0, z + k) = (16 * a + b) + base * u
    <3>1. PICK j \in 1..WordBytes : j = z + k
      BY <2>1
    <3>2. Loop(g, 0, j) = g[j][u]
      BY <2>1, <2>3, <3>1, LoopNext
    <3>3. Padded(hex)[j] = 16 * a + b
      BY <1>6, <2>1, <2>5, <2>6, <3>1
    <3> QED BY <1>5, <3>1, <3>2, <3>3
  <2>8. Loop(h, 0, 2 * k - 1) = 16 * u + a
    <3>1. Loop(h, 0, 2 * k - 1) = h[2 * k - 1][u]
      BY <2>2, <2>4, LoopNext
    <3> QED BY <1>7, <2>2, <2>5, <3>1
  <2>9. Loop(h, 0, 2 * k) = 16 * (16 * u + a) + b
    <3>1. Loop(h, 0, 2 * k) = h[2 * k][16 * u + a]
      BY <2>2, <2>8, LoopNext
    <3>2. 16 * u + a \in Nat
      OBVIOUS
    <3> QED BY <1>7, <2>2, <2>6, <3>1, <3>2
  <2>10. Loop(g, 0, z + k) = Loop(h, 0, 2 * k)
    BY <1>1, <2>7, <2>9
  <2> QED BY <2>1, <2>10
<1> HIDE DEF Good
<1>12. \A k \in 0..n : k \in Good
  BY <1>2, <1>10, <1>11, TurnInduction
<1>13. Loop(g, 0, z + n) = Loop(h, 0, 2 * n)
  BY <1>2, <1>12 DEF Good
<1> QED BY <1>2, <1>8, <1>13, EvenedSpelling DEF h, e, n

-----------------------------------------------------------------------------
(* The hash.                                                               *)

Lanes(t) == [0..(t - 1) -> Fr]
Matrices(t) == [0..(t - 1) -> Lanes(t)]

LEMMA Pow5Agrees ==
  ASSUME NEW a \in Fr
  PROVE  Pow5(a) = pow5(a) /\ pow5(a) \in Fr
BY FrClosed DEF Pow5, pow5, Mul

\* Term n of a row of a product.
Products(row, state, t) ==
  [n \in 1..t |-> [v \in Fr |-> Plus(v, Times(row[n - 1], state[n - 1]))]]

LEMMA ProductsLoop ==
  ASSUME NEW t \in Nat \ {0}, NEW row \in Lanes(t), NEW state \in Lanes(t)
  PROVE  /\ Looping(t, Fr, 0, Products(row, state, t))
         /\ \A n \in 1..t, v \in Fr :
              Products(row, state, t)[n][v] = Plus(v, Times(row[n - 1], state[n - 1]))
<1>1. \A n \in 1..t : n - 1 \in 0..(t - 1)
  OBVIOUS
<1>2. \A n \in 1..t : row[n - 1] \in Fr /\ state[n - 1] \in Fr
  BY <1>1 DEF Lanes
<1>3. \A n \in 1..t, v \in Fr : Plus(v, Times(row[n - 1], state[n - 1])) \in Fr
  BY <1>2, FrClosed
<1>4. Products(row, state, t) \in [1..t -> [Fr -> Fr]]
  BY <1>3 DEF Products
<1> QED BY <1>4, FrClosed DEF Looping, Products

LEMMA DotProductIsLoop ==
  ASSUME NEW t \in Nat \ {0}, NEW row \in Lanes(t), NEW state \in Lanes(t)
  PROVE  /\ DotProduct(row, state, t) = Loop(Products(row, state, t), 0, t)
         /\ DotProduct(row, state, t) \in Fr
<1> DEFINE g == Products(row, state, t)
           Eq(f) == f = [n \in 0..t |-> IF n = 0 THEN 0
                                       ELSE Plus(f[n - 1], Times(row[n - 1], state[n - 1]))]
           h == CHOOSE f : Eq(f)
<1>1. DotProduct(row, state, t) = h[t]
  BY DEF DotProduct
<1>2. Looping(t, Fr, 0, g)
  BY ProductsLoop
<1>3. \A n \in 1..t, v \in Fr : g[n][v] = Plus(v, Times(row[n - 1], state[n - 1]))
  BY ProductsLoop
<1>4. \A n \in 1..t : n - 1 \in 0..t /\ n \in 0..t /\ n # 0
  OBVIOUS
<1> HIDE DEF g
<1>5. PICK f : Values(t, Fr, 0, g, f)
  BY <1>2, LoopExists
<1>6. \A n \in 0..t : f[n] = IF n = 0 THEN 0
                             ELSE Plus(f[n - 1], Times(row[n - 1], state[n - 1]))
  BY <1>3, <1>4, <1>5 DEF Values
<1>7. Eq(h)
  <2>1. f = [n \in 0..t |-> f[n]]
    BY <1>5 DEF Values
  <2>2. Eq(f)
    BY ONLY <1>6, <2>1
  <2> QED BY <2>2
<1> HIDE DEF h
<1>8. h[0] = 0 /\ \A n \in 1..t : h[n] = Plus(h[n - 1], Times(row[n - 1], state[n - 1]))
  BY <1>4, <1>7
<1>9. Follows(t, Fr, 0, g, h)
  BY <1>3, <1>8 DEF Follows
<1>10. t \in 0..t
  OBVIOUS
<1> QED BY <1>1, <1>2, <1>9, <1>10, LoopFollowed DEF g

\* The circuit adds the same terms: the first is not added to zero there.
LEMMA RowSumAgrees ==
  ASSUME NEW t \in Nat \ {0}, NEW row \in Lanes(t), NEW s \in Lanes(t)
  PROVE  RowSum(row, s, t) = DotProduct(row, s, t)
<1> DEFINE g == Products(row, s, t)
           Eq(f) == f = [j \in 0..(t - 1) |->
                           IF j = 0 THEN MulConst(s[0], row[0])
                                    ELSE Add(f[j - 1], MulConst(s[j], row[j]))]
           acc == CHOOSE f : Eq(f)
<1>1. RowSum(row, s, t) = acc[t - 1]
  BY DEF RowSum
<1>2. Looping(t, Fr, 0, g)
  BY ProductsLoop
<1>3. \A n \in 1..t, v \in Fr : g[n][v] = Plus(v, Times(row[n - 1], s[n - 1]))
  BY ProductsLoop
<1>4. \A j \in 0..(t - 1) : row[j] \in Fr /\ s[j] \in Fr
  BY DEF Lanes
<1>5. \A j \in 0..(t - 1) : MulConst(s[j], row[j]) = Times(row[j], s[j]) /\ Times(row[j], s[j]) \in Fr
  BY <1>4, TimesCommutes, FrClosed DEF MulConst
<1>6. \A v \in Fr : Plus(0, v) = v
  BY PAssumption DEF Plus, Fr
<1>7. /\ \A n \in 1..t : n - 1 \in 0..(t - 1) /\ n \in 0..t /\ n # 0
      /\ \A j \in 0..(t - 1) : j + 1 \in 1..t /\ j + 1 \in 0..t /\ (j + 1) - 1 = j
                               /\ (j # 0 => j - 1 \in 0..(t - 1) /\ (j - 1) + 1 = j)
      /\ 0 \in 0..(t - 1) /\ t - 1 \in 0..(t - 1) /\ t \in 0..t /\ (t - 1) + 1 = t
  OBVIOUS
<1> HIDE DEF g
<1>8. PICK f : Values(t, Fr, 0, g, f)
  BY <1>2, LoopExists
<1>9. f \in [0..t -> Fr] /\ f[0] = 0 /\ \A n \in 1..t : f[n] = g[n][f[n - 1]]
  BY <1>8 DEF Values
<1> DEFINE u == [j \in 0..(t - 1) |-> f[j + 1]]
<1>10. Eq(u)
  <2>1. ASSUME NEW j \in 0..(t - 1)
        PROVE  u[j] = IF j = 0 THEN MulConst(s[0], row[0])
                               ELSE Add(u[j - 1], MulConst(s[j], row[j]))
    <3>1. u[j] = Plus(f[j], Times(row[j], s[j])) /\ f[j] \in Fr
      <4>1. PICK n \in 1..t : n = j + 1 /\ n - 1 = j
        BY <1>7
      <4>2. f[n] = g[n][f[j]] /\ f[j] \in Fr
        BY <1>7, <1>9, <4>1
      <4> QED BY <1>3, <4>1, <4>2
    <3>2. CASE j = 0
      BY <1>5, <1>6, <1>9, <3>1, <3>2
    <3>3. CASE j # 0
      <4>1. u[j - 1] = f[j]
        BY <1>7, <3>3
      <4> QED BY <1>5, <3>1, <3>3, <4>1 DEF Add
    <3> QED BY <3>2, <3>3
  <2> QED BY <2>1
<1>11. Eq(acc)
  BY <1>10
<1> HIDE DEF acc
<1>12. acc[0] = MulConst(s[0], row[0])
       /\ \A j \in 0..(t - 1) : j # 0 => acc[j] = Add(acc[j - 1], MulConst(s[j], row[j]))
  BY <1>7, <1>11
<1> DEFINE h == [n \in 0..t |-> IF n = 0 THEN 0 ELSE acc[n - 1]]
<1>13. h[0] = 0 /\ h[t] = acc[t - 1]
  BY <1>7
<1>14. ASSUME NEW n \in 1..t, h[n - 1] \in Fr
       PROVE  h[n] = g[n][h[n - 1]]
  <2>1. PICK j \in 0..(t - 1) : j = n - 1
    BY <1>7
  <2>2. h[n] = acc[j] /\ h[n - 1] = IF j = 0 THEN 0 ELSE acc[j - 1]
    BY <1>7, <2>1
  <2> HIDE DEF h
  <2>3. g[n][h[n - 1]] = Plus(h[n - 1], Times(row[j], s[j]))
    BY <1>3, <1>14, <2>1
  <2>4. acc[j] = Plus(h[n - 1], Times(row[j], s[j]))
    BY <1>5, <1>6, <1>12, <2>2 DEF Add
  <2> QED BY <2>2, <2>3, <2>4
<1>15. Follows(t, Fr, 0, g, h)
  <2> HIDE DEF h
  <2> QED BY <1>13, <1>14 DEF Follows
<1>16. h[t] = Loop(g, 0, t)
  BY <1>2, <1>7, <1>15, LoopFollowed
<1> QED BY <1>1, <1>13, <1>16, DotProductIsLoop DEF g

LEMMA MatMulAgrees ==
  ASSUME NEW t \in Nat \ {0}, NEW mat \in Matrices(t), NEW state \in Lanes(t)
  PROVE  MatMul(mat, state, t) = mat_mul(mat, state, t) /\ mat_mul(mat, state, t) \in Lanes(t)
<1> DEFINE row(i) == [j \in 0..(t - 1) |-> mat[j][i]]
<1>1. MatMul(mat, state, t) = [i \in 0..(t - 1) |-> RowSum(row(i), state, t)]
  BY DEF MatMul, Once
<1>2. mat_mul(mat, state, t) = [i \in 0..(t - 1) |-> DotProduct(row(i), state, t)]
  BY DEF mat_mul, Once
<1>3. \A i \in 0..(t - 1) : row(i) \in Lanes(t)
  BY DEF Matrices, Lanes
<1> HIDE DEF row
<1>4. \A i \in 0..(t - 1) : /\ RowSum(row(i), state, t) = DotProduct(row(i), state, t)
                            /\ DotProduct(row(i), state, t) \in Fr
  BY <1>3, RowSumAgrees, DotProductIsLoop
<1> QED BY <1>1, <1>2, <1>4 DEF Lanes

\* The constants a full round reads, and n of them.
HasRow(p, from) == \A i \in 0..(p.t - 1) : p.c[from + i] \in Fr
HasRows(p, from, n) == \A r \in 1..n : HasRow(p, from + (r - 1) * p.t)

\* What both hashes need of their parameters' shape.
Shaped(p) == p.t \in Nat \ {0} /\ p.m \in Matrices(p.t) /\ p.p \in Matrices(p.t)

LEMMA FullRowAgrees ==
  ASSUME NEW p, Shaped(p), NEW from, HasRow(p, from),
         NEW mat \in Matrices(p.t), NEW state \in Lanes(p.t)
  PROVE  /\ FullRow(p, state, from, mat) = FullRound(p, state, from, mat)
         /\ FullRound(p, state, from, mat) \in Lanes(p.t)
<1> DEFINE mid == [i \in 0..(p.t - 1) |-> Plus(pow5(state[i]), p.c[from + i])]
           boxed == [i \in 0..(p.t - 1) |-> Pow5(state[i])]
<1>1. p.t \in Nat \ {0}
  BY DEF Shaped
<1>2. \A i \in 0..(p.t - 1) : state[i] \in Fr /\ p.c[from + i] \in Fr
  BY DEF Lanes, HasRow
<1>3. FullRound(p, state, from, mat) = mat_mul(mat, mid, p.t)
  BY DEF FullRound, Once
<1>4. DOMAIN state = 0..(p.t - 1)
  BY DEF Lanes
<1>5. Sbox(state) = boxed
  BY <1>4 DEF Sbox, Once
<1>6. AddRow(boxed, p.c, from) = [i \in 0..(p.t - 1) |-> AddConst(boxed[i], p.c[from + i])]
  BY DEF AddRow, Once
<1>7. \A i \in 0..(p.t - 1) : AddConst(boxed[i], p.c[from + i]) = mid[i]
  BY <1>2, Pow5Agrees DEF AddConst
<1>8. AddRow(boxed, p.c, from) = mid
  <2> HIDE DEF boxed
  <2> QED BY <1>6, <1>7
<1>9. mid \in Lanes(p.t)
  BY <1>2, Pow5Agrees, FrClosed DEF Lanes
<1> HIDE DEF mid, boxed
<1> QED BY <1>1, <1>3, <1>5, <1>8, <1>9, MatMulAgrees DEF FullRow

\* The constants partial round r reads.
HasSparse(p, r) ==
  /\ p.c[(p.n_rounds_f \div 2) * p.t + p.t + r] \in Fr
  /\ \A j \in 0..(p.t - 1) : p.s[(p.t * 2 - 1) * r + j] \in Fr
  /\ \A k \in 0..(p.t - 1) : k # 0 => p.s[(p.t * 2 - 1) * r + p.t + k - 1] \in Fr

LEMMA SparseRoundAgrees ==
  ASSUME NEW p, Shaped(p), NEW r, HasSparse(p, r), NEW state \in Lanes(p.t)
  PROVE  /\ SparseRound(p, state, r) = PartialRound(p, state, r)
         /\ PartialRound(p, state, r) \in Lanes(p.t)
<1> DEFINE base == (p.t * 2 - 1) * r
           row == [j \in 0..(p.t - 1) |-> p.s[base + j]]
           const == p.c[(p.n_rounds_f \div 2) * p.t + p.t + r]
           boxed == [state EXCEPT ![0] = Plus(pow5(@), const)]
           Mix(s) == [k \in 0..(p.t - 1) |->
                        IF k = 0 THEN DotProduct(row, s, p.t)
                                 ELSE Plus(s[k], Times(s[0], p.s[base + p.t + k - 1]))]
           Mixed(s) == [k \in 0..(p.t - 1) |->
                        IF k = 0 THEN RowSum(row, s, p.t)
                                 ELSE Add(s[k], MulConst(s[0], p.s[base + p.t + k - 1]))]
<1>1. p.t \in Nat \ {0} /\ 0 \in 0..(p.t - 1)
  BY DEF Shaped
<1>2. /\ const \in Fr /\ row \in Lanes(p.t) /\ \A i \in 0..(p.t - 1) : state[i] \in Fr
      /\ \A k \in 0..(p.t - 1) : k # 0 => p.s[base + p.t + k - 1] \in Fr
  BY DEF HasSparse, Lanes
<1>3. PartialRound(p, state, r) = Mix(boxed)
  BY DEF PartialRound, Once
<1>4. SparseRound(p, state, r) = Mixed([state EXCEPT ![0] = AddConst(Pow5(@), const)])
  BY DEF SparseRound, Once
<1>5. AddConst(Pow5(state[0]), const) = Plus(pow5(state[0]), const)
      /\ Plus(pow5(state[0]), const) \in Fr
  BY <1>1, <1>2, Pow5Agrees, FrClosed DEF AddConst
<1>6. boxed \in Lanes(p.t)
  BY <1>5 DEF Lanes
<1>7. [state EXCEPT ![0] = AddConst(Pow5(@), const)] = boxed
  BY <1>5
<1> HIDE DEF const, row, boxed, base
<1>8. RowSum(row, boxed, p.t) = DotProduct(row, boxed, p.t) /\ DotProduct(row, boxed, p.t) \in Fr
  BY <1>1, <1>2, <1>6, RowSumAgrees, DotProductIsLoop
<1>9. \A k \in 0..(p.t - 1) : boxed[k] \in Fr
  BY <1>6 DEF Lanes
<1>10. \A k \in 0..(p.t - 1) : k # 0 =>
          /\ Add(boxed[k], MulConst(boxed[0], p.s[base + p.t + k - 1]))
               = Plus(boxed[k], Times(boxed[0], p.s[base + p.t + k - 1]))
          /\ Plus(boxed[k], Times(boxed[0], p.s[base + p.t + k - 1])) \in Fr
  BY <1>1, <1>2, <1>9, FrClosed DEF Add, MulConst
<1>11. Mixed(boxed) = Mix(boxed) /\ Mix(boxed) \in Lanes(p.t)
  BY <1>8, <1>10 DEF Lanes
<1> QED BY <1>3, <1>4, <1>7, <1>11

\* The turns of n full rounds, and of the partial rounds.
FullTurns(p, from, n) ==
  [r \in 1..n |-> [s \in Lanes(p.t) |-> FullRound(p, s, from + (r - 1) * p.t, p.m)]]

SparseTurns(p) ==
  [r \in 1..p.n_rounds_p |-> [s \in Lanes(p.t) |-> PartialRound(p, s, r - 1)]]

HasSparses(p) == p.n_rounds_p \in Nat /\ \A r \in 1..p.n_rounds_p : HasSparse(p, r - 1)

LEMMA FullTurnsLoop ==
  ASSUME NEW p, Shaped(p), NEW from, NEW n \in Nat, HasRows(p, from, n),
         NEW state \in Lanes(p.t)
  PROVE  /\ Looping(n, Lanes(p.t), state, FullTurns(p, from, n))
         /\ \A r \in 1..n, s \in Lanes(p.t) :
              /\ FullTurns(p, from, n)[r][s] = FullRound(p, s, from + (r - 1) * p.t, p.m)
              /\ FullTurns(p, from, n)[r][s] = FullRow(p, s, from + (r - 1) * p.t, p.m)
<1>1. \A r \in 1..n : HasRow(p, from + (r - 1) * p.t)
  BY DEF HasRows
<1>2. p.m \in Matrices(p.t)
  BY DEF Shaped
<1>3. ASSUME NEW r \in 1..n, NEW s \in Lanes(p.t)
      PROVE  /\ FullRow(p, s, from + (r - 1) * p.t, p.m) = FullRound(p, s, from + (r - 1) * p.t, p.m)
             /\ FullRound(p, s, from + (r - 1) * p.t, p.m) \in Lanes(p.t)
  <2> DEFINE off == from + (r - 1) * p.t
  <2>1. HasRow(p, off)
    BY <1>1
  <2> HIDE DEF off
  <2>2. FullRow(p, s, off, p.m) = FullRound(p, s, off, p.m) /\ FullRound(p, s, off, p.m) \in Lanes(p.t)
    BY <1>2, <2>1, FullRowAgrees
  <2> QED BY <2>2 DEF off
<1>4. \A r \in 1..n, s \in Lanes(p.t) :
         FullTurns(p, from, n)[r][s] = FullRound(p, s, from + (r - 1) * p.t, p.m)
  BY DEF FullTurns
<1>5. FullTurns(p, from, n) \in [1..n -> [Lanes(p.t) -> Lanes(p.t)]]
  BY <1>3 DEF FullTurns
<1> QED BY <1>3, <1>4, <1>5 DEF Looping

LEMMA SparseTurnsLoop ==
  ASSUME NEW p, Shaped(p), HasSparses(p), NEW state \in Lanes(p.t)
  PROVE  /\ Looping(p.n_rounds_p, Lanes(p.t), state, SparseTurns(p))
         /\ \A r \in 1..p.n_rounds_p, s \in Lanes(p.t) :
              /\ SparseTurns(p)[r][s] = PartialRound(p, s, r - 1)
              /\ SparseTurns(p)[r][s] = SparseRound(p, s, r - 1)
<1>1. p.n_rounds_p \in Nat /\ \A r \in 1..p.n_rounds_p : HasSparse(p, r - 1)
  BY DEF HasSparses
<1>2. \A r \in 1..p.n_rounds_p, s \in Lanes(p.t) :
        /\ SparseRound(p, s, r - 1) = PartialRound(p, s, r - 1)
        /\ PartialRound(p, s, r - 1) \in Lanes(p.t)
  BY <1>1, SparseRoundAgrees
<1>3. \A r \in 1..p.n_rounds_p, s \in Lanes(p.t) : SparseTurns(p)[r][s] = PartialRound(p, s, r - 1)
  BY DEF SparseTurns
<1>4. SparseTurns(p) \in [1..p.n_rounds_p -> [Lanes(p.t) -> Lanes(p.t)]]
  BY <1>2 DEF SparseTurns
<1> QED BY <1>1, <1>2, <1>3, <1>4 DEF Looping

\* The rows of the full rounds compute the rounds of the reference.
LEMMA FullRoundsAgree ==
  ASSUME NEW p, Shaped(p), NEW from, NEW n \in Nat, HasRows(p, from, n),
         NEW state \in Lanes(p.t)
  PROVE  /\ FullRounds(p, state, from, n) = Loop(FullTurns(p, from, n), state, n)
         /\ FullRows(p, state, from, n) = FullRounds(p, state, from, n)
         /\ FullRounds(p, state, from, n) \in Lanes(p.t)
<1> DEFINE g == FullTurns(p, from, n)
           RoundTable(t) == t = [s \in SUBSET (DOMAIN Rounds(n)) |->
             IF s = {} THEN state
             ELSE FullRound(p, t[s \ {Max(s)}], from + (Rounds(n)[Max(s)] - 1) * p.t, p.m)]
           RowTable(t) == t = [s \in SUBSET (DOMAIN Rounds(n)) |->
             IF s = {} THEN state
             ELSE FullRow(p, t[s \ {Max(s)}], from + (Rounds(n)[Max(s)] - 1) * p.t, p.m)]
           rounds == CHOOSE t : RoundTable(t)
           rows == CHOOSE t : RowTable(t)
<1>1. DOMAIN Rounds(n) = 1..n /\ \A r \in 1..n : Rounds(n)[r] = r
  BY DEF Rounds
<1>2. FullRounds(p, state, from, n) = rounds[DOMAIN Rounds(n)]
  BY DEF FullRounds, FoldLeft, MapThenFoldSet
<1>3. FullRows(p, state, from, n) = rows[DOMAIN Rounds(n)]
  BY DEF FullRows, FoldLeft, MapThenFoldSet
<1>4. Looping(n, Lanes(p.t), state, g)
  BY FullTurnsLoop
<1>5. \A r \in 1..n, s \in Lanes(p.t) :
         /\ g[r][s] = FullRound(p, s, from + (r - 1) * p.t, p.m)
         /\ g[r][s] = FullRow(p, s, from + (r - 1) * p.t, p.m)
  BY FullTurnsLoop
<1>6. \A s \in SUBSET (1..n) : s # {} => Max(s) \in 1..n
  BY Extremes
<1> HIDE DEF g
<1>7. PICK t : FromLeft(n, Lanes(p.t), state, g, t)
  BY <1>4, LeftTable
<1>8. ASSUME NEW u \in SUBSET (1..n), u # {}, NEW v \in Lanes(p.t)
      PROVE  /\ g[Max(u)][v] = FullRound(p, v, from + (Rounds(n)[Max(u)] - 1) * p.t, p.m)
             /\ g[Max(u)][v] = FullRow(p, v, from + (Rounds(n)[Max(u)] - 1) * p.t, p.m)
  <2>1. Max(u) \in 1..n /\ Rounds(n)[Max(u)] = Max(u)
    BY <1>1, <1>6, <1>8
  <2> QED BY <1>5, <2>1
<1>9. RoundTable(t)
  <2>1. \A u \in SUBSET (1..n) : t[u] = IF u = {} THEN state ELSE FullRound(p, t[u \ {Max(u)}], from + (Rounds(n)[Max(u)] - 1) * p.t, p.m)
    BY <1>7, <1>8 DEF FromLeft
  <2> QED BY <1>1, <1>7, <2>1 DEF FromLeft
<1>10. RowTable(t)
  <2>1. \A u \in SUBSET (1..n) : t[u] = IF u = {} THEN state ELSE FullRow(p, t[u \ {Max(u)}], from + (Rounds(n)[Max(u)] - 1) * p.t, p.m)
    BY <1>7, <1>8 DEF FromLeft
  <2> QED BY <1>1, <1>7, <2>1 DEF FromLeft
<1>11. RoundTable(rounds) /\ RowTable(rows)
  BY <1>9, <1>10
<1> HIDE DEF rounds, rows
<1>12. FoldsLeft(n, Lanes(p.t), state, g, rounds)
  <2>1. \A u \in SUBSET (1..n) : rounds[u] = IF u = {} THEN state ELSE FullRound(p, rounds[u \ {Max(u)}], from + (Rounds(n)[Max(u)] - 1) * p.t, p.m)
    BY <1>1, <1>11
  <2>2. ASSUME NEW u \in SUBSET (1..n), u # {}, rounds[u \ {Max(u)}] \in Lanes(p.t)
        PROVE  rounds[u] = g[Max(u)][rounds[u \ {Max(u)}]]
    <3>1. PICK v \in Lanes(p.t) : v = rounds[u \ {Max(u)}]
      BY <2>2
    <3>2. rounds[u] = FullRound(p, v, from + (Rounds(n)[Max(u)] - 1) * p.t, p.m)
      BY <2>1, <2>2, <3>1
    <3>3. g[Max(u)][v] = FullRound(p, v, from + (Rounds(n)[Max(u)] - 1) * p.t, p.m)
      BY <1>8, <2>2
    <3> QED BY <3>1, <3>2, <3>3
  <2>3. rounds[{}] = state
    BY <2>1
  <2> QED BY <2>2, <2>3 DEF FoldsLeft
<1>13. FoldsLeft(n, Lanes(p.t), state, g, rows)
  <2>1. \A u \in SUBSET (1..n) : rows[u] = IF u = {} THEN state ELSE FullRow(p, rows[u \ {Max(u)}], from + (Rounds(n)[Max(u)] - 1) * p.t, p.m)
    BY <1>1, <1>11
  <2>2. ASSUME NEW u \in SUBSET (1..n), u # {}, rows[u \ {Max(u)}] \in Lanes(p.t)
        PROVE  rows[u] = g[Max(u)][rows[u \ {Max(u)}]]
    <3>1. PICK v \in Lanes(p.t) : v = rows[u \ {Max(u)}]
      BY <2>2
    <3>2. rows[u] = FullRow(p, v, from + (Rounds(n)[Max(u)] - 1) * p.t, p.m)
      BY <2>1, <2>2, <3>1
    <3>3. g[Max(u)][v] = FullRow(p, v, from + (Rounds(n)[Max(u)] - 1) * p.t, p.m)
      BY <1>8, <2>2
    <3> QED BY <3>1, <3>2, <3>3
  <2>3. rows[{}] = state
    BY <2>1
  <2> QED BY <2>2, <2>3 DEF FoldsLeft
<1>14. rounds[1..n] = Loop(g, state, n) /\ rows[1..n] = Loop(g, state, n)
  BY <1>4, <1>12, <1>13, LeftFold
<1>15. Loop(g, state, n) \in Lanes(p.t)
  <2>1. n \in 0..n
    OBVIOUS
  <2> QED BY <1>4, <2>1, LoopType
<1> QED BY <1>1, <1>2, <1>3, <1>14, <1>15 DEF g

LEMMA SparseRoundsAgree ==
  ASSUME NEW p, Shaped(p), HasSparses(p), NEW state \in Lanes(p.t)
  PROVE  /\ SparseRounds(p, state) = PartialRounds(p, state)
         /\ PartialRounds(p, state) \in Lanes(p.t)
<1> DEFINE n == p.n_rounds_p
           g == SparseTurns(p)
           RoundTable(t) == t = [s \in SUBSET (DOMAIN Rounds(n)) |->
             IF s = {} THEN state ELSE PartialRound(p, t[s \ {Max(s)}], Rounds(n)[Max(s)] - 1)]
           RowTable(t) == t = [s \in SUBSET (DOMAIN Rounds(n)) |->
             IF s = {} THEN state ELSE SparseRound(p, t[s \ {Max(s)}], Rounds(n)[Max(s)] - 1)]
           rounds == CHOOSE t : RoundTable(t)
           rows == CHOOSE t : RowTable(t)
<1>1. n \in Nat
  BY DEF HasSparses
<1>2. DOMAIN Rounds(n) = 1..n /\ \A r \in 1..n : Rounds(n)[r] = r
  BY DEF Rounds
<1>3. PartialRounds(p, state) = rounds[DOMAIN Rounds(n)]
  BY DEF PartialRounds, FoldLeft, MapThenFoldSet
<1>4. SparseRounds(p, state) = rows[DOMAIN Rounds(n)]
  BY DEF SparseRounds, FoldLeft, MapThenFoldSet
<1>5. Looping(n, Lanes(p.t), state, g)
  BY SparseTurnsLoop
<1>6. \A r \in 1..n, s \in Lanes(p.t) :
         g[r][s] = PartialRound(p, s, r - 1) /\ g[r][s] = SparseRound(p, s, r - 1)
  BY SparseTurnsLoop
<1> HIDE DEF g, n
<1>7. \A s \in SUBSET (1..n) : s # {} => Max(s) \in 1..n
  BY <1>1, Extremes
<1>8. PICK t : FromLeft(n, Lanes(p.t), state, g, t)
  BY <1>5, LeftTable
<1>9. ASSUME NEW u \in SUBSET (1..n), u # {}, NEW v \in Lanes(p.t)
      PROVE  /\ g[Max(u)][v] = PartialRound(p, v, Rounds(n)[Max(u)] - 1)
             /\ g[Max(u)][v] = SparseRound(p, v, Rounds(n)[Max(u)] - 1)
  <2>1. Max(u) \in 1..n /\ Rounds(n)[Max(u)] = Max(u)
    BY <1>2, <1>7, <1>9
  <2> QED BY <1>6, <2>1
<1>10. RoundTable(t)
  <2>1. \A u \in SUBSET (1..n) : t[u] = IF u = {} THEN state ELSE PartialRound(p, t[u \ {Max(u)}], Rounds(n)[Max(u)] - 1)
    BY <1>8, <1>9 DEF FromLeft
  <2> QED BY <1>2, <1>8, <2>1 DEF FromLeft
<1>11. RowTable(t)
  <2>1. \A u \in SUBSET (1..n) : t[u] = IF u = {} THEN state ELSE SparseRound(p, t[u \ {Max(u)}], Rounds(n)[Max(u)] - 1)
    BY <1>8, <1>9 DEF FromLeft
  <2> QED BY <1>2, <1>8, <2>1 DEF FromLeft
<1>12. RoundTable(rounds) /\ RowTable(rows)
  BY <1>10, <1>11
<1> HIDE DEF rounds, rows
<1>13. FoldsLeft(n, Lanes(p.t), state, g, rounds)
  <2>1. \A u \in SUBSET (1..n) : rounds[u] = IF u = {} THEN state ELSE PartialRound(p, rounds[u \ {Max(u)}], Rounds(n)[Max(u)] - 1)
    BY <1>2, <1>12
  <2>2. ASSUME NEW u \in SUBSET (1..n), u # {}, rounds[u \ {Max(u)}] \in Lanes(p.t)
        PROVE  rounds[u] = g[Max(u)][rounds[u \ {Max(u)}]]
    <3>1. PICK v \in Lanes(p.t) : v = rounds[u \ {Max(u)}]
      BY <2>2
    <3> QED BY <1>9, <2>1, <2>2, <3>1
  <2>3. rounds[{}] = state
    BY <2>1
  <2> QED BY <2>2, <2>3 DEF FoldsLeft
<1>14. FoldsLeft(n, Lanes(p.t), state, g, rows)
  <2>1. \A u \in SUBSET (1..n) : rows[u] = IF u = {} THEN state ELSE SparseRound(p, rows[u \ {Max(u)}], Rounds(n)[Max(u)] - 1)
    BY <1>2, <1>12
  <2>2. ASSUME NEW u \in SUBSET (1..n), u # {}, rows[u \ {Max(u)}] \in Lanes(p.t)
        PROVE  rows[u] = g[Max(u)][rows[u \ {Max(u)}]]
    <3>1. PICK v \in Lanes(p.t) : v = rows[u \ {Max(u)}]
      BY <2>2
    <3> QED BY <1>9, <2>1, <2>2, <3>1
  <2>3. rows[{}] = state
    BY <2>1
  <2> QED BY <2>2, <2>3 DEF FoldsLeft
<1>15. rounds[1..n] = Loop(g, state, n) /\ rows[1..n] = Loop(g, state, n)
  BY <1>5, <1>13, <1>14, LeftFold
<1>16. Loop(g, state, n) \in Lanes(p.t)
  <2>1. n \in 0..n
    BY <1>1
  <2> QED BY <1>5, <2>1, LoopType
<1> QED BY <1>2, <1>3, <1>4, <1>15, <1>16

\* What a well-formed table is read as: the two widths of the circuit, an even
\* number of full rounds, and a constant at every place a round asks for.
ParamsOK(p) ==
  /\ p.t \in {6, 7}
  /\ p.n_rounds_f \div 2 \in Nat \ {0} /\ p.n_rounds_f = 2 * (p.n_rounds_f \div 2)
  /\ p.n_rounds_p \in Nat
  /\ p.c \in [0..((p.n_rounds_f * p.t + p.n_rounds_p) - 1) -> Fr]
  /\ p.s \in [0..((2 * p.t - 1) * p.n_rounds_p - 1) -> Fr]
  /\ p.m \in Matrices(p.t) /\ p.p \in Matrices(p.t)

Parsed(row) == [i \in 0..(Len(row) - 1) |-> fr_from_str(row[i + 1])]

LEMMA RowParsed ==
  ASSUME NEW row \in Seq(HexString), \A hex \in Range(row) : ValidConstant(hex)
  PROVE  Parsed(row) \in [0..(Len(row) - 1) -> Fr]
<1>1. \A i \in 0..(Len(row) - 1) : i + 1 \in DOMAIN row
  OBVIOUS
<1>2. \A i \in 0..(Len(row) - 1) : fr_from_str(row[i + 1]) \in Fr
  BY <1>1, ConstantType DEF Range
<1> QED BY <1>2 DEF Parsed

LEMMA TableParsed ==
  ASSUME NEW rows \in Seq(Seq(HexString)), NEW t \in Nat \ {0}, Len(rows) = t,
         \A row \in Range(rows) : Len(row) = t,
         \A row \in Range(rows) : \A hex \in Range(row) : ValidConstant(hex)
  PROVE  [i \in 0..(Len(rows) - 1) |-> Parsed(rows[i + 1])] \in Matrices(t)
<1>1. \A i \in 0..(t - 1) : i + 1 \in DOMAIN rows
  OBVIOUS
<1>2. ASSUME NEW i \in 0..(t - 1)
      PROVE  Parsed(rows[i + 1]) \in Lanes(t)
  <2>1. PICK row \in Seq(HexString) : row = rows[i + 1] /\ row \in Range(rows)
    <3>1. i + 1 \in DOMAIN rows /\ i + 1 \in 1..Len(rows)
      BY <1>1
    <3>2. rows[i + 1] \in Seq(HexString)
      BY <3>1, ElementOfSeq
    <3> QED BY <3>1, <3>2 DEF Range
  <2>2. Parsed(row) \in [0..(Len(row) - 1) -> Fr] /\ Len(row) = t
    BY <2>1, RowParsed
  <2> QED BY <2>1, <2>2 DEF Lanes
<1> QED BY <1>2 DEF Matrices

LEMMA ParamsRead ==
  ASSUME NEW k, NEW n \in {5, 6}, WellFormed(k, n)
  PROVE  ParamsOK(FromRaw(k)) /\ FromRaw(k).t = n + 1
<1> DEFINE p == FromRaw(k)
           Matrix(rows) == [i \in 0..(Len(rows) - 1) |-> Parsed(rows[i + 1])]
<1>1. /\ p.t = k.T /\ p.n_rounds_f = k.N_ROUNDS_F /\ p.n_rounds_p = k.N_ROUNDS_P
      /\ p.c = Parsed(k.C) /\ p.s = Parsed(k.S) /\ p.m = Matrix(k.M) /\ p.p = Matrix(k.P)
  BY DEF FromRaw, Parsed
<1>2. /\ k.T = n + 1 /\ k.N_ROUNDS_F \in Nat /\ k.N_ROUNDS_F >= 2 /\ k.N_ROUNDS_F % 2 = 0
      /\ k.N_ROUNDS_P \in Nat
      /\ Len(k.C) = k.N_ROUNDS_F * k.T + k.N_ROUNDS_P
      /\ Len(k.S) = (2 * k.T - 1) * k.N_ROUNDS_P
  BY DEF WellFormed
<1>3. /\ k.C \in Seq(HexString) /\ k.S \in Seq(HexString)
      /\ k.M \in Seq(Seq(HexString)) /\ k.P \in Seq(Seq(HexString))
  BY DEF WellFormed
<1>4. /\ \A hex \in Range(k.C) : ValidConstant(hex)
      /\ \A hex \in Range(k.S) : ValidConstant(hex)
      /\ \A row \in Range(k.M) : \A hex \in Range(row) : ValidConstant(hex)
      /\ \A row \in Range(k.P) : \A hex \in Range(row) : ValidConstant(hex)
  BY DEF WellFormed, Hexes
<1>5. /\ Len(k.M) = k.T /\ \A row \in Range(k.M) : Len(row) = k.T
      /\ Len(k.P) = k.T /\ \A row \in Range(k.P) : Len(row) = k.T
  BY DEF WellFormed
<1> HIDE DEF p
<1>6. p.t \in {6, 7} /\ p.t \in Nat \ {0} /\ p.t = n + 1
  BY <1>1, <1>2
<1>7. p.n_rounds_f \div 2 \in Nat \ {0} /\ p.n_rounds_f = 2 * (p.n_rounds_f \div 2)
  <2>1. PICK f \in Nat : f = k.N_ROUNDS_F /\ f >= 2 /\ f % 2 = 0
    BY <1>2
  <2>2. f \div 2 \in Nat \ {0} /\ f = 2 * (f \div 2)
    BY <2>1
  <2> QED BY <1>1, <2>1, <2>2
<1>8. p.c \in [0..((p.n_rounds_f * p.t + p.n_rounds_p) - 1) -> Fr]
  <2>1. Parsed(k.C) \in [0..(Len(k.C) - 1) -> Fr]
    BY <1>3, <1>4, RowParsed
  <2>2. Len(k.C) = p.n_rounds_f * p.t + p.n_rounds_p
    BY <1>1, <1>2
  <2> QED BY <1>1, <2>1, <2>2
<1>9. p.s \in [0..((2 * p.t - 1) * p.n_rounds_p - 1) -> Fr]
  <2>1. Parsed(k.S) \in [0..(Len(k.S) - 1) -> Fr]
    BY <1>3, <1>4, RowParsed
  <2>2. Len(k.S) = (2 * p.t - 1) * p.n_rounds_p
    BY <1>1, <1>2
  <2> QED BY <1>1, <2>1, <2>2
<1>10. p.m \in Matrices(p.t) /\ p.p \in Matrices(p.t)
  <2>1. k.T \in Nat \ {0}
    BY <1>1, <1>6
  <2>2. Matrix(k.M) \in Matrices(k.T)
    BY ONLY <1>3, <1>4, <1>5, <2>1, TableParsed
  <2>3. Matrix(k.P) \in Matrices(k.T)
    BY ONLY <1>3, <1>4, <1>5, <2>1, TableParsed
  <2> QED BY <1>1, <2>2, <2>3
<1>11. p.n_rounds_p \in Nat
  BY <1>1, <1>2
<1> QED BY <1>6, <1>7, <1>8, <1>9, <1>10, <1>11 DEF ParamsOK, p

\* The places of the constants the rounds ask for.
LEMMA ConstantsInReach ==
  ASSUME NEW p, ParamsOK(p), NEW h, h = p.n_rounds_f \div 2
  PROVE  /\ Shaped(p) /\ h \in Nat \ {0}
         /\ HasRow(p, 0) /\ HasRows(p, p.t, h - 1) /\ HasRow(p, h * p.t)
         /\ HasSparses(p)
         /\ HasRows(p, (h + 1) * p.t + p.n_rounds_p, h - 1)
<1>1. PICK n \in Nat : n = p.n_rounds_p
  BY DEF ParamsOK
<1>2. h \in Nat \ {0} /\ p.n_rounds_f = 2 * h
  BY DEF ParamsOK
<1>3. Shaped(p)
  BY DEF ParamsOK, Shaped
<1>4. ASSUME NEW t \in {6, 7}, t = p.t
      PROVE  /\ HasRow(p, 0) /\ HasRows(p, t, h - 1) /\ HasRow(p, h * t)
             /\ HasSparses(p)
             /\ HasRows(p, (h + 1) * t + n, h - 1)
  <2>1. \A i \in 0..(2 * h * t + n - 1) : p.c[i] \in Fr
    <3>1. p.c \in [0..((2 * h * t + n) - 1) -> Fr]
      BY <1>1, <1>2, <1>4 DEF ParamsOK
    <3>2. 2 * h * t + n - 1 = (2 * h * t + n) - 1
      <4>1. 2 * h * t \in Nat
        BY <1>2
      <4> QED BY <4>1
    <3> QED BY <3>1, <3>2
  <2>2. \A i \in 0..((2 * t - 1) * n - 1) : p.s[i] \in Fr
    BY <1>1, <1>4 DEF ParamsOK
  <2>3. HasRow(p, 0)
    <3>1. \A i \in 0..(t - 1) : 0 + i \in 0..(2 * h * t + n - 1)
      <4>1. CASE t = 6 BY <1>2, <4>1
      <4>2. CASE t = 7 BY <1>2, <4>2
      <4> QED BY <4>1, <4>2
    <3> QED BY <1>4, <2>1, <3>1 DEF HasRow
  <2>4. HasRows(p, t, h - 1)
    <3>1. \A r \in 1..(h - 1), i \in 0..(t - 1) : t + (r - 1) * t + i \in 0..(2 * h * t + n - 1)
      <4>1. CASE t = 6 BY <1>2, <4>1
      <4>2. CASE t = 7 BY <1>2, <4>2
      <4> QED BY <4>1, <4>2
    <3> QED BY <1>4, <2>1, <3>1 DEF HasRow, HasRows
  <2>5. HasRow(p, h * t)
    <3>1. \A i \in 0..(t - 1) : h * t + i \in 0..(2 * h * t + n - 1)
      <4>1. CASE t = 6 BY <1>2, <4>1
      <4>2. CASE t = 7 BY <1>2, <4>2
      <4> QED BY <4>1, <4>2
    <3> QED BY <1>4, <2>1, <3>1 DEF HasRow
  <2>6. HasRows(p, (h + 1) * t + n, h - 1)
    <3>1. \A r \in 1..(h - 1), i \in 0..(t - 1) :
             ((h + 1) * t + n) + (r - 1) * t + i \in 0..(2 * h * t + n - 1)
      <4>1. CASE t = 6 BY <1>2, <4>1
      <4>2. CASE t = 7 BY <1>2, <4>2
      <4> QED BY <4>1, <4>2
    <3> QED BY <1>4, <2>1, <3>1 DEF HasRow, HasRows
  <2>7. ASSUME NEW r \in 1..n
        PROVE  HasSparse(p, r - 1)
    <3>1. /\ h * t + t + (r - 1) \in 0..(2 * h * t + n - 1)
          /\ \A j \in 0..(t - 1) : (t * 2 - 1) * (r - 1) + j \in 0..((2 * t - 1) * n - 1)
          /\ \A k \in 0..(t - 1) : k # 0 =>
               (t * 2 - 1) * (r - 1) + t + k - 1 \in 0..((2 * t - 1) * n - 1)
      <4>1. CASE t = 6 BY <1>2, <4>1
      <4>2. CASE t = 7 BY <1>2, <4>2
      <4> QED BY <4>1, <4>2
    <3> QED BY <1>4, <2>1, <2>2, <3>1 DEF HasSparse
  <2>8. HasSparses(p)
    BY <1>1, <2>7 DEF HasSparses
  <2> QED BY <2>3, <2>4, <2>5, <2>6, <2>8
<1>5. p.t \in {6, 7}
  BY DEF ParamsOK
<1> QED BY <1>1, <1>2, <1>3, <1>4, <1>5

\* The rows of poseidon_hash_circuit leave the circuit no other hash than
\* poseidon_ref.rs computes from the same inputs: the whole of both hashes, round by
\* round, for a capacity cell of zero and every table the code accepts.  Whatever
\* that cell holds, the rows compute an element.
THEOREM HashAgrees ==
  ASSUME NEW p, ParamsOK(p), NEW inputs, \A i \in 1..(p.t - 1) : inputs[i] \in Fr
  PROVE  /\ poseidon_hash_circuit(p, 0, inputs) = poseidon_hash(p, inputs)
         /\ \A zero \in Fr : poseidon_hash_circuit(p, zero, inputs) \in Fr
<1> DEFINE h == p.n_rounds_f \div 2
           rest == (h + 1) * p.t + p.n_rounds_p
           given == [i \in 0..(p.t - 1) |-> Plus(IF i = 0 THEN 0 ELSE inputs[i], p.c[i])]
           Padding(zero) == [i \in 0..(p.t - 1) |-> IF i = 0 THEN zero ELSE inputs[i]]
           start(zero) == AddRow(Padding(zero), p.c, 0)
           \* The reference from its start state on.
           first(s) == FullRounds(p, s, p.t, h - 1)
           middle(s) == FullRound(p, first(s), h * p.t, p.p)
           second(s) == FullRounds(p, PartialRounds(p, middle(s)), rest, h - 1)
           boxed(s) == [i \in 0..(p.t - 1) |-> pow5(s[i])]
           Ends(s) == mat_mul(p.m, boxed(second(s)), p.t)[0]
           \* The circuit from its start state on.
           opening(s) == FullRows(p, s, p.t, h - 1)
           centre(s) == FullRow(p, opening(s), h * p.t, p.p)
           closing(s) == FullRows(p, SparseRounds(p, centre(s)), rest, h - 1)
           Closes(s) == MatMul(p.m, Sbox(closing(s)), p.t)[0]
<1>1. /\ Shaped(p) /\ h \in Nat \ {0} /\ HasRow(p, 0) /\ HasRows(p, p.t, h - 1)
      /\ HasRow(p, h * p.t) /\ HasSparses(p) /\ HasRows(p, rest, h - 1)
  BY ConstantsInReach
<1>2. p.t \in Nat \ {0} /\ p.m \in Matrices(p.t) /\ p.p \in Matrices(p.t)
  BY <1>1 DEF Shaped
<1>3. poseidon_hash(p, inputs) = Ends(given)
  BY ZenonT(60) DEF poseidon_hash, Once
<1>4. \A zero : poseidon_hash_circuit(p, zero, inputs) = Closes(start(zero))
  BY DEF poseidon_hash_circuit
<1>5. ASSUME NEW zero \in Fr
      PROVE  /\ start(zero) \in Lanes(p.t)
             /\ zero = 0 => start(zero) = given
  <2>1. \A i \in 0..(p.t - 1) : 0 + i = i /\ p.c[i] \in Fr /\ (i # 0 => i \in 1..(p.t - 1))
    <3>1. \A i \in 0..(p.t - 1) : 0 + i = i /\ (i # 0 => i \in 1..(p.t - 1))
      BY <1>2
    <3> QED BY <1>1, <3>1 DEF HasRow
  <2>2. start(zero) = [i \in 0..(p.t - 1) |-> AddConst(Padding(zero)[i], p.c[0 + i])]
    BY DEF AddRow, Once
  <2>3. start(zero) = [i \in 0..(p.t - 1) |-> Plus(IF i = 0 THEN zero ELSE inputs[i], p.c[i])]
    BY <2>1, <2>2 DEF AddConst
  <2>4. \A i \in 0..(p.t - 1) : Plus(IF i = 0 THEN zero ELSE inputs[i], p.c[i]) \in Fr
    BY <2>1, FrClosed
  <2> HIDE DEF start
  <2> QED BY <2>3, <2>4 DEF Lanes
<1> HIDE DEF h, given, start, rest
<1>6. ASSUME NEW s \in Lanes(p.t)
      PROVE  Closes(s) = Ends(s) /\ Ends(s) \in Fr
  <2>1. h - 1 \in Nat
    BY <1>1
  <2>2. opening(s) = first(s) /\ first(s) \in Lanes(p.t)
    BY <1>1, <2>1, FullRoundsAgree
  <2> HIDE DEF opening, first
  <2>3. centre(s) = middle(s) /\ middle(s) \in Lanes(p.t)
    BY <1>1, <1>2, <2>2, FullRowAgrees
  <2> HIDE DEF centre, middle
  <2> DEFINE sparse == PartialRounds(p, middle(s))
  <2>4. SparseRounds(p, centre(s)) = sparse /\ sparse \in Lanes(p.t)
    BY <1>1, <2>3, SparseRoundsAgree
  <2>5. second(s) = FullRounds(p, sparse, rest, h - 1)
        /\ closing(s) = FullRows(p, sparse, rest, h - 1)
    BY <2>4
  <2> HIDE DEF sparse, second, closing
  <2>6. closing(s) = second(s) /\ second(s) \in Lanes(p.t)
    BY <1>1, <2>1, <2>4, <2>5, FullRoundsAgree
  <2>7. PICK u \in Lanes(p.t) : u = second(s)
    BY <2>6
  <2>8. DOMAIN u = 0..(p.t - 1) /\ \A i \in 0..(p.t - 1) : u[i] \in Fr
    BY DEF Lanes
  <2>9. Sbox(u) = [i \in 0..(p.t - 1) |-> Pow5(u[i])]
    BY <2>8 DEF Sbox, Once
  <2>10. Sbox(u) = boxed(u) /\ boxed(u) \in Lanes(p.t)
    BY <2>8, <2>9, Pow5Agrees DEF Lanes
  <2> HIDE DEF boxed
  <2>11. MatMul(p.m, boxed(u), p.t) = mat_mul(p.m, boxed(u), p.t)
         /\ mat_mul(p.m, boxed(u), p.t) \in Lanes(p.t)
    BY <1>2, <2>10, MatMulAgrees
  <2>12. 0 \in 0..(p.t - 1)
    BY <1>2
  <2>13. mat_mul(p.m, boxed(u), p.t)[0] \in Fr
    BY <2>11, <2>12 DEF Lanes
  <2> QED BY <2>6, <2>7, <2>10, <2>11, <2>13
<1> HIDE DEF Closes, Ends
<1>7. 0 \in Fr
  BY FrClosed
<1> QED BY <1>3, <1>4, <1>5, <1>6, <1>7
=============================================================================
