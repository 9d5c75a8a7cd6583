--------------------------- MODULE BabyJubjubChip ---------------------------
(***************************************************************************)
(* babyjubjub_chip.rs: curve points as pairs of cells.  The decomposition  *)
(* into bits (to_bits) is the loop of ChannelStateCircuit; the identity    *)
(* the scalar multiplication starts from is a parameter, since the two     *)
(* cells it is loaded into are tied by no row.                             *)
(***************************************************************************)
EXTENDS PoseidonChip, BabyJubjubRef

SumRows(p1, p2) ==
  LET x1x2     == Mul(p1.x, p2.x)
      y1y2     == Mul(p1.y, p2.y)
      dx1x2y1y2 == MulConst(Mul(x1x2, y1y2), d_coeff)
      x_num    == Add(Mul(p1.x, p2.y), Mul(p1.y, p2.x))
      x_den    == AddConst(dx1x2y1y2, 1)
      y_num    == Sub(y1y2, MulConst(x1x2, a_coeff))
      y_den    == AddConst(MulConst(dx1x2y1y2, Neg(1)), 1)
  IN  IF NoPoint \notin {p1, p2} /\ Invertible(x_den) /\ Invertible(y_den)
        THEN [x |-> Div(x_num, x_den), y |-> Div(y_num, y_den)]
        ELSE NoPoint

PointAdd(p1, p2) == Once(LAMBDA pair : SumRows(pair[1], pair[2]), <<p1, p2>>)
PointDouble(p) == PointAdd(p, p)

\* Mutant: the two alternatives are swapped.
Select_Swapped(bit, on, off) == Add(on, Mul(bit, Sub(off, on)))

Select(bit, on, off) == Add(off, Mul(bit, Sub(on, off)))

\* The sum is formed whatever the bit: without it there is no proof.
SelectPoint(bit, on, off) ==
  IF NoPoint \in {on, off}
    THEN NoPoint
    ELSE [x |-> Select(bit, on.x, off.x), y |-> Select(bit, on.y, off.y)]

ScalarMulBits(p, bits, id) ==
  LET Turn(last, bit) ==
        [acc  |-> Once(LAMBDA added : SelectPoint(bit, added, last.acc),
                       PointAdd(last.acc, last.base)),
         base |-> PointDouble(last.base)]
      loop[i \in 0..Len(bits)] ==
        IF i = 0 THEN [acc |-> id, base |-> p]
                 ELSE Once(LAMBDA last : Turn(last, bits[i]), loop[i - 1])
  IN  Once(LAMBDA end : IF end.base = NoPoint THEN NoPoint ELSE end.acc, loop[Len(bits)])

\* One turn of to_bits: the weight of the next bit is the double of the last.
AddBit(acc, bit, weight) == Add(acc, MulConst(bit, weight))
DoubleWeight(weight) == Plus(weight, weight)
=============================================================================
