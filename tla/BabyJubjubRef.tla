--------------------------- MODULE BabyJubjubRef ----------------------------
(***************************************************************************)
(* babyjubjub_ref.rs: points of the twisted Edwards curve and circomlib's  *)
(* EdDSA verification outside the circuit.                                 *)
(***************************************************************************)
EXTENDS PoseidonRef

CONSTANTS
  a_coeff, d_coeff,  \* a x^2 + y^2 = 1 + d x^2 y^2
  BASE8_X, BASE8_Y,  \* hex digits of the base point
  ChallengeBits,     \* bits of the challenge fed to the scalar multiplication (254)
  ScalarBits         \* bits of S fed to the scalar multiplication (253)

ASSUME CurveAssumption ==
  /\ a_coeff \in Fr \ {0} /\ d_coeff \in Fr \ {0, a_coeff}
  /\ ValidConstant(BASE8_X) /\ ValidConstant(BASE8_Y)

\* A challenge of any size fits its bits, but with room to spare; S does not
\* reach the modulus.
ASSUME WidthAssumption ==
  /\ ChallengeBits \in Nat \ {0} /\ ScalarBits \in Nat \ {0}
  /\ 2^(ChallengeBits - 1) < P /\ P < 2^ChallengeBits
  /\ 2^ScalarBits <= P

Point == [x : Fr, y : Fr]
identity == [x |-> 0, y |-> 1]
base8_point == [x |-> fr_from_str(BASE8_X), y |-> fr_from_str(BASE8_Y)]

\* What stands for a point when a denominator has no inverse: the program
\* panics, the circuit has no proof.
NoPoint == [x |-> P, y |-> P]

InverseOf(b) == Once(LAMBDA v : CHOOSE inv \in Fr : Times(v, inv) = 1, b)
Quotient(a, b) == Times(a, InverseOf(b))

Sum(p1, p2) ==
  LET x1x2  == Times(p1.x, p2.x)
      y1y2  == Times(p1.y, p2.y)
      dxy   == Times(Times(d_coeff, x1x2), y1y2)
      x_num == Plus(Times(p1.x, p2.y), Times(p1.y, p2.x))
      y_num == Plus(y1y2, Neg(Times(a_coeff, x1x2)))
      x_den == Plus(1, dxy)
      y_den == Plus(1, Neg(dxy))
  IN  IF NoPoint \in {p1, p2} \/ 0 \in {x_den, y_den}
        THEN NoPoint
        ELSE [x |-> Quotient(x_num, x_den), y |-> Quotient(y_num, y_den)]

point_add(p1, p2) == Once(LAMBDA pair : Sum(pair[1], pair[2]), <<p1, p2>>)

point_double(p) == point_add(p, p)

\* Double and add over the bits, the least significant first.
scalar_mul_bits(p, bits) ==
  LET Turn(last, bit) ==
        [acc  |-> IF bit = 1 THEN point_add(last.acc, last.base) ELSE last.acc,
         base |-> point_double(last.base)]
      loop[i \in 0..Len(bits)] ==
        IF i = 0 THEN [acc |-> identity, base |-> p]
                 ELSE Once(LAMBDA last : Turn(last, bits[i]), loop[i - 1])
  IN  Once(LAMBDA end : IF end.base = NoPoint THEN NoPoint ELSE end.acc, loop[Len(bits)])

le_bits(x, n) == [i \in 1..n |-> fr_to_le_bits(x, i - 1)]

\* S*B8 == R8 + c*(8*A) with c = Poseidon(R8x, R8y, Ax, Ay, M)
eddsa_poseidon_verify(params5, a, sig_r8, sig_s, m) ==
  LET c       == poseidon_hash(params5, <<sig_r8.x, sig_r8.y, a.x, a.y, m>>)
      eight_a == point_double(point_double(point_double(a)))
      rhs     == point_add(sig_r8, scalar_mul_bits(eight_a, le_bits(c, ChallengeBits)))
      lhs     == scalar_mul_bits(base8_point, le_bits(sig_s, ScalarBits))
  IN  lhs = rhs /\ NoPoint \notin {lhs, rhs}
=============================================================================
