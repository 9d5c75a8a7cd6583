----------------------------- MODULE ArithChip ------------------------------
(***************************************************************************)
(* chip.rs: the five gates of the circuit and the methods that emit rows   *)
(* of them.  A gate is a predicate over the cells of a row.  A method is   *)
(* the value its output cell is assigned; BabyJubjubChipProofs shows       *)
(* that no other value satisfies the row: a prover has no choice there.    *)
(***************************************************************************)
EXTENDS PrimeField

MulGate(a, b, out) == Plus(Times(a, b), Neg(out)) = 0
AddGate(a, b, out) == Plus(Plus(a, b), Neg(out)) = 0
AddConstGate(a, k, out) == Plus(Plus(a, k), Neg(out)) = 0
MulConstGate(a, k, out) == Plus(Times(a, k), Neg(out)) = 0
AssertConstGate(a, k) == Plus(a, Neg(k)) = 0

Mul(a, b) == Times(a, b)
Add(a, b) == Plus(a, b)
AddConst(a, k) == Plus(a, k)
MulConst(a, k) == Times(a, k)
AssertConst(a, k) == AssertConstGate(a, k)
AssertEqual(a, b) == a = b

Sub(a, b) == Add(a, MulConst(b, Neg(1)))

Pow5(a) == LET a2 == Mul(a, a)
               a4 == Mul(a2, a2)
           IN  Mul(a4, a)

\* The witness of an inversion is loaded freely and tied by a * inv == 1:
\* there is none for zero, and the circuit then has no proof.
InverseRow(a, inv) == AssertConst(Mul(a, inv), 1)
Invertible(a) == Once(LAMBDA v : \E inv \in Fr : InverseRow(v, inv), a)
Invert(a) == Once(LAMBDA v : CHOOSE inv \in Fr : InverseRow(v, inv), a)

Div(a, b) == Mul(a, Invert(b))
=============================================================================
