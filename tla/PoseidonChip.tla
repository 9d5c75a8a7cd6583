---------------------------- MODULE PoseidonChip ----------------------------
(***************************************************************************)
(* poseidon_chip.rs: the same hash as rows of the circuit.  The cell of    *)
(* the capacity, which the code loads with zero, is a parameter: it is a   *)
(* witness that no row ties.                                               *)
(***************************************************************************)
EXTENDS ArithChip, PoseidonRef

\* Term 0 on its own, then one product and one sum each.
RowSum(row, s, t) ==
  LET acc[j \in 0..(t - 1)] == IF j = 0 THEN MulConst(s[0], row[0])
                                        ELSE Add(acc[j - 1], MulConst(s[j], row[j]))
  IN  acc[t - 1]

\* mat_mul of the chip
MatMul(mat, state, t) ==
  Once(LAMBDA s : [i \in 0..(t - 1) |-> RowSum([j \in 0..(t - 1) |-> mat[j][i]], s, t)],
       state)

Sbox(state) == Once(LAMBDA s : [i \in DOMAIN s |-> Pow5(s[i])], state)
\* Mutant: every lane gets the constant of the first.
AddRow_OneConstant(state, c, from) ==
  Once(LAMBDA s : [i \in DOMAIN s |-> AddConst(s[i], c[from])], state)

AddRow(state, c, from) ==
  Once(LAMBDA s : [i \in DOMAIN s |-> AddConst(s[i], c[from + i])], state)

\* The body of the loop over the partial rounds.
SparseRound(params, state, r) ==
  LET t    == params.t
      base == (t * 2 - 1) * r
      row  == [j \in 0..(t - 1) |-> params.s[base + j]]
      Box(s) == [s EXCEPT ![0] =
                   AddConst(Pow5(@), params.c[(params.n_rounds_f \div 2) * t + t + r])]
      Mix(s) == [k \in 0..(t - 1) |->
                   IF k = 0 THEN RowSum(row, s, t)
                            ELSE Add(s[k], MulConst(s[0], params.s[base + t + k - 1]))]
  IN  Once(Mix, Once(Box, state))

FullRow(params, state, from, mat) ==
  MatMul(mat, AddRow(Sbox(state), params.c, from), params.t)

FullRows(params, state, from, n) ==
  FoldLeft(LAMBDA last, r : FullRow(params, last, from + (r - 1) * params.t, params.m),
           state, Rounds(n))

SparseRounds(params, state) ==
  FoldLeft(LAMBDA last, r : SparseRound(params, last, r - 1),
           state, Rounds(params.n_rounds_p))

poseidon_hash_circuit(params, zero, inputs) ==
  LET t       == params.t
      half_f  == params.n_rounds_f \div 2
      rest    == (half_f + 1) * t + params.n_rounds_p
      start   == AddRow([i \in 0..(t - 1) |-> IF i = 0 THEN zero ELSE inputs[i]], params.c, 0)
      opening == FullRows(params, start, t, half_f - 1)
      middle  == FullRow(params, opening, half_f * t, params.p)
      closing == FullRows(params, SparseRounds(params, middle), rest, half_f - 1)
  IN  MatMul(params.m, Sbox(closing), t)[0]
=============================================================================
