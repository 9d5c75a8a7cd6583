---------------------------- MODULE PoseidonRef -----------------------------
(***************************************************************************)
(* poseidon_ref.rs: circomlib's optimized Poseidon outside the circuit.    *)
(* Arrays are functions from 0, as in the code.  The numbers of the tables *)
(* (poseidon_constants_t6.rs, _t7.rs) are parameters: the circuit's shape  *)
(* does not depend on them.                                                *)
(***************************************************************************)
EXTENDS PrimeField

CONSTANTS
  RawT6,   \* the table of the challenge hash: five inputs
  RawT7    \* the table of the message hash: six inputs

\* Hexes(k) is every constant of the table k, as a sequence of hex digits.
Hexes(k) ==
  LET Entries(rows) == UNION {Range(row) : row \in Range(rows)}
  IN  Range(k.C) \cup Range(k.S) \cup Entries(k.M) \cup Entries(k.P)

\* One constant for each number the rounds below ask for, and none that
\* from_raw would panic on.
WellFormed(k, inputs) ==
  /\ k.T = inputs + 1
  /\ k.N_ROUNDS_F \in Nat /\ k.N_ROUNDS_F >= 2 /\ k.N_ROUNDS_F % 2 = 0
  /\ k.N_ROUNDS_P \in Nat
  /\ {k.C, k.S} \subseteq Seq(HexString) /\ {k.M, k.P} \subseteq Seq(Seq(HexString))
  /\ Len(k.C) = k.N_ROUNDS_F * k.T + k.N_ROUNDS_P
  /\ Len(k.S) = (2 * k.T - 1) * k.N_ROUNDS_P
  /\ \A mat \in {k.M, k.P} : Len(mat) = k.T /\ \A row \in Range(mat) : Len(row) = k.T
  /\ \A hex \in Hexes(k) : ValidConstant(hex)

ASSUME TableAssumption == WellFormed(RawT6, 5) /\ WellFormed(RawT7, 6)

FromRaw(k) ==
  LET Parse(row) == [i \in 0..(Len(row) - 1) |-> fr_from_str(row[i + 1])]
      Matrix(rows) == [i \in 0..(Len(rows) - 1) |-> Parse(rows[i + 1])]
  IN  [t |-> k.T, n_rounds_f |-> k.N_ROUNDS_F, n_rounds_p |-> k.N_ROUNDS_P,
       c |-> Parse(k.C), s |-> Parse(k.S), m |-> Matrix(k.M), p |-> Matrix(k.P)]

\* The two parameter sets; every user of the hash is handed the one it needs.
PoseidonParams == [t6 |-> FromRaw(RawT6), t7 |-> FromRaw(RawT7)]

-----------------------------------------------------------------------------
pow5(a) == Times(Times(Times(a, a), Times(a, a)), a)

\* sum[n] adds the first n of the products row[j] * state[j].
DotProduct(row, state, t) ==
  LET sum[n \in 0..t] ==
        IF n = 0 THEN 0 ELSE Plus(sum[n - 1], Times(row[n - 1], state[n - 1]))
  IN  sum[t]

mat_mul(mat, state, t) ==
  Once(LAMBDA s : [i \in 0..(t - 1) |-> DotProduct([j \in 0..(t - 1) |-> mat[j][i]], s, t)],
       state)

\* A full round: the S-box everywhere, the constants c[from ...], the matrix.
FullRound(params, state, from, mat) ==
  mat_mul(mat,
          Once(LAMBDA s : [i \in 0..(params.t - 1) |-> Plus(pow5(s[i]), params.c[from + i])],
               state),
          params.t)

\* Partial round r: the S-box on state[0] only, then the sparse matrix.
PartialRound(params, state, r) ==
  LET t      == params.t
      base   == (t * 2 - 1) * r
      row    == [j \in 0..(t - 1) |-> params.s[base + j]]
      Box(s) == [s EXCEPT ![0] = Plus(pow5(@), params.c[(params.n_rounds_f \div 2) * t + t + r])]
      Mix(s) == [k \in 0..(t - 1) |->
                   IF k = 0 THEN DotProduct(row, s, t)
                            ELSE Plus(s[k], Times(s[0], params.s[base + t + k - 1]))]
  IN  Once(Mix, Once(Box, state))

Rounds(n) == [r \in 1..n |-> r]

\* n full rounds, whose constants start at c[from].
FullRounds(params, state, from, n) ==
  FoldLeft(LAMBDA last, r : FullRound(params, last, from + (r - 1) * params.t, params.m),
           state, Rounds(n))

PartialRounds(params, state) ==
  FoldLeft(LAMBDA last, r : PartialRound(params, last, r - 1),
           state, Rounds(params.n_rounds_p))

poseidon_hash(params, inputs) ==
  LET t      == params.t
      half_f == params.n_rounds_f \div 2
      rest   == (half_f + 1) * t + params.n_rounds_p
      start  == Once(LAMBDA given : [i \in 0..(t - 1) |->
                                        Plus(IF i = 0 THEN 0 ELSE given[i], params.c[i])],
                     inputs)
      first  == FullRounds(params, start, t, half_f - 1)
      middle == FullRound(params, first, half_f * t, params.p)
      second == FullRounds(params, PartialRounds(params, middle), rest, half_f - 1)
  IN  mat_mul(params.m, Once(LAMBDA s : [i \in 0..(t - 1) |-> pow5(s[i])], second), t)[0]
=============================================================================
