------------------------ MODULE ChannelStateCircuit -------------------------
(***************************************************************************)
(* circuit.rs: the constraint system of ChannelStateCircuit, run as        *)
(* `synthesize' runs, one label of pc for each place where rows are        *)
(* emitted.  A prover need not run this code: it may write any value into  *)
(* a cell, and the verifier accepts when every row holds.  So a witness    *)
(* cell gets the value the code computes (its hint) or one of the values   *)
(* of Stray, `strayed' records where the two differ, and a row that does   *)
(* not hold ends the run as rejected.                                      *)
(***************************************************************************)
EXTENDS BabyJubjubChip

CONSTANTS
  Steps,       \* STEPS, the updates of one proof
  RangeBits,   \* RANGE_BITS
  Circuits,    \* public parts of the structs provers and verifiers use
  Updates,     \* the private updates provers may load
  Signatures,  \* the signatures provers may load
  Stray        \* per kind of witness, values written instead of the hint

Public == [contract_address : Fr, chain_id : Fr, channel_id : Fr,
           start_nonce : Fr, total_deposit : Fr,
           pub_key_ax : Fr, pub_key_ay : Fr, pub_key_bx : Fr, pub_key_by : Fr,
           out_nonce : Fr, final_balance_a : Fr, final_balance_b : Fr]
Update == [nonce : Fr, balance_a : Fr, balance_b : Fr]
SignatureWitness == [r8x : Fr, r8y : Fr, s : Fr]

ASSUME CircuitAssumption ==
  /\ Steps \in Nat \ {0}
  /\ RangeBits \in Nat \ {0}
  /\ Circuits \subseteq Public /\ Updates \subseteq Update
  /\ Signatures \subseteq SignatureWitness
  /\ Stray \in [bit : SUBSET Fr, Ay : SUBSET Fr, zero : SUBSET Fr,
                identity : SUBSET Point, B8 : SUBSET Point]

\* Sums and differences of values in range do not meet modulo P.
ASSUME RangeAssumption == 2^(RangeBits + 1) <= P

\* Arithmetic, stated because the provers do not know powers.
AllBits == RangeBits + ChallengeBits + ScalarBits
ASSUME PowersOfTwo ==
  2^0 = 1 /\ \A n \in 0..AllBits : 2^n \in Nat \ {0} /\ 2^(n + 1) = 2 * 2^n

Party == {"a", "b"}

\* Where to_bits runs: the range checks and the two scalars of a signature.
RangeChecks == {"start_nonce", "balance_a", "balance_b", "nonce", "increase"}
Decomposing == RangeChecks \cup {"challenge", "scalar"}
Label == Decomposing \cup {"public", "load", "conservation", "signature", "carry",
                           "final", "accepted", "rejected"}

VARIABLES
  circuit,     \* the public cells: the struct the prover filled in
  instance,    \* the public inputs the verifier uses
  params,      \* the Poseidon constants both hashes were built with
  pc,
  word,        \* the decomposition under way
  prev_nonce,  \* prev_nonce_cell
  update,      \* the cells of the update under way
  signer,      \* whose signature verify_eddsa is at
  sigs,        \* the signature cells of the update under way
  message,     \* its message hash
  rhs,         \* R8 + c * 8A
  updates,     \* the updates whose rows are complete
  strayed      \* kinds of cells whose value is not their hint

\* What a run starts with and never writes.
setup == <<circuit, instance, params>>

vars == <<setup, pc, word, prev_nonce, update, signer, sigs, message,
          rhs, updates, strayed>>

-----------------------------------------------------------------------------
\* public_inputs: the instance column of a struct.
public_inputs(c) ==
  <<c.contract_address, c.chain_id, c.channel_id, c.start_nonce, c.total_deposit,
    c.pub_key_ax, c.pub_key_ay, c.pub_key_bx, c.pub_key_by,
    c.out_nonce, c.final_balance_a, c.final_balance_b>>

\* The instance row synthesize ties each public cell to.
InstanceRow ==
  [contract_address |-> 0, chain_id |-> 1, channel_id |-> 2, start_nonce |-> 3,
   total_deposit |-> 4, pub_key_ax |-> 5, pub_key_ay |-> 6, pub_key_bx |-> 7,
   pub_key_by |-> 8, out_nonce |-> 9, final_balance_a |-> 10, final_balance_b |-> 11]

message_hash_at(c, u) ==
  poseidon_hash(params.t7, <<c.contract_address, c.chain_id, c.channel_id,
                      u.nonce, u.balance_a, u.balance_b>>)

KeyOf(c, party) == IF party = "a" THEN [x |-> c.pub_key_ax, y |-> c.pub_key_ay]
                                  ELSE [x |-> c.pub_key_bx, y |-> c.pub_key_by]

\* A row or a copy constraint: no proof when it does not hold.
Goto(holds, label) == pc' = IF holds THEN label ELSE "rejected"

\* What a prover may write into a witness cell, and the record of it.
Written(kind, hint) == {hint} \cup Stray[kind]
Departs(kind, value, hint) == IF value = hint THEN {} ELSE {kind}

\* The cells no row ties: every other witness has at most the value the code
\* computes.  A challenge has two decompositions when value + P also fits.
Unforced == {"Ay", "zero", "identity", "B8", "challenge"}

NoSignatures == [party \in {} |-> 0]

\* range_check_64 and the other calls of to_bits
ToBits(value, n, hint) ==
  word' = [value |-> value, n |-> n, hint |-> hint, bits |-> <<>>, acc |-> 0, weight |-> 1]

RangeCheck(value) == ToBits(value, RangeBits, value)

\* All bits are there, and their sum is the cell they were taken from.
BitsComplete == pc \in Decomposing /\ Len(word.bits) = word.n
Decomposed(label) == pc = label /\ BitsComplete /\ AssertEqual(word.acc, word.value)

-----------------------------------------------------------------------------
Init ==
  /\ circuit \in Circuits
  /\ instance \in {public_inputs(c) : c \in Circuits}
  /\ params = PoseidonParams
  /\ pc = "public"
  /\ word = [value |-> 0, n |-> 0, hint |-> 0, bits |-> <<>>, acc |-> 0, weight |-> 1]
  /\ prev_nonce = circuit.start_nonce
  /\ update = [nonce |-> 0, balance_a |-> 0, balance_b |-> 0]
  /\ signer = "a"
  /\ sigs = NoSignatures
  /\ message = 0
  /\ rhs = identity
  /\ updates = <<>>
  /\ strayed = {}

LoadPublic ==
  /\ pc = "public"
  /\ Goto(\A f \in DOMAIN InstanceRow : circuit[f] = instance[InstanceRow[f] + 1],
          "start_nonce")
  /\ RangeCheck(circuit.start_nonce)
  /\ UNCHANGED <<setup, prev_nonce, update, signer, sigs, message, rhs,
                 updates, strayed>>

\* A turn of the loop of to_bits up to turn `last': the bit meets the row
\* Boolean(bit) and adds its weight.
Turn(Boolean(_), last) ==
  /\ pc \in Decomposing /\ Len(word.bits) < last
  /\ \E bit \in Written("bit", fr_to_le_bits(word.hint, Len(word.bits))) :
       /\ Goto(Boolean(bit), pc)
       /\ word' = [word EXCEPT !.bits = Append(@, bit),
                               !.acc = AddBit(@, bit, word.weight),
                               !.weight = DoubleWeight(@)]
       /\ strayed' = strayed \cup
            Departs("bit", bit, fr_to_le_bits(word.hint, Len(word.bits)))
  /\ UNCHANGED <<setup, prev_nonce, update, signer, sigs, message, rhs,
                 updates>>

\* Mutants: the bit is not made boolean; the loop takes a turn too many.
WitnessBit_AnyValue == Turn(LAMBDA bit : TRUE, word.n)
WitnessBit_OneMore == Turn(LAMBDA bit : AssertEqual(Mul(bit, bit), bit), word.n + 1)

WitnessBit == Turn(LAMBDA bit : AssertEqual(Mul(bit, bit), bit), word.n)

\* The last row of to_bits fails: the value does not fit, or the bits are not its own.
BitsRejected ==
  /\ BitsComplete /\ ~AssertEqual(word.acc, word.value)
  /\ pc' = "rejected"
  /\ UNCHANGED <<setup, word, prev_nonce, update, signer, sigs, message, rhs,
                 updates, strayed>>

StartNonceChecked ==
  /\ Decomposed("start_nonce")
  /\ pc' = "load"
  /\ UNCHANGED <<setup, word, prev_nonce, update, signer, sigs, message, rhs,
                 updates, strayed>>

LoadUpdate ==
  /\ pc = "load"
  /\ update' \in Updates
  /\ sigs' = NoSignatures
  /\ pc' = "balance_a"
  /\ RangeCheck(update'.balance_a)
  /\ UNCHANGED <<setup, prev_nonce, signer, message, rhs, updates, strayed>>

BalanceAChecked ==
  /\ Decomposed("balance_a")
  /\ pc' = "balance_b"
  /\ RangeCheck(update.balance_b)
  /\ UNCHANGED <<setup, prev_nonce, update, signer, sigs, message, rhs,
                 updates, strayed>>

BalanceBChecked ==
  /\ Decomposed("balance_b")
  /\ pc' = "nonce"
  /\ RangeCheck(update.nonce)
  /\ UNCHANGED <<setup, prev_nonce, update, signer, sigs, message, rhs,
                 updates, strayed>>

NonceChecked ==
  /\ Decomposed("nonce")
  /\ pc' = "conservation"
  /\ UNCHANGED <<setup, word, prev_nonce, update, signer, sigs, message, rhs,
                 updates, strayed>>

\* Mutant: an equal nonce passes.
Rise_Weak(nonce, prev) == Sub(nonce, prev)

\* nonce[i] - prevNonce - 1, the value whose range check makes nonces rise
Rise(nonce, prev) == AddConst(Sub(nonce, prev), Neg(1))

Conserve ==
  /\ pc = "conservation"
  /\ Goto(AssertEqual(Add(update.balance_a, update.balance_b), circuit.total_deposit),
          "increase")
  /\ RangeCheck(Rise(update.nonce, prev_nonce))
  /\ UNCHANGED <<setup, prev_nonce, update, signer, sigs, message, rhs,
                 updates, strayed>>

HashMessage ==
  /\ Decomposed("increase")
  /\ pc' = "signature"
  /\ \E zero \in Written("zero", 0) :
       /\ message' = poseidon_hash_circuit(params.t7, zero,
                       <<circuit.contract_address, circuit.chain_id, circuit.channel_id,
                         update.nonce, update.balance_a, update.balance_b>>)
       /\ strayed' = strayed \cup Departs("zero", zero, 0)
  /\ signer' = "a"
  /\ UNCHANGED <<setup, word, prev_nonce, update, sigs, rhs, updates>>

\* verify_eddsa up to the decomposition of the challenge.  The cell of Ay is
\* a fresh witness: no row ties it to the public input.
LoadSignature ==
  /\ pc = "signature"
  /\ \E sig \in Signatures,
        ay \in Written("Ay", KeyOf(circuit, signer).y),
        zero \in Written("zero", 0) :
       LET key == KeyOf(circuit, signer)
       IN  /\ sigs' = [p \in DOMAIN sigs \cup {signer} |->
                         IF p = signer THEN [r8 |-> [x |-> sig.r8x, y |-> sig.r8y],
                                             s |-> sig.s, ay |-> ay]
                                       ELSE sigs[p]]
           /\ ToBits(poseidon_hash_circuit(params.t6, zero, <<sig.r8x, sig.r8y, key.x, ay, message>>),
                     ChallengeBits,
                     poseidon_hash(params.t6, <<sig.r8x, sig.r8y, key.x, key.y,
                                         message_hash_at(circuit, update)>>))
           /\ strayed' = strayed \cup Departs("Ay", ay, key.y) \cup Departs("zero", zero, 0)
  /\ pc' = "challenge"
  /\ UNCHANGED <<setup, prev_nonce, update, signer, message, rhs, updates>>

\* R8 + c * f(A) from the bits of the challenge
RightSide(f(_)) ==
  /\ Decomposed("challenge")
  /\ \E id \in Written("identity", identity) :
       LET sig == sigs[signer]
           a   == [x |-> KeyOf(circuit, signer).x, y |-> sig.ay]
       IN  /\ rhs' = PointAdd(sig.r8, ScalarMulBits(f(a), word.bits, id))
           /\ strayed' = strayed
                \cup Departs("identity", id, identity)
                \cup Departs("challenge", word.bits, le_bits(word.value, word.n))
  /\ Goto(rhs' # NoPoint, "scalar")
  /\ ToBits(sigs[signer].s, ScalarBits, sigs[signer].s)
  /\ UNCHANGED <<setup, prev_nonce, update, signer, sigs, message, updates>>

\* Mutant: the cofactor is left out.
MultiplyChallenge_NoCofactor == RightSide(LAMBDA a : a)

MultiplyChallenge == RightSide(LAMBDA a : PointDouble(PointDouble(PointDouble(a))))

CheckSignature ==
  /\ Decomposed("scalar")
  /\ \E id \in Written("identity", identity), b8 \in Written("B8", base8_point) :
       /\ Goto(AssertEqual(ScalarMulBits(b8, word.bits, id), rhs),
               IF signer = "a" THEN "signature" ELSE "carry")
       /\ strayed' = strayed \cup Departs("identity", id, identity)
                             \cup Departs("B8", b8, base8_point)
  /\ signer' = "b"
  /\ UNCHANGED <<setup, word, prev_nonce, update, sigs, message, rhs, updates>>

\* The end of the loop over the steps; the next one compares with this nonce.
CarryOver(nonce) ==
  /\ pc = "carry"
  /\ updates' = Append(updates, [update |-> update, sigs |-> sigs])
  /\ prev_nonce' = nonce
  /\ pc' = IF Len(updates') < Steps THEN "load" ELSE "final"
  /\ UNCHANGED <<setup, word, update, signer, sigs, message, rhs, strayed>>

\* Mutant: every step compares with the start nonce.
Carry_KeepsNonce == CarryOver(prev_nonce)

Carry == CarryOver(update.nonce)

\* The last rows, and verify_proof, which accepts once every row holds.
VerifyProof ==
  /\ pc = "final"
  /\ Goto(/\ AssertEqual(prev_nonce, circuit.out_nonce)
          /\ AssertEqual(update.balance_a, circuit.final_balance_a)
          /\ AssertEqual(update.balance_b, circuit.final_balance_b), "accepted")
  /\ UNCHANGED <<setup, word, prev_nonce, update, signer, sigs, message, rhs,
                 updates, strayed>>

Next ==
  \/ LoadPublic \/ WitnessBit \/ BitsRejected
  \/ StartNonceChecked \/ LoadUpdate \/ BalanceAChecked \/ BalanceBChecked \/ NonceChecked
  \/ Conserve \/ HashMessage
  \/ LoadSignature \/ MultiplyChallenge \/ CheckSignature
  \/ Carry \/ VerifyProof

Spec == Init /\ [][Next]_vars

-----------------------------------------------------------------------------
Word == [value : Fr, n : Nat, hint : Fr, bits : Seq(Fr), acc : Fr, weight : Fr]
Loaded == [r8 : Point, s : Fr, ay : Fr]
Signed == [update : Update, sigs : [Party -> Loaded]]

\* The cells of the circuit hold field elements, and a completed update
\* carries the signature cells of both parties.
TypeOK ==
  /\ circuit \in Public
  /\ instance \in [1..12 -> Fr]
  /\ pc \in Label
  /\ word \in Word /\ Len(word.bits) <= word.n
  /\ prev_nonce \in Fr
  /\ update \in Update
  /\ signer \in Party
  /\ DOMAIN sigs \subseteq Party /\ \A p \in DOMAIN sigs : sigs[p] \in Loaded
  /\ message \in Fr
  /\ rhs \in Point \cup {NoPoint}
  /\ updates \in Seq(Signed) /\ Len(updates) <= Steps
  /\ strayed \subseteq Unforced \cup {"bit"}

-----------------------------------------------------------------------------
Limit == 2^RangeBits

\* What the public inputs of a proof claim, read from the instance column in
\* the order public_inputs documents.
Claim == [start_nonce |-> instance[4], total_deposit |-> instance[5],
          out_nonce |-> instance[10], final_balance_a |-> instance[11],
          final_balance_b |-> instance[12]]

Nonce(i) == IF i = 0 THEN Claim.start_nonce ELSE updates[i].update.nonce

\* Whatever a prover writes into the cells, an accepted proof stands for a
\* chain of updates over the integers: nonces rise strictly from the start
\* nonce, nothing exceeds its range, balances make up the deposit and the last
\* update is the claimed state (the range checks and the comparison
\* of synthesize, whose arithmetic is modulo P).
ChainSound ==
  pc = "accepted" =>
    /\ Len(updates) = Steps
    /\ \A i \in 1..Steps :
         LET u == updates[i].update
         IN  /\ Nonce(i - 1) < u.nonce /\ u.nonce < Limit
             /\ u.balance_a < Limit /\ u.balance_b < Limit
             /\ u.balance_a + u.balance_b = Claim.total_deposit
    /\ updates[Steps].update =
         [nonce |-> Claim.out_nonce, balance_a |-> Claim.final_balance_a,
          balance_b |-> Claim.final_balance_b]

\* The signature cells satisfy the verification of babyjubjub_ref.rs under a
\* key with this y.
CoSigned(c, u, sig, party, y) ==
  eddsa_poseidon_verify(params.t6, [x |-> KeyOf(c, party).x, y |-> y], sig.r8, sig.s,
                        message_hash_at(c, u))

\* An accepted proof whose unforced cells, Ay aside, hold what the code writes
\* there has a signature of each party on every update, by the verification
\* outside the circuit: under the x of its public key and the y its cell holds,
\* which TiedKeysAreUsed shows is the public one once a row ties it.
SignaturesSound ==
  pc = "accepted" /\ strayed \cap Unforced \subseteq {"Ay"} =>
    \E c \in Circuits :
      /\ public_inputs(c) = instance
      /\ \A i \in 1..Steps, p \in Party :
           LET sig == updates[i].sigs[p]
           IN  CoSigned(c, updates[i].update, sig, p, sig.ay)

\* The circuit turns nothing away that it should prove: when the prover runs
\* this code on the verifier's public inputs, a row fails only for a value out
\* of range, a lost deposit, a nonce that does not rise, a signature that does
\* not verify or a wrong final state.
RejectedForCause ==
  pc = "rejected" /\ strayed = {} /\ instance = public_inputs(circuit) =>
    LET u == update
    IN  \/ circuit.start_nonce >= Limit
        \/ Len(updates) < Steps
           /\ \/ \E x \in {u.nonce, u.balance_a, u.balance_b} : x >= Limit
              \/ u.balance_a + u.balance_b # circuit.total_deposit
              \/ u.nonce <= Nonce(Len(updates))
              \/ \E p \in DOMAIN sigs : \/ sigs[p].s >= 2^ScalarBits
                                        \/ ~CoSigned(circuit, u, sigs[p], p, KeyOf(circuit, p).y)
        \/ Len(updates) = Steps
           /\ u # [nonce |-> circuit.out_nonce, balance_a |-> circuit.final_balance_a,
                   balance_b |-> circuit.final_balance_b]

\* The number a sequence of bits stands for.
Number(bits) == FoldRight(LAMBDA bit, rest : bit + 2 * rest, bits, 0)

\* A decomposition whose rows hold is the binary form of its cell, whatever
\* bits the prover wrote; only the challenge, as wide as the field, can also be
\* that of the cell plus the modulus.
DecompositionSound ==
  Decomposed(pc) =>
    /\ Range(word.bits) \subseteq {0, 1}
    /\ \/ Number(word.bits) = word.value
       \/ pc = "challenge" /\ Number(word.bits) = word.value + P

\* The curve, which the parameters of the code make complete (a is a square, d is
\* not): sums of its points exist and are on it, and addition associates.
Curve ==
  {p \in Point : LET xx == Times(p.x, p.x)
                     yy == Times(p.y, p.y)
                 IN  Plus(Times(a_coeff, xx), yy) = Plus(1, Times(d_coeff, Times(xx, yy)))}
CurveIsClosed == \A p, q \in Curve : point_add(p, q) \in Curve
CurveIsGroup ==
  /\ CurveIsClosed
  /\ \A p, q, r \in Curve : point_add(point_add(p, q), r) = point_add(p, point_add(q, r))
KeysOnCurve ==
  /\ base8_point \in Curve
  /\ \A c \in Circuits, party \in Party : KeyOf(c, party) \in Curve

\* n copies of a point.
Multiple(p, n) ==
  LET sum[k \in 0..n] == IF k = 0 THEN identity ELSE point_add(sum[k - 1], p)
  IN  sum[n]

\* Double and add over the decomposed bits, in and outside the circuit, is
\* repeated addition.
ScalarMulIsRepeated ==
  pc \in {"challenge", "scalar"} /\ Decomposed(pc) =>
    LET p == IF pc = "scalar" THEN base8_point ELSE KeyOf(circuit, signer)
    IN  /\ ScalarMulBits(p, word.bits, identity) = Multiple(p, Number(word.bits))
        /\ scalar_mul_bits(p, word.bits) = Multiple(p, Number(word.bits))

\* The number hex digits spell, the most significant first.
Spelt(hex) == FoldLeft(LAMBDA value, digit : 16 * value + digit, 0, hex)

\* Every table constant is read as the number its digits spell, and stands
\* where its table has it (field.rs pads, groups and turns the digits round).
ConstantsRead ==
  LET SameRow(read, row) == \A i \in DOMAIN row : read[i - 1] = Spelt(row[i])
      SameTable(read, k) ==
        /\ SameRow(read.c, k.C) /\ SameRow(read.s, k.S)
        /\ \A i \in 1..k.T : SameRow(read.m[i - 1], k.M[i]) /\ SameRow(read.p[i - 1], k.P[i])
  IN  /\ SameTable(params.t6, RawT6) /\ SameTable(params.t7, RawT7)
      /\ base8_point = [x |-> Spelt(BASE8_X), y |-> Spelt(BASE8_Y)]

\* The circuit implements the chain of updates its header describes.
Chain == INSTANCE UpdateChain WITH
  claim <- Claim,
  chain <- [i \in 1..Len(updates) |-> updates[i].update],
  verdict <- IF pc \in {"accepted", "rejected"} THEN pc ELSE "open"

ImplementsChain == Chain!Spec

\* An accepted proof has used the Ay and By of its public inputs.  This is so
\* where a prover writes nothing else there (TiedKeysAreUsed); CellsDepart of
\* the small instance has accepted proofs that used another.
KeysConstrained ==
  pc = "accepted" =>
    \A i \in 1..Steps :
      /\ updates[i].sigs["a"].ay = instance[7]
      /\ updates[i].sigs["b"].ay = instance[9]
=============================================================================
