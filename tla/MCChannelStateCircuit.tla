----------------------- MODULE MCChannelStateCircuit ------------------------
(* Small instances of ChannelStateCircuit for TLC: the field of 29 elements,  *)
(* a complete twisted Edwards curve of order 8 * 5 over it, and Poseidon      *)
(* tables of arbitrary numbers.                                               *)
EXTENDS ChannelStateCircuit

\* A number below 32 as hex digits, with and without an odd digit count.
Hex(n) == IF n < 16 THEN <<n>> ELSE <<n \div 16, n % 16>>
Digits(n, f) == [i \in 1..n |-> Hex((f * i * i + 3 * i + 5) % 29)]

Table(t, rounds_f, rounds_p) ==
  [T |-> t, N_ROUNDS_F |-> rounds_f, N_ROUNDS_P |-> rounds_p,
   C |-> Digits(rounds_f * t + rounds_p, 7),
   S |-> Digits((2 * t - 1) * rounds_p, 11),
   M |-> [i \in 1..t |-> [j \in 1..t |-> Hex((i * i * j + 2 * j * j + i) % 29)]],
   P |-> [i \in 1..t |-> [j \in 1..t |-> Hex((3 * i * j * j + i + 1) % 29)]]]

TinyT6 == Table(6, 4, 2)
TinyT7 == Table(7, 4, 2)

\* (10, 18) generates the points of order five.
TinyBaseX == <<10>>
TinyBaseY == <<1, 2>>

Struct(start, out, a, b) ==
  [contract_address |-> 7, chain_id |-> 5, channel_id |-> 1,
   start_nonce |-> start, total_deposit |-> 3,
   pub_key_ax |-> 12, pub_key_ay |-> 23, pub_key_bx |-> 17, pub_key_by |-> 23,
   out_nonce |-> out, final_balance_a |-> a, final_balance_b |-> b]

\* Two channel states, one whose start is out of range.
TwoClaims == {Struct(0, 2, 1, 2), Struct(1, 3, 3, 0), Struct(4, 5, 1, 2)}

U(n, a, b) == [nonce |-> n, balance_a |-> a, balance_b |-> b]

\* In and out of range, rising and not, conserving, losing deposit, and
\* conserving only modulo the field.
FewUpdates ==
  {U(1, 1, 2), U(1, 3, 0), U(2, 1, 2), U(3, 3, 0),
   U(0, 3, 0), U(4, 1, 2), U(28, 1, 2), U(2, 2, 2), U(2, 28, 4)}

\* R8 on the curve with the S that some update needs and one beyond its bits; off
\* the curve.
FewSignatures ==
  {[r8x |-> 10, r8y |-> 18, s |-> s] : s \in {0, 1, 3, 4, 17}}
    \cup {[r8x |-> 1, r8y |-> 1, s |-> 1]}

\* The premises of the theorems about multiplication hold in this instance, with
\* the base point its digits spell (ConstantsRead: the one that is read).
ASSUME CompleteCurve ==
  /\ CurveIsGroup
  /\ [x |-> Spelt(TinyBaseX), y |-> Spelt(TinyBaseY)] \in Curve
  /\ \A c \in TwoClaims, party \in Party : KeyOf(c, party) \in Curve

NoDeparture == [bit |-> {}, Ay |-> {}, zero |-> {}, identity |-> {}, B8 |-> {}]
CellsDepart == [NoDeparture EXCEPT !.bit = {0, 1, 2}, !.Ay = {14}]
=============================================================================
