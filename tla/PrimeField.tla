----------------------------- MODULE PrimeField -----------------------------
(***************************************************************************)
(* The scalar field the Halo2 circuit computes in (halo2curves' Fr), and   *)
(* field.rs, which reads the constants of circomlib into it.  Elements are *)
(* the integers below the modulus P.                                       *)
(***************************************************************************)
EXTENDS Integers, SequencesExt

CONSTANTS
  P,           \* the modulus
  WordBytes    \* bytes of the representation of an element (32)

ASSUME PAssumption == P \in Nat /\ P > 2

\* P is prime: nonzero elements have a nonzero product.
ASSUME Primality == \A a, b \in 1..(P - 1) : (a * b) % P # 0

ASSUME WordAssumption == WordBytes \in Nat \ {0}

Fr == 0..(P - 1)

Plus(a, b) == (a + b) % P
Neg(a) == (P - a) % P
Times(a, b) == (a * b) % P

\* F(x).  TLC computes an argument again at each use; here it computes x, and
\* every element of the result, once.
Once(F(_), x) == CHOOSE y \in {F(v) : v \in {x}} : y = y

-----------------------------------------------------------------------------
(* A constant is the sequence of the hex digits behind its 0x prefix.      *)

HexString == Seq(0..15)

\* Mutant: an odd digit count is not made even.
HexToLeBytes_DropsOdd(hex) ==
  LET count == Len(hex) \div 2
      bytes == [i \in 1..count |-> 16 * hex[2 * i - 1] + hex[2 * i]]
  IN  Reverse([i \in 1..(WordBytes - count) |-> 0] \o bytes)

\* hex_to_le_bytes32: an odd digit count gets a leading zero, the bytes are
\* padded to the width of a word and turned round.
HexToLeBytes(hex) ==
  LET even  == IF Len(hex) % 2 = 1 THEN <<0>> \o hex ELSE hex
      count == Len(even) \div 2
      bytes == [i \in 1..count |-> 16 * even[2 * i - 1] + even[2 * i]]
  IN  Reverse([i \in 1..(WordBytes - count) |-> 0] \o bytes)

\* from_repr: the number a little-endian word stands for.
FromRepr(bytes) == FoldRight(LAMBDA byte, rest : byte + 256 * rest, bytes, 0)

\* A constant the parser does not panic on: it fits a word and is below P.
ValidConstant(hex) ==
  /\ hex \in HexString
  /\ Len(hex) <= 2 * WordBytes
  /\ FromRepr(HexToLeBytes(hex)) < P

fr_from_str(hex) == FromRepr(HexToLeBytes(hex))

\* bit i of the little-endian bits of a number (fr_to_le_bits)
fr_to_le_bits(x, i) == (x \div 2^i) % 2
=============================================================================
