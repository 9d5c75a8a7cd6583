-------------------------- MODULE MCPaymentChannel --------------------------
(* Small instances of PaymentChannel for TLC. *)
EXTENDS PaymentChannel, TLC

CONSTANTS a, b

St(n, x, y) == [nonce |-> n, balanceA |-> x, balanceB |-> y]

\* Raw signatures: two updates of a (1,1) channel and one that matches no deposits.
RawSmall == {St(1, 2, 0), St(3, 0, 2), St(3, 2, 2)}
\* Enough EdDSA updates for two proofs of two updates each.
ProofSmall == {St(1, 0, 2), St(2, 2, 0), St(3, 1, 1), St(4, 0, 2)}
RemoteSmall == {St(1, 0, 2), St(1, 2, 2)}
\* Two updates of a (1,1) channel and one that spends the deposits of two of them.
RawTwo == {St(1, 2, 0), St(2, 0, 2), St(2, 3, 1)}
NoUpdates == {}

AccountSymmetry == Permutations({a, b})
=============================================================================
