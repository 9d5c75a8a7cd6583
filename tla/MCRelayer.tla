----------------------------- MODULE MCRelayer -----------------------------
(* Small instances of Relayer for TLC. *)
EXTENDS Relayer

CONSTANTS a, b, r1, r2

St(n, x, y) == [nonce |-> n, balanceA |-> x, balanceB |-> y]

RawTwo == {St(1, 2, 0), St(2, 0, 2)}
ProofOne == {St(1, 2, 0)}
NoUpdates == {}
=============================================================================
