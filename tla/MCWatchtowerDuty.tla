-------------------------- MODULE MCWatchtowerDuty --------------------------
(* A small instance of WatchtowerDuty for TLC. *)
EXTENDS WatchtowerDuty, TLC

CONSTANTS a, b

St(n, x, y) == [nonce |-> n, balanceA |-> x, balanceB |-> y]

\* Two updates of a (1,1) channel.
RawTwo == {St(1, 2, 0), St(2, 0, 2)}
NoUpdates == {}

AccountSymmetry == Permutations({a, b})
=============================================================================
