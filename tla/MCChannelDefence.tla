-------------------------- MODULE MCChannelDefence --------------------------
(* Small instances of ChannelDefence for TLC. *)
EXTENDS ChannelDefence, TLC

CONSTANTS a, b

St(n, x, y) == [nonce |-> n, balanceA |-> x, balanceB |-> y]

RawDefence == {St(1, 2, 0), St(2, 0, 2), St(3, 1, 1)}
\* Two updates of a (1,1) channel, around a raw one, and one that conserves nothing.
ProofDefence == {St(1, 0, 2), St(3, 2, 0), St(2, 2, 2)}
\* Four updates, so that one proof of two of them leaves two newer ones.
ProofFour == {St(1, 0, 2), St(2, 2, 0), St(3, 1, 1), St(4, 0, 2)}
RemoteDefence == {St(1, 0, 2)}
NoUpdates == {}

AccountSymmetry == Permutations({a, b})
=============================================================================
