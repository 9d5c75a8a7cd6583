---------------------------- MODULE MCWatchtower ----------------------------
(* Small instances of Watchtower for TLC. *)
EXTENDS Watchtower, TLC

CONSTANTS a, b

St(n, x, y) == [nonce |-> n, balanceA |-> x, balanceB |-> y]

\* An update of a (1,1) channel, and one signed for partyA's deposit alone.
RawEarly == {St(2, 0, 2), St(3, 1, 0)}
\* What such a channel can be closed on against the first.
RemoteOld == {St(1, 2, 0)}
NoUpdates == {}

AccountSymmetry == Permutations({a, b})
=============================================================================
