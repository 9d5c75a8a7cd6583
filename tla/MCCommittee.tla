----------------------------- MODULE MCCommittee -----------------------------
(* Small instances of Committee for TLC. *)
EXTENDS Committee

CONSTANTS v1, v2, v3, v4, f, r1, r2

\* Two roots of one block, and a later block.
Requests == {[chain |-> 1, block |-> 1, root |-> r1],
             [chain |-> 1, block |-> 1, root |-> r2],
             [chain |-> 1, block |-> 2, root |-> r2]}

\* f may get several seats.
SmallBatches == {<<v1, v2>>, <<v3, f>>, <<f>>}
FiveKeys == <<v1, v2, v3, v4, f>>
=============================================================================
