------------------------ MODULE MCWatchtowerRegistry ------------------------
(* Small instances of WatchtowerRegistry for TLC. *)
EXTENDS WatchtowerRegistry

CONSTANTS c1, a, w

AllA == [c \in Channel |-> a]
AllW == [c \in Channel |-> w]
=============================================================================
