--------------------------- MODULE WatchtowerDuty ---------------------------
(* What WatchtowerRegistry.slash takes for proof of negligence, compared with *)
(* what the Watchtower process could have known.                              *)
EXTENDS Watchtower

VARIABLE knew              \* history: the newest nonce stored before the window ended

\* The contract takes a challenge, now or after a close.
Defensible(id) ==
    \/ channels[id].status = "ACTIVE"
    \/ channels[id].status = "CHALLENGE_PERIOD" /\ now < channels[id].challengeExpiry

DutyInit == WatchtowerInit /\ knew = [id \in ChannelId |-> 0]

DutyNext == WatchtowerNext /\ knew' = Newest(knew, Defensible)

DutySpec == DutyInit /\ [][DutyNext]_<<watchtowerVars, knew>>
----------------------------------------------------------------------------
\* WatchtowerRegistry.sol:203-205: what slash looks for is the proof that the
\* watchtower knew of a newer state and got no challenge in before the window closed.
SlashProvesMiss ==
    \A id \in ChannelId :
        /\ channels[id].status = "CLOSED" /\ ~channels[id].closedCooperatively
        /\ committed[id] > channels[id].nonce
        => knew[id] > channels[id].nonce
=============================================================================
