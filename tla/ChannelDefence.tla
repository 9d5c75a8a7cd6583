--------------------------- MODULE ChannelDefence ---------------------------
(* What the dispute rules of PaymentChannel are for: a party that reacts in     *)
(* time is never settled on a state older than one it holds, and money that is  *)
(* in dispute comes out.  docs/threat-model.md (assumption 2) states the        *)
(* premise: CHALLENGE_PERIOD is long enough for the wronged party, or a         *)
(* watchtower in its place, to notice and react.                                *)
EXTENDS PaymentChannel

VARIABLE lapsed            \* history: channels that were not defended in time

defenceVars == <<vars, lapsed>>

\* Co-signed states that would win a challenge on channel id.
Better(id) ==
    {st \in signed[id] : /\ st.nonce > channels[id].nonce
                         /\ CheckConservation(channels[id], st)}

\* What a vigilant party never lets happen: a window runs out while it has a better
\* co-signed state at hand, or it signs updates of a channel that is being closed.
Lapses(id) ==
    \/ /\ channels[id].status = "CHALLENGE_PERIOD" /\ Better(id) # {}
       /\ now < channels[id].challengeExpiry /\ channels[id].challengeExpiry <= now'
    \/ signed'[id] # signed[id] /\ channels[id].status # "ACTIVE"

DefenceInit == Init /\ lapsed = {}

DefenceNext == Next /\ lapsed' = lapsed \cup {id \in ChannelId : Lapses(id)}

DefenceSpec == DefenceInit /\ [][DefenceNext]_defenceVars

\* Settlement after a window, however the state got posted (signatures, proof or
\* attestation), never falls short of a state that both parties signed, if the
\* channel was defended.
NewestStateWins ==
    \A id \in ChannelId \ lapsed :
        /\ channels[id].status = "CLOSED" /\ origin[id] # "none"
        /\ ~channels[id].closedCooperatively
        => Better(id) = {}

----------------------------------------------------------------------------
(* The proof path *)

\* While a window is open between two different parties, both with keys, the newer
\* state end can be reached from the posted one by a proof's worth of updates: all
\* that a newer proof takes, apart from an opening of the commitment it starts from.
Overtakes(id, end) ==
    LET ch == channels[id]
        post == Posted(ch)
        start == [nonce |-> post.nonce,
                  commitment |-> Poseidon(post.balanceA, post.balanceB, Public)] IN
    /\ ch.status = "CHALLENGE_PERIOD" /\ now < ch.challengeExpiry
    /\ ch.partyA # ch.partyB
    /\ ch.pubKeyA # NoKey /\ ch.pubKeyB # NoKey
    /\ UpdateChain(id, start, end)

\* PaymentChannel.sol:72-74: during the window the other party can submit a newer
\* state, signed or proven.  So either party that holds the updates from the posted
\* state to a newer one can override the post with a proof (not true of the code:
\* the anchor of _verifyChannelProof may have a blinding that one party only knows).
ProofOverridable ==
    \A id \in ChannelId, end \in ProofUpdates :
        Overtakes(id, end) =>
            \A p \in {channels[id].partyA, channels[id].partyB} :
                \E newer \in ProofUpdates :
                    newer.nonce > channels[id].nonce /\ VerifyChannelProof(p, id, newer)

\* The blinding is all that stands in the way: whoever can open the posted
\* commitment, and everybody when the post revealed its balances (so that the anchor
\* is genesis), can prove every state that overtakes the post.
KnownPostOverridable ==
    \A id \in ChannelId, end \in ProofUpdates, p \in Party :
        /\ Overtakes(id, end)
        /\ channels[id].balancesCommitted => Knows(p, channels[id].balanceCommitment)
        => end.nonce > channels[id].nonce /\ VerifyChannelProof(p, id, end)

----------------------------------------------------------------------------
(* Liveness: time passes, and a party that can settle an expired window does. *)

Fairness ==
    /\ WF_vars(Tick)
    /\ \A id \in ChannelId : WF_vars(\E sender \in Party : Settling(sender, id))

FairDefenceSpec == DefenceSpec /\ Fairness

\* A party of the channel is able to open the commitment, if there is one.
Openable(id) ==
    LET ch == channels[id] IN
    ch.balancesCommitted =>
        \E p \in {ch.partyA, ch.partyB} : Knows(p, ch.balanceCommitment)

\* Every dispute ends in a settlement, whatever is posted in between, unless the
\* channel is left on a commitment that neither party can open.
DisputesSettle ==
    \A id \in ChannelId :
        channels[id].status = "CHALLENGE_PERIOD" ~>
            channels[id].status = "CLOSED" \/ ~Openable(id)
=============================================================================
