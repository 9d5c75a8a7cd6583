--------------------------- MODULE PaymentChannel ---------------------------
(* contracts/src/PaymentChannel.sol: two-party payment channels opened, joined, *)
(* closed, disputed and settled on one chain.  One action per external function; *)
(* a transaction is atomic.  Around the contract stand the environment actions   *)
(* it depends on: the parties co-signing updates off-chain, the light client     *)
(* learning a remote state root, and the block clock.                            *)
EXTENDS Naturals, FiniteSets, Functions

CONSTANTS
    Party,              \* externally owned accounts and contracts
    ZeroAddress,        \* address(0): the parties of a channel nobody opened
    NoKey,              \* the (0,0) EdDSA key, exempt from the ownership check
    Public,             \* a blinding everybody knows (genesis uses 0)
    None,               \* an unset storage word
    NumChannels,        \* bound on nextChannelId
    Deposits,           \* the msg.values that open and join may carry
    RawUpdates,         \* channel states the parties may co-sign with ECDSA
    ProofUpdates,       \* channel states the parties may co-sign with EdDSA
    Attestable,         \* channel states a remote chain may be attested to be in
    Steps,              \* updates per channel_state.circom proof
    CHALLENGE_PERIOD,   \* length of the challenge window
    MaxTime             \* bound on the clock: no window may end after it

ChannelId == 0 .. NumChannels - 1
ChannelState == [nonce : Nat, balanceA : Nat, balanceB : Nat]
Commitment == [balanceA : Nat, balanceB : Nat, blinding : Party \cup {Public}]

ASSUME ChannelAssumption ==
    /\ IsFiniteSet(Party)
    /\ NumChannels \in Nat /\ Steps \in Nat \ {0} /\ MaxTime \in Nat
    /\ CHALLENGE_PERIOD \in Nat \ {0}
    /\ Deposits \subseteq Nat
    /\ RawUpdates \subseteq ChannelState
    /\ ProofUpdates \subseteq ChannelState
    /\ Attestable \subseteq ChannelState
    /\ {ZeroAddress, NoKey} \cap Party = {} /\ Public \notin Party
    /\ None \notin Commitment
    /\ None \notin [id : ChannelId, state : ChannelState]

VARIABLES
    now,                \* block.timestamp
    nextChannelId,
    channels,           \* the contract's mapping of Channel structs
    ledger,             \* the contract's ETH and pendingWithdrawals
    signed,             \* per channel, states bearing both ECDSA signatures
    eddsaSigned,        \* per channel, states bearing both EdDSA signatures
    trustedStateRoot,   \* what the light client trusts of the remote chain
    deposited,          \* history: ETH received for each channel
    paid,               \* history: ETH sent or credited to each side
    origin,             \* history: the evidence for the posted state
    attested            \* history: every root the light client ever trusted

contractVars == <<nextChannelId, channels, ledger>>
historyVars == <<deposited, paid, origin, attested>>
offChainVars == <<signed, eddsaSigned, trustedStateRoot>>
vars == <<now, contractVars, offChainVars, historyVars>>

L == INSTANCE PullPayment WITH Address <- Party

Status == {"UNINITIALIZED", "ACTIVE", "CHALLENGE_PERIOD", "CLOSED"}

Channel ==
    [partyA : Party \cup {ZeroAddress}, partyB : Party \cup {ZeroAddress},
     depositA : Nat, depositB : Nat, status : Status, nonce : Nat,
     balanceA : Nat, balanceB : Nat, challengeExpiry : Nat,
     pubKeyA : Party \cup {NoKey}, pubKeyB : Party \cup {NoKey},
     balanceCommitment : Commitment \cup {None}, balancesCommitted : BOOLEAN,
     closedCooperatively : BOOLEAN]

UnopenedChannel ==
    [partyA |-> ZeroAddress, partyB |-> ZeroAddress, depositA |-> 0,
     depositB |-> 0, status |-> "UNINITIALIZED", nonce |-> 0, balanceA |-> 0,
     balanceB |-> 0, challengeExpiry |-> 0, pubKeyA |-> NoKey,
     pubKeyB |-> NoKey, balanceCommitment |-> None,
     balancesCommitted |-> FALSE, closedCooperatively |-> FALSE]

Init ==
    /\ now = 0
    /\ nextChannelId = 0
    /\ channels = [id \in ChannelId |-> UnopenedChannel]
    /\ ledger = L!EmptyLedger
    /\ signed = [id \in ChannelId |-> {}]
    /\ eddsaSigned = [id \in ChannelId |-> {}]
    /\ trustedStateRoot = None
    /\ deposited = [id \in ChannelId |-> 0]
    /\ paid = [id \in ChannelId |-> [A |-> 0, B |-> 0]]
    /\ origin = [id \in ChannelId |-> "none"]
    /\ attested = {}

----------------------------------------------------------------------------
(* The contract's guards. *)

OnlyParty(sender, id) == sender \in {channels[id].partyA, channels[id].partyB}

\* _verifyKeyOwnership: a key can be registered only by the account holding it.
VerifyKeyOwnership(sender, key) == key \in {NoKey, sender}

\* Mutant: the conservation check is forgotten.
CheckConservation_Dropped(ch, st) == TRUE
\* Mutant: all that the contract holds is taken for the deposits of the channel.
CheckConservation_Pooled(ch, st) == st.balanceA + st.balanceB = ledger.balance
\* _checkConservation (checked arithmetic: an overflowing sum reverts as well).
CheckConservation(ch, st) == st.balanceA + st.balanceB = ch.depositA + ch.depositB

\* Mutant: the channel id is not part of the signed digest.
VerifyBothSignatures_AnyChannel(id, st) ==
    /\ \E other \in ChannelId : st \in signed[other]
    /\ st.nonce >= channels[id].nonce
\* Mutant: an older state than the posted one is accepted.
VerifyBothSignatures_Stale(id, st) == st \in signed[id]
\* _verifyBothSignatures: over hashState, so bound to this channel of this
\* deployment, and never older than the posted state.
VerifyBothSignatures(id, st) == st \in signed[id] /\ st.nonce >= channels[id].nonce

\* Posting reopens a full window; MaxTime only keeps the model's clock finite.
WindowFits == now + CHALLENGE_PERIOD <= MaxTime

(* Poseidon(balanceA, balanceB, blinding) is binding, so a commitment is what *)
(* it commits to; only those who know the blinding can use the opening.       *)
Poseidon(balanceA, balanceB, blinding) ==
    [balanceA |-> balanceA, balanceB |-> balanceB, blinding |-> blinding]
Knows(who, commitment) == commitment.blinding \in {Public, who}

\* Mutant: a commitment left over from an earlier post is still the anchor.
Anchor_LeftOver(ch) ==
    IF ch.balanceCommitment # None
    THEN [nonce |-> ch.nonce, commitment |-> ch.balanceCommitment]
    ELSE [nonce |-> 0, commitment |-> Poseidon(ch.depositA, ch.depositB, Public)]

(* The one anchor _verifyChannelProof accepts. *)
Anchor(ch) ==
    IF ch.balancesCommitted
    THEN [nonce |-> ch.nonce, commitment |-> ch.balanceCommitment]
    ELSE [nonce |-> 0, commitment |-> Poseidon(ch.depositA, ch.depositB, Public)]

\* Mutant: the circuit forgets conservation.
UpdateChain_NotConserving(id, anchor, end) ==
    \E path \in [1 .. Steps -> eddsaSigned[id]] :
        /\ path[Steps] = end
        /\ \A i \in 1 .. Steps :
             path[i].nonce > IF i = 1 THEN anchor.nonce ELSE path[i - 1].nonce

(* channel_state.circom: exactly Steps updates, each co-signed under the keys *)
(* registered on-chain, nonces strictly increasing from the anchor's, each    *)
(* conserving the anchor's total, the last one being the claimed end.         *)
UpdateChain(id, anchor, end) ==
    \E path \in [1 .. Steps -> eddsaSigned[id]] :
        /\ path[Steps] = end
        /\ \A i \in 1 .. Steps :
             /\ path[i].balanceA + path[i].balanceB
                  = anchor.commitment.balanceA + anchor.commitment.balanceB
             /\ path[i].nonce > IF i = 1 THEN anchor.nonce ELSE path[i - 1].nonce

\* A prover can build a proof that _verifyChannelProof accepts.
VerifyChannelProof(prover, id, end) ==
    LET ch == channels[id] IN
    /\ ch.pubKeyA # NoKey /\ ch.pubKeyB # NoKey
    /\ Knows(prover, Anchor(ch).commitment)
    /\ UpdateChain(id, Anchor(ch), end)

----------------------------------------------------------------------------
(* Paying out: two independent pushes, each taken or refused by its recipient. *)
Payout(id, payA, payB) ==
    /\ \E acceptsA, acceptsB \in BOOLEAN :
         ledger' = L!CreditOrSend(
                     L!CreditOrSend(ledger, channels[id].partyA, payA, acceptsA),
                     channels[id].partyB, payB, acceptsB)
    /\ paid' = [paid EXCEPT ![id] = [A |-> @.A + payA, B |-> @.B + payB]]

Update(id, ch) == channels' = [channels EXCEPT ![id] = ch]

----------------------------------------------------------------------------
(* Funding *)

Open(sender, partyB, depositA, key) ==
    LET id == nextChannelId IN
    /\ nextChannelId < NumChannels
    /\ VerifyKeyOwnership(sender, key)
    /\ nextChannelId' = nextChannelId + 1
    /\ Update(id, [channels[id] EXCEPT !.partyA = sender, !.partyB = partyB,
                     !.depositA = depositA, !.status = "UNINITIALIZED",
                     !.balanceA = depositA, !.pubKeyA = key])
    /\ ledger' = L!Receive(ledger, depositA)
    /\ deposited' = [deposited EXCEPT ![id] = @ + depositA]
    /\ UNCHANGED <<now, offChainVars, paid, origin, attested>>

Join(sender, id, value, key) ==
    LET ch == channels[id] IN
    /\ sender = ch.partyB
    /\ ch.status = "UNINITIALIZED"
    /\ VerifyKeyOwnership(sender, key)
    /\ Update(id, [ch EXCEPT !.depositB = value, !.balanceB = value,
                     !.status = "ACTIVE", !.pubKeyB = key])
    /\ ledger' = L!Receive(ledger, value)
    /\ deposited' = [deposited EXCEPT ![id] = @ + value]
    /\ UNCHANGED <<now, nextChannelId, offChainVars, paid, origin, attested>>

CancelUnjoined(sender, id) ==
    LET ch == channels[id]
        refund == ch.depositA IN
    /\ sender = ch.partyA
    /\ ch.status = "UNINITIALIZED"
    /\ Update(id, [ch EXCEPT !.balanceA = 0, !.depositA = 0, !.status = "CLOSED"])
    /\ Payout(id, refund, 0)
    /\ UNCHANGED <<now, nextChannelId, offChainVars, deposited, origin, attested>>

----------------------------------------------------------------------------
(* Closing with raw signatures *)

\* Mutant: the flag of an earlier proof survives the cooperative close.
CloseCooperative_KeepsFlag(sender, id, st) ==
    LET ch == channels[id] IN
    /\ OnlyParty(sender, id)
    /\ ch.status \in {"ACTIVE", "CHALLENGE_PERIOD"}
    /\ VerifyBothSignatures(id, st)
    /\ CheckConservation(ch, st)
    /\ Update(id, [ch EXCEPT !.balanceA = 0, !.balanceB = 0, !.nonce = st.nonce,
                     !.closedCooperatively = TRUE, !.status = "CLOSED"])
    /\ Payout(id, st.balanceA, st.balanceB)
    /\ origin' = [origin EXCEPT ![id] = "signed"]
    /\ UNCHANGED <<now, nextChannelId, offChainVars, deposited, attested>>

CloseCooperative(sender, id, st) ==
    LET ch == channels[id] IN
    /\ OnlyParty(sender, id)
    /\ ch.status \in {"ACTIVE", "CHALLENGE_PERIOD"}
    /\ VerifyBothSignatures(id, st)
    /\ CheckConservation(ch, st)
    /\ Update(id, [ch EXCEPT !.balanceA = 0, !.balanceB = 0, !.nonce = st.nonce,
                     !.balancesCommitted = FALSE, !.closedCooperatively = TRUE,
                     !.status = "CLOSED"])
    /\ Payout(id, st.balanceA, st.balanceB)
    /\ origin' = [origin EXCEPT ![id] = "signed"]
    /\ UNCHANGED <<now, nextChannelId, offChainVars, deposited, attested>>

\* Mutant: a raw challenge leaves the flag of the proof it overrides.
PostRevealed_KeepsFlag(id, st, evidence) ==
    /\ WindowFits
    /\ Update(id, [channels[id] EXCEPT !.balanceA = st.balanceA,
                     !.balanceB = st.balanceB, !.nonce = st.nonce,
                     !.status = "CHALLENGE_PERIOD",
                     !.challengeExpiry = now + CHALLENGE_PERIOD])
    /\ origin' = [origin EXCEPT ![id] = evidence]
    /\ UNCHANGED <<now, nextChannelId, ledger, offChainVars, deposited, paid, attested>>

\* Post revealed balances and (re)open the challenge window.
PostRevealed(id, st, evidence) ==
    /\ WindowFits
    /\ Update(id, [channels[id] EXCEPT !.balanceA = st.balanceA,
                     !.balanceB = st.balanceB, !.nonce = st.nonce,
                     !.balancesCommitted = FALSE, !.status = "CHALLENGE_PERIOD",
                     !.challengeExpiry = now + CHALLENGE_PERIOD])
    /\ origin' = [origin EXCEPT ![id] = evidence]
    /\ UNCHANGED <<now, nextChannelId, ledger, offChainVars, deposited, paid, attested>>

\* Mutant: the status check is forgotten.
CloseUnilateral_AnyStatus(sender, id, st) ==
    /\ OnlyParty(sender, id)
    /\ VerifyBothSignatures(id, st)
    /\ CheckConservation(channels[id], st)
    /\ PostRevealed(id, st, "signed")

CloseUnilateral(sender, id, st) ==
    /\ OnlyParty(sender, id)
    /\ channels[id].status = "ACTIVE"
    /\ VerifyBothSignatures(id, st)
    /\ CheckConservation(channels[id], st)
    /\ PostRevealed(id, st, "signed")

\* Mutants: an equal nonce is accepted; the window's end is not checked.
Challenge_EqualNonce(id, st) ==
    /\ channels[id].status = "CHALLENGE_PERIOD"
    /\ now < channels[id].challengeExpiry
    /\ VerifyBothSignatures(id, st)
    /\ CheckConservation(channels[id], st)
    /\ PostRevealed(id, st, "signed")

Challenge_AfterExpiry(id, st) ==
    /\ channels[id].status = "CHALLENGE_PERIOD"
    /\ st.nonce > channels[id].nonce
    /\ VerifyBothSignatures(id, st)
    /\ CheckConservation(channels[id], st)
    /\ PostRevealed(id, st, "signed")

\* What challenge requires.
Challengeable(id, st) ==
    /\ channels[id].status = "CHALLENGE_PERIOD"
    /\ now < channels[id].challengeExpiry
    /\ st.nonce > channels[id].nonce
    /\ VerifyBothSignatures(id, st)
    /\ CheckConservation(channels[id], st)

\* Open to anybody: authorised by the signatures alone.
Challenge(id, st) == Challengeable(id, st) /\ PostRevealed(id, st, "signed")

----------------------------------------------------------------------------
(* Closing with a ZK proof: the balances stay hidden behind a commitment. *)

\* Mutant: the balances are stored without a blinding.
PostCommitment_Unblinded(prover, id, end) ==
    /\ WindowFits
    /\ Update(id, [channels[id] EXCEPT
                     !.balanceCommitment = [balanceA |-> end.balanceA, balanceB |-> end.balanceB],
                     !.balancesCommitted = TRUE, !.nonce = end.nonce,
                     !.status = "CHALLENGE_PERIOD",
                     !.challengeExpiry = now + CHALLENGE_PERIOD])
    /\ origin' = [origin EXCEPT ![id] = "proof"]
    /\ UNCHANGED <<now, nextChannelId, ledger, offChainVars, deposited, paid, attested>>

PostCommitment(prover, id, end) ==
    /\ WindowFits
    /\ \E blinding \in {Public, prover} :
         Update(id, [channels[id] EXCEPT
                       !.balanceCommitment = Poseidon(end.balanceA, end.balanceB, blinding),
                       !.balancesCommitted = TRUE, !.nonce = end.nonce,
                       !.status = "CHALLENGE_PERIOD",
                       !.challengeExpiry = now + CHALLENGE_PERIOD])
    /\ origin' = [origin EXCEPT ![id] = "proof"]
    /\ UNCHANGED <<now, nextChannelId, ledger, offChainVars, deposited, paid, attested>>

CloseWithProof(sender, id, end) ==
    /\ OnlyParty(sender, id)
    /\ channels[id].status = "ACTIVE"
    /\ VerifyChannelProof(sender, id, end)
    /\ end.nonce >= channels[id].nonce
    /\ PostCommitment(sender, id, end)

ChallengeWithProof(sender, id, end) ==
    /\ channels[id].status = "CHALLENGE_PERIOD"
    /\ now < channels[id].challengeExpiry
    /\ VerifyChannelProof(sender, id, end)
    /\ end.nonce > channels[id].nonce
    /\ PostCommitment(sender, id, end)

----------------------------------------------------------------------------
(* Closing with a state attested for the same channel on another chain.  The *)
(* hash is collision free, so the root determines the channel and the state. *)
CloseWithRemoteAttestation(sender, id, st) ==
    /\ OnlyParty(sender, id)
    /\ channels[id].status = "ACTIVE"
    /\ st.nonce >= channels[id].nonce
    /\ CheckConservation(channels[id], st)
    /\ trustedStateRoot = [id |-> id, state |-> st]
    /\ PostRevealed(id, st, "remote")

----------------------------------------------------------------------------
(* Settling once the window has expired *)

\* Mutant: the stale balances under a commitment are paid out.
Withdraw_IgnoresFlag(sender, id) ==
    LET ch == channels[id] IN
    /\ OnlyParty(sender, id)
    /\ ch.status = "CHALLENGE_PERIOD"
    /\ now >= ch.challengeExpiry
    /\ Update(id, [ch EXCEPT !.status = "CLOSED", !.balanceA = 0, !.balanceB = 0])
    /\ Payout(id, ch.balanceA, ch.balanceB)
    /\ UNCHANGED <<now, nextChannelId, offChainVars, deposited, origin, attested>>

\* Mutant: the challenge window is not waited for.
Withdraw_Early(sender, id) ==
    LET ch == channels[id] IN
    /\ OnlyParty(sender, id)
    /\ ch.status = "CHALLENGE_PERIOD"
    /\ ~ch.balancesCommitted
    /\ Update(id, [ch EXCEPT !.status = "CLOSED", !.balanceA = 0, !.balanceB = 0])
    /\ Payout(id, ch.balanceA, ch.balanceB)
    /\ UNCHANGED <<now, nextChannelId, offChainVars, deposited, origin, attested>>

Withdraw(sender, id) ==
    LET ch == channels[id] IN
    /\ OnlyParty(sender, id)
    /\ ch.status = "CHALLENGE_PERIOD"
    /\ now >= ch.challengeExpiry
    /\ ~ch.balancesCommitted
    /\ Update(id, [ch EXCEPT !.status = "CLOSED", !.balanceA = 0, !.balanceB = 0])
    /\ Payout(id, ch.balanceA, ch.balanceB)
    /\ UNCHANGED <<now, nextChannelId, offChainVars, deposited, origin, attested>>

WithdrawWithOpening(sender, id) ==
    LET ch == channels[id]
        opening == ch.balanceCommitment IN
    /\ OnlyParty(sender, id)
    /\ ch.status = "CHALLENGE_PERIOD"
    /\ now >= ch.challengeExpiry
    /\ ch.balancesCommitted
    /\ Knows(sender, opening)
    /\ CheckConservation(ch, opening)
    /\ Update(id, [ch EXCEPT !.balancesCommitted = FALSE, !.status = "CLOSED",
                     !.balanceA = 0, !.balanceB = 0])
    /\ Payout(id, opening.balanceA, opening.balanceB)
    /\ UNCHANGED <<now, nextChannelId, offChainVars, deposited, origin, attested>>

Claim(sender) ==
    /\ L!CanClaim(ledger, sender)
    /\ ledger' = L!Claimed(ledger, sender)
    /\ UNCHANGED <<now, nextChannelId, channels, offChainVars, historyVars>>

----------------------------------------------------------------------------
(* Environment: off-chain signing, the light client, and time *)

CoSign(id, st) ==
    /\ signed' = [signed EXCEPT ![id] = @ \cup {st}]
    /\ UNCHANGED <<now, contractVars, eddsaSigned, trustedStateRoot, historyVars>>

CoSignEdDSA(id, st) ==
    /\ eddsaSigned' = [eddsaSigned EXCEPT ![id] = @ \cup {st}]
    /\ UNCHANGED <<now, contractVars, signed, trustedStateRoot, historyVars>>

AttestRemote(id, st) ==
    /\ trustedStateRoot' = [id |-> id, state |-> st]
    /\ attested' = attested \cup {[id |-> id, state |-> st]}
    /\ UNCHANGED <<now, contractVars, signed, eddsaSigned, deposited, paid, origin>>

Tick ==
    /\ now < MaxTime
    /\ now' = now + 1
    /\ UNCHANGED <<contractVars, offChainVars, historyVars>>

----------------------------------------------------------------------------
Funding(sender, id) ==
    \/ \E value \in Deposits, key \in {NoKey, sender} : Join(sender, id, value, key)
    \/ CancelUnjoined(sender, id)

Dispute(id) ==
    \/ \E st \in RawUpdates : Challenge(id, st)
    \/ \E sender \in Party, end \in ProofUpdates : ChallengeWithProof(sender, id, end)

Closing(sender, id) ==
    \/ \E st \in RawUpdates : CloseCooperative(sender, id, st)
    \/ \E st \in RawUpdates : CloseUnilateral(sender, id, st)
    \/ \E end \in ProofUpdates : CloseWithProof(sender, id, end)
    \/ \E st \in Attestable : CloseWithRemoteAttestation(sender, id, st)

Settling(sender, id) ==
    \/ Withdraw(sender, id)
    \/ WithdrawWithOpening(sender, id)

Signing(id) ==
    \/ \E st \in RawUpdates : CoSign(id, st)
    \/ \E st \in ProofUpdates : CoSignEdDSA(id, st)

Next ==
    \/ \E sender, partyB \in Party, value \in Deposits, key \in Party \cup {NoKey} :
         Open(sender, partyB, value, key)
    \/ \E sender \in Party, id \in ChannelId :
         Funding(sender, id) \/ Closing(sender, id) \/ Settling(sender, id)
    \/ \E id \in ChannelId : Dispute(id) \/ Signing(id)
    \/ \E id \in ChannelId, st \in Attestable : AttestRemote(id, st)
    \/ \E sender \in Party : Claim(sender)
    \/ Tick

Spec == Init /\ [][Next]_vars
----------------------------------------------------------------------------
(* Properties *)

\* Every variable has its type: in particular no balance, deposit or credit of
\* the contract ever leaves the naturals (the uint256 arithmetic never reverts).
TypeOK ==
    /\ now \in 0 .. MaxTime
    /\ nextChannelId \in 0 .. NumChannels
    /\ channels \in [ChannelId -> Channel]
    /\ ledger \in L!Ledger
    /\ signed \in [ChannelId -> SUBSET RawUpdates]
    /\ eddsaSigned \in [ChannelId -> SUBSET ProofUpdates]
    /\ trustedStateRoot \in [id : ChannelId, state : Attestable] \cup {None}
    /\ deposited \in [ChannelId -> Nat]
    /\ paid \in [ChannelId -> [A : Nat, B : Nat]]
    /\ origin \in [ChannelId -> {"none", "signed", "proof", "remote"}]
    /\ attested \subseteq [id : ChannelId, state : Attestable]

\* Each channel releases exactly what it received, once: nothing before it is
\* CLOSED, everything from then on, whichever of the five ways it took to get
\* there and whatever happened to the pushes (open/join/_payout and every close).
PaysExactly(id) ==
    IF channels[id].status = "CLOSED"
    THEN paid[id].A + paid[id].B = deposited[id]
    ELSE /\ paid[id] = [A |-> 0, B |-> 0]
         /\ deposited[id] = channels[id].depositA + channels[id].depositB
EscrowExact == \A id \in ChannelId : PaysExactly(id)

\* The posted state, revealed or behind its commitment.
Posted(ch) ==
    LET split == IF ch.balancesCommitted THEN ch.balanceCommitment ELSE ch IN
    [nonce |-> ch.nonce, balanceA |-> split.balanceA, balanceB |-> split.balanceB]

\* st is a state that the evidence recorded in origin[id] vouches for.
Vouched(id, st) ==
    \/ origin[id] = "signed" /\ st \in signed[id]
    \/ origin[id] = "proof"  /\ st \in eddsaSigned[id]
    \/ origin[id] = "remote" /\ [id |-> id, state |-> st] \in attested

\* While a window is open the contract holds, as one piece, a state that both
\* parties signed (or that was attested): its nonce, its balances and the flag
\* that says where the balances are all belong to the same state, which
\* conserves the deposits, so that the settlement that follows cannot revert.
PostIsAuthentic(id) ==
    LET ch == channels[id] IN
    ch.status = "CHALLENGE_PERIOD" =>
        /\ Vouched(id, Posted(ch))
        /\ ch.balancesCommitted <=> origin[id] = "proof"
        /\ CheckConservation(ch, Posted(ch))
PostedStateAuthentic == \A id \in ChannelId : PostIsAuthentic(id)

\* A commitment is on file only while a window is open on it: no other state of
\* the channel can be anchored to (or settled through) a leftover commitment.
CommitmentInWindow(id) ==
    channels[id].balancesCommitted =>
        /\ channels[id].status = "CHALLENGE_PERIOD"
        /\ channels[id].balanceCommitment # None
CommitmentOnlyInWindow == \A id \in ChannelId : CommitmentInWindow(id)

\* What a closed channel paid out is the split of one agreed state at the final
\* nonce, or the refund of a channel nobody joined.
SettlementIsAuthentic(id) ==
    channels[id].status = "CLOSED" =>
        \/ Vouched(id, [nonce |-> channels[id].nonce,
                        balanceA |-> paid[id].A, balanceB |-> paid[id].B])
        \/ origin[id] = "none" /\ paid[id] = [A |-> deposited[id], B |-> 0]
SettlementAuthentic == \A id \in ChannelId : SettlementIsAuthentic(id)

\* The contract always holds exactly what it still owes: the escrow of every
\* channel that is not settled and every credit nobody has claimed yet.
Solvency ==
    ledger.balance =
        SumFunction([id \in ChannelId |-> deposited[id] - (paid[id].A + paid[id].B)])
        + SumFunction(ledger.pendingWithdrawals)

\* What the proofs need besides: ids are handed out in order, an id not handed
\* out has a blank channel, and a channel that was never closed posted nothing.
Booked(id) ==
    LET ch == channels[id] IN
    /\ IF id < nextChannelId
       THEN ch.partyA \in Party /\ ch.partyB \in Party
       ELSE ch = UnopenedChannel
    /\ ch.status = "UNINITIALIZED" => ch.depositB = 0
    /\ ch.status \in {"UNINITIALIZED", "ACTIVE"} => ch.nonce = 0 /\ origin[id] = "none"
Bookkeeping == \A id \in ChannelId : Booked(id)

\* The posted nonce never falls, and a post made during a window is strictly
\* newer than the one it replaces and made before that window expired.
PostsOnlyRise ==
    [][\A id \in ChannelId :
         LET old == channels[id]
             new == channels'[id] IN
         /\ new.nonce >= old.nonce
         /\ (old.status = "CHALLENGE_PERIOD" /\ new.status = "CHALLENGE_PERIOD"
                /\ new # old)
              => /\ new.nonce > old.nonce
                 /\ now < old.challengeExpiry
                 /\ new.challengeExpiry >= old.challengeExpiry]_vars

\* CLOSED is final: no later call changes the channel or pays from it again.
ClosedIsFinal ==
    [][\A id \in ChannelId :
         channels[id].status = "CLOSED" =>
             channels'[id] = channels[id] /\ paid'[id] = paid[id]]_vars
----------------------------------------------------------------------------
(* Refinement *)

UpdateNonces == {st.nonce : st \in RawUpdates \cup ProofUpdates \cup Attestable}

Lifecycle == INSTANCE ChannelLifecycle WITH
    Channel <- ChannelId,
    Amounts <- Deposits,
    Nonces <- UpdateNonces,
    status <- [id \in ChannelId |-> channels[id].status],
    nonce <- [id \in ChannelId |-> channels[id].nonce],
    challengeExpiry <- [id \in ChannelId |-> channels[id].challengeExpiry],
    cooperative <- [id \in ChannelId |-> channels[id].closedCooperatively],
    held <- deposited,
    released <- [id \in ChannelId |-> paid[id].A + paid[id].B]

\* Every behaviour of the contract, seen through the fields that observers read,
\* is one of ChannelLifecycle: statuses only move forward, a window is always a
\* whole period, and closing gives back all that was deposited, in one step.
ImplementsLifecycle == Lifecycle!Spec
=============================================================================
