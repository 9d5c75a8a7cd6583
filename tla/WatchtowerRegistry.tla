------------------------- MODULE WatchtowerRegistry -------------------------
(* contracts/src/WatchtowerRegistry.sol: watchtowers lock ETH for a channel and *)
(* commit on-chain to the nonces they have seen; a channel that settles below a *)
(* committed nonce lets anybody confiscate the stake.  The registry only reads  *)
(* the channels, so they are those of ChannelLifecycle, which PaymentChannel    *)
(* implements.                                                                  *)
EXTENDS Naturals, FiniteSets, Functions

CONSTANTS
    Channel, Amounts, Nonces, CHALLENGE_PERIOD, MaxTime,    \* ChannelLifecycle's
    Address,            \* accounts: watchtowers, parties and slash callers
    PartyA, PartyB,     \* the parties of each channel
    StakeAmounts,       \* the msg.values of stake
    MIN_STAKE,
    SLASH_BOUNTY_BPS, BPS_DENOMINATOR,
    UNSTAKE_COOLDOWN,
    Unobserved,         \* closedObservedAt's zero word (timestamps are positive)
    MaxBalance          \* bound on the ETH the registry ever holds

ASSUME RegistryAssumption ==
    /\ IsFiniteSet(Channel) /\ IsFiniteSet(Address)
    /\ CHALLENGE_PERIOD \in Nat \ {0}
    /\ StakeAmounts \subseteq Nat /\ Nonces \subseteq Nat
    /\ MIN_STAKE \in Nat \ {0} /\ UNSTAKE_COOLDOWN \in Nat /\ MaxTime \in Nat
    /\ SLASH_BOUNTY_BPS \in Nat /\ BPS_DENOMINATOR \in Nat \ {0}
    /\ SLASH_BOUNTY_BPS <= BPS_DENOMINATOR
    /\ PartyA \in [Channel -> Address] /\ PartyB \in [Channel -> Address]
    /\ Unobserved \notin Nat

VARIABLES
    now, status, nonce, challengeExpiry, cooperative, held, released,
    stakes,             \* [channel][watchtower]: ETH locked
    commitments,        \* [channel][watchtower]: highest nonce committed
    closedObservedAt,   \* when the registry first saw the channel CLOSED
    ledger,             \* the registry's ETH and pendingCredits
    closedSince,        \* history: when the channel did become CLOSED
    missed,             \* history: who let a window end below its commitment
    untimely,           \* history: who committed when no challenge was possible
    slashed             \* history: who lost a stake

channelVars == <<now, status, nonce, challengeExpiry, cooperative, held, released>>
registryVars == <<stakes, commitments, closedObservedAt, ledger>>
historyVars == <<closedSince, missed, untimely, slashed>>
vars == <<channelVars, registryVars, historyVars>>

Ch == INSTANCE ChannelLifecycle
L == INSTANCE PullPayment

Init ==
    /\ Ch!Init
    /\ stakes = [c \in Channel |-> [w \in Address |-> 0]]
    /\ commitments = [c \in Channel |-> [w \in Address |-> 0]]
    /\ closedObservedAt = [c \in Channel |-> Unobserved]
    /\ ledger = L!EmptyLedger
    /\ closedSince = [c \in Channel |-> 0]
    /\ missed = [c \in Channel |-> {}]
    /\ untimely = [c \in Channel |-> {}]
    /\ slashed = [c \in Channel |-> {}]

----------------------------------------------------------------------------
Stake(w, c, value) ==
    /\ ledger.balance + value <= MaxBalance
    /\ stakes[c][w] + value >= MIN_STAKE
    /\ stakes' = [stakes EXCEPT ![c][w] = @ + value]
    /\ ledger' = L!Receive(ledger, value)
    /\ UNCHANGED <<channelVars, commitments, closedObservedAt, historyVars>>

\* Mutants: the end of the cooldown is stored; every call restarts the cooldown.
RecordClosed_CooldownEnd(c) ==
    \/ closedObservedAt[c] # Unobserved /\ UNCHANGED closedObservedAt
    \/ /\ closedObservedAt[c] = Unobserved
       /\ status[c] = "CLOSED"
       /\ closedObservedAt' = [closedObservedAt EXCEPT ![c] = now + UNSTAKE_COOLDOWN]

RecordClosed_Again(c) ==
    /\ status[c] = "CLOSED"
    /\ closedObservedAt' = [closedObservedAt EXCEPT ![c] = now]

\* _observeClosed: the first observation is kept, and needs a CLOSED channel.
RecordClosed(c) ==
    \/ closedObservedAt[c] # Unobserved /\ UNCHANGED closedObservedAt
    \/ /\ closedObservedAt[c] = Unobserved
       /\ status[c] = "CLOSED"
       /\ closedObservedAt' = [closedObservedAt EXCEPT ![c] = now]

ObserveClosed(c) ==
    /\ RecordClosed(c)
    /\ UNCHANGED <<channelVars, stakes, commitments, ledger, historyVars>>

\* Mutant: the cooldown is not waited for.
Unstake_Early(w, c) ==
    LET amount == stakes[c][w] IN
    /\ amount # 0
    /\ closedObservedAt[c] # Unobserved
    /\ amount <= ledger.balance
    /\ stakes' = [stakes EXCEPT ![c][w] = 0]
    /\ ledger' = [ledger EXCEPT !.balance = @ - amount]
    /\ UNCHANGED <<channelVars, commitments, closedObservedAt, historyVars>>

\* Reverts (no step) as well when the watchtower refuses the transfer.
Unstake(w, c) ==
    LET amount == stakes[c][w] IN
    /\ amount # 0
    /\ closedObservedAt[c] # Unobserved
    /\ now >= closedObservedAt[c] + UNSTAKE_COOLDOWN
    /\ amount <= ledger.balance
    /\ stakes' = [stakes EXCEPT ![c][w] = 0]
    /\ ledger' = [ledger EXCEPT !.balance = @ - amount]
    /\ UNCHANGED <<channelVars, commitments, closedObservedAt, historyVars>>

\* The states of a channel in which a newer state is still of use.
Contestable(c) ==
    \/ status[c] = "ACTIVE"
    \/ status[c] = "CHALLENGE_PERIOD" /\ now < challengeExpiry[c]

\* The channel's status is not looked at, and the state is only a hash.
CommitCheckpoint(w, c, n) ==
    /\ stakes[c][w] >= MIN_STAKE
    /\ n > commitments[c][w]
    /\ commitments' = [commitments EXCEPT ![c][w] = n]
    /\ untimely' = [untimely EXCEPT ![c] = IF Contestable(c) THEN @ ELSE @ \cup {w}]
    /\ UNCHANGED <<channelVars, stakes, closedObservedAt, ledger,
                   closedSince, missed, slashed>>

Bounty(staked) == (staked * SLASH_BOUNTY_BPS) \div BPS_DENOMINATOR

\* Mutant: party B gets a rounded half as well.
Shares_BothRounded(caller, c, staked) ==
    LET half == (staked - Bounty(staked)) \div 2 IN
    <<[to |-> caller, amount |-> Bounty(staked)],
      [to |-> PartyA[c], amount |-> half],
      [to |-> PartyB[c], amount |-> half]>>

\* Three independent pushes: the caller's bounty and a half for each party.
Shares(caller, c, staked) ==
    LET partyShare == staked - Bounty(staked)
        shareA == partyShare \div 2 IN
    <<[to |-> caller, amount |-> Bounty(staked)],
      [to |-> PartyA[c], amount |-> shareA],
      [to |-> PartyB[c], amount |-> partyShare - shareA]>>

Push(ld, share, accepts) == L!CreditOrSend(ld, share.to, share.amount, accepts)

PayShares(shares) ==
    \E first, second, third \in BOOLEAN :
        ledger' = Push(Push(Push(ledger, shares[1], first), shares[2], second),
                       shares[3], third)

Confiscate(caller, c, w) ==
    /\ stakes[c][w] # 0 /\ commitments[c][w] # 0
    /\ RecordClosed(c)
    /\ stakes' = [stakes EXCEPT ![c][w] = 0]
    /\ PayShares(Shares(caller, c, stakes[c][w]))
    /\ slashed' = [slashed EXCEPT ![c] = @ \cup {w}]
    /\ UNCHANGED <<channelVars, commitments, closedSince, missed, untimely>>

\* Mutant: the cooperative exception is forgotten.
Slash_Cooperative(caller, c, w) ==
    /\ nonce[c] < commitments[c][w]
    /\ Confiscate(caller, c, w)

Slash(caller, c, w) ==
    /\ ~cooperative[c]
    /\ nonce[c] < commitments[c][w]
    /\ Confiscate(caller, c, w)

Claim(w) ==
    /\ L!CanClaim(ledger, w)
    /\ ledger' = L!Claimed(ledger, w)
    /\ UNCHANGED <<channelVars, stakes, commitments, closedObservedAt, historyVars>>

----------------------------------------------------------------------------
(* The channels move by themselves; the histories note what they do. *)

WindowEnds(c) ==
    /\ status[c] = "CHALLENGE_PERIOD"
    /\ now < challengeExpiry[c] /\ now' >= challengeExpiry[c]

ChannelStep ==
    /\ Ch!Next
    /\ closedSince' = [c \in Channel |->
         IF status[c] # "CLOSED" /\ status'[c] = "CLOSED" THEN now ELSE closedSince[c]]
    /\ missed' = [c \in Channel |->
         IF WindowEnds(c)
         THEN missed[c] \cup {w \in Address : nonce[c] < commitments[c][w]}
         ELSE missed[c]]
    /\ UNCHANGED <<registryVars, untimely, slashed>>

Operation(w, c) ==
    \/ \E value \in StakeAmounts : Stake(w, c, value)
    \/ Unstake(w, c)
    \/ \E n \in Nonces : CommitCheckpoint(w, c, n)
    \/ \E caller \in Address : Slash(caller, c, w)

Next ==
    \/ ChannelStep
    \/ \E w \in Address, c \in Channel : Operation(w, c)
    \/ \E c \in Channel : ObserveClosed(c)
    \/ \E w \in Address : Claim(w)

Spec == Init /\ [][Next]_vars

\* Somebody reports closed channels, and a watchtower asks for its stake back.
Fairness ==
    /\ WF_vars(ChannelStep /\ Ch!Tick)
    /\ \A c \in Channel : WF_vars(ObserveClosed(c))
    /\ \A w \in Address, c \in Channel : WF_vars(Unstake(w, c))

FairSpec == Spec /\ Fairness
----------------------------------------------------------------------------
(* Properties *)

\* Every variable has its type: the registry's arithmetic never underflows.
TypeOK ==
    /\ stakes \in [Channel -> [Address -> Nat]]
    /\ commitments \in [Channel -> [Address -> Nat]]
    /\ closedObservedAt \in [Channel -> 0 .. MaxTime \cup {Unobserved}]
    /\ ledger \in L!Ledger
    /\ closedSince \in [Channel -> 0 .. MaxTime]
    /\ missed \in [Channel -> SUBSET Address]
    /\ untimely \in [Channel -> SUBSET Address]
    /\ slashed \in [Channel -> SUBSET Address]

\* The registry holds exactly the stakes and the credits nobody claimed yet: no
\* share of a slashed stake is lost, created or paid twice.
Solvency ==
    ledger.balance = SumFunction([c \in Channel |-> SumFunction(stakes[c])])
                     + SumFunction(ledger.pendingWithdrawals)

\* Stake leaves in one of two ways: the whole of it is confiscated for a channel
\* that settled below the watchtower's own commitment, or its owner takes it back
\* after slash had a whole cooldown, counted from the moment the channel really
\* closed and not just from its observation.
StakeLeavesJustly ==
    [][\A c \in Channel, w \in Address :
         stakes'[c][w] < stakes[c][w] =>
             /\ status[c] = "CLOSED" /\ stakes'[c][w] = 0
             /\ \/ nonce[c] < commitments[c][w]
                \/ now >= closedSince[c] + UNSTAKE_COOLDOWN]_vars

\* A diligent watchtower is never slashed, however the parties close the channel:
\* who loses a stake let a window end below its own commitment, or had committed
\* when there was nothing to challenge.
DiligentNeverSlashed == \A c \in Channel : slashed[c] \subseteq missed[c] \cup untimely[c]

\* Once a close has been observed and the cooldown can still run out, a stake
\* does not stay locked: it is taken back or confiscated.
StakeReleased ==
    \A c \in Channel, w \in Address :
        /\ stakes[c][w] > 0
        /\ closedObservedAt[c] # Unobserved
        /\ closedObservedAt[c] + UNSTAKE_COOLDOWN <= MaxTime
        ~> stakes[c][w] = 0
=============================================================================
