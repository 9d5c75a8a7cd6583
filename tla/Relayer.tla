------------------------------- MODULE Relayer -------------------------------
(* relayer/src: watch-loops (watch.ts) that follow PaymentChannel on the source *)
(* chain and have every new state attested (index.ts) on the destination chain, *)
(* where LightClientVerifier.sol keeps one root.  The source chain is           *)
(* PaymentChannel as it stands; a loop's steps lie between its awaits.          *)
EXTENDS PaymentChannel, SequencesExt

CONSTANT Relayers          \* independent watch-loops on the same source contract

VARIABLES
    blockNumber,           \* of the source chain
    reached,               \* history: states each channel has been in
    queue,                 \* per loop: channels with an event not handled yet
    work,                  \* per loop: the relay in progress
    lastRelayedNonce,      \* per loop and channel
    lightClient,           \* destination: the trusted root and its block number
    excused                \* history: loops that failed, stopped, or saw a block
                           \* mined between their two reads

relayVars == <<queue, work, lastRelayedNonce, lightClient, excused>>
relayerVars == <<vars, blockNumber, reached, relayVars>>

Idle == [pc |-> "idle"]

\* What computeRemoteStateHash hashes: the storage words that getChannel returns.
StateRoot(id) ==
    LET ch == channels[id] IN
    [id |-> id, nonce |-> ch.nonce, balanceA |-> ch.balanceA, balanceB |-> ch.balanceB]

\* The state that channel id really is in: the split its parties agreed on (or
\* that was paid out), wherever the contract keeps it.
Current(id) ==
    LET split == IF channels[id].status = "CLOSED"
                 THEN [balanceA |-> paid[id].A, balanceB |-> paid[id].B]
                 ELSE Posted(channels[id]) IN
    [id |-> id, nonce |-> channels[id].nonce,
     balanceA |-> split.balanceA, balanceB |-> split.balanceB]

RelayInit ==
    /\ Init
    /\ blockNumber = 0
    /\ reached = {}
    /\ queue = [r \in Relayers |-> <<>>]
    /\ work = [r \in Relayers |-> Idle]
    /\ lastRelayedNonce = [r \in Relayers |-> [id \in ChannelId |-> None]]
    /\ lightClient = [root |-> None, block |-> 0]
    /\ excused = {}

----------------------------------------------------------------------------
(* The source chain *)

\* ChannelClosedUnilaterally, ChannelChallenged and ChannelClosedCooperatively.
Emits(id) ==
    /\ channels'[id] # channels[id]
    /\ \/ channels'[id].status = "CHALLENGE_PERIOD"
       \/ channels'[id].closedCooperatively

\* A transaction (or the passing of time) is a new block; every loop that is
\* attached gets its events, in order.
SourceStep ==
    /\ Next
    /\ blockNumber' = IF UNCHANGED <<now, contractVars>> THEN blockNumber ELSE blockNumber + 1
    /\ reached' = reached \cup {Current(id)' : id \in ChannelId}
    /\ queue' = [r \in Relayers |->
         IF work[r].pc = "down" THEN queue[r]
         ELSE queue[r] \o SetToSeq({id \in ChannelId : Emits(id)})]
    /\ excused' = excused \cup
         {r \in Relayers : work[r].pc = "read" /\ blockNumber' # blockNumber}
    /\ UNCHANGED <<work, lastRelayedNonce, lightClient>>

----------------------------------------------------------------------------
(* A watch-loop: one relay at a time, its awaits between the steps. *)

\* Mutant: a channel that was relayed once is skipped from then on.
RelayOne_Once(r) ==
    /\ work[r] = Idle /\ queue[r] # <<>>
    /\ LET id == Head(queue[r]) IN
       work' = [work EXCEPT ![r] =
         IF lastRelayedNonce[r][id] # None THEN Idle ELSE [pc |-> "relay", id |-> id]]
    /\ queue' = [queue EXCEPT ![r] = Tail(@)]
    /\ UNCHANGED <<vars, blockNumber, reached, lastRelayedNonce, lightClient>>

\* relayOne: read the channel, confirmed to be at least as new as the event, and
\* skip it unless it has advanced since this loop last relayed it.
RelayOne(r) ==
    /\ work[r] = Idle /\ queue[r] # <<>>
    /\ LET id == Head(queue[r])
           last == lastRelayedNonce[r][id] IN
       work' = [work EXCEPT ![r] =
         IF last # None /\ last >= channels[id].nonce THEN Idle
         ELSE [pc |-> "relay", id |-> id]]
    /\ queue' = [queue EXCEPT ![r] = Tail(@)]
    /\ UNCHANGED <<vars, blockNumber, reached, lastRelayedNonce, lightClient>>

\* relayChannelState reads the channel again, ...
ReadChannel(r) ==
    /\ work[r].pc = "relay"
    /\ work' = [work EXCEPT ![r] = [pc |-> "read", root |-> StateRoot(@.id)]]
    /\ UNCHANGED <<vars, blockNumber, reached, queue, lastRelayedNonce, lightClient>>

\* Mutant: only the nonce comes from the state that was read before.
ReadBlockNumber_Rereads(r) ==
    /\ work[r].pc = "read"
    /\ work' = [work EXCEPT ![r] =
         [pc |-> "prove", block |-> blockNumber,
          root |-> [StateRoot(@.root.id) EXCEPT !.nonce = work[r].root.nonce]]]
    /\ UNCHANGED <<vars, blockNumber, reached, queue, lastRelayedNonce, lightClient>>

\* ... then asks for the block number, and has the pair signed and proven: the
\* demo committee signs what it is given.
ReadBlockNumber(r) ==
    /\ work[r].pc = "read"
    /\ work' = [work EXCEPT ![r] =
         [pc |-> "prove", block |-> blockNumber, root |-> @.root]]
    /\ UNCHANGED <<vars, blockNumber, reached, queue, lastRelayedNonce, lightClient>>

\* updateState: the one slot of the source chain goes to the newer block.
Accepted(r) ==
    /\ work[r].pc = "prove"
    /\ work[r].block > lightClient.block
    /\ lightClient' = [root |-> work[r].root, block |-> work[r].block]
    /\ work' = [work EXCEPT ![r] = Idle]
    /\ UNCHANGED <<vars, blockNumber, reached, queue>>

UpdateState(r) ==
    /\ Accepted(r)
    /\ lastRelayedNonce' =
         [lastRelayedNonce EXCEPT ![r][work[r].root.id] = work[r].root.nonce]

\* Any other outcome of updateState is an error that relayOne swallows.
Rejected(r) ==
    /\ work[r].pc = "prove"
    /\ work[r].block <= lightClient.block
    /\ work' = [work EXCEPT ![r] = Idle]
    /\ UNCHANGED <<vars, blockNumber, reached, queue, lastRelayedNonce, lightClient>>

\* A read, the prover or the transaction may fail at any point, with the same end.
RelayFails(r) ==
    /\ work[r].pc \in {"relay", "read", "prove"}
    /\ work' = [work EXCEPT ![r] = Idle]
    /\ UNCHANGED <<vars, blockNumber, reached, queue, lastRelayedNonce, lightClient>>

\* The transaction went through but waiting for its receipt fails.
ReceiptLost(r) == Accepted(r) /\ UNCHANGED lastRelayedNonce

\* The process dies with all it remembers; started again, it sees new events only.
Crash(r) ==
    /\ work[r].pc # "down"
    /\ work' = [work EXCEPT ![r] = [pc |-> "down"]]
    /\ queue' = [queue EXCEPT ![r] = <<>>]
    /\ lastRelayedNonce' = [lastRelayedNonce EXCEPT ![r] = [id \in ChannelId |-> None]]
    /\ UNCHANGED <<vars, blockNumber, reached, lightClient>>

Restart(r) ==
    /\ work[r].pc = "down"
    /\ work' = [work EXCEPT ![r] = Idle]
    /\ UNCHANGED <<vars, blockNumber, reached, queue, lastRelayedNonce, lightClient>>

LoopStep(r) ==
    /\ \/ RelayOne(r)
       \/ ReadChannel(r)
       \/ ReadBlockNumber(r)
       \/ UpdateState(r)
       \/ Rejected(r)
    /\ UNCHANGED excused

Fault(r) ==
    /\ RelayFails(r) \/ ReceiptLost(r) \/ Crash(r) \/ Restart(r)
    /\ excused' = excused \cup {r}

RelayNext == SourceStep \/ \E r \in Relayers : LoopStep(r) \/ Fault(r)

\* A loop that is up is run by its machine.
LoopFairness == \A r \in Relayers : WF_relayerVars(LoopStep(r))

RelaySpec == RelayInit /\ [][RelayNext]_relayerVars /\ LoopFairness
----------------------------------------------------------------------------
(* Properties *)

\* relayer/src/watch.ts:12-13: a relay never attests to a state that was not
\* actually reached on the source chain.
AttestedWasReached == lightClient.root # None => lightClient.root \in reached

\* Of what the loops have attested, the destination can settle only states that
\* conserve the deposits, and each of those was reached on the source chain, if
\* the channel's parties have signed nothing to close it with a proof.
UsableAttestation ==
    LET root == lightClient.root IN
    /\ root # None /\ eddsaSigned[root.id] = {}
    /\ CheckConservation(channels[root.id], root)
    => root \in reached

\* LightClientVerifier.sol:91-94: an attestation is never rewound to an older one
\* of the same channel.
NeverRewound ==
    [][lightClient.root # None /\ lightClient'.root.id = lightClient.root.id
         => lightClient'.root.nonce >= lightClient.root.nonce]_relayerVars

\* relayer/src/watch.ts:4-8: every new state is relayed, and nobody has to run
\* index.ts by hand for it, by a loop that nothing has gone wrong with.
PostsRelayed ==
    \A r \in Relayers, id \in ChannelId :
        channels[id].status = "CHALLENGE_PERIOD" ~>
            \/ /\ lastRelayedNonce[r][id] # None
               /\ lastRelayedNonce[r][id] >= channels[id].nonce
            \/ r \in excused
=============================================================================
