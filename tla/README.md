# Verification of the ZK cross-chain payment channel

TLA+ models of the contracts, the relayer, the watchtower and the Halo2 circuit of this repository, the TLC
configurations that check them on small instances, and TLAPS proofs of what matters most for every
value of the constants. Paths below are relative to the repository's root.

## 1. The system

| Component | State it keeps | Operations | What makes it correct |
|---|---|---|---|
| `contracts/src/PaymentChannel.sol` | `channels`, `nextChannelId`, the contract's ETH, `pendingWithdrawals` | `open`, `join`, `cancelUnjoined`, `closeCooperative`, `closeUnilateral`, `challenge`, `closeWithProof`, `challengeWithProof`, `closeWithRemoteAttestation`, `withdraw`, `withdrawWithOpening`, `claim` | a channel gives back what it received, once, split as in one agreed state; posts only rise; who answers in time is not settled below a state it holds |
| `circuits/circuits/channel_state.circom` | none | proves a chain of 4 co-signed updates from an anchor | nonces rise, sums are conserved, both keys signed each update |
| `contracts/src/WatchtowerRegistry.sol` | `stakes`, `commitments`, `closedObservedAt`, the registry's ETH, `pendingCredits` | `stake`, `observeClosed`, `unstake`, `commitCheckpoint`, `slash`, `claim` | stake leaves only by a justified slash or after the cooldown; no wei is lost |
| `contracts/src/LightClientVerifier.sol`, `circuits/circuits/consensus_proof.circom` | one `trustedStateRoot` and `trustedBlockNumber` per chain | `updateState` | roots are attested by a quorum and never rewound |
| `relayer/src` (`watch.ts`, `index.ts`, `rpcSync.ts`) | per loop: the queue, `lastRelayedNonce`; all in memory | events in, `relayOne` / `relayChannelState` out | only states that were reached are attested; every new state is relayed |
| `watchtower/src` (`server.ts`, `checkpoint.ts`, `store.ts`, `monitor.ts`) | `CheckpointStore` in memory and in a JSON file, commit locks, running handlers | `POST /checkpoint`, reactions to events | a stored checkpoint protects its channel; the process can defend what it committed to |
| `LightClientVerifierBLS*.sol`, `SSZ.sol`, `bls-validators/` | committees, threshold, roots | `addValidators`, `finalize`, `updateState`; merkle branches; a 2-of-3 bootstrap | quorums intersect; padding bits do not count |
| `circuits-halo2/src/circuit.rs` | none; the cells of one run of `synthesize` | emits the rows of a chain of `STEPS` co-signed updates | whatever a prover writes into the cells, rows that hold stand for a chain over the integers; an honest prover is never turned away |
| `circuits-halo2/src/chip.rs`, `poseidon_*.rs`, `babyjubjub_*.rs`, `field.rs` | none | gates; Poseidon, curve and EdDSA, each as rows and as plain functions; parsing of constants | a row leaves its output no choice; both versions agree; each constant stands where its table has it |
| curves and hashes in Solidity, generated verifiers, scripts, demos, tests | - | - | - |

How they interact. The two parties co-sign states off-chain, with ECDSA for the raw path and with
EdDSA for the proof path. The contract learns a state from raw signatures, from a proof, or from the
root that the chain's light client trusts. The relayer follows the contract's events on a source
chain, reads the channel, and has the hash of its state attested on the destination chain, where the
same-numbered channel can be closed with it. The watchtower receives co-signed states over HTTP,
stores them, commits to their nonces in the registry, and challenges when an event shows an older
state on chain. The registry reads the final nonce of a channel with `getChannel`. The Halo2 circuit is a
port of `channel_state.circom` as it was before commitments; `bin/prove_and_export.rs` proves and verifies
with it, no contract takes its proofs.

What is hard here: a dispute window may pass through signed, proven and attested posts in any order;
one flag tells which storage words are meaningful; ETH is pushed to recipients that may refuse it;
the relayer and the watchtower read the chain in one await and act on it in another, crash, restart,
and race other instances of themselves; nothing on either side of HTTP or of an event stream is
retried; and a circuit is not a program: its rows bind a prover that need not run the code that emits them,
in an arithmetic where every number wraps. PROJECT.json lists these hazards one by one, with the properties that cover each.

## 2. The modules

| Module | Models | Built on |
|---|---|---|
| `PullPayment` | `_creditOrSend`, `claim` and the ETH of both contracts, as operators on a ledger value | - |
| `PaymentChannel` | the contract, with co-signing, the light client and the clock around it | `PullPayment` |
| `ChannelLifecycle` | abstract: what an observer of `getChannel` may rely on | - |
| `ChannelDefence` | the premises and promises of the dispute rules | `PaymentChannel` |
| `WatchtowerRegistry` | the registry | `ChannelLifecycle`, `PullPayment` |
| `Relayer` | watch-loops and the light client's root | `PaymentChannel` |
| `Watchtower` | the service, its file and the registry's view of it | `PaymentChannel` |
| `FoldProofs` | theorems about recursive functions: sums over finite sets, loops and folds over sequences | - |
| `PaymentChannelProofs` | theorems about `PaymentChannel` and `ChannelDefence` | `ChannelDefence`, `FoldProofs` |
| `WatchtowerRegistryProofs` | theorems about `WatchtowerRegistry` | `WatchtowerRegistry`, `FoldProofs` |
| `WatchtowerProofs`, `RelayerProofs` | theorems about `Watchtower` and `Relayer` | the module, `PaymentChannelProofs` |
| `WatchtowerDuty` | what the process knew in time, next to what the registry slashes for | `Watchtower` |
| `Committee` | `LightClientVerifierBLSGeneral.sol`, its RFC9380 copy and the demo committee, with its validators | - |
| `CommitteeProofs` | theorems about `Committee` | `Committee` |
| `PrimeField` | `field.rs`, and the field `Fr` | - |
| `ArithChip` | `chip.rs`: gates and the methods that emit them | `PrimeField` |
| `PoseidonRef`, `PoseidonChip` | Poseidon outside and inside the circuit | `PrimeField`, `ArithChip` |
| `BabyJubjubRef`, `BabyJubjubChip` | the curve and EdDSA outside, the curve inside the circuit | `PoseidonRef`, `PoseidonChip` |
| `ChannelStateCircuit` | `circuit.rs`: `synthesize`, `verify_eddsa`, `to_bits`, acceptance | `BabyJubjubChip` |
| `UpdateChain` | abstract: the chain of updates a proof promises, over the integers | - |
| `BabyJubjubChipProofs` | theorems about the chips, the hash, the constants and the scalar multiplication | `BabyJubjubChip`, `FoldProofs` |
| `ChannelStateCircuitProofs` | theorems about the circuit | `ChannelStateCircuit`, `BabyJubjubChipProofs` |
| `MC*` | constants of the small instances | the module of the name |

### PaymentChannel

There is one action per external function. A transaction is atomic: an action is the whole function,
the `_payout` at its end included; a revert is a step that is not taken. `channels` holds the
contract's struct field by field, `ledger` its ETH and credits. Abstracted are:

* signatures: `signed[id]` and `eddsaSigned[id]` are the states that bear both signatures for channel
  `id` of this deployment. That both hashes bind the contract, the chain and the channel id
  (`hashState`, `msgHash`) is what makes the set one per channel. A signed state stays signed;
* keys: a party registers its own EdDSA key or none (`_verifyKeyOwnership`), so a key is named by its
  owner. A proof needs both keys: circomlib's verifier rejects the (0,0) key;
* proofs: `VerifyChannelProof` says when an acceptable proof can be built: both keys, an opening of
  the one anchor the contract accepts, and `Steps` co-signed updates of rising nonces that conserve the
  anchor's sum. `Steps` is 1 or 2 in the runs instead of 4. The Groth16 verifier is assumed sound and
  complete, balances are naturals and not 64-bit ranges;
* commitments: `Poseidon` is binding, so a commitment is the record of what it commits to. Its
  blinding is `Public` or known to the party that made the proof, which is the account that sends it;
* remote states: the hash is collision free, so a root is the pair of a channel id and a state. One
  remote chain is modelled, and `AttestRemote` lets its root be any pair: assumption 9 of the threat
  model is that the demo committee can be asked to sign anything;
* time: `now` moves by ticks; `MaxTime` bounds the clock, and a post is taken only when its whole
  window fits below `MaxTime`, so that every window in the model can run out. This bound is the only
  guard that the code does not have.

`deposited`, `paid`, `origin` and `attested` are history variables: no guard reads them.

`withdraw` emits the balances after `_payout` has zeroed them, so its event always reports 0 and 0;
events are not part of the model, and nothing in the repository reads that one.

### ChannelDefence

The premise of the threat model (assumption 2) is a history variable: `lapsed` has every channel whose
window ran out while a better co-signed state was at hand, or that got a new signature after its close
began. No step is forbidden. `NewestStateWins` is what the parties of the other channels get.

`ProofOverridable` is the contract's own comment on overriding a post with a proof. Its premise (`Overtakes`)
has all that such a proof takes but an opening of its anchor: an open window, two different parties with keys, and updates
that lead on from the posted state. `KnownPostOverridable` has the opening as well, and holds: so the private
blinding is what `proof_override` is about, and nothing else.

### WatchtowerRegistry

One action per external function, over every life `ChannelLifecycle` allows a channel, which by
`ImplementsLifecycle` includes everything the contract does. The accounts are watchtower, party and slash
caller at once. `Slash` makes three pushes, any of which may fail. The actions of the unused `_send`
and the state hash in a commitment are left out: nothing reads them. `closedSince`, `missed`, `untimely`
and `slashed` are history variables: a watchtower is in `missed` when a window ends below its commitment,
and in `untimely` when it commits while no challenge is possible.

### Relayer

A loop's steps are the stretches between its awaits: take an item and read the channel (`RelayOne`),
read it again for the state to attest (`ReadChannel`), read the block number (`ReadBlockNumber`), and
get the transaction in (`UpdateState`) or not (`Rejected`). The source chain takes any number of steps
in between. `RelayFails` ends a relay at any of these points, `ReceiptLost` after the transaction;
`Crash` forgets all memory, and `Restart` begins without looking at past events. `excused` has the loops
that any of this happened to, and those that saw a block mined between their two reads. `blockNumber`
rises with each transaction or tick; two transactions of one block would only add states in which less is
visible to the loops. Several relayers share nothing but the two chains. A read is of the current state:
lag of an RPC node, which `readConfirmed` is there for, is not modelled.

### Watchtower

Handlers are records in `requests` and `reactions`, one per call in progress, and move at their
awaits; `putIfNewer`, the save and the place in the commit queue are one step because no await is
between them. `Commit` is the head of the queue of `withCommitLock`, and may fail, as may every handler
(`HandlerFails`). A transaction that is under way when the process dies lands before the crash or never
in the model; a challenge that lands later is a challenge by anybody, which the chain takes anyway.
An event sets a flag, so several that are not delivered yet start one handler in the model where `monitor.ts` starts one
each; each handler reads the channel anew, so more of them would only react more often.
The registry is configured and its stake in place; the model's `committed` is the registry's
`commitments` entry. `CrashWhileSaving` leaves a file that `Restart` cannot read. `Challengeable` is the chain's own
guard: a challenge it refuses (or, by the bound `MaxTime`, one whose window would not fit in the clock) changes nothing.
History: `missed` has the channels a handler failed on, whose window ended with something left to do, during which the
process stopped, or whose stored checkpoint the contract will not take (`Unusable`); `early` and, in `WatchtowerDuty`, `knew` are the newest nonces stored before the close and before
the end of the window.

### Committee

`contract` says which kind is deployed. The general one is registered in batches by its deployer and
finalized; the demo one has five keys and a threshold of three from the start, which is also what
`consensus_proof.circom` proves for `LightClientVerifier.sol`. A seat is an index into `pubkeys`, and one
key may have several: the code does not look for repetitions, and the bounds are in seats. A caller may
pass any `participantBitmap`: a length in bytes and a set of bits. The signature `aggSig` exists when the
key of every flagged seat has signed the message, which is what the pairing check is assumed to show; that
needs registered keys whose owners hold them, since nobody checks it at `addValidators`. Validators
outside `Faulty` sign one root per block; `sign_general.ts` would sign anything, so this is a premise,
not a behaviour of the code. `Signable` and `MaxSeats` bound the model; bytes have `ByteSize` bits.
The demo's rule, three of five, makes two quorums meet in one seat only, so `Tolerated` allows it no faulty one.

### ChannelStateCircuit and the modules under it

The chips are pure: a gate is a predicate over the cells of a row, a method is the value its output cell
gets, and `BabyJubjubChipProofs` shows that no other value satisfies the row. The functions outside the
circuit are written from `*_ref.rs`, those inside from `*_chip.rs`, and neither uses the other, so that
comparing them says something. A missing inverse is `NoPoint`: a panic outside, no proof inside.
`Once` only keeps TLC from computing an argument again and again. The modulus, the widths, the tables and
the curve are constants; nothing in the modules depends on their values.

`ChannelStateCircuit` is one run of `synthesize`, with a label of `pc` for each place where rows are emitted:

| Code | Action |
|---|---|
| `load_public` of the 12 inputs, `public_inputs` | `LoadPublic` |
| `range_check_64`, `to_bits`: a turn of its loops; its last row failing; what follows when it holds | `WitnessBit`, `BitsRejected`, `Decomposed` of the next action |
| range check of `startNonce`; loading an update; range checks of balances and nonce | `StartNonceChecked`, `LoadUpdate`, `BalanceAChecked`, `BalanceBChecked`, `NonceChecked` |
| conservation, and the difference of nonces up to its range check | `Conserve` |
| message hash | `HashMessage` |
| `verify_eddsa`: to the challenge; `R8 + c*8A`; `S*B8` and the comparison | `LoadSignature`, `MultiplyChallenge`, `CheckSignature`, for "a", then for "b" |
| the end of the loop body; the last three rows and `verify_proof` | `Carry`, `VerifyProof` |

A verifier sees that all rows hold for its instance column, and nothing else. A prover may therefore
write into a witness cell what it likes: updates and signatures are any of `Updates` and `Signatures`,
and each other witness is the value the code computes (its hint) or one of `Stray`, per kind of cell;
`strayed` is a history variable with the kinds that differ. A row that fails ends the run as `rejected`.
The order of rows has no meaning to a verifier; taking them in the order of the code only decides which one
fails first. The two loops of `to_bits`, bits and weighted sum, are taken together for the same reason.
The struct of the prover (`circuit`) and the verifier's instance column (`instance`) are chosen
independently. `Unforced` has the cells that no row ties: `Ay` and `By`, the identity, `B8`, the zero of
the hash; and the challenge, whose bits may stand for the cell plus the modulus. The premise on `strayed` in
`SignaturesSound` is what the code leaves open, `Ay` aside, which the run lets stray.

## 3. Runs

Two model values are the parties in all runs; each channel is funded with 1 on each side, so its total
is 2 and a state may favour either side or neither. Symmetry is over the two parties and is not used
where liveness is checked or where parties are told apart.

| Run | Instance | Shows |
|---|---|---|
| `one_channel` | 3 ECDSA updates, 4 EdDSA updates in proofs of 2, 2 attestable states, 2 of them not conserving; windows of 2 in a clock of 4 | escrow, authenticity, monotonicity, finality, refinement, solvency |
| `two_channels` | the same two accounts in two channels, raw signatures, one of 3 updates spending two channels' deposits, clock of 1 | `SettlementAuthentic`, `EscrowExact`: no state or ETH crosses from one channel to the other |
| `disputes` | 3 ECDSA updates, 3 EdDSA updates in proofs of 1, an attestation, clock of 4; fair | `NewestStateWins`, `KnownPostOverridable`, `DisputesSettle` |
| `registry` | one channel, two accounts, stakes of 5 and 20 (minimum 20), bounty 10%; fair | `StakeLeavesJustly`, `DiligentNeverSlashed`, `StakeReleased`, `Solvency` |
| `relay` | one loop with all faults, 2 updates, no proofs; fair | `UsableAttestation`, `NeverRewound`, `PostsRelayed` |
| `watchtower` | all faults, 2 updates, one of them signed for one deposit only, a remote close below them, clock of 1 | `CommitsRise`, `CommitmentsBacked`, `CheckpointsProtect` |
| `committee` | up to 4 seats from 4 validators and the 5 demo keys, 1 faulty validator, 2 roots of one block and a later one, bytes of 3 bits; fair | `NoFork`, `QuorumSigned`, `TwoThirdsSuffice` |
| `channel_circuit` | 2 steps in a field of 29 elements, 2-bit ranges, a curve of 40 points, Poseidon of 4 full and 2 partial rounds with made-up tables; 3 claims, 9 updates, 6 signatures; bits and `Ay` may stray | `ChainSound`, `ImplementsChain`, `SignaturesSound`, `RejectedForCause`, `DecompositionSound`, `ScalarMulIsRepeated`, `ConstantsRead` |

Why the bounds are enough. A dispute needs a stale post, an answer, and a second answer after the
window was reopened: three nonces, and a clock of twice the window. A clash of paths needs one post of
each kind on one channel. Replay needs two channels of the same parties; that one is paid
from the other's escrow shows channel by channel (`EscrowExact`) and not in the contract's sum, where it would cancel, and needs
both to be funded at once with a state that spends it all. There the two windows share the clock and nothing else, so one period is enough. Rounding needs a stake whose
share after the bounty is odd: 25 gives 2 and 23. A reordering of commits or relays needs
two updates and two requests in flight, which the runs have; torn reads need one block between
two awaits, and several fit. Up to four seats the rounding of two thirds takes all three remainders,
and with bytes of 3 bits the bitmaps have no, one and two padding bits. Stakes, clocks and nonces beyond these repeat the same comparisons.
The small field stands to its widths as the real one does: two values in range do not meet modulo P
(64 bits against 254), a challenge fits its bits with room for the cell plus the modulus (254), and S
does not reach the modulus (253). With two steps a nonce is compared with the start once and with another
update once. The updates have values out of range, a nonce of 28 that is -1, and a pair of balances that
make up the deposit only modulo 29; the tables have constants of one and of two digits, so both cases of the
padding happen. The curve is complete, so that sums of its points exist and associate (`CompleteCurve`), and the stray `Ay` and one of the
signatures are off it, so that missing inverses happen too. Accepted runs include some whose bits
are the other decomposition of the challenge and some whose `Ay` is not the public one.

Each property has a mutant in PROJECT.json, a plausible bug of the code that makes the run fail.

### Disagreements between the code and its documents

These runs check what a comment or document says, and TLC finds it violated by what the code does.

| Run | Claim | Behaviour |
|---|---|---|
| `proof_override` | the other party can submit a newer state, signed or proven | after a proof, only a proof from the posted commitment is accepted, and only its author can open it (a raw signature still overrides): party a posts nonce 2 under its own blinding, 3 and 4 are signed, and b cannot prove 4 |
| `relay_proof` | only reached states are attested | after a proof close `balanceA`/`balanceB` are still those of an older state |
| `relay_rewind` | an attestation is not rewound | the state and the block number come from two reads; a second loop's newer relay is overwritten |
| `watchtower_slashed` | what slash checks proves that the watchtower knew in time | a checkpoint that comes when the window is over is committed all the same |

Eight more are visible in the models; none has a run of its own. The first four are what the premises of
the properties above are for, the fifth is `CrashWhileSaving`, the last two are states of `channel_circuit`.

* `PostsRelayed` needs the loops whose two reads see the same block: otherwise the relay of a newer state
  may carry a block number already used, revert with `StaleBlockNumber`, and be dropped.
* `CheckpointsProtect` is about checkpoints stored before the close: a later one is looked up only when
  another event arrives, even if the window is still open.
* `verifyCheckpoint` does not ask whether the channel has been joined. A state signed for the first deposit alone is
  stored, conserves nothing once the second deposit is in, and, if its nonce is high, keeps out the checkpoints
  that would conserve: `checkpoint.ts:121-122` says that a stored checkpoint still protects the channel.
  `CheckpointsProtect` leaves such channels out (`Unusable`).
* `NewestStateWins` leaves out `closeCooperative`: either party alone can send it an old co-signed state,
  which settles with no window. The contract's comment takes two signatures for an agreement to close.
* `store.ts` truncates the only copy of its file before it writes it: killed in between, the process has
  lost every checkpoint and does not start again.
* `DisputesSettle` has the case `~Openable`, and the window of an openable commitment can be settled by its
  prover alone: the comment at `withdrawWithOpening` says both parties know the values, but the blinding
  is the prover's choice.
* `verify_eddsa` loads `Ay` into a fresh cell that no row ties to the public input, and `synthesize` drops the
  cells of `Ay` and `By` that it did tie; the comment at `circuit.rs:292` says that every value in the circuit
  is constrained whatever its hint. What is accepted is signed under a key with the public x and the y
  of that cell (`SignaturesSound`): in the small instance one accepted proof uses a point off the curve.
  `TiedKeysAreUsed` shows that one tie per key is all that is missing. In the same way `chip.rs` keeps
  constants in a fixed column so that they are enforced, but the identity, `B8` and the zero of the hash
  are loaded as witnesses. `SignaturesSound` takes these as the code writes them.
* A 254-bit challenge has a second decomposition when it is small enough, which multiplies by the challenge plus
  the modulus; `DecompositionSound` says that nothing else has one. S has 253 bits and only one.

### Fairness

* `disputes`: time passes (`WF(Tick)`), and a party that can settle an expired window does.
  `withdraw` and `withdrawWithOpening` are calls in the callers' own interest, open to both parties. No
  post is fair: the run shows that a dispute ends whatever is posted in between. `~Openable` in the
  property is the case of a prover that keys no party of the channel, who can leave its commitment
  unopened: `challengeWithProof` is open to anybody who has the updates.
* `registry`: time passes, somebody calls `observeClosed`, and a watchtower asks for its stake.
* `committee`: whatever can be accepted is submitted in the end: `updateState` is open to anybody. No
  validator has to sign.
* `relay`, `relay_rewind`: each loop makes progress (`WF(LoopStep)`). Node's event loop resumes a
  resolved await, and a queue item is taken as soon as the previous relay ends. Source transactions and
  faults are not fair, and a loop that crashed need not come back.
* `channel_circuit`: none. A run of `synthesize` is a bounded sequence of rows with nobody to wait for,
  and whether a prover finishes is its own affair.

## 4. Proofs

Assumptions are `ChannelAssumption`, `WatchtowerAssumption`, `RegistryAssumption` and `CommitteeAssumption`, which TLC
evaluates: bounds are naturals, windows are not empty, accounts and channels are finitely many (a balance is a sum over
them), states are records of naturals, the bounty is at most the whole stake, and reserved values are not parties,
states or files. For the circuit they are that P is prime (`Primality`), that it exceeds twice the range
(`RangeAssumption`), that a challenge fits its bits and S stays below the modulus (`WidthAssumption`), that the
constants are of their types, and how powers of two grow up to the widths in use (`PowersOfTwo`), which the provers do
not know.

* `FoldProofs`. What the two solvency equations need of a sum: it is a natural number (`SumType`), changing one entry
  changes it by as much (`SumChange`), and no entry exceeds it. And what the circuit needs of a loop: a recursive function
  over its turns exists and has a type (`LoopExists`), and the folds of the community modules are such loops (`LeftFold`,
  `RightFold`). These are recursive functions, and TLA+ gives them by CHOOSE; instead of an induction theorem, a smallest
  set or a first turn for which the claim fails is taken (`SubsetInduction`, `TurnInduction`).
* `PaymentChannelProofs`. The invariants are not inductive one by one: what `withdraw` pays out is authentic
  only because what was posted is, which needs the flag to agree with the evidence, which needs closed
  and fresh channels to have none. `IInv` therefore has `TypeOK` and, per channel, escrow, authenticity of
  the post, the flag, authenticity of the settlement and bookkeeping (an unopened channel is
  blank, an unjoined one has no second deposit), and that the trusted root was attested. Lemmas treat
  a step that leaves a channel alone (`SafeFrame`), one that posts and one that settles; then there is one
  lemma per action. `Invariance`, `TypeCorrect`, `ExactEscrow`, `AuthenticPosts`,
  `AuthenticSettlements` and `CommitmentsInWindow` follow. For the ETH, each step moves as much into or out of the sums
  as into or out of `balance`: one lemma for a deposit, one for a settlement with its two pushes, one for `claim`
  (`Solvent`); and since no summand is negative, no push and no claim can want for funds (`AlwaysFunded`).
  Then every step does one of four things to a channel: nothing, fund, post, settle
  (`ChannelStep`). `RisingPosts` and `FinalClose` follow, with `BoundedWindows`: an open window never ends
  more than a period from now, which is why a new post cannot shorten it.
  `KnownPostsOverridable`: a chain of updates from the posted state is also one from the anchor the contract asks for, since
  a posted state conserves the deposits, and its end is newer by induction along the chain (`ChainRises`).
  `DefendedNewest` is about `ChannelDefence`: that a settlement is not below a signed state is decided when the window ends,
  one or more steps earlier, so the invariant `Unbeaten` says it of expired windows too, and `lapsed` grows
  in every step that would break it: the clock's, a late signature's, a late post's.
  `Refinement` shows that initial states and steps of the contract map to
  those of `ChannelLifecycle` under the mapping at the end of `PaymentChannel`.
* `WatchtowerRegistryProofs`. The registry sees channels only through `ChannelLifecycle`, so what it may assume of a step is
  `Moves`: quiet, a begin, a new post, an agreement or an expiry. `Safe` ties three moments together: a close is not
  observed before it happens, a watchtower whose commitment beats an expired or settled nonce is already in `missed` or
  `untimely`, and only those are slashed. `DiligentSafe`, `JustStakes`, `RegistrySolvent` (the three pushes
  of a slash with its rounding) and `AlwaysFunded` follow.
* `WatchtowerProofs`. `Orderly` is what the commit lock is for: the nonces in the queue of a channel rise from what is
  committed (a nonce of 0 aside, which may come first, is stored, and which the registry refuses), and a readable file has a state at least as new as all of them. `RisingCommits` and
  `BackedCommitments` follow across every crash. For `CheckpointProtection` the invariant is `Protected`: while a post is below a checkpoint
  stored in time, an alert is pending, or some reaction that has yet to read the chain or read it since that post will bring the
  newer state in (`Useful`), and the window is open. A step that lets go of it, by a failure, a crash or the
  end of the window, puts the channel into `missed`, and the answer, once taken, leaves nothing stale.
* `RelayerProofs`. A root is `Genuine` if its channel has evidence on record and is at least as new, and it was in that state
  if the state can be settled at all. A loop makes one only from a channel whose event it has seen, so what is
  in queues must have evidence (`Noticed`), and stays genuine because deposits no longer change. `UsableAttestations` has no hypothesis on
  the number of loops, their faults or restarts. `OneLoopNeverRewinds` assumes a single loop; its invariant `Ordered` compares
  what the loop holds with what it had attested. With two it is false (`relay_rewind`).
* `CommitteeProofs`. `Inv` adds to `TypeOK` that the threshold is the one of the registered seats and
  that a validator outside `Faulty` has one root per block. `AcceptedSeats` reads a set of signed seats off
  an acceptable bitmap; `QuorumsMeet` counts: two quorums share at least `2 * threshold - numValidators`
  seats, which is more than the faulty ones, so one seat they share signed both roots (`NoForkAlways`).
  `QuorumSignedAlways` is by induction over steps: a signature never takes one away.
* `BabyJubjubChipProofs`. `GatesDetermineOutput`: each gate has one solution, the value the chip assigns, which is
  why the model gives a prover no choice there. `BooleanRow`, `InverseUnique` and `SelectChooses` do the same
  for the bits, the inverses and the selections, from the primality of P alone. The code has the hash and the
  multiplication twice, once as rows and once as plain functions, in different orders of operations: `HashAgrees` and
  `ScalarMulAgrees` show turn by turn that both compute the same, for every table, curve and field. The chip always
  forms the sum it may discard, so `ScalarMulAgrees` is about points for which its rows exist. `ConstantIsSpelt`: a
  constant is the number its digits spell, padding and byte order included.
* `ChannelStateCircuitProofs`. Four invariants, each on top of the one before.
  `Cells` says of every label what kind of value each cell holds, and of a decomposition that its bits so far stand for
  its sum modulo P, with the power of two as weight (`InStep`); `BitsAreTheCells`, `TypeCorrect` and `ConstantsAreSpelt`
  follow (`CellsAlways`).
  That an accepted proof is a chain is a fact about rows emitted long before. `Inv`
  therefore carries along what each row leaves behind: `Tied` (the public cells are the instance column), `ValueOK`
  (what is being decomposed belongs to the label), `ChecksOK` (what the checks passed say of the update under way, as
  integers), `ChainOK` (the completed updates) and `Claimed`. `SumInRange` and its companion for the difference of nonces
  turn equality modulo P into equality; then there is one lemma per action. `AcceptedIsAChain` and
  `CircuitImplementsChain` follow for every prime field, width, number of steps and every set of values a prover
  may write. `TiedKeysAreUsed` adds an invariant on the signature cells and assumes that `Ay` does not stray.
  `SignInv` follows one signature through its two multiplications, while the cells other than `Ay` are as written:
  the message is the hash outside the circuit (`HashAgrees`), the bits are those of the challenge and of S
  (`BitsAreTheCells`, and their number determines bits of one width), so both sides of the comparison are those of
  `eddsa_poseidon_verify` (`ScalarMulAgrees`); what was verified stays so until the proof is accepted (`AcceptedIsSigned`).
  `CauseInv` is about the prover who runs this code: he has the bits of his own cells, so a decomposition that does
  not close had too few of them (`OwnBitsClose`), and on the curve every sum exists, so a multiplication that leaves
  nothing had an R8 off it. Each failing row then names what `RejectedForCause` allows (`RefusesForCause`).
  `MultiplicationIsRepeated` counts along the bits: after i turns the accumulator is as many copies of the point as the
  first i bits say and the base 2^i of them (`ScalarMulIsMultiple`).
  Both theorems assume of the curve what the parameters of the code make true, that sums exist (`CurveIsClosed`) and, for
  `MultiplicationIsRepeated`, associate (`CurveIsGroup`), and that the base point and the public keys are on it
  (`KeysOnCurve`). No code checks the last of a key; off the curve the chip may have no rows for a sum
  it forms and then discards. TLC evaluates all three in the small instance (`CompleteCurve`).

Only model-checked: liveness and everything under fairness (`DisputesSettle`, `StakeReleased`, `PostsRelayed`,
`TwoThirdsSuffice`), which the provers do not reach. Assumed and not proved: that the sums of points of the curve exist
and associate, identities of rational functions of a size that no installed prover will find.

## 5. Not modelled

The Solidity curve and hash libraries and the generated verifiers (assumed sound). Of the Halo2 crate: the
polynomial commitments, setup, keys and transcript of `halo2_proofs` (a proof is taken to exist exactly when all
rows hold), `without_witnesses` and the row capacity of k = 19, columns, selectors and regions, the t = 3 tables, which
only a test uses, the literals of `demo_witness`, and the values of the Poseidon tables and of the BN254 field, which
are constants of the models: that the real tables are circomlib's is what the crate's own tests compare.
Deployment, key and ceremony scripts; HTTP parsing, RPC lag and gas margins; calls back from a recipient in
the middle of a payout. PROJECT.json lists every component with its
status.

## 6. Plan

Done: the contract with its abstract specification, the registry, the relayer, the watchtower, the committees, all with
proofs of their safety, and the Halo2 circuit with its chips. Left, in this order:

1. `CrossChain`: two `PaymentChannel` instances, the relayer and the light client's single root per chain,
   with two channels, to check what the destination can settle on.
2. `Payout`: the calls inside a payout, with recipients that call back, shown to implement the atomic step.
3. `channel_state.circom` step by step: the chaining of proofs and the commitments that the Halo2 port
   does not have, on top of `ChannelStateCircuit`.
4. `MerkleBranch` and `TrustlessBootstrap`: pure algorithms checked against reference definitions.
5. Proofs: that sums on the curve exist (`CurveIsClosed`) from a being a square and d none.
