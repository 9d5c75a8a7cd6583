---------------------------- MODULE RelayerProofs ----------------------------
(* Theorems about Relayer for every value of its constants, whatever fails, dies *)
(* and restarts: what the destination can settle of what was attested to it, and *)
(* that one loop alone never rewinds the destination.                            *)
EXTENDS Relayer, PaymentChannelProofs, SequenceTheorems, FiniteSetTheorems

----------------------------------------------------------------------------
(* What the events of the source chain say *)

\* A channel with evidence on record was disputed or closed with it: it is settled
\* or can be, its deposits are the ones that settlement divides, and once settled
\* the contract has wiped its balances.
Evident(id) ==
    /\ channels[id].closedCooperatively => origin[id] # "none"
    /\ channels[id].status = "CLOSED" /\ origin[id] # "none" =>
         /\ channels[id].balanceA = 0 /\ channels[id].balanceB = 0
         /\ deposited[id] = channels[id].depositA + channels[id].depositB

\* Nothing is deposited once a channel has been joined.
LEMMA DepositStep ==
    ASSUME IInv, [Next]_vars, NEW j \in ChannelId, channels[j].status # "UNINITIALIZED"
    PROVE  deposited'[j] = deposited[j]
<1> DEFINE Kept == deposited'[j] = deposited[j]
<1>1. ASSUME UNCHANGED deposited
      PROVE  Kept
  BY <1>1
<1>2. ASSUME NEW id \in ChannelId, NEW amount, channels[id].status = "UNINITIALIZED",
             deposited' = [deposited EXCEPT ![id] = amount]
      PROVE  Kept
  BY <1>2 DEF IInv, TypeOK
<1> HIDE DEF Kept
<1>3. ASSUME NEW sender \in Party, NEW partyB \in Party, NEW value \in Deposits,
             NEW key \in Party \cup {NoKey}, Open(sender, partyB, value, key)
      PROVE  Kept
  <2>1. nextChannelId \in ChannelId /\ ~(nextChannelId < nextChannelId)
    BY <1>3, ChannelAssumption DEF Open, IInv, TypeOK, ChannelId
  <2>2. channels[nextChannelId].status = "UNINITIALIZED"
    BY <2>1 DEF IInv, Safe, Booked, UnopenedChannel
  <2> QED BY <1>2, <1>3, <2>1, <2>2 DEF Open
<1>4. ASSUME NEW sender \in Party, NEW id \in ChannelId, Funding(sender, id)
      PROVE  Kept
  BY <1>1, <1>2, <1>4 DEF Funding, Join, CancelUnjoined
<1>5. ASSUME NEW sender \in Party, NEW id \in ChannelId, Closing(sender, id)
      PROVE  Kept
  BY <1>1, <1>5 DEF Closing, CloseCooperative, CloseUnilateral, CloseWithProof,
     CloseWithRemoteAttestation, PostRevealed, PostCommitment
<1>6. ASSUME NEW sender \in Party, NEW id \in ChannelId, Settling(sender, id)
      PROVE  Kept
  BY <1>1, <1>6 DEF Settling, Withdraw, WithdrawWithOpening
<1>7. ASSUME NEW id \in ChannelId, Dispute(id) \/ Signing(id)
      PROVE  Kept
  BY <1>1, <1>7 DEF Dispute, Challenge, Challengeable, ChallengeWithProof, PostRevealed,
     PostCommitment, Signing, CoSign, CoSignEdDSA, historyVars
<1>8. ASSUME NEW id \in ChannelId, NEW st \in Attestable, AttestRemote(id, st)
      PROVE  Kept
  BY <1>1, <1>8 DEF AttestRemote
<1>9. ASSUME NEW sender \in Party, Claim(sender)
      PROVE  Kept
  BY <1>1, <1>9 DEF Claim, historyVars
<1>10. ASSUME Tick \/ UNCHANGED vars
       PROVE  Kept
  BY <1>1, <1>10 DEF Tick, vars, historyVars
<1>11. Kept
  BY <1>3, <1>4, <1>5, <1>6, <1>7, <1>8, <1>9, <1>10 DEF Next
<1> QED BY <1>11 DEF Kept

\* EdDSA signatures are never taken back.
LEMMA EdDSAGrows ==
    ASSUME IInv, [Next]_vars, NEW j \in ChannelId
    PROVE  eddsaSigned[j] \subseteq eddsaSigned'[j]
<1> DEFINE Kept == eddsaSigned[j] \subseteq eddsaSigned'[j]
<1>1. ASSUME UNCHANGED eddsaSigned
      PROVE  Kept
  BY <1>1
<1>2. ASSUME NEW id \in ChannelId, NEW st \in ProofUpdates, CoSignEdDSA(id, st)
      PROVE  Kept
  BY <1>2 DEF CoSignEdDSA, IInv, TypeOK
<1> HIDE DEF Kept
<1> USE DEF offChainVars
<1>3. ASSUME NEW sender \in Party, NEW partyB \in Party, NEW value \in Deposits,
             NEW key \in Party \cup {NoKey}, Open(sender, partyB, value, key)
      PROVE  Kept
  BY <1>1, <1>3 DEF Open
<1>4. ASSUME NEW sender \in Party, NEW id \in ChannelId, Funding(sender, id)
      PROVE  Kept
  BY <1>1, <1>4 DEF Funding, Join, CancelUnjoined
<1>5. ASSUME NEW sender \in Party, NEW id \in ChannelId, Closing(sender, id)
      PROVE  Kept
  BY <1>1, <1>5 DEF Closing, CloseCooperative, CloseUnilateral, CloseWithProof,
     CloseWithRemoteAttestation, PostRevealed, PostCommitment
<1>6. ASSUME NEW sender \in Party, NEW id \in ChannelId, Settling(sender, id)
      PROVE  Kept
  BY <1>1, <1>6 DEF Settling, Withdraw, WithdrawWithOpening
<1>7. ASSUME NEW id \in ChannelId, Dispute(id)
      PROVE  Kept
  BY <1>1, <1>7 DEF Dispute, Challenge, Challengeable, ChallengeWithProof, PostRevealed,
     PostCommitment
<1>8. ASSUME NEW id \in ChannelId, Signing(id)
      PROVE  Kept
  BY <1>1, <1>2, <1>8 DEF Signing, CoSign
<1>9. ASSUME NEW id \in ChannelId, NEW st \in Attestable, AttestRemote(id, st)
      PROVE  Kept
  BY <1>1, <1>9 DEF AttestRemote
<1>10. ASSUME NEW sender \in Party, Claim(sender)
       PROVE  Kept
  BY <1>1, <1>10 DEF Claim
<1>11. ASSUME Tick \/ UNCHANGED vars
       PROVE  Kept
  BY <1>1, <1>11 DEF Tick, vars
<1>12. Kept
  BY <1>3, <1>4, <1>5, <1>6, <1>7, <1>8, <1>9, <1>10, <1>11 DEF Next
<1> QED BY <1>12 DEF Kept

\* Evidence on record means that the channel is disputed or closed.
LEMMA EvidenceOfDispute ==
    ASSUME IInv, NEW id \in ChannelId
    PROVE  /\ origin[id] # "none" => channels[id].status \in {"CHALLENGE_PERIOD", "CLOSED"}
           /\ channels[id].status = "CHALLENGE_PERIOD" => origin[id] # "none"
BY DEF IInv, TypeOK, Channel, Status, Safe, Booked, PostIsAuthentic, Vouched

\* Every step of the contract keeps the evidence in order.
LEMMA EvidentStep ==
    ASSUME IInv, [Next]_vars, NEW id \in ChannelId, Evident(id)
    PROVE  Evident(id)'
<1>1. IInv'
  BY StepIInv
<1>2. \/ origin'[id] = origin[id]
      \/ origin'[id] # "none" /\ channels[id].status \in {"ACTIVE", "CHALLENGE_PERIOD"}
  BY OriginStep DEF IInv
<1>3. channels[id].status # "UNINITIALIZED" => deposited'[id] = deposited[id]
  BY DepositStep
<1>4. origin[id] # "none" => origin'[id] # "none"
  BY <1>2
<1>5. CASE Untouched(id)
  <2>1. channels'[id] = channels[id]
    BY <1>5 DEF Untouched
  <2>2. CASE channels[id].status = "CLOSED"
    BY <1>2, <1>3, <2>1, <2>2 DEF Evident
  <2>3. CASE channels[id].status # "CLOSED"
    BY <1>4, <2>1, <2>3 DEF Evident
  <2> QED BY <2>2, <2>3
<1>6. CASE Funded(id)
  <2>1. origin[id] = "none" /\ origin'[id] = "none"
    BY <1>2, <1>6 DEF Funded, IInv, Safe, Booked
  <2> QED BY <1>6, <2>1 DEF Funded, Evident
<1>7. CASE Reposted(id)
  <2>1. channels'[id].status = "CHALLENGE_PERIOD"
    BY <1>7 DEF Reposted
  <2>2. origin'[id] # "none"
    BY <1>1, <2>1 DEF IInv, Safe, PostIsAuthentic, Vouched
  <2> QED BY <2>1, <2>2 DEF Evident
<1>8. CASE Settled(id)
  <2>1. channels[id].status \in {"ACTIVE", "CHALLENGE_PERIOD"}
    BY <1>8 DEF Settled
  <2>2. deposited'[id] = channels'[id].depositA + channels'[id].depositB
    BY <1>3, <1>8, <2>1 DEF Settled, DepositsKept, IInv, Safe, PaysExactly
  <2>3. origin'[id] # "none"
    BY <1>4, <1>8, EvidenceOfDispute DEF Settled
  <2> QED BY <1>8, <2>2, <2>3 DEF Settled, Evident
<1> QED BY <1>5, <1>6, <1>7, <1>8, ChannelStep DEF OneOf

\* A channel that an event names has evidence on record.
LEMMA EventsAreEvident ==
    ASSUME IInv, [Next]_vars, NEW id \in ChannelId, Evident(id), Emits(id)
    PROVE  origin'[id] # "none"
<1>1. IInv' /\ Evident(id)'
  BY StepIInv, EvidentStep
<1>2. CASE channels'[id].status = "CHALLENGE_PERIOD"
  BY <1>1, <1>2 DEF IInv, Safe, PostIsAuthentic, Vouched
<1>3. CASE channels'[id].closedCooperatively
  BY <1>1, <1>3 DEF Evident
<1> QED BY <1>2, <1>3 DEF Emits

----------------------------------------------------------------------------
(* Types, and what a loop may do in one step *)

Root == [id : ChannelId, nonce : Nat, balanceA : Nat, balanceB : Nat]
Waiting == [pc : {"idle", "down"}]
Relaying == [pc : {"relay"}, id : ChannelId]
Holding == [pc : {"read"}, root : Root]
Proving == [pc : {"prove"}, block : Nat, root : Root]
Work == Waiting \cup Relaying \cup Holding \cup Proving

RelayTyped ==
    /\ blockNumber \in Nat
    /\ queue \in [Relayers -> Seq(ChannelId)]
    /\ work \in [Relayers -> Work]
    /\ lightClient \in [root : Root \cup {None}, block : Nat]

\* A root that is safe to settle: of a channel with evidence, no newer than the
\* channel is, and reached if it can be settled at all.
Genuine(root) ==
    /\ origin[root.id] # "none"
    /\ root.nonce <= channels[root.id].nonce
    /\ eddsaSigned[root.id] = {} /\ CheckConservation(channels[root.id], root)
         => root \in reached

\* A relay in progress that started from an event.
Followed(w) ==
    /\ w.pc = "relay" => origin[w.id] # "none"
    /\ w.pc \in {"read", "prove"} => Genuine(w.root)

Noticed(id) == Evident(id) /\ (origin[id] # "none" => Current(id) \in reached)

RelayInv ==
    /\ \A id \in ChannelId : Noticed(id)
    /\ \A r \in Relayers : /\ Followed(work[r])
                           /\ \A i \in 1 .. Len(queue[r]) : origin[queue[r][i]] # "none"
    /\ lightClient.root # None => Genuine(lightClient.root)

\* The sequence of a finite set's members.
LEMMA SetToSeqType ==
    ASSUME NEW S, IsFiniteSet(S)
    PROVE  /\ SetToSeq(S) \in Seq(S)
           /\ \A i \in 1 .. Len(SetToSeq(S)) : SetToSeq(S)[i] \in S
<1>1. Cardinality(S) \in Nat /\ ExistsBijection(1 .. Cardinality(S), S)
  BY FS_CardinalityType
<1>2. \E f \in [1 .. Cardinality(S) -> S] : IsInjective(f)
  BY <1>1 DEF ExistsBijection, Bijection, Injection, IsInjective
<1>3. SetToSeq(S) \in [1 .. Cardinality(S) -> S]
  BY <1>2 DEF SetToSeq
<1> QED BY <1>1, <1>3

\* Of the fields of a root read from a well-formed channel.
LEMMA RootType ==
    ASSUME IInv, NEW id \in ChannelId
    PROVE  StateRoot(id) \in Root
BY DEF StateRoot, Root, IInv, TypeOK, Channel

\* What is read of a channel with evidence can be settled only if it was reached:
\* a disputed channel's storage is its posted state, and a closed one's is wiped.
LEMMA ReadGenuine ==
    ASSUME IInv, NEW id \in ChannelId, Noticed(id), origin[id] # "none"
    PROVE  Genuine(StateRoot(id))
<1> DEFINE ch == channels[id]
           root == StateRoot(id)
<1>1. /\ ch.nonce \in Nat /\ ch.balanceA \in Nat /\ ch.balanceB \in Nat
      /\ ch.depositA \in Nat /\ ch.depositB \in Nat
      /\ paid[id].A \in Nat /\ paid[id].B \in Nat
  BY DEF IInv, TypeOK, Channel
<1>2. /\ root.id = id /\ root.nonce = ch.nonce
      /\ root.balanceA = ch.balanceA /\ root.balanceB = ch.balanceB
  BY DEF StateRoot
<1>3. ASSUME eddsaSigned[id] = {}, CheckConservation(ch, root)
      PROVE  root \in reached
  <2>1. ~ch.balancesCommitted
    BY <1>3 DEF IInv, Safe, CommitmentInWindow, PostIsAuthentic, Vouched
  <2>2. Current(id) \in reached
    BY DEF Noticed
  <2>3. CASE ch.status = "CLOSED"
    <3>1. /\ ch.balanceA = 0 /\ ch.balanceB = 0
          /\ deposited[id] = ch.depositA + ch.depositB
      BY <2>3 DEF Noticed, Evident
    <3>2. paid[id].A + paid[id].B = ch.depositA + ch.depositB
      BY <2>3, <3>1 DEF IInv, Safe, PaysExactly
    <3>3. paid[id].A = 0 /\ paid[id].B = 0
      BY <1>1, <1>2, <1>3, <3>1, <3>2 DEF CheckConservation
    <3>4. Current(id) = root
      BY <2>3, <3>1, <3>3 DEF Current, StateRoot
    <3> QED BY <2>2, <3>4
  <2>4. CASE ch.status # "CLOSED"
    <3>1. Current(id) = root
      BY <2>1, <2>4 DEF Current, StateRoot, Posted
    <3> QED BY <2>2, <3>1
  <2> QED BY <2>3, <2>4
<1> QED BY <1>1, <1>2, <1>3 DEF Genuine

\* One step of loop r that leaves it at w.
Move(r, w) ==
    /\ UNCHANGED <<vars, blockNumber, reached>>
    /\ work' = [work EXCEPT ![r] = w]
    /\ w \in Work /\ Followed(w)
    /\ \/ queue' = queue
       \/ queue[r] # <<>> /\ queue' = [queue EXCEPT ![r] = Tail(@)]
       \/ queue' = [queue EXCEPT ![r] = <<>>]
    /\ \/ lightClient' = lightClient
       \/ /\ work[r].pc = "prove" /\ w = Idle
          /\ lightClient' = [root |-> work[r].root, block |-> work[r].block]
    /\ w.pc \in {"read", "prove"} =>
         \/ \E id \in ChannelId : w.root = StateRoot(id)
         \/ work[r].pc = "read" /\ w.root = work[r].root

LEMMA WorkFields ==
    ASSUME NEW w \in Work
    PROVE  /\ w.pc = "relay" => w.id \in ChannelId
           /\ w.pc \in {"read", "prove"} => w.root \in Root
           /\ w.pc = "prove" => w.block \in Nat
BY DEF Work, Waiting, Relaying, Holding, Proving

LEMMA LoopMoves ==
    ASSUME IInv, RelayTyped, RelayInv, NEW r \in Relayers, LoopStep(r) \/ Fault(r)
    PROVE  \E w : Move(r, w)
<1> DEFINE Moved == \E w : Move(r, w)
<1>1. work[r] \in Work /\ Followed(work[r]) /\ queue[r] \in Seq(ChannelId)
  BY DEF RelayTyped, RelayInv
<1>2. /\ Idle \in Work /\ Followed(Idle) /\ Idle.pc \notin {"read", "prove"}
      /\ [pc |-> "down"] \in Work /\ Followed([pc |-> "down"])
  BY DEF Idle, Work, Waiting, Followed
<1>3. CASE RelayOne(r)
  <2> DEFINE id == Head(queue[r])
             relay == [pc |-> "relay", id |-> id]
  <2>1. queue[r] # <<>>
    BY <1>3 DEF RelayOne
  <2>2. id \in ChannelId /\ id = queue[r][1] /\ Len(queue[r]) >= 1
    BY <1>1, <2>1
  <2>3. origin[id] # "none"
    BY <2>2, <1>1 DEF RelayInv
  <2>4. relay \in Work /\ Followed(relay) /\ relay.pc \notin {"read", "prove"}
    BY <2>2, <2>3 DEF Work, Relaying, Followed
  <2>5. work' = [work EXCEPT ![r] = Idle] \/ work' = [work EXCEPT ![r] = relay]
    BY <1>3 DEF RelayOne
  <2>6. Move(r, Idle) \/ Move(r, relay)
    BY <1>2, <1>3, <2>1, <2>4, <2>5 DEF RelayOne, Move
  <2> QED BY <2>6
<1>4. CASE ReadChannel(r)
  <2> DEFINE id == work[r].id
             read == [pc |-> "read", root |-> StateRoot(id)]
  <2>1. id \in ChannelId /\ origin[id] # "none"
    BY <1>1, <1>4, WorkFields DEF ReadChannel, Followed
  <2>2. StateRoot(id) \in Root /\ Genuine(StateRoot(id))
    BY <2>1, RootType, ReadGenuine DEF RelayInv
  <2>3. read \in Work /\ Followed(read) /\ read.root = StateRoot(id)
    BY <2>2 DEF Work, Holding, Followed
  <2>4. Move(r, read)
    BY <1>4, <2>1, <2>3 DEF ReadChannel, Move
  <2> QED BY <2>4
<1>5. CASE ReadBlockNumber(r)
  <2> DEFINE prove == [pc |-> "prove", block |-> blockNumber, root |-> work[r].root]
  <2>1. work[r].pc = "read" /\ work[r].root \in Root /\ Genuine(work[r].root)
    BY <1>1, <1>5, WorkFields DEF ReadBlockNumber, Followed
  <2>2. prove \in Work /\ Followed(prove) /\ prove.root = work[r].root
    BY <2>1 DEF Work, Proving, Followed, RelayTyped
  <2>3. Move(r, prove)
    BY <1>5, <2>1, <2>2 DEF ReadBlockNumber, Move
  <2> QED BY <2>3
<1>6. CASE Accepted(r)
  BY <1>2, <1>6 DEF Accepted, Move
<1>7. CASE Rejected(r) \/ RelayFails(r) \/ Restart(r)
  BY <1>2, <1>7 DEF Rejected, RelayFails, Restart, Move
<1>8. CASE Crash(r)
  <2>1. Move(r, [pc |-> "down"])
    BY <1>2, <1>8 DEF Crash, Move
  <2> QED BY <2>1
<1> QED BY <1>3, <1>4, <1>5, <1>6, <1>7, <1>8 DEF LoopStep, Fault, UpdateState, ReceiptLost

\* The source chain does what PaymentChannel does, and nothing the loops do
\* reaches it.
LEMMA SourceOnly ==
    ASSUME IInv, RelayTyped, RelayInv, [RelayNext]_relayerVars
    PROVE  /\ [Next]_vars
           /\ \/ SourceStep
              \/ \E r \in Relayers : \E w : Move(r, w)
              \/ UNCHANGED relayerVars
<1>1. CASE SourceStep
  BY <1>1 DEF SourceStep
<1>2. ASSUME NEW r \in Relayers, LoopStep(r) \/ Fault(r)
      PROVE  UNCHANGED vars /\ \E w : Move(r, w)
  <2>1. PICK w : Move(r, w)
    BY <1>2, LoopMoves
  <2> QED BY <2>1 DEF Move
<1>3. CASE UNCHANGED relayerVars
  BY <1>3 DEF relayerVars
<1> QED BY <1>1, <1>2, <1>3 DEF RelayNext

----------------------------------------------------------------------------
(* The invariant of the relay *)

LEMMA RelayTypedStep ==
    ASSUME IInv, RelayTyped, RelayInv, [RelayNext]_relayerVars
    PROVE  RelayTyped'
<1>1. CASE SourceStep
  <2> DEFINE events == {id \in ChannelId : Emits(id)}
  <2>1. events \subseteq ChannelId /\ IsFiniteSet(events)
    BY FiniteIds, FS_Subset
  <2>2. SetToSeq(events) \in Seq(ChannelId)
    <3> HIDE DEF events
    <3>1. SetToSeq(events) \in Seq(events)
      BY <2>1, SetToSeqType
    <3> QED BY <2>1, <3>1
  <2>3. queue' = [r \in Relayers |->
          IF work[r].pc = "down" THEN queue[r] ELSE queue[r] \o SetToSeq(events)]
    BY <1>1 DEF SourceStep
  <2>4. queue' \in [Relayers -> Seq(ChannelId)]
    <3> HIDE DEF events
    <3> QED BY <2>2, <2>3 DEF RelayTyped
  <2>5. blockNumber' \in Nat /\ work' = work /\ lightClient' = lightClient
    BY <1>1 DEF SourceStep, RelayTyped
  <2> QED BY <2>4, <2>5 DEF RelayTyped
<1>2. ASSUME NEW r \in Relayers, NEW w, Move(r, w)
      PROVE  RelayTyped'
  <2>1. work' \in [Relayers -> Work] /\ blockNumber' \in Nat
    BY <1>2 DEF Move, RelayTyped
  <2>2. queue' \in [Relayers -> Seq(ChannelId)]
    <3>1. queue[r] \in Seq(ChannelId)
      BY DEF RelayTyped
    <3>2. queue[r] # <<>> => Tail(queue[r]) \in Seq(ChannelId)
      BY <3>1
    <3>3. <<>> \in Seq(ChannelId)
      OBVIOUS
    <3> QED BY <1>2, <3>2, <3>3 DEF Move, RelayTyped
  <2>3. lightClient' \in [root : Root \cup {None}, block : Nat]
    <3>1. CASE lightClient' = lightClient
      BY <3>1 DEF RelayTyped
    <3>2. CASE /\ work[r].pc = "prove"
               /\ lightClient' = [root |-> work[r].root, block |-> work[r].block]
      <4>1. work[r].root \in Root /\ work[r].block \in Nat
        BY <3>2, WorkFields DEF RelayTyped
      <4> QED BY <3>2, <4>1
    <3> QED BY <1>2, <3>1, <3>2 DEF Move
  <2> QED BY <2>1, <2>2, <2>3 DEF RelayTyped
<1>3. CASE UNCHANGED relayerVars
  BY <1>3 DEF relayerVars, relayVars, RelayTyped
<1> QED BY <1>1, <1>2, <1>3, SourceOnly

\* A step of the source chain keeps a genuine root genuine: evidence stays, the
\* deposits are settled once there is evidence, and nonces only rise.
LEMMA GenuineKept ==
    ASSUME IInv, [Next]_vars, NEW root \in Root, Genuine(root), reached \subseteq reached'
    PROVE  Genuine(root)'
<1> DEFINE id == root.id
<1>1. id \in ChannelId /\ root.nonce \in Nat
  BY DEF Root
<1>2. IInv' /\ origin'[id] # "none"
  BY <1>1, StepIInv, OriginStep DEF Genuine, IInv
<1>3. channels[id].status \in {"CHALLENGE_PERIOD", "CLOSED"}
  BY <1>1, EvidenceOfDispute DEF Genuine
<1>4. OneOf(id) /\ ~Funded(id)
  BY <1>1, <1>3, ChannelStep DEF Funded
<1>5. DepositsKept(id)
  BY <1>4 DEF OneOf, Untouched, Reposted, Settled, DepositsKept
<1>6. channels[id].nonce \in Nat /\ channels'[id].nonce \in Nat
  BY <1>1, <1>2 DEF IInv, TypeOK, Channel
<1>7. channels'[id].nonce >= channels[id].nonce
  BY <1>4, <1>6 DEF OneOf, Untouched, Reposted, Settled
<1>8. eddsaSigned'[id] = {} => eddsaSigned[id] = {}
  BY <1>1, EdDSAGrows
<1>9. root.nonce <= channels'[id].nonce
  BY <1>1, <1>6, <1>7 DEF Genuine
<1> QED BY <1>2, <1>5, <1>8, <1>9 DEF Genuine, DepositsKept, CheckConservation

\* Steps of the loops leave what is genuine as it is.
LEMMA GenuineFrame ==
    ASSUME UNCHANGED <<vars, reached>>, NEW root
    PROVE  Genuine(root)' <=> Genuine(root)
BY DEF Genuine, CheckConservation, vars, contractVars, offChainVars, historyVars

LEMMA FollowedFrame ==
    ASSUME UNCHANGED <<vars, reached>>, NEW w
    PROVE  Followed(w)' <=> Followed(w)
BY GenuineFrame DEF Followed, vars, historyVars

LEMMA NoticedFrame ==
    ASSUME UNCHANGED <<vars, reached>>, NEW id
    PROVE  Noticed(id)' <=> Noticed(id)
BY DEF Noticed, Evident, Current, Posted, vars, contractVars, historyVars

LEMMA SourceKeepsRelay ==
    ASSUME IInv, RelayTyped, RelayInv, SourceStep
    PROVE  RelayInv'
<1>1. [Next]_vars /\ IInv'
  BY StepIInv DEF SourceStep
<1>2. reached \subseteq reached' /\ work' = work /\ lightClient' = lightClient
  BY DEF SourceStep
<1>3. ASSUME NEW id \in ChannelId
      PROVE  Noticed(id)'
  <2>1. Evident(id)'
    BY <1>1, EvidentStep DEF RelayInv, Noticed
  <2>2. Current(id)' \in reached'
    BY DEF SourceStep
  <2> QED BY <2>1, <2>2 DEF Noticed
<1>4. ASSUME NEW id \in ChannelId, origin[id] # "none"
      PROVE  origin'[id] # "none"
  BY <1>1, <1>4, OriginStep DEF IInv
<1>5. ASSUME NEW r \in Relayers
      PROVE  Followed(work[r])'
  <2>1. work[r] \in Work /\ Followed(work[r])
    BY DEF RelayTyped, RelayInv
  <2>2. work[r].pc = "relay" => origin'[work[r].id] # "none"
    BY <1>4, <2>1, WorkFields DEF Followed
  <2>3. work[r].pc \in {"read", "prove"} => Genuine(work[r].root)'
    <3>1. ASSUME NEW root \in Root, Genuine(root)
          PROVE  Genuine(root)'
      BY <1>1, <1>2, <3>1, GenuineKept
    <3>2. work[r].pc \in {"read", "prove"} => work[r].root \in Root /\ Genuine(work[r].root)
      BY <2>1, WorkFields DEF Followed
    <3>3. work'[r].root = work[r].root
      BY <1>2
    <3> QED BY <1>1, <1>2, <3>2, <3>3, GenuineKept DEF Genuine
  <2> QED BY <1>2, <2>2, <2>3 DEF Followed
<1>6. ASSUME NEW r \in Relayers
      PROVE  \A i \in 1 .. Len(queue'[r]) : origin'[queue'[r][i]] # "none"
  <2> DEFINE S == {id \in ChannelId : Emits(id)}
             events == SetToSeq(S)
  <2>1. /\ queue[r] \in Seq(ChannelId)
        /\ \A i \in 1 .. Len(queue[r]) : origin[queue[r][i]] # "none"
    BY DEF RelayTyped, RelayInv
  <2>2. \A i \in 1 .. Len(queue[r]) : origin'[queue[r][i]] # "none"
    <3> SUFFICES ASSUME NEW i \in 1 .. Len(queue[r]) PROVE origin'[queue[r][i]] # "none"
      OBVIOUS
    <3>1. queue[r][i] \in ChannelId
      BY <2>1
    <3> QED BY <1>4, <2>1, <3>1
  <2>3. S \subseteq ChannelId /\ IsFiniteSet(S)
    BY FiniteIds, FS_Subset
  <2>4. \A id \in S : origin'[id] # "none"
    BY <1>1, EventsAreEvident DEF RelayInv, Noticed
  <2>5. queue'[r] = queue[r] \/ queue'[r] = queue[r] \o events
    BY DEF SourceStep, RelayTyped
  <2> HIDE DEF S
  <2>6. events \in Seq(S) /\ \A i \in 1 .. Len(events) : events[i] \in S
    BY <2>3, SetToSeqType
  <2> HIDE DEF events
  <2>7. CASE queue'[r] = queue[r] \o events
    <3> SUFFICES ASSUME NEW i \in 1 .. Len(queue'[r]) PROVE origin'[queue'[r][i]] # "none"
      OBVIOUS
    <3>1. CASE i <= Len(queue[r])
      BY <2>1, <2>2, <2>6, <2>7, <3>1
    <3>2. CASE i > Len(queue[r])
      <4>1. queue'[r][i] = events[i - Len(queue[r])] /\ i - Len(queue[r]) \in 1 .. Len(events)
        BY <2>1, <2>6, <2>7, <3>2
      <4> QED BY <2>4, <2>6, <4>1
    <3> QED BY <2>1, <3>1, <3>2
  <2> QED BY <2>2, <2>5, <2>7
<1>7. ASSUME lightClient.root # None
      PROVE  Genuine(lightClient.root)'
  <2>1. lightClient.root \in Root /\ Genuine(lightClient.root)
    BY <1>7 DEF RelayTyped, RelayInv
  <2> QED BY <1>1, <1>2, <2>1, GenuineKept DEF Genuine
<1> QED BY <1>2, <1>3, <1>5, <1>6, <1>7 DEF RelayInv

LEMMA MoveKeepsRelay ==
    ASSUME IInv, RelayTyped, RelayInv, NEW r \in Relayers, NEW w, Move(r, w)
    PROVE  RelayInv'
<1>1. UNCHANGED <<vars, reached>> /\ origin' = origin
  BY DEF Move, vars, historyVars
<1>2. \A id \in ChannelId : Noticed(id)'
  BY <1>1, NoticedFrame DEF RelayInv
<1>3. ASSUME NEW s \in Relayers
      PROVE  Followed(work[s])'
  <2>1. Followed(work'[s])
    BY DEF Move, RelayInv, RelayTyped
  <2> QED BY <1>1, <2>1, FollowedFrame DEF Followed, Genuine
<1>4. ASSUME NEW s \in Relayers
      PROVE  \A i \in 1 .. Len(queue'[s]) : origin'[queue'[s][i]] # "none"
  <2>1. queue[s] \in Seq(ChannelId) /\ \A i \in 1 .. Len(queue[s]) : origin[queue[s][i]] # "none"
    BY DEF RelayTyped, RelayInv
  <2>2. \/ queue'[s] = queue[s]
        \/ queue[s] # <<>> /\ queue'[s] = Tail(queue[s])
        \/ queue'[s] = <<>>
    BY DEF Move, RelayTyped
  <2>3. CASE queue[s] # <<>> /\ queue'[s] = Tail(queue[s])
    <3>1. Len(queue'[s]) = Len(queue[s]) - 1 /\ Len(queue[s]) \in Nat
      BY <2>1, <2>3
    <3>2. \A i \in 1 .. Len(queue'[s]) :
            i + 1 \in 1 .. Len(queue[s]) /\ queue'[s][i] = queue[s][i + 1]
      BY <2>1, <2>3, <3>1
    <3> QED BY <1>1, <2>1, <3>2
  <2>4. CASE queue'[s] = <<>>
    <3>1. 1 .. Len(queue'[s]) = {}
      BY <2>4
    <3> QED BY <3>1
  <2>5. CASE queue'[s] = queue[s]
    BY <1>1, <2>1, <2>5
  <2> QED BY <2>2, <2>3, <2>4, <2>5
<1>5. ASSUME lightClient'.root # None
      PROVE  Genuine(lightClient.root)'
  <2>1. Genuine(lightClient'.root)
    BY <1>5 DEF Move, RelayInv, Followed
  <2> QED BY <1>1, <2>1, GenuineFrame DEF Genuine
<1> QED BY <1>2, <1>3, <1>4, <1>5 DEF RelayInv

LEMMA RelayInvStep ==
    ASSUME IInv, RelayTyped, RelayInv, [RelayNext]_relayerVars
    PROVE  RelayInv'
<1>1. CASE UNCHANGED relayerVars
  <2>1. /\ UNCHANGED <<vars, reached>> /\ origin' = origin
        /\ UNCHANGED <<queue, work, lightClient>>
    BY <1>1 DEF relayerVars, relayVars, vars, historyVars
  <2>2. \A id \in ChannelId : Noticed(id)'
    BY <2>1, NoticedFrame DEF RelayInv
  <2>3. \A r \in Relayers : Followed(work[r])'
    BY <2>1, FollowedFrame DEF RelayInv, Followed, Genuine
  <2>4. lightClient'.root # None => Genuine(lightClient.root)'
    BY <2>1, GenuineFrame DEF RelayInv, Genuine
  <2> QED BY <2>1, <2>2, <2>3, <2>4 DEF RelayInv
<1> QED BY <1>1, SourceOnly, SourceKeepsRelay, MoveKeepsRelay

LEMMA InitRelay == RelayInit => IInv /\ RelayTyped /\ RelayInv
<1> SUFFICES ASSUME RelayInit PROVE IInv /\ RelayTyped /\ RelayInv
  OBVIOUS
<1>1. IInv
  BY InitIInv DEF RelayInit
<1>2. \A id \in ChannelId : Noticed(id)
  BY DEF RelayInit, Init, Noticed, Evident, UnopenedChannel
<1>3. RelayTyped
  BY DEF RelayInit, RelayTyped, Idle, Work, Waiting
<1>4. RelayInv
  BY <1>2 DEF RelayInit, RelayInv, Idle, Followed
<1> QED BY <1>1, <1>3, <1>4

\* However often the loops fail, crash and restart, whatever they hold, queue or
\* have attested stands on evidence on the source chain.
THEOREM RelayInvariance == RelaySpec => [](IInv /\ RelayTyped /\ RelayInv)
<1>1. IInv /\ RelayTyped /\ RelayInv /\ [RelayNext]_relayerVars
        => IInv' /\ RelayTyped' /\ RelayInv'
  BY StepIInv, SourceOnly, RelayTypedStep, RelayInvStep
<1> QED BY <1>1, InitRelay, PTL DEF RelaySpec

\* A channel without EdDSA signatures: what the destination can settle of it was a
\* state that the channel was in.
THEOREM UsableAttestations == RelaySpec => []UsableAttestation
<1>1. RelayInv => UsableAttestation
  BY DEF RelayInv, Genuine, UsableAttestation
<1> QED BY <1>1, RelayInvariance, PTL

----------------------------------------------------------------------------
(* One loop alone relays in order. *)

OneLoop == \A r, s \in Relayers : r = s

\* What the loop has read is at least as new as what it had attested before.
Ordered ==
    \A r \in Relayers :
        /\ lightClient.root # None /\ work[r].pc \in {"read", "prove"}
        /\ work[r].root.id = lightClient.root.id
        => work[r].root.nonce >= lightClient.root.nonce

\* One step of one loop: what it attests is not older, and what it reads is newer
\* than what it attested.
LEMMA MoveOrdered ==
    ASSUME OneLoop, IInv, RelayTyped, RelayInv, Ordered, NEW r \in Relayers, NEW w, Move(r, w)
    PROVE  /\ Ordered'
           /\ lightClient.root # None /\ lightClient'.root.id = lightClient.root.id
                => lightClient'.root.nonce >= lightClient.root.nonce
<1> DEFINE old == lightClient.root
           new == lightClient'.root
<1>1. /\ work[r] \in Work /\ (old # None => old \in Root /\ Genuine(old))
      /\ work'[r] = w /\ w \in Work
  BY DEF RelayTyped, RelayInv, Move
<1>2. old # None => old.nonce \in Nat /\ old.id \in ChannelId
  BY <1>1 DEF Root
<1>3. CASE lightClient' = lightClient
  <2>1. ASSUME old # None, w.pc \in {"read", "prove"}, w.root.id = old.id
        PROVE  w.root.nonce >= old.nonce
    <3>1. CASE work[r].pc = "read" /\ w.root = work[r].root
      BY <2>1, <3>1 DEF Ordered
    <3>2. CASE \E id \in ChannelId : w.root = StateRoot(id)
      <4>1. w.root.nonce = channels[old.id].nonce
        BY <2>1, <3>2 DEF StateRoot
      <4>2. channels[old.id].nonce \in Nat /\ old.nonce <= channels[old.id].nonce
        BY <1>1, <1>2, <2>1 DEF Genuine, IInv, TypeOK, Channel
      <4> QED BY <1>2, <2>1, <4>1, <4>2
    <3> QED BY <2>1, <3>1, <3>2 DEF Move
  <2>2. Ordered'
    BY <1>1, <1>3, <2>1 DEF Ordered, OneLoop
  <2> QED BY <1>2, <1>3, <2>2
<1>4. CASE /\ work[r].pc = "prove" /\ w = Idle
           /\ lightClient' = [root |-> work[r].root, block |-> work[r].block]
  <2>1. Ordered'
    BY <1>1, <1>4 DEF Ordered, OneLoop, Idle
  <2> QED BY <1>4, <2>1 DEF Ordered
<1> QED BY <1>3, <1>4 DEF Move

\* With one watch-loop, an attestation is never rewound to an older one of the
\* same channel, although the destination looks at block numbers only (with two it
\* can be).
THEOREM OneLoopNeverRewinds ==
    ASSUME OneLoop
    PROVE  RelaySpec => NeverRewound
<1> DEFINE Forward == lightClient.root # None /\ lightClient'.root.id = lightClient.root.id
                        => lightClient'.root.nonce >= lightClient.root.nonce
<1>1. RelayInit => Ordered
  BY DEF RelayInit, Ordered
<1>2. IInv /\ RelayTyped /\ RelayInv /\ Ordered /\ [RelayNext]_relayerVars
        => Ordered' /\ Forward
  <2> SUFFICES ASSUME IInv, RelayTyped, RelayInv, Ordered, [RelayNext]_relayerVars
               PROVE  Ordered' /\ Forward
    OBVIOUS
  <2>1. ASSUME UNCHANGED <<work, lightClient>>
        PROVE  Ordered' /\ Forward
    <3>1. lightClient.root # None => lightClient.root.nonce \in Nat
      BY DEF RelayTyped, Root
    <3>2. Ordered'
      BY <2>1 DEF Ordered
    <3> QED BY <2>1, <3>1, <3>2
  <2>2. ASSUME NEW r \in Relayers, NEW w, Move(r, w)
        PROVE  Ordered' /\ Forward
    BY <2>2, MoveOrdered
  <2> QED BY <2>1, <2>2, SourceOnly DEF SourceStep, relayerVars, relayVars
<1> QED BY <1>1, <1>2, RelayInvariance, PTL DEF RelaySpec, NeverRewound
=============================================================================
