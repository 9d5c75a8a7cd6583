------------------------------ MODULE Committee ------------------------------
(* The light clients that trust a quorum of BLS signatures.  The "general"      *)
(* contract (LightClientVerifierBLSGeneral.sol and its RFC9380 copy, which      *)
(* hashes messages differently) registers its committee in batches; the "demo"  *)
(* one (LightClientVerifierBLS.sol, and consensus_proof.circom behind           *)
(* LightClientVerifier.sol) has five keys and a threshold of three.             *)
EXTENDS Integers, Sequences, FiniteSets

CONSTANTS
    Validator,          \* key pairs
    Faulty,             \* validators that sign anything
    ChainId, StateRoot,
    BlockNumber,        \* positive: 0 is the unset word
    NoRoot,             \* trustedStateRoot's zero word
    Signable,           \* bound: messages that validators are asked to sign
    Batches,            \* arguments of addValidators
    MaxSeats,           \* bound on the length of pubkeys
    DemoKeys, DemoThreshold,
    ByteSize            \* bits of a byte

Message == [chain : ChainId, block : BlockNumber, root : StateRoot]

ASSUME CommitteeAssumption ==
    /\ Faulty \subseteq Validator
    /\ BlockNumber \subseteq Nat \ {0}
    /\ NoRoot \notin StateRoot
    /\ Signable \subseteq Message
    /\ Batches \subseteq Seq(Validator)
    /\ MaxSeats \in Nat /\ ByteSize \in Nat \ {0}
    /\ DemoKeys \in Seq(Validator)
    /\ DemoThreshold \in Nat /\ 2 * DemoThreshold > Len(DemoKeys)

VARIABLES
    contract,           \* which of the two is deployed
    pubkeys,            \* one per seat: a key may be registered twice
    finalized, numValidators, threshold,
    trustedStateRoot, trustedBlockNumber,
    signed              \* what each validator has signed

committeeVars == <<contract, pubkeys, finalized, numValidators, threshold>>
rootVars == <<trustedStateRoot, trustedBlockNumber>>
vars == <<committeeVars, rootVars, signed>>

General ==
    /\ contract = "general"
    /\ pubkeys = <<>> /\ finalized = FALSE
    /\ numValidators = 0 /\ threshold = 0

Demo ==
    /\ contract = "demo"
    /\ pubkeys = DemoKeys /\ finalized = TRUE
    /\ numValidators = Len(DemoKeys) /\ threshold = DemoThreshold

Init ==
    /\ General \/ Demo
    /\ trustedStateRoot = [c \in ChainId |-> NoRoot]
    /\ trustedBlockNumber = [c \in ChainId |-> 0]
    /\ signed = [v \in Validator |-> {}]

----------------------------------------------------------------------------
(* Registration, by the deployer *)

\* Mutant: batches are taken at any time.
AddValidators_Reopened(batch) ==
    /\ Len(pubkeys) + Len(batch) <= MaxSeats
    /\ pubkeys' = pubkeys \o batch
    /\ UNCHANGED <<contract, finalized, numValidators, threshold, rootVars, signed>>

AddValidators(batch) ==
    /\ ~finalized
    /\ Len(pubkeys) + Len(batch) <= MaxSeats
    /\ pubkeys' = pubkeys \o batch
    /\ UNCHANGED <<contract, finalized, numValidators, threshold, rootVars, signed>>

\* Mutant: two thirds are rounded down.
TwoThirds_Down(n) == (n * 2) \div 3

TwoThirds(n) == (n * 2 + 2) \div 3

Finalize ==
    /\ ~finalized
    /\ pubkeys # <<>>
    /\ numValidators' = Len(pubkeys)
    /\ threshold' = TwoThirds(Len(pubkeys))
    /\ finalized' = TRUE
    /\ UNCHANGED <<contract, pubkeys, rootVars, signed>>

----------------------------------------------------------------------------
(* Attestation *)

Seats == 0 .. numValidators - 1

Signers(m) == {i \in Seats : m \in signed[pubkeys[i + 1]]}

FaultySeats == {i \in Seats : pubkeys[i + 1] \in Faulty}

\* A member of the committee signs; one that is not faulty signs one root per block.
Sign(v, m) ==
    /\ finalized
    /\ \E i \in Seats : pubkeys[i + 1] = v
    /\ m \notin signed[v]
    /\ v \notin Faulty =>
         \A other \in signed[v] : other.chain # m.chain \/ other.block # m.block
    /\ signed' = [signed EXCEPT ![v] = @ \cup {m}]
    /\ UNCHANGED <<committeeVars, rootVars>>

Bytes(n) == (n + ByteSize - 1) \div ByteSize

\* What a caller can pass as participantBitmap.
Bitmaps ==
    UNION {[length : {k}, bits : SUBSET (0 .. ByteSize * k - 1)] : k \in 0 .. Bytes(MaxSeats)}

\* Mutants: bits that stand for no seat count; the threshold itself is too few.
HasQuorum_Phantom(bits) == Cardinality(bits) >= threshold

HasQuorum_Strict(bits) == bits \subseteq Seats /\ Cardinality(bits) > threshold

\* _checkPaddingBitsZero and _popcount.
HasQuorum(bits) ==
    /\ bits \subseteq Seats
    /\ Cardinality(bits \cap Seats) >= threshold

\* An aggregate that passes the pairing check needs the signature of every key in
\* the sum of _aggregatePubkeys.
CanAggregate(bits, m) ==
    \A i \in bits \cap Seats : m \in signed[pubkeys[i + 1]]

Acceptable(bitmap, m) ==
    /\ contract = "general" => bitmap.length = Bytes(numValidators)
    /\ HasQuorum(bitmap.bits)
    /\ CanAggregate(bitmap.bits, m)

\* Callers are arbitrary, and so is the bitmap.
UpdateState(m) ==
    /\ finalized
    /\ m.block > trustedBlockNumber[m.chain]
    /\ \E bitmap \in Bitmaps : Acceptable(bitmap, m)
    /\ trustedStateRoot' = [trustedStateRoot EXCEPT ![m.chain] = m.root]
    /\ trustedBlockNumber' = [trustedBlockNumber EXCEPT ![m.chain] = m.block]
    /\ UNCHANGED <<committeeVars, signed>>

Next ==
    \/ \E batch \in Batches : AddValidators(batch)
    \/ Finalize
    \/ \E v \in Validator, m \in Signable : Sign(v, m)
    \/ \E m \in Signable : UpdateState(m)

Spec == Init /\ [][Next]_vars

\* Whoever has a quorum's signatures gets them in: anybody may call updateState.
FairSpec == Spec /\ \A m \in Signable : WF_vars(UpdateState(m))
----------------------------------------------------------------------------
(* Properties *)

\* Types, and a committee that stays what its threshold was computed for.
TypeOK ==
    /\ contract \in {"general", "demo"}
    /\ pubkeys \in Seq(Validator)
    /\ finalized \in BOOLEAN
    /\ numValidators \in Nat /\ threshold \in Nat
    /\ finalized => numValidators = Len(pubkeys)
    /\ trustedStateRoot \in [ChainId -> StateRoot \cup {NoRoot}]
    /\ trustedBlockNumber \in [ChainId -> BlockNumber \cup {0}]
    /\ signed \in [Validator -> SUBSET Signable]

\* LightClientVerifierBLSGeneral.sol:11-13: a trusted root was signed, for its
\* block and chain, by two thirds of the committee's seats (by the demo's
\* threshold of them), whatever bitmap it came with.
QuorumSigned ==
    \A c \in ChainId :
        LET m == [chain |-> c, block |-> trustedBlockNumber[c], root |-> trustedStateRoot[c]]
        IN  m.block # 0 =>
              IF contract = "general"
              THEN 3 * Cardinality(Signers(m)) >= 2 * numValidators
              ELSE Cardinality(Signers(m)) >= DemoThreshold

\* As many seats as the quorum rule is meant to tolerate are faulty.
Tolerated ==
    IF contract = "general" THEN 3 * Cardinality(FaultySeats) < numValidators
    ELSE FaultySeats = {}

\* No two roots of one block are acceptable, to this contract or to another one
\* with the same committee, however signatures are combined into bitmaps.
NoFork ==
    finalized /\ Tolerated =>
        \A m1, m2 \in Signable :
            /\ m1.chain = m2.chain /\ m1.block = m2.block
            /\ \E bitmap \in Bitmaps : Acceptable(bitmap, m1)
            /\ \E bitmap \in Bitmaps : Acceptable(bitmap, m2)
            => m1.root = m2.root

TwoThirdsSigned(m) == finalized /\ 3 * Cardinality(Signers(m)) >= 2 * numValidators

\* LightClientVerifierBLSGeneral.sol:11-13, the other way: a message that two
\* thirds of the seats have signed gets accepted, unless a newer one was.
TwoThirdsSuffice ==
    \A m \in Signable : TwoThirdsSigned(m) ~> trustedBlockNumber[m.chain] >= m.block
=============================================================================
