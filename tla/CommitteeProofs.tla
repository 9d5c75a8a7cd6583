--------------------------- MODULE CommitteeProofs ---------------------------
(* Proofs about Committee for every set of keys, sequence of batches, number of *)
(* seats and set of signable messages: the types, that a trusted root carries   *)
(* its quorum's signatures, and that no two roots of one block can both be      *)
(* accepted while less than a third of the seats are faulty.                    *)
EXTENDS Committee, FiniteSetTheorems, TLAPS

\* What the quorum argument needs of a deployed committee.
Registered ==
    /\ ~finalized => contract = "general" /\ \A c \in ChainId : trustedBlockNumber[c] = 0
    /\ finalized =>
         IF contract = "general" THEN threshold = TwoThirds(numValidators)
         ELSE numValidators = Len(DemoKeys) /\ threshold = DemoThreshold

\* A validator that is not faulty has signed one root per chain and block.
OneRoot ==
    \A v \in Validator \ Faulty : \A m1, m2 \in signed[v] :
        m1.chain = m2.chain /\ m1.block = m2.block => m1.root = m2.root

Inv == TypeOK /\ Registered /\ OneRoot

----------------------------------------------------------------------------
(* The inductive invariant *)

\* A deployed contract has no trusted root and nobody has signed.
LEMMA InitInv == Init => Inv
  <1> SUFFICES ASSUME Init PROVE Inv
    OBVIOUS
  <1>1. /\ contract \in {"general", "demo"}
        /\ pubkeys \in Seq(Validator)
        /\ finalized \in BOOLEAN
        /\ numValidators \in Nat /\ threshold \in Nat
        /\ numValidators = Len(pubkeys)
    <2>1. CASE General
      <3>1. <<>> \in Seq(Validator) /\ Len(<<>>) = 0
        OBVIOUS
      <3> QED  BY <2>1, <3>1 DEF General
    <2>2. CASE Demo
      BY <2>2, CommitteeAssumption DEF Demo
    <2> QED  BY <2>1, <2>2 DEF Init
  <1>2. /\ trustedStateRoot \in [ChainId -> StateRoot \cup {NoRoot}]
        /\ trustedBlockNumber \in [ChainId -> BlockNumber \cup {0}]
        /\ signed \in [Validator -> SUBSET Signable]
    BY DEF Init
  <1>3. \A c \in ChainId : trustedBlockNumber[c] = 0
    BY DEF Init
  <1>4. Registered
    BY <1>3 DEF Registered, Init, General, Demo
  <1>5. OneRoot
    BY DEF OneRoot, Init
  <1> QED  BY <1>1, <1>2, <1>4, <1>5 DEF Inv, TypeOK

\* LightClientVerifierBLSGeneral.sol:100-107: a batch is appended, before finalize only.
LEMMA AddValidatorsInv == ASSUME Inv, NEW batch \in Batches, AddValidators(batch)
                          PROVE  Inv'
  <1>1. pubkeys' \in Seq(Validator)
    BY CommitteeAssumption DEF Inv, TypeOK, AddValidators
  <1>2. TypeOK'
    BY <1>1 DEF Inv, TypeOK, AddValidators, rootVars
  <1> QED  BY <1>2 DEF Inv, Registered, OneRoot, AddValidators, rootVars

\* LightClientVerifierBLSGeneral.sol:114-121: the threshold is computed from the
\* final number of seats.
LEMMA FinalizeInv == ASSUME Inv, Finalize PROVE Inv'
  <1>1. Len(pubkeys) \in Nat /\ TwoThirds(Len(pubkeys)) \in Nat
    BY DEF Inv, TypeOK, TwoThirds
  <1>2. TypeOK'
    BY <1>1 DEF Inv, TypeOK, Finalize, rootVars
  <1>3. contract' = "general" => threshold' = TwoThirds(numValidators')
    BY DEF Finalize
  <1>4. contract = "general"
    BY DEF Inv, TypeOK, Registered, Finalize
  <1> QED  BY <1>2, <1>3, <1>4 DEF Inv, Registered, OneRoot, Finalize, rootVars

\* A signature is added; a validator that is not faulty has no other for that block.
LEMMA SignInv == ASSUME Inv, NEW v \in Validator, NEW m \in Signable, Sign(v, m)
                 PROVE  Inv'
  <1>1. signed' \in [Validator -> SUBSET Signable]
    BY DEF Inv, TypeOK, Sign
  <1>2. TypeOK'
    BY <1>1 DEF Inv, TypeOK, Sign, committeeVars, rootVars
  <1>3. OneRoot'
    <2> SUFFICES ASSUME NEW w \in Validator \ Faulty, NEW m1 \in signed'[w], NEW m2 \in signed'[w],
                        m1.chain = m2.chain, m1.block = m2.block
                 PROVE  m1.root = m2.root
      BY DEF OneRoot
    <2>1. CASE w = v
      <3>1. signed'[w] = signed[v] \cup {m}
        BY <2>1 DEF Inv, TypeOK, Sign
      <3>2. \A other \in signed[v] : other.chain # m.chain \/ other.block # m.block
        BY <2>1 DEF Sign
      <3> QED  BY <2>1, <3>1, <3>2 DEF Inv, OneRoot
    <2>2. CASE w # v
      <3>1. signed'[w] = signed[w]
        BY <2>2 DEF Inv, TypeOK, Sign
      <3> QED  BY <3>1 DEF Inv, OneRoot
    <2> QED  BY <2>1, <2>2
  <1> QED  BY <1>2, <1>3 DEF Inv, Registered, Sign, committeeVars, rootVars

\* LightClientVerifierBLSGeneral.sol:130-154: one root is replaced.
LEMMA UpdateStateInv == ASSUME Inv, NEW m \in Signable, UpdateState(m)
                        PROVE  Inv'
  <1>1. m.chain \in ChainId /\ m.block \in BlockNumber /\ m.root \in StateRoot
    BY CommitteeAssumption DEF Message
  <1>2. /\ trustedStateRoot' \in [ChainId -> StateRoot \cup {NoRoot}]
        /\ trustedBlockNumber' \in [ChainId -> BlockNumber \cup {0}]
    BY <1>1 DEF Inv, TypeOK, UpdateState
  <1>3. TypeOK'
    BY <1>2 DEF Inv, TypeOK, UpdateState, committeeVars
  <1> QED  BY <1>3 DEF Inv, Registered, OneRoot, UpdateState, committeeVars

\* Every step keeps the invariant.
LEMMA NextInv == Inv /\ [Next]_vars => Inv'
  <1> SUFFICES ASSUME Inv, [Next]_vars PROVE Inv'
    OBVIOUS
  <1>1. ASSUME NEW batch \in Batches, AddValidators(batch) PROVE Inv'
    BY <1>1, AddValidatorsInv
  <1>2. ASSUME Finalize PROVE Inv'
    BY <1>2, FinalizeInv
  <1>3. ASSUME NEW v \in Validator, NEW m \in Signable, Sign(v, m) PROVE Inv'
    BY <1>3, SignInv
  <1>4. ASSUME NEW m \in Signable, UpdateState(m) PROVE Inv'
    BY <1>4, UpdateStateInv
  <1>5. ASSUME UNCHANGED vars PROVE Inv'
    BY <1>5 DEF Inv, TypeOK, Registered, OneRoot, vars, committeeVars, rootVars
  <1> QED  BY <1>1, <1>2, <1>3, <1>4, <1>5 DEF Next

\* The invariant holds in every reachable state.
THEOREM Invariance == Spec => []Inv
  <1> QED  BY InitInv, NextInv, PTL DEF Spec

\* Types, and a committee whose size is the one its threshold was computed for.
THEOREM CommitteeTypes == Spec => []TypeOK
  <1>1. Inv => TypeOK
    BY DEF Inv
  <1> QED  BY <1>1, Invariance, PTL

----------------------------------------------------------------------------
(* Quorums *)

\* The seats are finite and as many as numValidators says.
LEMMA SeatCount == ASSUME TypeOK
                   PROVE  IsFiniteSet(Seats) /\ Cardinality(Seats) = numValidators
  <1>1. /\ IsFiniteSet(0 .. numValidators - 1)
        /\ Cardinality(0 .. numValidators - 1)
             = IF 0 > numValidators - 1 THEN 0 ELSE numValidators - 1 - 0 + 1
    BY FS_Interval DEF TypeOK
  <1> QED  BY <1>1 DEF Seats, TypeOK

\* Rounding up: the threshold is never less than two thirds.
LEMMA RoundedUp == ASSUME NEW n \in Nat
                   PROVE  TwoThirds(n) \in Nat /\ 3 * TwoThirds(n) >= 2 * n
  BY DEF TwoThirds

\* An acceptable bitmap flags seats only, at least threshold of them, and the key
\* of every flagged seat has signed the message.
LEMMA AcceptedSeats ==
  ASSUME TypeOK, NEW m, NEW bitmap, Acceptable(bitmap, m)
  PROVE  LET bits == bitmap.bits
         IN  /\ bits \subseteq Seats /\ bits \subseteq Signers(m)
             /\ IsFiniteSet(bits) /\ Cardinality(bits) \in Nat
             /\ Cardinality(bits) >= threshold
  <1> DEFINE bits == bitmap.bits
  <1>1. bits \subseteq Seats /\ bits \cap Seats = bits
    BY DEF Acceptable, HasQuorum
  <1>2. IsFiniteSet(bits)
    BY <1>1, SeatCount, FS_Subset
  <1>3. bits \subseteq Signers(m)
    BY <1>1 DEF Acceptable, CanAggregate, Signers
  <1>4. Cardinality(bits) >= threshold
    BY <1>1 DEF Acceptable, HasQuorum
  <1> QED  BY <1>1, <1>2, <1>3, <1>4, FS_CardinalityType

\* Two sets of seats that are quorums share a seat that is not faulty.
LEMMA QuorumsMeet ==
  ASSUME Inv, finalized, Tolerated,
         NEW Q1, NEW Q2, Q1 \subseteq Seats, Q2 \subseteq Seats,
         Cardinality(Q1) >= threshold, Cardinality(Q2) >= threshold
  PROVE  \E i \in Q1 \cap Q2 : i \notin FaultySeats
  <1> USE DEF Inv
  <1>1. IsFiniteSet(Q1) /\ IsFiniteSet(Q2)
    BY SeatCount, FS_Subset
  <1>2. /\ Cardinality(Q1 \cup Q2) = Cardinality(Q1) + Cardinality(Q2) - Cardinality(Q1 \cap Q2)
        /\ IsFiniteSet(Q1 \cup Q2)
    BY <1>1, FS_Union
  <1>3. Cardinality(Q1 \cup Q2) <= numValidators
    BY SeatCount, FS_Subset, Q1 \cup Q2 \in SUBSET Seats
  <1>4. IsFiniteSet(Q1 \cap Q2) /\ IsFiniteSet(FaultySeats)
    BY <1>1, SeatCount, FS_Intersection, FS_Subset, FaultySeats \in SUBSET Seats DEF FaultySeats
  <1>5. /\ Cardinality(Q1) \in Nat /\ Cardinality(Q2) \in Nat
        /\ Cardinality(Q1 \cup Q2) \in Nat /\ Cardinality(Q1 \cap Q2) \in Nat
        /\ Cardinality(FaultySeats) \in Nat
    BY <1>1, <1>2, <1>4, FS_CardinalityType
  <1>6. numValidators \in Nat /\ threshold \in Nat
    BY DEF TypeOK
  <1>7. Cardinality(Q1 \cap Q2) >= 2 * threshold - numValidators
    BY <1>2, <1>3, <1>5, <1>6
  <1>8. Cardinality(Q1 \cap Q2) > Cardinality(FaultySeats)
    <2>1. CASE contract = "general"
      <3>1. 3 * threshold >= 2 * numValidators
        BY <2>1, <1>6, RoundedUp DEF Registered
      <3>2. 3 * Cardinality(FaultySeats) < numValidators
        BY <2>1 DEF Tolerated
      <3> QED  BY <3>1, <3>2, <1>5, <1>6, <1>7
    <2>2. CASE contract # "general"
      <3>1. FaultySeats = {} /\ Cardinality(FaultySeats) = 0
        BY <2>2, FS_EmptySet DEF Tolerated
      <3>2. 2 * threshold > numValidators
        BY <2>2, CommitteeAssumption DEF Registered
      <3> QED  BY <3>1, <3>2, <1>5, <1>6, <1>7
    <2> QED  BY <2>1, <2>2
  <1>9. ~(Q1 \cap Q2 \subseteq FaultySeats)
    <2> SUFFICES ASSUME Q1 \cap Q2 \in SUBSET FaultySeats PROVE FALSE
      OBVIOUS
    <2>1. Cardinality(Q1 \cap Q2) <= Cardinality(FaultySeats)
      BY <1>4, FS_Subset
    <2> QED  BY <2>1, <1>5, <1>8
  <1> QED  BY <1>9

\* NoFork in every state the invariant describes.
LEMMA InvNoFork == Inv => NoFork
  <1> SUFFICES ASSUME Inv, finalized, Tolerated,
                      NEW m1 \in Signable, NEW m2 \in Signable,
                      m1.chain = m2.chain, m1.block = m2.block,
                      NEW bitmap1 \in Bitmaps, Acceptable(bitmap1, m1),
                      NEW bitmap2 \in Bitmaps, Acceptable(bitmap2, m2)
               PROVE  m1.root = m2.root
    BY DEF NoFork
  <1>1. PICK Q1 : Q1 \subseteq Seats /\ Q1 \subseteq Signers(m1) /\ Cardinality(Q1) >= threshold
    BY AcceptedSeats DEF Inv
  <1>2. PICK Q2 : Q2 \subseteq Seats /\ Q2 \subseteq Signers(m2) /\ Cardinality(Q2) >= threshold
    BY AcceptedSeats DEF Inv
  <1>3. PICK i \in Q1 \cap Q2 : i \notin FaultySeats
    BY <1>1, <1>2, QuorumsMeet
  <1>4. pubkeys[i + 1] \in Validator \ Faulty
    <2>1. i \in Seats /\ i + 1 \in 1 .. Len(pubkeys)
      BY <1>1, <1>3 DEF Seats, Inv, TypeOK
    <2> QED  BY <2>1, <1>3 DEF FaultySeats, Inv, TypeOK
  <1>5. m1 \in signed[pubkeys[i + 1]] /\ m2 \in signed[pubkeys[i + 1]]
    BY <1>1, <1>2, <1>3 DEF Signers
  <1> QED  BY <1>4, <1>5 DEF Inv, OneRoot

\* No two roots of one block of one chain can both be accepted, by this contract
\* or by another with the same committee, for every committee and every choice
\* of bitmaps, while the faulty seats stay below the bound the rule is made for.
THEOREM NoForkAlways == Spec => []NoFork
  <1> QED  BY Invariance, InvNoFork, PTL

----------------------------------------------------------------------------
(* Trusted roots are signed by a quorum *)

\* Enough seats of the committee have signed m.
Backed(m) ==
    IF contract = "general" THEN 3 * Cardinality(Signers(m)) >= 2 * numValidators
    ELSE Cardinality(Signers(m)) >= DemoThreshold

Trusted(c) == [chain |-> c, block |-> trustedBlockNumber[c], root |-> trustedStateRoot[c]]

LEMMA QuorumSignedIsBacked ==
  QuorumSigned <=> \A c \in ChainId : trustedBlockNumber[c] # 0 => Backed(Trusted(c))
  BY DEF QuorumSigned, Backed, Trusted

\* Sets of seats can be counted, and are no smaller than their subsets.
LEMMA SignersCount ==
  ASSUME TypeOK, NEW m, NEW Q, Q \subseteq Signers(m)
  PROVE  /\ Cardinality(Signers(m)) \in Nat /\ Cardinality(Q) \in Nat
         /\ Cardinality(Q) <= Cardinality(Signers(m))
  <1>1. Signers(m) \in SUBSET Seats
    BY DEF Signers
  <1>2. IsFiniteSet(Signers(m))
    BY <1>1, SeatCount, FS_Subset
  <1>3. IsFiniteSet(Q) /\ Cardinality(Q) <= Cardinality(Signers(m))
    BY <1>2, FS_Subset, Q \in SUBSET Signers(m)
  <1> QED  BY <1>2, <1>3, FS_CardinalityType

\* A message that is accepted is backed: its bitmap's seats are among its signers.
LEMMA AcceptedIsBacked ==
  ASSUME Inv, finalized, NEW m, NEW bitmap, Acceptable(bitmap, m)
  PROVE  Backed(m)
  <1>1. /\ bitmap.bits \subseteq Signers(m)
        /\ Cardinality(bitmap.bits) \in Nat /\ Cardinality(bitmap.bits) >= threshold
    BY AcceptedSeats DEF Inv
  <1>2. Cardinality(Signers(m)) \in Nat /\ Cardinality(Signers(m)) >= Cardinality(bitmap.bits)
    BY <1>1, SignersCount DEF Inv
  <1>3. numValidators \in Nat /\ threshold \in Nat
    BY DEF Inv, TypeOK
  <1>4. Cardinality(Signers(m)) >= threshold
    BY <1>1, <1>2, <1>3
  <1>5. CASE contract = "general"
    <2>1. 3 * threshold >= 2 * numValidators
      BY <1>3, <1>5, RoundedUp DEF Inv, Registered
    <2> QED  BY <1>2, <1>3, <1>4, <1>5, <2>1 DEF Backed
  <1>6. CASE contract # "general"
    BY <1>4, <1>6 DEF Backed, Inv, Registered
  <1> QED  BY <1>5, <1>6

\* Another signature takes no backing away.
LEMMA SignKeepsBacked ==
  ASSUME Inv, Inv', NEW v \in Validator, NEW s \in Signable, Sign(v, s), NEW m, Backed(m)
  PROVE  Backed(m)'
  <1>1. /\ contract' = contract /\ numValidators' = numValidators /\ pubkeys' = pubkeys
        /\ Seats' = Seats
    BY DEF Sign, committeeVars, Seats
  <1>2. \A w \in Validator : signed[w] \subseteq signed'[w]
    BY DEF Sign, Inv, TypeOK
  <1>3. \A i \in Seats : pubkeys[i + 1] \in Validator
    <2> SUFFICES ASSUME NEW i \in Seats PROVE pubkeys[i + 1] \in Validator
      OBVIOUS
    <2>1. i + 1 \in 1 .. Len(pubkeys)
      BY DEF Seats, Inv, TypeOK, Sign
    <2> QED  BY <2>1 DEF Inv, TypeOK
  <1>4. Signers(m) \subseteq Signers(m)'
    BY <1>1, <1>2, <1>3 DEF Signers
  <1> DEFINE before == Signers(m)
             after == Signers(m)'
  <1>5. /\ Cardinality(before) \in Nat /\ Cardinality(after) \in Nat
        /\ Cardinality(before) <= Cardinality(after)
    <2>1. IsFiniteSet(Seats)
      BY SeatCount DEF Inv
    <2>2. before \in SUBSET Seats /\ after \in SUBSET Seats
      BY <1>1 DEF Signers
    <2>3. IsFiniteSet(before) /\ IsFiniteSet(after)
      BY <2>1, <2>2, FS_Subset
    <2>4. Cardinality(before) <= Cardinality(after)
      BY <1>4, <2>3, FS_Subset, before \in SUBSET after
    <2> QED  BY <2>3, <2>4, FS_CardinalityType
  <1>6. numValidators \in Nat /\ DemoThreshold \in Nat
    BY CommitteeAssumption DEF Inv, TypeOK
  <1>7. CASE contract = "general"
    <2>1. 3 * Cardinality(before) >= 2 * numValidators
      BY <1>7 DEF Backed
    <2>2. 3 * Cardinality(after) >= 2 * numValidators
      <3> HIDE DEF before, after
      <3> QED  BY <1>5, <1>6, <2>1
    <2> QED  BY <1>1, <1>7, <2>2 DEF Backed
  <1>8. CASE contract # "general"
    <2>1. Cardinality(before) >= DemoThreshold
      BY <1>8 DEF Backed
    <2>2. Cardinality(after) >= DemoThreshold
      <3> HIDE DEF before, after
      <3> QED  BY <1>5, <1>6, <2>1
    <2> QED  BY <1>1, <1>8, <2>2 DEF Backed
  <1> QED  BY <1>7, <1>8

\* Every step keeps every trusted root backed.
LEMMA NextQuorumSigned == Inv /\ Inv' /\ QuorumSigned /\ [Next]_vars => QuorumSigned'
  <1> SUFFICES ASSUME Inv, Inv', QuorumSigned, [Next]_vars,
                      NEW c \in ChainId, trustedBlockNumber'[c] # 0
               PROVE  Backed(Trusted(c))'
    BY QuorumSignedIsBacked DEF QuorumSigned, Backed, Trusted
  <1>1. trustedBlockNumber[c] # 0 => Backed(Trusted(c))
    BY QuorumSignedIsBacked
  <1>2. ASSUME NEW batch \in Batches, AddValidators(batch) PROVE FALSE
    BY <1>2 DEF AddValidators, Inv, Registered, rootVars
  <1>3. ASSUME Finalize PROVE FALSE
    BY <1>3 DEF Finalize, Inv, Registered, rootVars
  <1>4. ASSUME NEW v \in Validator, NEW s \in Signable, Sign(v, s)
        PROVE  Backed(Trusted(c))'
    <2>1. Trusted(c)' = Trusted(c) /\ trustedBlockNumber[c] # 0
      BY <1>4 DEF Sign, rootVars, Trusted
    <2>2. PICK m : m = Trusted(c)
      OBVIOUS
    <2>3. Backed(m)
      BY <1>1, <2>1, <2>2
    <2>4. Backed(m)'
      BY <1>4, <2>3, SignKeepsBacked
    <2> QED  BY <2>1, <2>2, <2>4 DEF Backed, Signers
  <1>5. ASSUME NEW m \in Signable, UpdateState(m) PROVE Backed(Trusted(c))'
    <2>1. UNCHANGED <<committeeVars, signed>>
      BY <1>5 DEF UpdateState
    <2>2. \A x : Backed(x)' = Backed(x)
      BY <2>1 DEF Backed, Signers, Seats, committeeVars
    <2>3. CASE c = m.chain
      <3>1. Trusted(c)' = m
        <4>1. m = [chain |-> m.chain, block |-> m.block, root |-> m.root]
          BY CommitteeAssumption DEF Message
        <4>2. trustedBlockNumber'[c] = m.block /\ trustedStateRoot'[c] = m.root
          BY <1>5, <2>3 DEF UpdateState, Inv, TypeOK
        <4> QED  BY <2>3, <4>1, <4>2 DEF Trusted
      <3>2. Backed(m)
        BY <1>5, AcceptedIsBacked DEF UpdateState
      <3>3. Backed(m)'
        BY <2>2, <3>2
      <3> QED  BY <3>1, <3>3 DEF Backed, Signers
    <2>4. CASE c # m.chain
      <3>1. Trusted(c)' = Trusted(c) /\ trustedBlockNumber[c] # 0
        BY <1>5, <2>4 DEF UpdateState, Inv, TypeOK, Trusted
      <3>2. Backed(Trusted(c))
        BY <1>1, <3>1
      <3>3. PICK t : t = Trusted(c)
        OBVIOUS
      <3>4. Backed(t)'
        BY <2>2, <3>2, <3>3
      <3> QED  BY <3>1, <3>3, <3>4 DEF Backed, Signers
    <2> QED  BY <2>3, <2>4
  <1>6. ASSUME UNCHANGED vars PROVE Backed(Trusted(c))'
    BY <1>1, <1>6 DEF vars, committeeVars, rootVars, Backed, Trusted, Signers, Seats
  <1> QED  BY <1>2, <1>3, <1>4, <1>5, <1>6 DEF Next

\* LightClientVerifierBLSGeneral.sol:11-13: whatever bitmaps the callers choose, a
\* trusted root has the signatures of two thirds of the committee's seats.
THEOREM QuorumSignedAlways == Spec => []QuorumSigned
  <1>1. Init => QuorumSigned
    BY DEF Init, QuorumSigned
  <1> QED  BY <1>1, Invariance, NextQuorumSigned, PTL DEF Spec
=============================================================================
