------------------------ MODULE PaymentChannelProofs ------------------------
(* Theorems about PaymentChannel for every value of its constants: its books,  *)
(* what one transaction may do to one channel, and what follows: the action     *)
(* properties, what ChannelDefence promises, and that PaymentChannel implements *)
(* ChannelLifecycle.                                                            *)
EXTENDS ChannelDefence, FoldProofs, TLAPS

\* A push or a credit keeps the ledger's amounts in the naturals.
LEMMA CreditOrSendType ==
    ASSUME NEW ld \in L!Ledger, NEW to \in Party, NEW amount \in Nat,
           NEW accepts \in BOOLEAN
    PROVE  L!CreditOrSend(ld, to, amount, accepts) \in L!Ledger
<1> DEFINE p == [ld.pendingWithdrawals EXCEPT ![to] = @ + amount]
<1>1. /\ ld.balance \in Nat
      /\ ld.pendingWithdrawals \in [Party -> Nat]
      /\ ld = [balance |-> ld.balance, pendingWithdrawals |-> ld.pendingWithdrawals]
  BY DEF L!Ledger
<1>2. p \in [Party -> Nat]
  BY <1>1
<1>3. CASE amount = 0
  BY <1>3 DEF L!CreditOrSend
<1>4. CASE amount # 0 /\ accepts /\ amount <= ld.balance
  BY <1>1, <1>4 DEF L!CreditOrSend, L!Ledger
<1>5. CASE amount # 0 /\ ~(accepts /\ amount <= ld.balance)
  <2>1. L!CreditOrSend(ld, to, amount, accepts)
          = [ld EXCEPT !.pendingWithdrawals = p]
    BY <1>1, <1>5 DEF L!CreditOrSend
  <2> QED BY <1>1, <1>2, <2>1 DEF L!Ledger
<1> QED BY <1>3, <1>4, <1>5

\* Paying a channel out keeps the ledger and the record of payments typed, and
\* adds exactly the two amounts to that record.
LEMMA PayoutType ==
    ASSUME TypeOK, NEW id \in ChannelId, NEW payA \in Nat, NEW payB \in Nat,
           channels[id].partyA \in Party, channels[id].partyB \in Party,
           Payout(id, payA, payB)
    PROVE  /\ ledger' \in L!Ledger
           /\ paid' \in [ChannelId -> [A : Nat, B : Nat]]
<1>1. PICK acceptsA \in BOOLEAN, acceptsB \in BOOLEAN :
        ledger' = L!CreditOrSend(
                    L!CreditOrSend(ledger, channels[id].partyA, payA, acceptsA),
                    channels[id].partyB, payB, acceptsB)
  BY DEF Payout
<1>2. L!CreditOrSend(ledger, channels[id].partyA, payA, acceptsA) \in L!Ledger
  BY CreditOrSendType DEF TypeOK
<1>3. ledger' \in L!Ledger
  BY <1>1, <1>2, CreditOrSendType
<1>4. paid[id] \in [A : Nat, B : Nat]
  BY DEF TypeOK
<1>5. [A |-> paid[id].A + payA, B |-> paid[id].B + payB] \in [A : Nat, B : Nat]
  BY <1>4
<1>6. paid' = [paid EXCEPT ![id] = [A |-> paid[id].A + payA, B |-> paid[id].B + payB]]
  BY DEF Payout
<1> QED BY <1>3, <1>5, <1>6 DEF TypeOK

\* Only an opened channel has left the status it is born with, so whoever is
\* paid is an account.
LEMMA PartiesAreAccounts ==
    ASSUME NEW id \in ChannelId, Booked(id),
           channels[id].partyA \in Party \/ channels[id].partyB \in Party
    PROVE  channels[id].partyA \in Party /\ channels[id].partyB \in Party
BY ChannelAssumption DEF Booked, UnopenedChannel

\* Storing a well-formed struct keeps the mapping well formed.
LEMMA UpdateType ==
    ASSUME channels \in [ChannelId -> Channel], NEW id \in ChannelId,
           NEW ch \in Channel, Update(id, ch)
    PROVE  channels' \in [ChannelId -> Channel]
BY DEF Update

\* A payable call keeps the ledger typed.
LEMMA ReceiveType ==
    ASSUME NEW ld \in L!Ledger, NEW value \in Nat
    PROVE  L!Receive(ld, value) \in L!Ledger
BY DEF L!Receive, L!Ledger

\* TypeOK is kept by every step.
LEMMA TypeStep ==
    ASSUME TypeOK, Bookkeeping, CommitmentOnlyInWindow, [Next]_vars
    PROVE  TypeOK'
<1> USE ChannelAssumption
<1> USE DEF contractVars, historyVars, offChainVars
<1>1. ASSUME NEW sender \in Party, NEW partyB \in Party, NEW value \in Deposits,
             NEW key \in Party \cup {NoKey}, Open(sender, partyB, value, key)
      PROVE  TypeOK'
  <2> DEFINE id == nextChannelId
             new == [channels[id] EXCEPT !.partyA = sender, !.partyB = partyB,
                       !.depositA = value, !.status = "UNINITIALIZED",
                       !.balanceA = value, !.pubKeyA = key]
  <2>1. id \in ChannelId /\ value \in Nat /\ nextChannelId' \in 0 .. NumChannels
    BY <1>1 DEF Open, TypeOK, ChannelId
  <2>2. channels[id] \in Channel
    BY <2>1 DEF TypeOK
  <2>3. new \in Channel
    BY <2>1, <2>2 DEF Channel, Status
  <2>4. Update(id, new) /\ ledger' = L!Receive(ledger, value)
    BY <1>1 DEF Open
  <2>5. channels' \in [ChannelId -> Channel] /\ ledger' \in L!Ledger
    BY <2>1, <2>3, <2>4, UpdateType, ReceiveType DEF TypeOK
  <2>6. deposited' \in [ChannelId -> Nat]
    BY <1>1, <2>1 DEF Open, TypeOK
  <2> QED BY <1>1, <2>1, <2>5, <2>6 DEF Open, TypeOK
<1>2. ASSUME NEW sender \in Party, NEW id \in ChannelId, NEW value \in Deposits,
             NEW key \in {NoKey, sender}, Join(sender, id, value, key)
      PROVE  TypeOK'
  <2> DEFINE new == [channels[id] EXCEPT !.depositB = value, !.balanceB = value,
                       !.status = "ACTIVE", !.pubKeyB = key]
  <2>1. value \in Nat /\ channels[id] \in Channel
    BY DEF TypeOK
  <2>2. new \in Channel
    BY <2>1 DEF Channel, Status
  <2>3. Update(id, new) /\ ledger' = L!Receive(ledger, value)
    BY <1>2 DEF Join
  <2>4. channels' \in [ChannelId -> Channel] /\ ledger' \in L!Ledger
    BY <2>1, <2>2, <2>3, UpdateType, ReceiveType DEF TypeOK
  <2>5. deposited' \in [ChannelId -> Nat]
    BY <1>2, <2>1 DEF Join, TypeOK
  <2> QED BY <1>2, <2>4, <2>5 DEF Join, TypeOK
<1>3. ASSUME NEW sender \in Party, NEW id \in ChannelId, CancelUnjoined(sender, id)
      PROVE  TypeOK'
  <2> DEFINE new == [channels[id] EXCEPT !.balanceA = 0, !.depositA = 0,
                       !.status = "CLOSED"]
  <2>1. channels[id] \in Channel /\ channels[id].depositA \in Nat
    BY DEF TypeOK, Channel
  <2>2. new \in Channel
    BY <2>1 DEF Channel, Status
  <2>3. Update(id, new) /\ Payout(id, channels[id].depositA, 0)
    BY <1>3 DEF CancelUnjoined
  <2>4. channels' \in [ChannelId -> Channel]
    BY <2>2, <2>3, UpdateType DEF TypeOK
  <2>5. channels[id].partyA \in Party /\ channels[id].partyB \in Party
    BY <1>3, PartiesAreAccounts DEF Bookkeeping, CancelUnjoined
  <2>6. ledger' \in L!Ledger /\ paid' \in [ChannelId -> [A : Nat, B : Nat]]
    BY <2>1, <2>3, <2>5, PayoutType
  <2> QED BY <1>3, <2>4, <2>6 DEF CancelUnjoined, TypeOK
<1>4. ASSUME NEW sender \in Party, NEW id \in ChannelId, NEW st \in RawUpdates,
             CloseCooperative(sender, id, st)
      PROVE  TypeOK'
  <2> DEFINE new == [channels[id] EXCEPT !.balanceA = 0, !.balanceB = 0,
                       !.nonce = st.nonce, !.balancesCommitted = FALSE,
                       !.closedCooperatively = TRUE, !.status = "CLOSED"]
  <2>1. /\ channels[id] \in Channel
        /\ st.nonce \in Nat /\ st.balanceA \in Nat /\ st.balanceB \in Nat
    BY DEF TypeOK, ChannelState
  <2>2. new \in Channel
    BY <2>1 DEF Channel, Status
  <2>3. Update(id, new) /\ Payout(id, st.balanceA, st.balanceB) /\ OnlyParty(sender, id)
    BY <1>4 DEF CloseCooperative
  <2>4. channels' \in [ChannelId -> Channel]
    BY <2>2, <2>3, UpdateType DEF TypeOK
  <2>5. channels[id].partyA \in Party /\ channels[id].partyB \in Party
    BY <2>3, PartiesAreAccounts DEF Bookkeeping, OnlyParty
  <2>6. ledger' \in L!Ledger /\ paid' \in [ChannelId -> [A : Nat, B : Nat]]
    BY <2>1, <2>3, <2>5, PayoutType
  <2>7. origin' \in [ChannelId -> {"none", "signed", "proof", "remote"}]
    BY <1>4 DEF CloseCooperative, TypeOK
  <2> QED BY <1>4, <2>4, <2>6, <2>7 DEF CloseCooperative, TypeOK
<1>5. ASSUME NEW id \in ChannelId, NEW st \in ChannelState,
             NEW evidence \in {"signed", "remote"}, PostRevealed(id, st, evidence)
      PROVE  TypeOK'
  <2> DEFINE new == [channels[id] EXCEPT !.balanceA = st.balanceA,
                       !.balanceB = st.balanceB, !.nonce = st.nonce,
                       !.balancesCommitted = FALSE, !.status = "CHALLENGE_PERIOD",
                       !.challengeExpiry = now + CHALLENGE_PERIOD]
  <2>1. /\ channels[id] \in Channel /\ now + CHALLENGE_PERIOD \in Nat
        /\ st.nonce \in Nat /\ st.balanceA \in Nat /\ st.balanceB \in Nat
    BY DEF TypeOK, ChannelState
  <2>2. new \in Channel
    BY <2>1 DEF Channel, Status
  <2>3. Update(id, new)
    BY <1>5 DEF PostRevealed
  <2>4. channels' \in [ChannelId -> Channel]
    BY <2>2, <2>3, UpdateType DEF TypeOK
  <2>5. origin' \in [ChannelId -> {"none", "signed", "proof", "remote"}]
    BY <1>5 DEF PostRevealed, TypeOK
  <2> QED BY <1>5, <2>4, <2>5 DEF PostRevealed, TypeOK
<1>6. ASSUME NEW sender \in Party, NEW id \in ChannelId, NEW end \in ChannelState,
             PostCommitment(sender, id, end)
      PROVE  TypeOK'
  <2>1. PICK blinding \in {Public, sender} :
          Update(id, [channels[id] EXCEPT
                        !.balanceCommitment = Poseidon(end.balanceA, end.balanceB, blinding),
                        !.balancesCommitted = TRUE, !.nonce = end.nonce,
                        !.status = "CHALLENGE_PERIOD",
                        !.challengeExpiry = now + CHALLENGE_PERIOD])
    BY <1>6 DEF PostCommitment
  <2> DEFINE commitment == Poseidon(end.balanceA, end.balanceB, blinding)
  <2>2. /\ channels[id] \in Channel /\ now + CHALLENGE_PERIOD \in Nat
        /\ end.nonce \in Nat /\ commitment \in Commitment
    BY DEF TypeOK, ChannelState, Poseidon, Commitment
  <2> HIDE DEF commitment
  <2>3. [channels[id] EXCEPT !.balanceCommitment = commitment,
           !.balancesCommitted = TRUE, !.nonce = end.nonce,
           !.status = "CHALLENGE_PERIOD",
           !.challengeExpiry = now + CHALLENGE_PERIOD] \in Channel
    BY <2>2 DEF Channel, Status
  <2>4. channels' \in [ChannelId -> Channel]
    BY <2>1, <2>3, UpdateType DEF TypeOK, commitment
  <2>5. origin' \in [ChannelId -> {"none", "signed", "proof", "remote"}]
    BY <1>6 DEF PostCommitment, TypeOK
  <2> QED BY <1>6, <2>4, <2>5 DEF PostCommitment, TypeOK
<1>7. ASSUME NEW sender \in Party, NEW id \in ChannelId, Withdraw(sender, id)
      PROVE  TypeOK'
  <2> DEFINE ch == channels[id]
             new == [ch EXCEPT !.status = "CLOSED", !.balanceA = 0, !.balanceB = 0]
  <2>1. ch \in Channel /\ ch.balanceA \in Nat /\ ch.balanceB \in Nat
    BY DEF TypeOK, Channel
  <2>2. new \in Channel
    BY <2>1 DEF Channel, Status
  <2>3. Update(id, new) /\ Payout(id, ch.balanceA, ch.balanceB) /\ OnlyParty(sender, id)
    BY <1>7 DEF Withdraw
  <2>4. channels' \in [ChannelId -> Channel]
    BY <2>2, <2>3, UpdateType DEF TypeOK
  <2>5. ch.partyA \in Party /\ ch.partyB \in Party
    BY <2>3, PartiesAreAccounts DEF Bookkeeping, OnlyParty
  <2>6. ledger' \in L!Ledger /\ paid' \in [ChannelId -> [A : Nat, B : Nat]]
    BY <2>1, <2>3, <2>5, PayoutType
  <2> QED BY <1>7, <2>4, <2>6 DEF Withdraw, TypeOK
<1>8. ASSUME NEW sender \in Party, NEW id \in ChannelId, WithdrawWithOpening(sender, id)
      PROVE  TypeOK'
  <2> DEFINE ch == channels[id]
             opening == ch.balanceCommitment
             new == [ch EXCEPT !.balancesCommitted = FALSE, !.status = "CLOSED",
                       !.balanceA = 0, !.balanceB = 0]
  <2>1. ch \in Channel
    BY DEF TypeOK
  <2>2. ch.balancesCommitted /\ OnlyParty(sender, id) /\ Update(id, new)
        /\ Payout(id, opening.balanceA, opening.balanceB)
    BY <1>8 DEF WithdrawWithOpening
  <2>3. opening \in Commitment
    BY <2>1, <2>2 DEF CommitmentOnlyInWindow, CommitmentInWindow, Channel
  <2>4. opening.balanceA \in Nat /\ opening.balanceB \in Nat
    BY <2>3 DEF Commitment
  <2>5. new \in Channel
    BY <2>1 DEF Channel, Status
  <2>6. channels' \in [ChannelId -> Channel]
    BY <2>2, <2>5, UpdateType DEF TypeOK
  <2>7. ch.partyA \in Party /\ ch.partyB \in Party
    BY <2>2, PartiesAreAccounts DEF Bookkeeping, OnlyParty
  <2>8. ledger' \in L!Ledger /\ paid' \in [ChannelId -> [A : Nat, B : Nat]]
    BY <2>2, <2>4, <2>7, PayoutType
  <2> QED BY <1>8, <2>6, <2>8 DEF WithdrawWithOpening, TypeOK
<1>9. ASSUME NEW sender \in Party, Claim(sender)
      PROVE  TypeOK'
  <2>1. L!Claimed(ledger, sender) \in L!Ledger
    BY <1>9 DEF Claim, TypeOK, L!CanClaim, L!Claimed, L!Ledger
  <2> QED BY <1>9, <2>1 DEF Claim, TypeOK
<1>10. ASSUME NEW id \in ChannelId, Signing(id)
       PROVE  TypeOK'
  <2>1. CASE \E st \in RawUpdates : CoSign(id, st)
    <3>1. signed' \in [ChannelId -> SUBSET RawUpdates]
      BY <2>1 DEF CoSign, TypeOK
    <3> QED BY <2>1, <3>1 DEF CoSign, TypeOK
  <2>2. CASE \E st \in ProofUpdates : CoSignEdDSA(id, st)
    <3>1. eddsaSigned' \in [ChannelId -> SUBSET ProofUpdates]
      BY <2>2 DEF CoSignEdDSA, TypeOK
    <3> QED BY <2>2, <3>1 DEF CoSignEdDSA, TypeOK
  <2> QED BY <1>10, <2>1, <2>2 DEF Signing
<1>11. ASSUME NEW id \in ChannelId, NEW st \in Attestable, AttestRemote(id, st)
       PROVE  TypeOK'
  <2>1. [id |-> id, state |-> st] \in [id : ChannelId, state : Attestable]
    OBVIOUS
  <2> QED BY <1>11, <2>1 DEF AttestRemote, TypeOK
<1>12. CASE Tick
  BY <1>12 DEF Tick, TypeOK
<1>13. CASE UNCHANGED vars
  BY <1>13 DEF vars, TypeOK
<1>14. ASSUME NEW id \in ChannelId, Dispute(id)
       PROVE  TypeOK'
  BY <1>5, <1>6, <1>14 DEF Dispute, Challenge, Challengeable, ChallengeWithProof
<1>15. ASSUME NEW sender \in Party, NEW id \in ChannelId, Closing(sender, id)
       PROVE  TypeOK'
  BY <1>4, <1>5, <1>6, <1>15
     DEF Closing, CloseUnilateral, CloseWithProof, CloseWithRemoteAttestation
<1> QED BY <1>1, <1>2, <1>3, <1>7, <1>8, <1>9, <1>10, <1>11, <1>12, <1>13, <1>14, <1>15
        DEF Next, Funding, Settling

----------------------------------------------------------------------------
(* The safety invariants stand or fall together, channel by channel. *)

Safe(id) ==
    /\ Booked(id)
    /\ PaysExactly(id)
    /\ PostIsAuthentic(id)
    /\ CommitmentInWindow(id)
    /\ SettlementIsAuthentic(id)

IInv ==
    /\ TypeOK
    /\ \A id \in ChannelId : Safe(id)
    /\ trustedStateRoot # None => trustedStateRoot \in attested

\* A step that leaves a channel alone, and at most adds evidence, keeps it safe.
LEMMA SafeFrame ==
    ASSUME NEW j \in ChannelId, Safe(j),
           channels'[j] = channels[j], deposited'[j] = deposited[j],
           paid'[j] = paid[j], origin'[j] = origin[j],
           signed[j] \subseteq signed'[j], eddsaSigned[j] \subseteq eddsaSigned'[j],
           attested \subseteq attested', (j < nextChannelId') <=> (j < nextChannelId)
    PROVE  Safe(j)'
<1>1. \A st : Vouched(j, st) => Vouched(j, st)'
  BY DEF Vouched
<1>2. Booked(j)' /\ PaysExactly(j)' /\ CommitmentInWindow(j)'
  BY DEF Safe, Booked, PaysExactly, CommitmentInWindow
<1>3. PostIsAuthentic(j)'
  BY <1>1 DEF Safe, PostIsAuthentic, Posted, CheckConservation
<1>4. SettlementIsAuthentic(j)'
  BY <1>1 DEF Safe, SettlementIsAuthentic
<1> QED BY <1>2, <1>3, <1>4 DEF Safe

\* A step of the contract on one channel leaves every other channel safe.
LEMMA SafeElsewhere ==
    ASSUME IInv, NEW id \in ChannelId, NEW j \in ChannelId, j # id, NEW ch, Update(id, ch),
           UNCHANGED <<signed, eddsaSigned, attested>>,
           (j < nextChannelId') <=> (j < nextChannelId),
           deposited'[j] = deposited[j], paid'[j] = paid[j], origin'[j] = origin[j]
    PROVE  Safe(j)'
<1>1. channels'[j] = channels[j]
  BY DEF Update, IInv, TypeOK
<1> QED BY <1>1, SafeFrame DEF IInv

\* Paying out a channel that has not paid yet records exactly what it pays.
LEMMA PayoutRecord ==
    ASSUME IInv, NEW id \in ChannelId, NEW payA \in Nat, NEW payB \in Nat,
           channels[id].status # "CLOSED", Payout(id, payA, payB)
    PROVE  /\ paid'[id] = [A |-> payA, B |-> payB]
           /\ \A j \in ChannelId : j # id => paid'[j] = paid[j]
<1>1. paid[id] = [A |-> 0, B |-> 0] /\ paid \in [ChannelId -> [A : Nat, B : Nat]]
  BY DEF IInv, Safe, PaysExactly, TypeOK
<1>2. paid' = [paid EXCEPT ![id] = [A |-> paid[id].A + payA, B |-> paid[id].B + payB]]
  BY DEF Payout
<1> QED BY <1>1, <1>2

\* Opening hands out a blank channel and escrows partyA's deposit.
LEMMA OpenSafe ==
    ASSUME IInv, NEW sender \in Party, NEW partyB \in Party, NEW value \in Deposits,
           NEW key \in Party \cup {NoKey}, Open(sender, partyB, value, key)
    PROVE  \A j \in ChannelId : Safe(j)'
<1> USE ChannelAssumption
<1>. PICK id \in ChannelId : id = nextChannelId
  BY DEF Open, IInv, TypeOK, ChannelId
<1> DEFINE new == [channels[id] EXCEPT !.partyA = sender, !.partyB = partyB,
                     !.depositA = value, !.status = "UNINITIALIZED",
                     !.balanceA = value, !.pubKeyA = key]
<1>1. /\ id \in Nat /\ value \in Nat /\ nextChannelId' = id + 1
      /\ Update(id, new)
      /\ deposited' = [deposited EXCEPT ![id] = @ + value]
      /\ UNCHANGED <<signed, eddsaSigned, attested, paid, origin>>
  BY DEF Open, IInv, TypeOK, ChannelId, offChainVars
<1>2. channels[id] = UnopenedChannel
  <2>1. Booked(id) /\ ~(id < nextChannelId)
    BY <1>1 DEF IInv, Safe
  <2> QED BY <2>1 DEF Booked
<1>3. /\ channels'[id] = new
      /\ new.partyA = sender /\ new.partyB = partyB /\ new.depositA = value
      /\ new.depositB = 0 /\ new.status = "UNINITIALIZED" /\ new.nonce = 0
      /\ ~new.balancesCommitted
  BY <1>1, <1>2 DEF Update, UnopenedChannel, IInv, TypeOK
<1>4. /\ paid[id] = [A |-> 0, B |-> 0] /\ deposited[id] = 0 /\ origin[id] = "none"
  BY <1>1, <1>2 DEF IInv, Safe, Booked, PaysExactly, UnopenedChannel
<1>5. deposited'[id] = value
  BY <1>1, <1>4 DEF IInv, TypeOK
<1>6. Safe(id)'
  BY <1>1, <1>3, <1>4, <1>5 DEF Safe, Booked, PaysExactly, PostIsAuthentic,
     CommitmentInWindow, SettlementIsAuthentic, ChannelId
<1>7. ASSUME NEW j \in ChannelId, j # id
      PROVE  Safe(j)'
  <2>1. (j < nextChannelId') <=> (j < nextChannelId)
    BY <1>1, <1>7 DEF ChannelId
  <2>2. deposited'[j] = deposited[j]
    BY <1>1, <1>7 DEF IInv, TypeOK
  <2> QED BY <1>1, <1>7, <2>1, <2>2, SafeElsewhere
<1> QED BY <1>6, <1>7

\* Joining escrows partyB's deposit beside partyA's.
LEMMA JoinSafe ==
    ASSUME IInv, NEW sender \in Party, NEW id \in ChannelId, NEW value \in Deposits,
           NEW key \in {NoKey, sender}, Join(sender, id, value, key)
    PROVE  \A j \in ChannelId : Safe(j)'
<1> USE ChannelAssumption
<1> DEFINE ch == channels[id]
           new == [ch EXCEPT !.depositB = value, !.balanceB = value,
                     !.status = "ACTIVE", !.pubKeyB = key]
<1>1. /\ value \in Nat /\ ch.status = "UNINITIALIZED" /\ sender = ch.partyB
      /\ Update(id, new) /\ nextChannelId' = nextChannelId
      /\ deposited' = [deposited EXCEPT ![id] = @ + value]
      /\ UNCHANGED <<signed, eddsaSigned, attested, paid, origin>>
  BY DEF Join, offChainVars
<1>2. ch \in Channel /\ ch.depositA \in Nat
  BY DEF IInv, TypeOK, Channel
<1>3. /\ channels'[id] = new
      /\ new.partyA = ch.partyA /\ new.partyB = ch.partyB
      /\ new.depositA = ch.depositA /\ new.depositB = value
      /\ new.status = "ACTIVE" /\ new.nonce = ch.nonce
      /\ new.balancesCommitted = ch.balancesCommitted
  BY <1>1, <1>2 DEF Update, Channel, IInv, TypeOK
<1>4. /\ paid[id] = [A |-> 0, B |-> 0] /\ deposited[id] = ch.depositA
      /\ origin[id] = "none" /\ ch.nonce = 0 /\ ~ch.balancesCommitted
      /\ id < nextChannelId /\ ch.partyA \in Party /\ ch.partyB \in Party
  BY <1>1, <1>2 DEF IInv, Safe, Booked, PaysExactly, CommitmentInWindow, UnopenedChannel
<1>5. deposited'[id] = ch.depositA + value
  BY <1>1, <1>4 DEF IInv, TypeOK
<1>6. Safe(id)'
  BY <1>1, <1>3, <1>4, <1>5 DEF Safe, Booked, PaysExactly, PostIsAuthentic,
     CommitmentInWindow, SettlementIsAuthentic
<1>7. ASSUME NEW j \in ChannelId, j # id
      PROVE  Safe(j)'
  <2>1. deposited'[j] = deposited[j]
    BY <1>1, <1>7 DEF IInv, TypeOK
  <2> QED BY <1>1, <1>7, <2>1, SafeElsewhere
<1> QED BY <1>6, <1>7

\* A channel past its funding has two accounts behind it.
LEMMA OpenedParties ==
    ASSUME NEW id \in ChannelId, Booked(id), channels[id].status # "UNINITIALIZED"
    PROVE  id < nextChannelId /\ channels[id].partyA \in Party /\ channels[id].partyB \in Party
BY DEF Booked, UnopenedChannel

\* Cancelling refunds the only deposit there is.
LEMMA CancelSafe ==
    ASSUME IInv, NEW sender \in Party, NEW id \in ChannelId, CancelUnjoined(sender, id)
    PROVE  \A j \in ChannelId : Safe(j)'
<1> USE ChannelAssumption
<1> DEFINE ch == channels[id]
           new == [ch EXCEPT !.balanceA = 0, !.depositA = 0, !.status = "CLOSED"]
<1>1. /\ ch.status = "UNINITIALIZED" /\ sender = ch.partyA
      /\ Update(id, new) /\ Payout(id, ch.depositA, 0)
      /\ UNCHANGED <<nextChannelId, signed, eddsaSigned, attested, deposited, origin>>
  BY DEF CancelUnjoined, offChainVars
<1>2. ch \in Channel /\ ch.depositA \in Nat
  BY DEF IInv, TypeOK, Channel
<1>3. /\ channels'[id] = new
      /\ new.partyA = ch.partyA /\ new.partyB = ch.partyB
      /\ new.status = "CLOSED" /\ new.balancesCommitted = ch.balancesCommitted
  BY <1>1, <1>2 DEF Update, Channel, IInv, TypeOK
<1>4. /\ deposited[id] = ch.depositA /\ origin[id] = "none" /\ ~ch.balancesCommitted
      /\ id < nextChannelId /\ ch.partyA \in Party /\ ch.partyB \in Party
  BY <1>1, <1>2 DEF IInv, Safe, Booked, PaysExactly, CommitmentInWindow, UnopenedChannel
<1>5. /\ paid'[id] = [A |-> ch.depositA, B |-> 0]
      /\ \A j \in ChannelId : j # id => paid'[j] = paid[j]
  BY <1>1, <1>2, PayoutRecord
<1>6. Safe(id)'
  BY <1>1, <1>2, <1>3, <1>4, <1>5 DEF Safe, Booked, PaysExactly, PostIsAuthentic,
     CommitmentInWindow, SettlementIsAuthentic
<1> QED BY <1>1, <1>5, <1>6, SafeElsewhere

\* A step that closes a channel paying out a vouched-for, conserving state.
LEMMA SettleSafe ==
    ASSUME IInv, NEW id \in ChannelId, NEW st \in ChannelState, NEW new \in Channel,
           channels[id].status \in {"ACTIVE", "CHALLENGE_PERIOD"},
           CheckConservation(channels[id], st), Vouched(id, st)',
           Update(id, new), Payout(id, st.balanceA, st.balanceB),
           UNCHANGED <<nextChannelId, signed, eddsaSigned, attested, deposited>>,
           \A j \in ChannelId : j # id => origin'[j] = origin[j],
           new.partyA = channels[id].partyA, new.partyB = channels[id].partyB,
           new.status = "CLOSED", ~new.balancesCommitted, new.nonce = st.nonce
    PROVE  \A j \in ChannelId : Safe(j)'
<1> DEFINE ch == channels[id]
<1>1. channels'[id] = new
  BY DEF Update, IInv, TypeOK
<1>2. /\ st.balanceA \in Nat /\ st.balanceB \in Nat
      /\ st = [nonce |-> st.nonce, balanceA |-> st.balanceA, balanceB |-> st.balanceB]
  BY DEF ChannelState
<1>3. /\ id < nextChannelId /\ ch.partyA \in Party /\ ch.partyB \in Party
      /\ deposited[id] = ch.depositA + ch.depositB
  BY OpenedParties DEF IInv, Safe, PaysExactly
<1>4. /\ paid'[id] = [A |-> st.balanceA, B |-> st.balanceB]
      /\ \A j \in ChannelId : j # id => paid'[j] = paid[j]
  BY <1>2, PayoutRecord
<1>5. Booked(id)'
  BY <1>1, <1>3 DEF Booked
<1>6. PaysExactly(id)' /\ PostIsAuthentic(id)' /\ CommitmentInWindow(id)'
  BY <1>1, <1>3, <1>4 DEF PaysExactly, PostIsAuthentic, CommitmentInWindow, CheckConservation
<1>7. SettlementIsAuthentic(id)'
  BY <1>1, <1>2, <1>4 DEF SettlementIsAuthentic
<1>8. Safe(id)'
  BY <1>5, <1>6, <1>7 DEF Safe
<1> QED BY <1>4, <1>8, SafeElsewhere

\* Closing cooperatively pays the split both parties signed.
LEMMA CooperativeSafe ==
    ASSUME IInv, NEW sender \in Party, NEW id \in ChannelId, NEW st \in RawUpdates,
           CloseCooperative(sender, id, st)
    PROVE  \A j \in ChannelId : Safe(j)'
<1> DEFINE ch == channels[id]
           new == [ch EXCEPT !.balanceA = 0, !.balanceB = 0, !.nonce = st.nonce,
                     !.balancesCommitted = FALSE, !.closedCooperatively = TRUE,
                     !.status = "CLOSED"]
<1>1. /\ ch.status \in {"ACTIVE", "CHALLENGE_PERIOD"} /\ st \in signed[id]
      /\ CheckConservation(ch, st) /\ Update(id, new)
      /\ Payout(id, st.balanceA, st.balanceB)
      /\ origin' = [origin EXCEPT ![id] = "signed"]
      /\ UNCHANGED <<nextChannelId, signed, eddsaSigned, attested, deposited>>
  BY DEF CloseCooperative, VerifyBothSignatures, offChainVars
<1>2. st \in ChannelState /\ st.nonce \in Nat
  BY ChannelAssumption DEF ChannelState
<1>3. ch \in Channel
  BY DEF IInv, TypeOK
<1>4. new \in Channel
  BY <1>2, <1>3 DEF Channel, Status
<1>5. /\ new.partyA = ch.partyA /\ new.partyB = ch.partyB /\ new.status = "CLOSED"
      /\ ~new.balancesCommitted /\ new.nonce = st.nonce
  BY <1>3 DEF Channel
<1>6. origin'[id] = "signed" /\ \A j \in ChannelId : j # id => origin'[j] = origin[j]
  BY <1>1 DEF IInv, TypeOK
<1>7. Vouched(id, st)'
  BY <1>1, <1>6 DEF Vouched
<1> HIDE DEF new
<1> QED BY <1>1, <1>2, <1>4, <1>5, <1>6, <1>7, SettleSafe

\* A step that posts a vouched-for, conserving state, revealed or committed.
LEMMA PostSafe ==
    ASSUME IInv, NEW id \in ChannelId, NEW new \in Channel,
           channels[id].status \in {"ACTIVE", "CHALLENGE_PERIOD"},
           Update(id, new),
           UNCHANGED <<nextChannelId, signed, eddsaSigned, attested, deposited, paid>>,
           \A j \in ChannelId : j # id => origin'[j] = origin[j],
           new.partyA = channels[id].partyA, new.partyB = channels[id].partyB,
           new.depositA = channels[id].depositA, new.depositB = channels[id].depositB,
           new.status = "CHALLENGE_PERIOD",
           CheckConservation(new, Posted(new)), Vouched(id, Posted(new))',
           new.balancesCommitted <=> origin'[id] = "proof",
           new.balancesCommitted => new.balanceCommitment # None
    PROVE  \A j \in ChannelId : Safe(j)'
<1> DEFINE ch == channels[id]
<1>1. channels'[id] = new
  BY DEF Update, IInv, TypeOK
<1>2. /\ id < nextChannelId /\ ch.partyA \in Party /\ ch.partyB \in Party
      /\ deposited[id] = ch.depositA + ch.depositB /\ paid[id] = [A |-> 0, B |-> 0]
  BY OpenedParties DEF IInv, Safe, PaysExactly
<1>3. Booked(id)'
  BY <1>1, <1>2 DEF Booked
<1>4. PaysExactly(id)' /\ CommitmentInWindow(id)' /\ SettlementIsAuthentic(id)'
  BY <1>1, <1>2 DEF PaysExactly, CommitmentInWindow, SettlementIsAuthentic
<1>5. Vouched(id, Posted(channels[id]))'
  BY <1>1 DEF Vouched, Posted
<1>6. PostIsAuthentic(id)'
  BY <1>1, <1>5 DEF PostIsAuthentic, Vouched, CheckConservation, Posted
<1>7. Safe(id)'
  BY <1>3, <1>4, <1>6 DEF Safe
<1> QED BY <1>7, SafeElsewhere

\* Posting the balances themselves.
LEMMA RevealedSafe ==
    ASSUME IInv, NEW id \in ChannelId, NEW st \in ChannelState,
           NEW evidence \in {"signed", "remote"}, PostRevealed(id, st, evidence),
           channels[id].status \in {"ACTIVE", "CHALLENGE_PERIOD"},
           CheckConservation(channels[id], st),
           \/ evidence = "signed" /\ st \in signed[id]
           \/ evidence = "remote" /\ [id |-> id, state |-> st] \in attested
    PROVE  \A j \in ChannelId : Safe(j)'
<1> DEFINE ch == channels[id]
           new == [ch EXCEPT !.balanceA = st.balanceA, !.balanceB = st.balanceB,
                     !.nonce = st.nonce, !.balancesCommitted = FALSE,
                     !.status = "CHALLENGE_PERIOD",
                     !.challengeExpiry = now + CHALLENGE_PERIOD]
<1>1. /\ Update(id, new) /\ origin' = [origin EXCEPT ![id] = evidence]
      /\ UNCHANGED <<nextChannelId, signed, eddsaSigned, attested, deposited, paid>>
  BY DEF PostRevealed, offChainVars
<1>2. /\ ch \in Channel /\ now + CHALLENGE_PERIOD \in Nat
      /\ st.nonce \in Nat /\ st.balanceA \in Nat /\ st.balanceB \in Nat
      /\ st = [nonce |-> st.nonce, balanceA |-> st.balanceA, balanceB |-> st.balanceB]
  BY ChannelAssumption DEF IInv, TypeOK, ChannelState
<1>3. new \in Channel
  BY <1>2 DEF Channel, Status
<1>4. /\ new.partyA = ch.partyA /\ new.partyB = ch.partyB
      /\ new.depositA = ch.depositA /\ new.depositB = ch.depositB
      /\ new.status = "CHALLENGE_PERIOD" /\ ~new.balancesCommitted
      /\ new.nonce = st.nonce /\ new.balanceA = st.balanceA /\ new.balanceB = st.balanceB
  BY <1>2 DEF Channel
<1>5. /\ origin'[id] = evidence
      /\ \A j \in ChannelId : j # id => origin'[j] = origin[j]
  BY <1>1 DEF IInv, TypeOK
<1> HIDE DEF new
<1>6. Posted(new) = st
  BY <1>2, <1>4 DEF Posted
<1>7. Vouched(id, st)'
  BY <1>1, <1>5 DEF Vouched
<1>8. CheckConservation(new, st)
  BY <1>4 DEF CheckConservation
<1> QED BY <1>1, <1>3, <1>4, <1>5, <1>6, <1>7, <1>8, PostSafe

\* What a provable end state is: co-signed, and conserving the channel's deposits
\* whether the proof starts from genesis or continues a posted commitment.
LEMMA ProvenState ==
    ASSUME IInv, NEW id \in ChannelId, NEW sender \in Party, NEW end \in ChannelState,
           channels[id].status \in {"ACTIVE", "CHALLENGE_PERIOD"},
           VerifyChannelProof(sender, id, end)
    PROVE  end \in eddsaSigned[id] /\ CheckConservation(channels[id], end)
<1> DEFINE ch == channels[id]
           anchor == Anchor(ch)
<1>1. PICK path \in [1 .. Steps -> eddsaSigned[id]] :
        /\ path[Steps] = end
        /\ \A i \in 1 .. Steps :
             path[i].balanceA + path[i].balanceB
               = anchor.commitment.balanceA + anchor.commitment.balanceB
  BY DEF VerifyChannelProof, UpdateChain
<1>2. Steps \in 1 .. Steps
  BY ChannelAssumption
<1>3. /\ end \in eddsaSigned[id]
      /\ end.balanceA + end.balanceB
           = anchor.commitment.balanceA + anchor.commitment.balanceB
  BY <1>1, <1>2
<1>4. anchor.commitment.balanceA + anchor.commitment.balanceB = ch.depositA + ch.depositB
  <2>1. CASE ch.balancesCommitted
    <3>1. ch.status = "CHALLENGE_PERIOD" /\ PostIsAuthentic(id)
      BY <2>1 DEF IInv, Safe, CommitmentInWindow
    <3> QED BY <2>1, <3>1 DEF PostIsAuthentic, Posted, CheckConservation, Anchor
  <2>2. CASE ~ch.balancesCommitted
    BY <2>2 DEF Anchor, Poseidon
  <2> QED BY <2>1, <2>2
<1> QED BY <1>3, <1>4 DEF CheckConservation

\* Posting a commitment to balances that stay hidden.
LEMMA CommittedSafe ==
    ASSUME IInv, NEW id \in ChannelId, NEW sender \in Party, NEW end \in ChannelState,
           PostCommitment(sender, id, end),
           channels[id].status \in {"ACTIVE", "CHALLENGE_PERIOD"},
           VerifyChannelProof(sender, id, end)
    PROVE  \A j \in ChannelId : Safe(j)'
<1> DEFINE ch == channels[id]
<1>1. PICK blinding \in {Public, sender} :
        Update(id, [ch EXCEPT
                      !.balanceCommitment = Poseidon(end.balanceA, end.balanceB, blinding),
                      !.balancesCommitted = TRUE, !.nonce = end.nonce,
                      !.status = "CHALLENGE_PERIOD",
                      !.challengeExpiry = now + CHALLENGE_PERIOD])
  BY DEF PostCommitment
<1> DEFINE commitment == Poseidon(end.balanceA, end.balanceB, blinding)
           new == [ch EXCEPT !.balanceCommitment = commitment,
                     !.balancesCommitted = TRUE, !.nonce = end.nonce,
                     !.status = "CHALLENGE_PERIOD",
                     !.challengeExpiry = now + CHALLENGE_PERIOD]
<1>2. /\ Update(id, new) /\ origin' = [origin EXCEPT ![id] = "proof"]
      /\ UNCHANGED <<nextChannelId, signed, eddsaSigned, attested, deposited, paid>>
  BY <1>1 DEF PostCommitment, offChainVars
<1>3. /\ ch \in Channel /\ now + CHALLENGE_PERIOD \in Nat
      /\ end.nonce \in Nat
      /\ end = [nonce |-> end.nonce, balanceA |-> end.balanceA, balanceB |-> end.balanceB]
      /\ commitment \in Commitment /\ commitment # None
      /\ commitment.balanceA = end.balanceA /\ commitment.balanceB = end.balanceB
  BY ChannelAssumption DEF IInv, TypeOK, ChannelState, Poseidon, Commitment
<1> HIDE DEF commitment
<1>4. new \in Channel
  BY <1>3 DEF Channel, Status
<1>5. /\ new.partyA = ch.partyA /\ new.partyB = ch.partyB
      /\ new.depositA = ch.depositA /\ new.depositB = ch.depositB
      /\ new.status = "CHALLENGE_PERIOD" /\ new.balancesCommitted
      /\ new.nonce = end.nonce /\ new.balanceCommitment = commitment
  BY <1>3 DEF Channel
<1>6. /\ origin'[id] = "proof"
      /\ \A j \in ChannelId : j # id => origin'[j] = origin[j]
  BY <1>2 DEF IInv, TypeOK
<1> HIDE DEF new
<1>7. Posted(new) = end
  BY <1>3, <1>5 DEF Posted
<1>8. end \in eddsaSigned[id] /\ CheckConservation(ch, end)
  BY ProvenState
<1>9. Vouched(id, end)' /\ CheckConservation(new, end)
  BY <1>2, <1>5, <1>6, <1>8 DEF Vouched, CheckConservation
<1> QED BY <1>2, <1>3, <1>4, <1>5, <1>6, <1>7, <1>9, PostSafe

\* Settling the balances that were posted.
LEMMA WithdrawSafe ==
    ASSUME IInv, NEW sender \in Party, NEW id \in ChannelId, Withdraw(sender, id)
    PROVE  \A j \in ChannelId : Safe(j)'
<1> DEFINE ch == channels[id]
           new == [ch EXCEPT !.status = "CLOSED", !.balanceA = 0, !.balanceB = 0]
<1>. PICK st : st = Posted(ch)
  OBVIOUS
<1>1. /\ ch.status = "CHALLENGE_PERIOD" /\ ~ch.balancesCommitted
      /\ Update(id, new) /\ Payout(id, ch.balanceA, ch.balanceB)
      /\ UNCHANGED <<nextChannelId, signed, eddsaSigned, attested, deposited, origin>>
  BY DEF Withdraw, offChainVars
<1>2. ch \in Channel
  BY DEF IInv, TypeOK
<1>3. /\ st = [nonce |-> ch.nonce, balanceA |-> ch.balanceA, balanceB |-> ch.balanceB]
      /\ st \in ChannelState
  BY <1>1, <1>2 DEF Posted, ChannelState, Channel
<1>4. Vouched(id, st) /\ CheckConservation(ch, st)
  BY <1>1 DEF IInv, Safe, PostIsAuthentic
<1>5. new \in Channel
  BY <1>2 DEF Channel, Status
<1>6. /\ new.partyA = ch.partyA /\ new.partyB = ch.partyB /\ new.status = "CLOSED"
      /\ ~new.balancesCommitted /\ new.nonce = ch.nonce
  BY <1>1, <1>2 DEF Channel
<1>7. st.balanceA = ch.balanceA /\ st.balanceB = ch.balanceB /\ st.nonce = ch.nonce
  BY <1>3
<1>8. Vouched(id, st)'
  BY <1>1, <1>4 DEF Vouched
<1> HIDE DEF new
<1> QED BY <1>1, <1>3, <1>4, <1>5, <1>6, <1>7, <1>8, SettleSafe

\* Settling the balances a commitment was opened to.
LEMMA OpeningSafe ==
    ASSUME IInv, NEW sender \in Party, NEW id \in ChannelId, WithdrawWithOpening(sender, id)
    PROVE  \A j \in ChannelId : Safe(j)'
<1> DEFINE ch == channels[id]
           new == [ch EXCEPT !.balancesCommitted = FALSE, !.status = "CLOSED",
                     !.balanceA = 0, !.balanceB = 0]
<1>. PICK st : st = Posted(ch)
  OBVIOUS
<1>1. /\ ch.status = "CHALLENGE_PERIOD" /\ ch.balancesCommitted
      /\ Update(id, new)
      /\ Payout(id, ch.balanceCommitment.balanceA, ch.balanceCommitment.balanceB)
      /\ UNCHANGED <<nextChannelId, signed, eddsaSigned, attested, deposited, origin>>
  BY DEF WithdrawWithOpening, offChainVars
<1>2. ch \in Channel /\ ch.balanceCommitment \in Commitment
  BY <1>1 DEF IInv, TypeOK, Safe, CommitmentInWindow, Channel
<1>3. /\ st = [nonce |-> ch.nonce, balanceA |-> ch.balanceCommitment.balanceA,
               balanceB |-> ch.balanceCommitment.balanceB]
      /\ st \in ChannelState
  BY <1>1, <1>2 DEF Posted, ChannelState, Channel, Commitment
<1>4. Vouched(id, st) /\ CheckConservation(ch, st)
  BY <1>1 DEF IInv, Safe, PostIsAuthentic
<1>5. new \in Channel
  BY <1>2 DEF Channel, Status
<1>6. /\ new.partyA = ch.partyA /\ new.partyB = ch.partyB /\ new.status = "CLOSED"
      /\ ~new.balancesCommitted /\ new.nonce = ch.nonce
  BY <1>2 DEF Channel
<1>7. /\ st.balanceA = ch.balanceCommitment.balanceA
      /\ st.balanceB = ch.balanceCommitment.balanceB /\ st.nonce = ch.nonce
  BY <1>3
<1>8. Vouched(id, st)'
  BY <1>1, <1>4 DEF Vouched
<1> HIDE DEF new
<1> QED BY <1>1, <1>3, <1>4, <1>5, <1>6, <1>7, <1>8, SettleSafe

\* Every step keeps every channel safe.
LEMMA SafeStep ==
    ASSUME IInv, [Next]_vars
    PROVE  \A j \in ChannelId : Safe(j)'
<1> USE ChannelAssumption
<1>1. ASSUME NEW sender \in Party, NEW id \in ChannelId, Funding(sender, id)
      PROVE  \A j \in ChannelId : Safe(j)'
  BY <1>1, JoinSafe, CancelSafe DEF Funding
<1>2. ASSUME NEW sender \in Party, NEW id \in ChannelId, Settling(sender, id)
      PROVE  \A j \in ChannelId : Safe(j)'
  BY <1>2, WithdrawSafe, OpeningSafe DEF Settling
<1>3. ASSUME NEW sender \in Party, NEW id \in ChannelId, Closing(sender, id)
      PROVE  \A j \in ChannelId : Safe(j)'
  <2>1. ASSUME NEW st \in RawUpdates, CloseCooperative(sender, id, st)
        PROVE  \A j \in ChannelId : Safe(j)'
    BY <2>1, CooperativeSafe
  <2>2. ASSUME NEW st \in RawUpdates, CloseUnilateral(sender, id, st)
        PROVE  \A j \in ChannelId : Safe(j)'
    BY <2>2, RevealedSafe DEF CloseUnilateral, VerifyBothSignatures
  <2>3. ASSUME NEW end \in ProofUpdates, CloseWithProof(sender, id, end)
        PROVE  \A j \in ChannelId : Safe(j)'
    BY <2>3, CommittedSafe DEF CloseWithProof
  <2>4. ASSUME NEW st \in Attestable, CloseWithRemoteAttestation(sender, id, st)
        PROVE  \A j \in ChannelId : Safe(j)'
    <3>1. /\ trustedStateRoot = [id |-> id, state |-> st] /\ st \in ChannelState
          /\ channels[id].status = "ACTIVE" /\ CheckConservation(channels[id], st)
          /\ PostRevealed(id, st, "remote")
      BY <2>4 DEF CloseWithRemoteAttestation
    <3>2. [id |-> id, state |-> st] \in attested
      BY <3>1 DEF IInv
    <3> QED BY <3>1, <3>2, RevealedSafe
  <2> QED BY <1>3, <2>1, <2>2, <2>3, <2>4 DEF Closing
<1>4. ASSUME NEW id \in ChannelId, Dispute(id)
      PROVE  \A j \in ChannelId : Safe(j)'
  <2>1. ASSUME NEW st \in RawUpdates, Challenge(id, st)
        PROVE  \A j \in ChannelId : Safe(j)'
    BY <2>1, RevealedSafe DEF Challenge, Challengeable, VerifyBothSignatures
  <2>2. ASSUME NEW sender \in Party, NEW end \in ProofUpdates,
               ChallengeWithProof(sender, id, end)
        PROVE  \A j \in ChannelId : Safe(j)'
    BY <2>2, CommittedSafe DEF ChallengeWithProof
  <2> QED BY <1>4, <2>1, <2>2 DEF Dispute
<1>5. ASSUME UNCHANGED <<channels, deposited, paid, origin, nextChannelId>>,
             \A j \in ChannelId : /\ signed[j] \subseteq signed'[j]
                                  /\ eddsaSigned[j] \subseteq eddsaSigned'[j],
             attested \subseteq attested'
      PROVE  \A j \in ChannelId : Safe(j)'
  BY <1>5, SafeFrame DEF IInv
<1>6. ASSUME NEW id \in ChannelId, Signing(id)
      PROVE  \A j \in ChannelId : Safe(j)'
  <2>1. ASSUME NEW st, CoSign(id, st) PROVE \A j \in ChannelId : Safe(j)'
    BY <1>5, <2>1 DEF CoSign, contractVars, historyVars, IInv, TypeOK
  <2>2. ASSUME NEW st, CoSignEdDSA(id, st) PROVE \A j \in ChannelId : Safe(j)'
    BY <1>5, <2>2 DEF CoSignEdDSA, contractVars, historyVars, IInv, TypeOK
  <2> QED BY <1>6, <2>1, <2>2 DEF Signing
<1>7. ASSUME NEW id \in ChannelId, NEW st \in Attestable, AttestRemote(id, st)
      PROVE  \A j \in ChannelId : Safe(j)'
  BY <1>5, <1>7 DEF AttestRemote, contractVars
<1>8. ASSUME NEW sender \in Party, Claim(sender)
      PROVE  \A j \in ChannelId : Safe(j)'
  BY <1>5, <1>8 DEF Claim, offChainVars, historyVars
<1>9. CASE Tick \/ UNCHANGED vars
  BY <1>5, <1>9 DEF Tick, vars, contractVars, offChainVars, historyVars
<1> QED BY <1>1, <1>2, <1>3, <1>4, <1>6, <1>7, <1>8, <1>9, OpenSafe DEF Next

\* The light client's root is among those it ever trusted.
LEMMA RootStep ==
    ASSUME IInv, [Next]_vars
    PROVE  (trustedStateRoot # None => trustedStateRoot \in attested)'
<1>1. ASSUME NEW id \in ChannelId, NEW st \in Attestable, AttestRemote(id, st)
      PROVE  trustedStateRoot' \in attested'
  BY <1>1 DEF AttestRemote
<1> DEFINE Kept == UNCHANGED <<trustedStateRoot, attested>>
<1>2. ASSUME NEW sender \in Party, NEW id \in ChannelId,
             Funding(sender, id) \/ Settling(sender, id)
      PROVE  Kept
  BY <1>2 DEF Funding, Join, CancelUnjoined, Settling, Withdraw, WithdrawWithOpening,
     offChainVars
<1>3. ASSUME NEW sender \in Party, NEW id \in ChannelId, Closing(sender, id)
      PROVE  Kept
  BY <1>3 DEF Closing, CloseCooperative, CloseUnilateral, CloseWithProof,
     CloseWithRemoteAttestation, PostRevealed, PostCommitment, offChainVars
<1>4. ASSUME NEW id \in ChannelId, Dispute(id) \/ Signing(id)
      PROVE  Kept
  BY <1>4 DEF Dispute, Challenge, Challengeable, ChallengeWithProof, Signing, CoSign, CoSignEdDSA,
     PostRevealed, PostCommitment, offChainVars, historyVars
<1>5. ASSUME NEW sender \in Party, NEW partyB \in Party, NEW value \in Deposits,
             NEW key \in Party \cup {NoKey}, Open(sender, partyB, value, key)
      PROVE  Kept
  BY <1>5 DEF Open, offChainVars
<1>6. ASSUME NEW sender \in Party, Claim(sender)
      PROVE  Kept
  BY <1>6 DEF Claim, offChainVars, historyVars
<1>7. ASSUME Tick
      PROVE  Kept
  BY <1>7 DEF Tick, contractVars, offChainVars, historyVars
<1>8. ASSUME UNCHANGED vars
      PROVE  Kept
  BY <1>8 DEF vars, contractVars, offChainVars, historyVars
<1> HIDE DEF Kept
<1>9. Kept \/ \E id \in ChannelId, st \in Attestable : AttestRemote(id, st)
  BY <1>2, <1>3, <1>4, <1>5, <1>6, <1>7, <1>8 DEF Next
<1> QED BY <1>1, <1>9 DEF IInv, Kept

\* The invariant holds at deployment.
LEMMA InitIInv == Init => IInv
<1> SUFFICES ASSUME Init PROVE IInv
  OBVIOUS
<1> USE ChannelAssumption DEF Init
<1>1. UnopenedChannel \in Channel
  BY DEF UnopenedChannel, Channel, Status
<1>2. TypeOK
  BY <1>1 DEF TypeOK, L!EmptyLedger, L!Ledger
<1>3. ASSUME NEW id \in ChannelId
      PROVE  Safe(id)
  BY DEF Safe, Booked, PaysExactly, PostIsAuthentic, CommitmentInWindow,
     SettlementIsAuthentic, UnopenedChannel, ChannelId
<1> QED BY <1>2, <1>3 DEF IInv

\* Every step keeps the inductive invariant.
LEMMA StepIInv ==
    ASSUME IInv, [Next]_vars
    PROVE  IInv'
<1>1. TypeOK'
  BY TypeStep DEF IInv, Safe, Bookkeeping, CommitmentOnlyInWindow
<1> QED BY <1>1, SafeStep, RootStep DEF IInv

\* The inductive invariant holds in every reachable state.
THEOREM Invariance == Spec => []IInv
<1>1. IInv /\ [Next]_vars => IInv'
  BY StepIInv
<1> QED BY <1>1, InitIInv, PTL DEF Spec

\* Type correctness.
THEOREM TypeCorrect == Spec => []TypeOK
<1>1. IInv => TypeOK
  BY DEF IInv
<1> QED BY <1>1, Invariance, PTL

\* Each channel releases exactly what it received, once, when it closes.
THEOREM ExactEscrow == Spec => []EscrowExact
<1>1. IInv => EscrowExact
  BY DEF IInv, Safe, EscrowExact
<1> QED BY <1>1, Invariance, PTL

\* A posted state is one co-signed or attested state, conserving the deposits.
THEOREM AuthenticPosts == Spec => [](PostedStateAuthentic /\ CommitmentOnlyInWindow)
<1>1. IInv => PostedStateAuthentic /\ CommitmentOnlyInWindow
  BY DEF IInv, Safe, PostedStateAuthentic, CommitmentOnlyInWindow
<1> QED BY <1>1, Invariance, PTL

\* A commitment is on file only while a window is open on it.
THEOREM CommitmentsInWindow == Spec => []CommitmentOnlyInWindow
<1>1. IInv => CommitmentOnlyInWindow
  BY DEF IInv, Safe, CommitmentOnlyInWindow
<1> QED BY <1>1, Invariance, PTL

\* Every settlement pays one agreed state, or refunds a channel nobody joined.
THEOREM AuthenticSettlements == Spec => []SettlementAuthentic
<1>1. IInv => SettlementAuthentic
  BY DEF IInv, Safe, SettlementAuthentic
<1> QED BY <1>1, Invariance, PTL

----------------------------------------------------------------------------
(* Solvency: the contract's ETH against what it owes *)

\* What the contract has beyond the credits it owes, and what it still owes to
\* each channel.
Surplus(ld) == ld.balance - SumFunction(ld.pendingWithdrawals)
Owed == [id \in ChannelId |-> deposited[id] - (paid[id].A + paid[id].B)]
OwedTyped == Owed \in [ChannelId -> Nat]
Balanced == Surplus(ledger) = SumFunction(Owed)

LEMMA LedgerFields ==
    ASSUME NEW ld \in L!Ledger
    PROVE  /\ ld.balance \in Nat /\ ld.pendingWithdrawals \in [Party -> Nat]
           /\ ld = [balance |-> ld.balance, pendingWithdrawals |-> ld.pendingWithdrawals]
           /\ SumFunction(ld.pendingWithdrawals) \in Nat
           /\ Surplus(ld) \in Int
<1>1. /\ ld.balance \in Nat /\ ld.pendingWithdrawals \in [Party -> Nat]
      /\ ld = [balance |-> ld.balance, pendingWithdrawals |-> ld.pendingWithdrawals]
  BY DEF L!Ledger
<1>2. SumFunction(ld.pendingWithdrawals) \in Nat
  BY <1>1, SumType, ChannelAssumption
<1> QED BY <1>1, <1>2 DEF Surplus

\* A push costs its amount, whether the recipient takes it or is credited.
LEMMA PushCosts ==
    ASSUME NEW ld \in L!Ledger, NEW to \in Party, NEW amount \in Nat,
           NEW accepts \in BOOLEAN
    PROVE  Surplus(L!CreditOrSend(ld, to, amount, accepts)) = Surplus(ld) - amount
<1> DEFINE w == ld.pendingWithdrawals
           next == L!CreditOrSend(ld, to, amount, accepts)
<1>1. /\ ld.balance \in Nat /\ w \in [Party -> Nat] /\ SumFunction(w) \in Nat
      /\ ld = [balance |-> ld.balance, pendingWithdrawals |-> w]
      /\ Surplus(ld) \in Int
  BY LedgerFields
<1>2. CASE amount = 0
  <2>1. next = ld
    BY <1>2 DEF L!CreditOrSend
  <2> HIDE DEF next
  <2> QED BY <1>1, <1>2, <2>1 DEF next
<1>3. CASE amount # 0 /\ accepts /\ amount <= ld.balance
  <2>1. next = [balance |-> ld.balance - amount, pendingWithdrawals |-> w]
    BY <1>1, <1>3 DEF L!CreditOrSend
  <2> HIDE DEF next
  <2>2. next.balance = ld.balance - amount /\ next.pendingWithdrawals = w
    BY <2>1
  <2>3. Surplus(next) = Surplus(ld) - amount
    BY <1>1, <2>2 DEF Surplus
  <2> QED BY <2>3 DEF next
<1>4. CASE amount # 0 /\ ~(accepts /\ amount <= ld.balance)
  <2> DEFINE credited == [w EXCEPT ![to] = w[to] + amount]
  <2>1. next = [balance |-> ld.balance, pendingWithdrawals |-> credited]
    BY <1>1, <1>4 DEF L!CreditOrSend
  <2> HIDE DEF next
  <2>2. w[to] \in Nat /\ w[to] + amount \in Nat
    BY <1>1
  <2>3. SumFunction(credited) = (SumFunction(w) - w[to]) + (w[to] + amount)
    BY <1>1, <2>2, SumChange, ChannelAssumption
  <2> HIDE DEF credited
  <2>4. next.balance = ld.balance /\ next.pendingWithdrawals = credited
    BY <2>1
  <2>5. Surplus(next) = Surplus(ld) - amount
    BY <1>1, <2>2, <2>3, <2>4 DEF Surplus
  <2> QED BY <2>5 DEF next
<1> QED BY <1>2, <1>3, <1>4

\* What is owed to a channel is a natural number.
LEMMA OwedType ==
    ASSUME IInv
    PROVE  OwedTyped
<1>1. ASSUME NEW id \in ChannelId
      PROVE  deposited[id] - (paid[id].A + paid[id].B) \in Nat
  <2>1. /\ PaysExactly(id) /\ deposited[id] \in Nat
        /\ paid[id].A \in Nat /\ paid[id].B \in Nat
    BY DEF IInv, Safe, TypeOK
  <2>2. CASE channels[id].status = "CLOSED"
    BY <2>1, <2>2 DEF PaysExactly
  <2>3. CASE channels[id].status # "CLOSED"
    BY <2>1, <2>3 DEF PaysExactly
  <2> QED BY <2>2, <2>3
<1> QED BY <1>1 DEF OwedTyped, Owed

\* There are finitely many channels to sum over.
LEMMA FiniteIds == IsFiniteSet(ChannelId)
BY ChannelAssumption, FS_Interval DEF ChannelId

\* A deposit enters the balance and the books of its channel alike.
LEMMA DepositBalances ==
    ASSUME IInv, OwedTyped, OwedTyped', Balanced, NEW id \in ChannelId, NEW value \in Nat,
           ledger' = L!Receive(ledger, value), paid' = paid,
           deposited' = [deposited EXCEPT ![id] = @ + value]
    PROVE  Balanced'
<1>1. /\ Owed \in [ChannelId -> Nat] /\ Owed' \in [ChannelId -> Nat]
  BY DEF OwedTyped
<1> DEFINE v == Owed'[id]
<1>2. v \in Nat
  BY <1>1
<1>3. v = Owed[id] + value
  <2>1. /\ deposited'[id] = deposited[id] + value /\ paid'[id] = paid[id]
        /\ deposited[id] \in Nat /\ paid[id].A \in Nat /\ paid[id].B \in Nat
    BY DEF IInv, TypeOK
  <2> QED BY <2>1 DEF Owed
<1>4. Owed' = [Owed EXCEPT ![id] = v]
  <2>1. \A j \in ChannelId \ {id} : Owed'[j] = Owed[j]
    BY DEF Owed, IInv, TypeOK
  <2> HIDE DEF Owed
  <2> QED BY <1>1, <2>1
<1> HIDE DEF v
<1>5. SumFunction([Owed EXCEPT ![id] = v]) = (SumFunction(Owed) - Owed[id]) + v
  <2>1. Owed \in [ChannelId -> Nat]
    BY <1>1
  <2> HIDE DEF Owed
  <2> QED BY <1>2, <2>1, FiniteIds, SumChange, Zenon
<1>6. SumFunction(Owed) \in Nat /\ Owed[id] \in Nat
  BY <1>1, SumType, FiniteIds
<1>7. Surplus(ledger') = Surplus(ledger) + value
  <2>1. /\ ledger.balance \in Nat /\ SumFunction(ledger.pendingWithdrawals) \in Nat
        /\ ledger = [balance |-> ledger.balance,
                     pendingWithdrawals |-> ledger.pendingWithdrawals]
    BY LedgerFields DEF IInv, TypeOK
  <2>2. /\ ledger'.balance = ledger.balance + value
        /\ ledger'.pendingWithdrawals = ledger.pendingWithdrawals
    BY <2>1 DEF L!Receive
  <2> QED BY <2>1, <2>2 DEF Surplus
<1>8. Surplus(ledger') = SumFunction(Owed')
  BY <1>2, <1>3, <1>4, <1>5, <1>6, <1>7 DEF Balanced
<1> QED BY <1>8 DEF Balanced

\* A payout leaves the balance, or becomes credits, as much as it settles.
LEMMA PayoutBalances ==
    ASSUME IInv, OwedTyped, OwedTyped', Balanced, NEW id \in ChannelId, NEW payA \in Nat, NEW payB \in Nat,
           channels[id].partyA \in Party, channels[id].partyB \in Party,
           Payout(id, payA, payB), deposited' = deposited
    PROVE  Balanced'
<1>1. /\ Owed \in [ChannelId -> Nat] /\ Owed' \in [ChannelId -> Nat]
  BY DEF OwedTyped
<1> DEFINE v == Owed'[id]
<1>2. v \in Nat
  BY <1>1
<1>3. v = (Owed[id] - payA) - payB
  <2>1. /\ deposited[id] \in Nat /\ paid[id].A \in Nat /\ paid[id].B \in Nat
        /\ paid'[id] = [A |-> paid[id].A + payA, B |-> paid[id].B + payB]
    BY DEF IInv, TypeOK, Payout
  <2>2. paid'[id].A = paid[id].A + payA /\ paid'[id].B = paid[id].B + payB
    BY <2>1
  <2> QED BY <2>1, <2>2 DEF Owed
<1>4. Owed' = [Owed EXCEPT ![id] = v]
  <2>1. \A j \in ChannelId \ {id} : Owed'[j] = Owed[j]
    BY DEF Owed, IInv, TypeOK, Payout
  <2> HIDE DEF Owed
  <2> QED BY <1>1, <2>1
<1> HIDE DEF v
<1>5. SumFunction([Owed EXCEPT ![id] = v]) = (SumFunction(Owed) - Owed[id]) + v
  <2>1. Owed \in [ChannelId -> Nat]
    BY <1>1
  <2> HIDE DEF Owed
  <2> QED BY <1>2, <2>1, FiniteIds, SumChange, Zenon
<1>6. SumFunction(Owed) \in Nat /\ Owed[id] \in Nat
  BY <1>1, SumType, FiniteIds
<1>7. Surplus(ledger') = (Surplus(ledger) - payA) - payB
  <2>1. PICK acceptsA \in BOOLEAN, acceptsB \in BOOLEAN :
          ledger' = L!CreditOrSend(
                      L!CreditOrSend(ledger, channels[id].partyA, payA, acceptsA),
                      channels[id].partyB, payB, acceptsB)
    BY DEF Payout
  <2> DEFINE one == L!CreditOrSend(ledger, channels[id].partyA, payA, acceptsA)
  <2>2. one \in L!Ledger /\ Surplus(one) = Surplus(ledger) - payA
    BY CreditOrSendType, PushCosts DEF IInv, TypeOK
  <2> HIDE DEF one
  <2>3. Surplus(L!CreditOrSend(one, channels[id].partyB, payB, acceptsB))
          = Surplus(one) - payB
    BY <2>2, PushCosts
  <2> QED BY <2>1, <2>2, <2>3 DEF one
<1>8. Surplus(ledger) \in Int
  BY LedgerFields DEF IInv, TypeOK
<1>9. Surplus(ledger') = SumFunction(Owed')
  BY <1>2, <1>3, <1>4, <1>5, <1>6, <1>7, <1>8 DEF Balanced
<1> QED BY <1>9 DEF Balanced

\* The amounts that the closing functions pay out, and to whom.
LEMMA PayoutsAreTyped ==
    ASSUME IInv, NEW sender \in Party, NEW id \in ChannelId,
           \/ CancelUnjoined(sender, id)
           \/ \E st \in RawUpdates : CloseCooperative(sender, id, st)
           \/ Settling(sender, id)
    PROVE  /\ deposited' = deposited
           /\ channels[id].partyA \in Party /\ channels[id].partyB \in Party
           /\ \E payA, payB \in Nat : Payout(id, payA, payB)
<1> DEFINE ch == channels[id]
<1>1. /\ ch \in Channel /\ ch.depositA \in Nat /\ ch.balanceA \in Nat /\ ch.balanceB \in Nat
      /\ Booked(id)
  BY DEF IInv, TypeOK, Channel, Safe
<1>2. CASE CancelUnjoined(sender, id)
  <2>1. Payout(id, ch.depositA, 0) /\ sender = ch.partyA /\ deposited' = deposited
    BY <1>2 DEF CancelUnjoined
  <2> QED BY <1>1, <2>1, PartiesAreAccounts
<1>3. ASSUME NEW st \in RawUpdates, CloseCooperative(sender, id, st)
      PROVE  /\ deposited' = deposited
             /\ ch.partyA \in Party /\ ch.partyB \in Party
             /\ \E payA, payB \in Nat : Payout(id, payA, payB)
  <2>1. /\ Payout(id, st.balanceA, st.balanceB) /\ OnlyParty(sender, id)
        /\ deposited' = deposited
    BY <1>3 DEF CloseCooperative
  <2>2. st.balanceA \in Nat /\ st.balanceB \in Nat
    BY ChannelAssumption DEF ChannelState
  <2> QED BY <1>1, <2>1, <2>2, PartiesAreAccounts DEF OnlyParty
<1>4. CASE Withdraw(sender, id)
  <2>1. Payout(id, ch.balanceA, ch.balanceB) /\ OnlyParty(sender, id) /\ deposited' = deposited
    BY <1>4 DEF Withdraw
  <2> QED BY <1>1, <2>1, PartiesAreAccounts DEF OnlyParty
<1>5. CASE WithdrawWithOpening(sender, id)
  <2> DEFINE opening == ch.balanceCommitment
  <2>1. /\ Payout(id, opening.balanceA, opening.balanceB) /\ OnlyParty(sender, id)
        /\ ch.balancesCommitted /\ deposited' = deposited
    BY <1>5 DEF WithdrawWithOpening
  <2>2. opening \in Commitment
    BY <1>1, <2>1 DEF IInv, Safe, CommitmentInWindow, Channel
  <2>3. opening.balanceA \in Nat /\ opening.balanceB \in Nat
    BY <2>2 DEF Commitment
  <2> QED BY <1>1, <2>1, <2>3, PartiesAreAccounts DEF OnlyParty
<1> QED BY <1>2, <1>3, <1>4, <1>5 DEF Settling

LEMMA BalancedStep ==
    ASSUME IInv, OwedTyped, OwedTyped', Balanced, [Next]_vars
    PROVE  Balanced'
<1> USE ChannelAssumption
<1>1. ASSUME NEW sender \in Party, NEW partyB \in Party, NEW value \in Deposits,
             NEW key \in Party \cup {NoKey}, Open(sender, partyB, value, key)
      PROVE  Balanced'
  <2>1. nextChannelId \in ChannelId /\ value \in Nat
    BY <1>1 DEF Open, IInv, TypeOK, ChannelId
  <2> QED BY <1>1, <2>1, DepositBalances DEF Open
<1>2. ASSUME NEW sender \in Party, NEW id \in ChannelId, NEW value \in Deposits,
             NEW key \in {NoKey, sender}, Join(sender, id, value, key)
      PROVE  Balanced'
  BY <1>2, DepositBalances DEF Join
<1>3. ASSUME NEW sender \in Party, NEW id \in ChannelId,
             \/ CancelUnjoined(sender, id)
             \/ \E st \in RawUpdates : CloseCooperative(sender, id, st)
             \/ Settling(sender, id)
      PROVE  Balanced'
  BY <1>3, PayoutsAreTyped, PayoutBalances
<1>4. ASSUME UNCHANGED <<ledger, deposited, paid>>
      PROVE  Balanced'
  BY <1>4 DEF Balanced, Owed
<1>5. ASSUME NEW sender \in Party, NEW id \in ChannelId, Closing(sender, id)
      PROVE  Balanced'
  BY <1>3, <1>4, <1>5 DEF Closing, CloseUnilateral, CloseWithProof,
     CloseWithRemoteAttestation, PostRevealed, PostCommitment
<1>6. ASSUME NEW id \in ChannelId, Dispute(id) \/ Signing(id)
      PROVE  Balanced'
  BY <1>4, <1>6 DEF Dispute, Challenge, Challengeable, ChallengeWithProof, PostRevealed, PostCommitment,
     Signing, CoSign, CoSignEdDSA, contractVars, historyVars
<1>7. ASSUME NEW id \in ChannelId, NEW st \in Attestable, AttestRemote(id, st)
      PROVE  Balanced'
  BY <1>4, <1>7 DEF AttestRemote, contractVars
<1>8. ASSUME NEW sender \in Party, Claim(sender)
      PROVE  Balanced'
  <2> DEFINE w == ledger.pendingWithdrawals
             cleared == [w EXCEPT ![sender] = 0]
  <2>1. /\ ledger.balance \in Nat /\ w \in [Party -> Nat] /\ SumFunction(w) \in Nat
        /\ w[sender] \in Nat
    BY LedgerFields DEF IInv, TypeOK
  <2>2. /\ ledger' = [balance |-> ledger.balance - w[sender], pendingWithdrawals |-> cleared]
        /\ UNCHANGED <<deposited, paid>>
    BY <1>8 DEF Claim, L!Claimed, historyVars
  <2>3. SumFunction(cleared) = SumFunction(w) - w[sender]
    BY <2>1, SumClear
  <2> HIDE DEF cleared
  <2>4. ledger'.balance = ledger.balance - w[sender] /\ ledger'.pendingWithdrawals = cleared
    BY <2>2
  <2>5. Surplus(ledger') = Surplus(ledger)
    BY <2>1, <2>3, <2>4 DEF Surplus
  <2>6. Owed' = Owed
    BY <2>2 DEF Owed
  <2> QED BY <2>5, <2>6 DEF Balanced
<1>9. CASE Tick \/ UNCHANGED vars
  BY <1>4, <1>9 DEF Tick, vars, contractVars, historyVars
<1> QED BY <1>1, <1>2, <1>3, <1>5, <1>6, <1>7, <1>8, <1>9 DEF Next, Funding

\* The contract always holds exactly what it still owes: the escrow of every
\* channel that is not settled and every credit nobody has claimed.
THEOREM Solvent == Spec => []Solvency
<1>1. Init => Balanced
  <2> SUFFICES ASSUME Init PROVE Balanced
    OBVIOUS
  <2> USE ChannelAssumption DEF Init
  <2>1. SumFunction([p \in Party |-> 0]) = 0 /\ SumFunction([id \in ChannelId |-> 0]) = 0
    BY SumOfZeros, FiniteIds
  <2>2. Owed = [id \in ChannelId |-> 0]
    BY DEF Owed
  <2>3. ledger.balance = 0 /\ ledger.pendingWithdrawals = [p \in Party |-> 0]
    BY DEF L!EmptyLedger
  <2> QED BY <2>1, <2>2, <2>3 DEF Balanced, Surplus
<1>2. IInv => OwedTyped
  BY OwedType
<1>3. IInv /\ OwedTyped /\ OwedTyped' /\ Balanced /\ [Next]_vars => Balanced'
  BY BalancedStep
<1>4. IInv /\ OwedTyped /\ Balanced => Solvency
  <2> SUFFICES ASSUME IInv, OwedTyped, Balanced PROVE Solvency
    OBVIOUS
  <2>1. ledger.balance \in Nat /\ SumFunction(ledger.pendingWithdrawals) \in Nat
    BY LedgerFields DEF IInv, TypeOK
  <2>2. SumFunction(Owed) \in Nat
    BY SumType, FiniteIds DEF OwedTyped
  <2>3. ledger.balance = SumFunction(Owed) + SumFunction(ledger.pendingWithdrawals)
    BY <2>1, <2>2 DEF Balanced, Surplus
  <2> QED BY <2>3 DEF Solvency, Owed
<1> QED BY <1>1, <1>2, <1>3, <1>4, Invariance, PTL DEF Spec

\* Whatever a channel still owes and whatever was credited can be paid: neither a
\* push nor a claim ever fails for want of funds.
Affordable ==
    /\ \A id \in ChannelId : deposited[id] - (paid[id].A + paid[id].B) <= ledger.balance
    /\ \A p \in Party : ledger.pendingWithdrawals[p] <= ledger.balance

\* No transfer ever fails for want of funds.
THEOREM AlwaysFunded == Spec => []Affordable
<1>1. IInv /\ Solvency => Affordable
  <2> SUFFICES ASSUME IInv, Solvency PROVE Affordable
    OBVIOUS
  <2> DEFINE credits == ledger.pendingWithdrawals
  <2>1. /\ ledger.balance \in Nat /\ credits \in [Party -> Nat]
        /\ SumFunction(credits) \in Nat
    BY LedgerFields DEF IInv, TypeOK
  <2>6. Owed \in [ChannelId -> Nat] /\ IsFiniteSet(ChannelId) /\ IsFiniteSet(Party)
    BY OwedType, FiniteIds, ChannelAssumption DEF OwedTyped
  <2>2. ledger.balance = SumFunction(Owed) + SumFunction(credits)
    BY DEF Solvency, Owed
  <2>3. \A id \in ChannelId : Owed[id] = deposited[id] - (paid[id].A + paid[id].B)
    BY DEF Owed
  <2> HIDE DEF Owed, credits
  <2>4. /\ SumFunction(Owed) \in Nat
        /\ \A id \in ChannelId : Owed[id] \in Nat /\ Owed[id] <= SumFunction(Owed)
        /\ \A p \in Party : credits[p] \in Nat /\ credits[p] <= SumFunction(credits)
    BY <2>1, <2>6, SumType, SumClear
  <2>5. /\ \A id \in ChannelId : Owed[id] <= ledger.balance
        /\ \A p \in Party : credits[p] <= ledger.balance
    BY <2>1, <2>2, <2>4
  <2> QED BY <2>3, <2>5 DEF Affordable, credits
<1> QED BY <1>1, Invariance, Solvent, PTL

----------------------------------------------------------------------------
(* What one transaction may do to one channel *)

\* No window is longer than one period from now.
WindowBounded ==
    \A id \in ChannelId : channels[id].challengeExpiry <= now + CHALLENGE_PERIOD

\* The ways one step can touch channel j.
Untouched(j) == channels'[j] = channels[j] /\ paid'[j] = paid[j]

Funded(j) ==
    /\ channels[j].status = "UNINITIALIZED"
    /\ channels'[j].status # "CHALLENGE_PERIOD"
    /\ channels'[j].nonce = channels[j].nonce
    /\ channels'[j].challengeExpiry = channels[j].challengeExpiry
    /\ channels'[j].closedCooperatively = channels[j].closedCooperatively

\* From the first post on, nothing changes what the parties deposited.
DepositsKept(j) ==
    /\ channels'[j].depositA = channels[j].depositA
    /\ channels'[j].depositB = channels[j].depositB

Reposted(j) ==
    /\ \/ channels[j].status = "ACTIVE" /\ channels'[j].nonce >= channels[j].nonce
       \/ /\ channels[j].status = "CHALLENGE_PERIOD"
          /\ channels'[j].nonce > channels[j].nonce
          /\ now < channels[j].challengeExpiry
    /\ channels'[j].status = "CHALLENGE_PERIOD"
    /\ channels'[j].challengeExpiry = now + CHALLENGE_PERIOD
    /\ channels'[j].closedCooperatively = channels[j].closedCooperatively
    /\ DepositsKept(j)

Settled(j) ==
    /\ channels'[j].status = "CLOSED"
    /\ channels'[j].balanceA = 0 /\ channels'[j].balanceB = 0
    /\ DepositsKept(j)
    /\ channels'[j].challengeExpiry = channels[j].challengeExpiry
    /\ \/ /\ channels[j].status \in {"ACTIVE", "CHALLENGE_PERIOD"}
          /\ channels'[j].closedCooperatively
          /\ channels'[j].nonce >= channels[j].nonce
          /\ origin'[j] = "signed"
       \/ /\ channels[j].status = "CHALLENGE_PERIOD"
          /\ now >= channels[j].challengeExpiry
          /\ channels'[j].nonce = channels[j].nonce

OneOf(j) == Untouched(j) \/ Funded(j) \/ Reposted(j) \/ Settled(j)

\* A transaction on one channel leaves the structs of all others as they were.
LEMMA OthersUntouched ==
    ASSUME TypeOK, NEW id \in ChannelId, NEW new, Update(id, new),
           NEW j \in ChannelId, j # id
    PROVE  channels'[j] = channels[j]
BY DEF Update, TypeOK

LEMMA OthersUnpaid ==
    ASSUME TypeOK, NEW id \in ChannelId, NEW payA, NEW payB, Payout(id, payA, payB),
           NEW j \in ChannelId, j # id
    PROVE  paid'[j] = paid[j]
BY DEF Payout, TypeOK

LEMMA OpenStep ==
    ASSUME IInv, NEW sender \in Party, NEW partyB \in Party, NEW value \in Deposits,
           NEW key \in Party \cup {NoKey}, Open(sender, partyB, value, key),
           NEW j \in ChannelId
    PROVE  OneOf(j)
<1> USE ChannelAssumption
<1>. PICK id \in ChannelId : id = nextChannelId
  BY DEF Open, IInv, TypeOK, ChannelId
<1> DEFINE new == [channels[id] EXCEPT !.partyA = sender, !.partyB = partyB,
                     !.depositA = value, !.status = "UNINITIALIZED",
                     !.balanceA = value, !.pubKeyA = key]
<1>1. Update(id, new) /\ paid' = paid /\ ~(id < nextChannelId)
  BY DEF Open, ChannelId
<1>2. channels[id] = UnopenedChannel
  BY <1>1 DEF IInv, Safe, Booked
<1>3. /\ channels[id].status = "UNINITIALIZED"
      /\ new.status = "UNINITIALIZED" /\ new.nonce = channels[id].nonce
      /\ new.challengeExpiry = channels[id].challengeExpiry
      /\ new.closedCooperatively = channels[id].closedCooperatively
  BY <1>2 DEF UnopenedChannel
<1>4. channels'[id] = new
  BY <1>1 DEF Update, IInv, TypeOK
<1> HIDE DEF new
<1>5. CASE j = id
  BY <1>3, <1>4, <1>5 DEF OneOf, Funded
<1>6. CASE j # id
  BY <1>1, <1>6, OthersUntouched DEF OneOf, Untouched, IInv
<1> QED BY <1>5, <1>6

LEMMA FundingStep ==
    ASSUME IInv, NEW sender \in Party, NEW id \in ChannelId, Funding(sender, id),
           NEW j \in ChannelId
    PROVE  OneOf(j)
<1> DEFINE ch == channels[id]
<1>1. ch \in Channel /\ ch.nonce \in Nat /\ ch.nonce >= ch.nonce
  BY DEF IInv, TypeOK, Channel
<1>2. ASSUME NEW value \in Deposits, NEW key \in {NoKey, sender}, Join(sender, id, value, key)
      PROVE  OneOf(j)
  <2> DEFINE new == [ch EXCEPT !.depositB = value, !.balanceB = value,
                       !.status = "ACTIVE", !.pubKeyB = key]
  <2>1. Update(id, new) /\ paid' = paid /\ ch.status = "UNINITIALIZED"
    BY <1>2 DEF Join
  <2>2. /\ channels'[id] = new /\ new.status = "ACTIVE" /\ new.nonce = ch.nonce
        /\ new.challengeExpiry = ch.challengeExpiry
        /\ new.closedCooperatively = ch.closedCooperatively
    BY <1>1, <2>1 DEF Update, IInv, TypeOK, Channel
  <2>3. CASE j = id
    BY <2>1, <2>2, <2>3 DEF OneOf, Funded
  <2>4. CASE j # id
    BY <2>1, <2>4, OthersUntouched DEF OneOf, Untouched, IInv
  <2> QED BY <2>3, <2>4
<1>3. CASE CancelUnjoined(sender, id)
  <2> DEFINE new == [ch EXCEPT !.balanceA = 0, !.depositA = 0, !.status = "CLOSED"]
  <2>1. Update(id, new) /\ Payout(id, ch.depositA, 0) /\ ch.status = "UNINITIALIZED"
    BY <1>3 DEF CancelUnjoined
  <2>2. /\ channels'[id] = new /\ new.status = "CLOSED" /\ new.nonce = ch.nonce
        /\ new.challengeExpiry = ch.challengeExpiry
        /\ new.closedCooperatively = ch.closedCooperatively
    BY <1>1, <2>1 DEF Update, IInv, TypeOK, Channel
  <2>3. CASE j = id
    BY <2>1, <2>2, <2>3 DEF OneOf, Funded
  <2>4. CASE j # id
    BY <2>1, <2>4, OthersUntouched, OthersUnpaid DEF OneOf, Untouched, IInv
  <2> QED BY <2>3, <2>4
<1> QED BY <1>2, <1>3 DEF Funding

LEMMA CooperativeStep ==
    ASSUME IInv, NEW sender \in Party, NEW id \in ChannelId, NEW st \in RawUpdates,
           CloseCooperative(sender, id, st), NEW j \in ChannelId
    PROVE  OneOf(j)
<1> DEFINE ch == channels[id]
           new == [ch EXCEPT !.balanceA = 0, !.balanceB = 0, !.nonce = st.nonce,
                     !.balancesCommitted = FALSE, !.closedCooperatively = TRUE,
                     !.status = "CLOSED"]
<1>1. /\ ch.status \in {"ACTIVE", "CHALLENGE_PERIOD"} /\ st.nonce >= ch.nonce
      /\ Update(id, new) /\ Payout(id, st.balanceA, st.balanceB)
  BY DEF CloseCooperative, VerifyBothSignatures
<1>2. /\ channels'[id] = new /\ new.status = "CLOSED" /\ new.nonce = st.nonce
      /\ new.challengeExpiry = ch.challengeExpiry /\ new.closedCooperatively
      /\ new.balanceA = 0 /\ new.balanceB = 0
      /\ new.depositA = ch.depositA /\ new.depositB = ch.depositB
  BY <1>1 DEF Update, IInv, TypeOK, Channel
<1>3. origin'[id] = "signed"
  BY DEF CloseCooperative, IInv, TypeOK
<1> HIDE DEF new
<1>4. CASE j = id
  BY <1>1, <1>2, <1>4, <1>3 DEF OneOf, Settled, DepositsKept
<1>5. CASE j # id
  BY <1>1, <1>5, OthersUntouched, OthersUnpaid DEF OneOf, Untouched, IInv
<1> QED BY <1>4, <1>5

LEMMA RevealedStep ==
    ASSUME IInv, NEW id \in ChannelId, NEW st, NEW evidence, PostRevealed(id, st, evidence),
           \/ channels[id].status = "ACTIVE" /\ st.nonce >= channels[id].nonce
           \/ /\ channels[id].status = "CHALLENGE_PERIOD"
              /\ st.nonce > channels[id].nonce /\ now < channels[id].challengeExpiry,
           NEW j \in ChannelId
    PROVE  OneOf(j)
<1> DEFINE ch == channels[id]
           new == [ch EXCEPT !.balanceA = st.balanceA, !.balanceB = st.balanceB,
                     !.nonce = st.nonce, !.balancesCommitted = FALSE,
                     !.status = "CHALLENGE_PERIOD",
                     !.challengeExpiry = now + CHALLENGE_PERIOD]
<1>1. Update(id, new) /\ paid' = paid
  BY DEF PostRevealed
<1>2. /\ channels'[id] = new /\ new.nonce = st.nonce /\ new.status = "CHALLENGE_PERIOD"
      /\ new.challengeExpiry = now + CHALLENGE_PERIOD
      /\ new.closedCooperatively = ch.closedCooperatively
      /\ new.depositA = ch.depositA /\ new.depositB = ch.depositB
  BY <1>1 DEF Update, IInv, TypeOK, Channel
<1> HIDE DEF new
<1>3. CASE j = id
  BY <1>2, <1>3 DEF OneOf, Reposted, DepositsKept
<1>4. CASE j # id
  BY <1>1, <1>4, OthersUntouched DEF OneOf, Untouched, IInv
<1> QED BY <1>3, <1>4

LEMMA CommittedStep ==
    ASSUME IInv, NEW id \in ChannelId, NEW sender, NEW end, PostCommitment(sender, id, end),
           \/ channels[id].status = "ACTIVE" /\ end.nonce >= channels[id].nonce
           \/ /\ channels[id].status = "CHALLENGE_PERIOD"
              /\ end.nonce > channels[id].nonce /\ now < channels[id].challengeExpiry,
           NEW j \in ChannelId
    PROVE  OneOf(j)
<1> DEFINE ch == channels[id]
<1>1. PICK blinding \in {Public, sender} :
        Update(id, [ch EXCEPT
                      !.balanceCommitment = Poseidon(end.balanceA, end.balanceB, blinding),
                      !.balancesCommitted = TRUE, !.nonce = end.nonce,
                      !.status = "CHALLENGE_PERIOD",
                      !.challengeExpiry = now + CHALLENGE_PERIOD])
  BY DEF PostCommitment
<1> DEFINE new == [ch EXCEPT
                     !.balanceCommitment = Poseidon(end.balanceA, end.balanceB, blinding),
                     !.balancesCommitted = TRUE, !.nonce = end.nonce,
                     !.status = "CHALLENGE_PERIOD",
                     !.challengeExpiry = now + CHALLENGE_PERIOD]
<1>2. Update(id, new) /\ paid' = paid
  BY <1>1 DEF PostCommitment
<1>3. /\ channels'[id] = new /\ new.nonce = end.nonce /\ new.status = "CHALLENGE_PERIOD"
      /\ new.challengeExpiry = now + CHALLENGE_PERIOD
      /\ new.closedCooperatively = ch.closedCooperatively
      /\ new.depositA = ch.depositA /\ new.depositB = ch.depositB
  BY <1>2 DEF Update, IInv, TypeOK, Channel
<1> HIDE DEF new
<1>4. CASE j = id
  BY <1>3, <1>4 DEF OneOf, Reposted, DepositsKept
<1>5. CASE j # id
  BY <1>2, <1>5, OthersUntouched DEF OneOf, Untouched, IInv
<1> QED BY <1>4, <1>5

LEMMA SettlingStep ==
    ASSUME IInv, NEW sender \in Party, NEW id \in ChannelId, Settling(sender, id),
           NEW j \in ChannelId
    PROVE  OneOf(j)
<1> DEFINE ch == channels[id]
<1>1. ch \in Channel /\ ch.nonce \in Nat /\ ch.nonce >= ch.nonce
  BY DEF IInv, TypeOK, Channel
<1>2. ASSUME NEW new, NEW payA, NEW payB, Update(id, new), Payout(id, payA, payB),
             ch.status = "CHALLENGE_PERIOD", now >= ch.challengeExpiry,
             new.status = "CLOSED", new.nonce = ch.nonce,
             new.challengeExpiry = ch.challengeExpiry,
             new.balanceA = 0, new.balanceB = 0,
             new.depositA = ch.depositA, new.depositB = ch.depositB
      PROVE  OneOf(j)
  <2>1. channels'[id] = new
    BY <1>2 DEF Update, IInv, TypeOK
  <2>2. CASE j = id
    BY <1>1, <1>2, <2>1, <2>2 DEF OneOf, Settled, DepositsKept
  <2>3. CASE j # id
    BY <1>2, <2>3, OthersUntouched, OthersUnpaid DEF OneOf, Untouched, IInv
  <2> QED BY <2>2, <2>3
<1>3. CASE Withdraw(sender, id)
  <2> DEFINE new == [ch EXCEPT !.status = "CLOSED", !.balanceA = 0, !.balanceB = 0]
  <2>1. /\ Update(id, new) /\ Payout(id, ch.balanceA, ch.balanceB)
        /\ ch.status = "CHALLENGE_PERIOD" /\ now >= ch.challengeExpiry
    BY <1>3 DEF Withdraw
  <2>2. /\ new.status = "CLOSED" /\ new.nonce = ch.nonce
        /\ new.challengeExpiry = ch.challengeExpiry
        /\ new.balanceA = 0 /\ new.balanceB = 0
        /\ new.depositA = ch.depositA /\ new.depositB = ch.depositB
    BY <1>1 DEF Channel
  <2> HIDE DEF new
  <2> QED BY <1>2, <2>1, <2>2
<1>4. CASE WithdrawWithOpening(sender, id)
  <2> DEFINE new == [ch EXCEPT !.balancesCommitted = FALSE, !.status = "CLOSED",
                       !.balanceA = 0, !.balanceB = 0]
  <2>1. /\ Update(id, new)
        /\ Payout(id, ch.balanceCommitment.balanceA, ch.balanceCommitment.balanceB)
        /\ ch.status = "CHALLENGE_PERIOD" /\ now >= ch.challengeExpiry
    BY <1>4 DEF WithdrawWithOpening
  <2>2. /\ new.status = "CLOSED" /\ new.nonce = ch.nonce
        /\ new.challengeExpiry = ch.challengeExpiry
        /\ new.balanceA = 0 /\ new.balanceB = 0
        /\ new.depositA = ch.depositA /\ new.depositB = ch.depositB
    BY <1>1 DEF Channel
  <2> HIDE DEF new
  <2> QED BY <1>2, <2>1, <2>2
<1> QED BY <1>3, <1>4 DEF Settling

\* Every step does at most one of the four things to a given channel.
LEMMA ChannelStep ==
    ASSUME IInv, [Next]_vars, NEW j \in ChannelId
    PROVE  OneOf(j)
<1>1. ASSUME NEW sender \in Party, NEW id \in ChannelId, Closing(sender, id)
      PROVE  OneOf(j)
  <2>1. ASSUME NEW st \in RawUpdates, CloseUnilateral(sender, id, st)
        PROVE  OneOf(j)
    BY <2>1, RevealedStep DEF CloseUnilateral, VerifyBothSignatures
  <2>2. ASSUME NEW end \in ProofUpdates, CloseWithProof(sender, id, end)
        PROVE  OneOf(j)
    BY <2>2, CommittedStep DEF CloseWithProof
  <2>3. ASSUME NEW st \in Attestable, CloseWithRemoteAttestation(sender, id, st)
        PROVE  OneOf(j)
    BY <2>3, RevealedStep DEF CloseWithRemoteAttestation
  <2> QED BY <1>1, <2>1, <2>2, <2>3, CooperativeStep DEF Closing
<1>2. ASSUME NEW id \in ChannelId, Dispute(id)
      PROVE  OneOf(j)
  <2>1. ASSUME NEW st \in RawUpdates, Challenge(id, st)
        PROVE  OneOf(j)
    BY <2>1, RevealedStep DEF Challenge, Challengeable
  <2>2. ASSUME NEW sender \in Party, NEW end \in ProofUpdates,
               ChallengeWithProof(sender, id, end)
        PROVE  OneOf(j)
    BY <2>2, CommittedStep DEF ChallengeWithProof
  <2> QED BY <1>2, <2>1, <2>2 DEF Dispute
<1>3. ASSUME UNCHANGED <<channels, paid>>
      PROVE  OneOf(j)
  BY <1>3 DEF OneOf, Untouched
<1>4. ASSUME NEW id \in ChannelId, Signing(id)
      PROVE  OneOf(j)
  BY <1>3, <1>4 DEF Signing, CoSign, CoSignEdDSA, contractVars, historyVars
<1>5. ASSUME NEW id \in ChannelId, NEW st \in Attestable, AttestRemote(id, st)
      PROVE  OneOf(j)
  BY <1>3, <1>5 DEF AttestRemote, contractVars
<1>6. ASSUME NEW sender \in Party, Claim(sender)
      PROVE  OneOf(j)
  BY <1>3, <1>6 DEF Claim, historyVars
<1>7. CASE Tick \/ UNCHANGED vars
  BY <1>3, <1>7 DEF Tick, vars, contractVars, historyVars
<1> QED BY <1>1, <1>2, <1>4, <1>5, <1>6, <1>7, OpenStep, FundingStep, SettlingStep DEF Next

\* The clock never runs backwards.
LEMMA ClockStep ==
    ASSUME IInv, [Next]_vars
    PROVE  now' >= now
<1> DEFINE Forward == now' >= now
<1>1. now \in Nat
  BY DEF IInv, TypeOK
<1>2. ASSUME now' = now
      PROVE  Forward
  BY <1>1, <1>2
<1>3. ASSUME Tick
      PROVE  Forward
  BY <1>1, <1>3 DEF Tick
<1> HIDE DEF Forward
<1>4. ASSUME NEW sender \in Party, NEW id \in ChannelId, Funding(sender, id)
      PROVE  Forward
  BY <1>2, <1>4 DEF Funding, Join, CancelUnjoined
<1>5. ASSUME NEW sender \in Party, NEW id \in ChannelId, Closing(sender, id)
      PROVE  Forward
  BY <1>2, <1>5 DEF Closing, CloseCooperative, CloseUnilateral, CloseWithProof,
     CloseWithRemoteAttestation, PostRevealed, PostCommitment
<1>6. ASSUME NEW sender \in Party, NEW id \in ChannelId, Settling(sender, id)
      PROVE  Forward
  BY <1>2, <1>6 DEF Settling, Withdraw, WithdrawWithOpening
<1>7. ASSUME NEW id \in ChannelId, Dispute(id) \/ Signing(id)
      PROVE  Forward
  BY <1>2, <1>7 DEF Dispute, Challenge, Challengeable, ChallengeWithProof, PostRevealed,
     PostCommitment, Signing, CoSign, CoSignEdDSA
<1>8. ASSUME NEW sender \in Party, NEW partyB \in Party, NEW value \in Deposits,
             NEW key \in Party \cup {NoKey}, Open(sender, partyB, value, key)
      PROVE  Forward
  BY <1>2, <1>8 DEF Open
<1>9. ASSUME NEW id \in ChannelId, NEW st \in Attestable, AttestRemote(id, st)
      PROVE  Forward
  BY <1>2, <1>9 DEF AttestRemote
<1>10. ASSUME NEW sender \in Party, Claim(sender)
       PROVE  Forward
  BY <1>2, <1>10 DEF Claim
<1>11. ASSUME UNCHANGED vars
       PROVE  Forward
  BY <1>2, <1>11 DEF vars
<1>12. Forward
  BY <1>3, <1>4, <1>5, <1>6, <1>7, <1>8, <1>9, <1>10, <1>11 DEF Next
<1> QED BY <1>12 DEF Forward

\* No window ever ends more than a period ahead of the clock.
THEOREM BoundedWindows == Spec => []WindowBounded
<1>1. Init => WindowBounded
  BY ChannelAssumption DEF Init, WindowBounded, UnopenedChannel
<1>2. IInv /\ IInv' /\ WindowBounded /\ [Next]_vars => WindowBounded'
  <2> SUFFICES ASSUME IInv, IInv', WindowBounded, [Next]_vars, NEW j \in ChannelId
               PROVE  channels'[j].challengeExpiry <= now' + CHALLENGE_PERIOD
    BY DEF WindowBounded
  <2>1. /\ now \in Nat /\ now' \in Nat /\ now' >= now /\ CHALLENGE_PERIOD \in Nat
        /\ channels[j].challengeExpiry \in Nat
        /\ channels[j].challengeExpiry <= now + CHALLENGE_PERIOD
    BY ClockStep, ChannelAssumption DEF IInv, TypeOK, Channel, WindowBounded
  <2>2. \/ channels'[j].challengeExpiry = channels[j].challengeExpiry
        \/ channels'[j].challengeExpiry = now + CHALLENGE_PERIOD
    BY ChannelStep DEF OneOf, Untouched, Funded, Reposted, Settled
  <2> QED BY <2>1, <2>2
<1> QED BY <1>1, <1>2, Invariance, PTL DEF Spec

\* The posted nonce never falls, and what replaces a posted state is newer.
THEOREM RisingPosts == Spec => PostsOnlyRise
<1> DEFINE Rises == \A id \in ChannelId :
             LET old == channels[id]
                 new == channels'[id] IN
             /\ new.nonce >= old.nonce
             /\ (old.status = "CHALLENGE_PERIOD" /\ new.status = "CHALLENGE_PERIOD"
                    /\ new # old)
                  => /\ new.nonce > old.nonce
                     /\ now < old.challengeExpiry
                     /\ new.challengeExpiry >= old.challengeExpiry
<1>1. IInv /\ IInv' /\ WindowBounded /\ [Next]_vars => Rises
  <2> SUFFICES ASSUME IInv, IInv', WindowBounded, [Next]_vars, NEW id \in ChannelId
               PROVE  LET old == channels[id]
                          new == channels'[id] IN
                      /\ new.nonce >= old.nonce
                      /\ (old.status = "CHALLENGE_PERIOD"
                            /\ new.status = "CHALLENGE_PERIOD" /\ new # old)
                           => /\ new.nonce > old.nonce
                              /\ now < old.challengeExpiry
                              /\ new.challengeExpiry >= old.challengeExpiry
    OBVIOUS
  <2>1. /\ channels[id].nonce \in Nat /\ channels'[id].nonce \in Nat
        /\ channels[id].challengeExpiry \in Nat /\ now \in Nat
        /\ channels[id].challengeExpiry <= now + CHALLENGE_PERIOD
    BY DEF IInv, TypeOK, Channel, WindowBounded
  <2>2. CASE Untouched(id)
    BY <2>1, <2>2 DEF Untouched
  <2>3. CASE Funded(id)
    BY <2>1, <2>3 DEF Funded
  <2>4. CASE Reposted(id)
    BY <2>1, <2>4 DEF Reposted
  <2>5. CASE Settled(id)
    BY <2>1, <2>5 DEF Settled
  <2> QED BY <2>2, <2>3, <2>4, <2>5, ChannelStep DEF OneOf
<1> QED BY <1>1, Invariance, BoundedWindows, PTL DEF Spec, PostsOnlyRise

\* CLOSED is final.
THEOREM FinalClose == Spec => ClosedIsFinal
<1>1. IInv /\ [Next]_vars =>
        \A id \in ChannelId : channels[id].status = "CLOSED" =>
          channels'[id] = channels[id] /\ paid'[id] = paid[id]
  BY ChannelStep DEF OneOf, Untouched, Funded, Reposted, Settled
<1> QED BY <1>1, Invariance, PTL DEF Spec, ClosedIsFinal

----------------------------------------------------------------------------
(* A channel that is defended in time never settles on an older state. *)

\* No step moves the clock and a channel at once.
LEMMA ClockOrChannels ==
    ASSUME [Next]_vars
    PROVE  now' = now \/ channels' = channels
<1> DEFINE Apart == now' = now \/ channels' = channels
<1>1. ASSUME Tick \/ UNCHANGED vars
      PROVE  Apart
  BY <1>1 DEF Tick, vars, contractVars
<1>2. ASSUME NEW sender \in Party, NEW id \in ChannelId, Funding(sender, id)
      PROVE  Apart
  BY <1>2 DEF Funding, Join, CancelUnjoined
<1>3. ASSUME NEW sender \in Party, NEW id \in ChannelId, Closing(sender, id)
      PROVE  Apart
  BY <1>3 DEF Closing, CloseCooperative, CloseUnilateral, CloseWithProof,
     CloseWithRemoteAttestation, PostRevealed, PostCommitment
<1>4. ASSUME NEW sender \in Party, NEW id \in ChannelId, Settling(sender, id)
      PROVE  Apart
  BY <1>4 DEF Settling, Withdraw, WithdrawWithOpening
<1>5. ASSUME NEW id \in ChannelId, Dispute(id) \/ Signing(id)
      PROVE  Apart
  BY <1>5 DEF Dispute, Challenge, Challengeable, ChallengeWithProof, PostRevealed,
     PostCommitment, Signing, CoSign, CoSignEdDSA
<1>6. ASSUME NEW sender \in Party, NEW partyB \in Party, NEW value \in Deposits,
             NEW key \in Party \cup {NoKey}, Open(sender, partyB, value, key)
      PROVE  Apart
  BY <1>6 DEF Open
<1>7. ASSUME NEW id \in ChannelId, NEW st \in Attestable, AttestRemote(id, st)
      PROVE  Apart
  BY <1>7 DEF AttestRemote
<1>8. ASSUME NEW sender \in Party, Claim(sender)
      PROVE  Apart
  BY <1>8 DEF Claim
<1> HIDE DEF Apart
<1>9. Apart
  BY <1>1, <1>2, <1>3, <1>4, <1>5, <1>6, <1>7, <1>8 DEF Next
<1> QED BY <1>9 DEF Apart

\* Evidence is replaced by other evidence, and only while the channel is ACTIVE or
\* disputed.
LEMMA OriginStep ==
    ASSUME TypeOK, [Next]_vars, NEW j \in ChannelId
    PROVE  \/ origin'[j] = origin[j]
           \/ origin'[j] # "none" /\ channels[j].status \in {"ACTIVE", "CHALLENGE_PERIOD"}
<1> DEFINE Kept == \/ origin'[j] = origin[j]
                   \/ /\ origin'[j] # "none"
                      /\ channels[j].status \in {"ACTIVE", "CHALLENGE_PERIOD"}
<1>1. ASSUME origin' = origin
      PROVE  Kept
  BY <1>1
<1>2. ASSUME NEW id \in ChannelId, NEW evidence \in {"signed", "proof", "remote"},
             origin' = [origin EXCEPT ![id] = evidence],
             channels[id].status \in {"ACTIVE", "CHALLENGE_PERIOD"}
      PROVE  Kept
  <2>1. CASE id # j
    BY <1>2, <2>1 DEF TypeOK
  <2>2. CASE id = j
    BY <1>2, <2>2 DEF TypeOK
  <2> QED BY <2>1, <2>2
<1> HIDE DEF Kept
<1>3. ASSUME NEW sender \in Party, NEW id \in ChannelId, Funding(sender, id)
      PROVE  Kept
  BY <1>1, <1>3 DEF Funding, Join, CancelUnjoined
<1>4. ASSUME NEW sender \in Party, NEW id \in ChannelId, Closing(sender, id)
      PROVE  Kept
  BY <1>2, <1>4 DEF Closing, CloseCooperative, CloseUnilateral, CloseWithProof,
     CloseWithRemoteAttestation, PostRevealed, PostCommitment
<1>5. ASSUME NEW sender \in Party, NEW id \in ChannelId, Settling(sender, id)
      PROVE  Kept
  BY <1>1, <1>5 DEF Settling, Withdraw, WithdrawWithOpening
<1>6. ASSUME NEW id \in ChannelId, Dispute(id)
      PROVE  Kept
  BY <1>2, <1>6 DEF Dispute, Challenge, Challengeable, ChallengeWithProof, PostRevealed, PostCommitment
<1>7. ASSUME NEW id \in ChannelId, Signing(id)
      PROVE  Kept
  BY <1>1, <1>7 DEF Signing, CoSign, CoSignEdDSA, historyVars
<1>8. ASSUME NEW sender \in Party, NEW partyB \in Party, NEW value \in Deposits,
             NEW key \in Party \cup {NoKey}, Open(sender, partyB, value, key)
      PROVE  Kept
  BY <1>1, <1>8 DEF Open
<1>9. ASSUME NEW id \in ChannelId, NEW st \in Attestable, AttestRemote(id, st)
      PROVE  Kept
  BY <1>1, <1>9 DEF AttestRemote
<1>10. ASSUME NEW sender \in Party, Claim(sender)
       PROVE  Kept
  BY <1>1, <1>10 DEF Claim, historyVars
<1>11. ASSUME Tick \/ UNCHANGED vars
       PROVE  Kept
  BY <1>1, <1>11 DEF Tick, vars, historyVars
<1>12. Kept
  BY <1>3, <1>4, <1>5, <1>6, <1>7, <1>8, <1>9, <1>10, <1>11 DEF Next
<1> QED BY <1>12 DEF Kept

\* Nothing beats the posted state once it can no longer be challenged: from the
\* end of the window on, and after the settlement that follows.
Unbeaten(id) ==
    /\ channels[id].status = "CHALLENGE_PERIOD" /\ now >= channels[id].challengeExpiry
         => Better(id) = {}
    /\ channels[id].status = "CLOSED" /\ origin[id] # "none"
         /\ ~channels[id].closedCooperatively
         => Better(id) = {}
Defended == \A id \in ChannelId \ lapsed : Unbeaten(id)

LEMMA DefendedStep ==
    ASSUME IInv, IInv', Defended, [DefenceNext]_defenceVars
    PROVE  Defended'
<1> SUFFICES ASSUME NEW id \in ChannelId \ lapsed' PROVE Unbeaten(id)'
  BY DEF Defended
<1>1. [Next]_vars /\ id \notin lapsed /\ (~Lapses(id) \/ UNCHANGED defenceVars)
  BY DEF DefenceNext, defenceVars
<1>2. Unbeaten(id)
  BY <1>1 DEF Defended
<1>3. /\ now \in Nat /\ now' \in Nat /\ channels[id].challengeExpiry \in Nat
      /\ CHALLENGE_PERIOD \in Nat \ {0}
  BY ChannelAssumption DEF IInv, TypeOK, Channel
<1>4. channels[id].status # "ACTIVE" => signed'[id] = signed[id]
  BY <1>1 DEF Lapses, defenceVars, vars, offChainVars
<1>5. ASSUME /\ channels'[id].nonce = channels[id].nonce
             /\ channels'[id].depositA = channels[id].depositA
             /\ channels'[id].depositB = channels[id].depositB,
             channels[id].status # "ACTIVE", Better(id) = {}
      PROVE  Better(id)' = {}
  BY <1>4, <1>5 DEF Better, CheckConservation
<1>6. CASE Untouched(id)
  <2>1. channels'[id] = channels[id]
    BY <1>6 DEF Untouched
  <2>2. CASE channels[id].status = "CHALLENGE_PERIOD" /\ now' >= channels[id].challengeExpiry
    <3>1. Better(id) = {}
      <4>1. CASE now >= channels[id].challengeExpiry
        BY <1>2, <2>2, <4>1 DEF Unbeaten
      <4>2. CASE now < channels[id].challengeExpiry
        <5>1. now' # now
          BY <1>3, <2>2, <4>2
        <5> QED BY <1>1, <2>2, <4>2, <5>1 DEF Lapses, defenceVars, vars
      <4> QED BY <1>3, <4>1, <4>2
    <3> QED BY <1>5, <2>1, <2>2, <3>1 DEF Unbeaten
  <2>3. CASE channels[id].status = "CLOSED"
    <3>1. origin'[id] = origin[id]
      BY <1>1, <2>3, OriginStep DEF IInv
    <3> QED BY <1>2, <1>5, <2>1, <2>3, <3>1 DEF Unbeaten
  <2> QED BY <2>1, <2>2, <2>3 DEF Unbeaten
<1>7. CASE Funded(id)
  <2>1. origin[id] = "none" /\ origin'[id] = origin[id]
    BY <1>1, <1>7, OriginStep DEF Funded, IInv, Safe, Booked
  <2> QED BY <1>7, <2>1 DEF Funded, Unbeaten
<1>8. CASE Reposted(id)
  <2>1. channels'[id].status = "CHALLENGE_PERIOD" /\ channels[id] # channels'[id]
    BY <1>3, <1>8 DEF Reposted, IInv, TypeOK, Channel
  <2>2. now' = now
    BY <1>1, <2>1, ClockOrChannels
  <2>3. channels'[id].challengeExpiry = now + CHALLENGE_PERIOD
    BY <1>8 DEF Reposted
  <2>4. ~(now' >= channels'[id].challengeExpiry)
    BY <1>3, <2>2, <2>3
  <2> QED BY <2>1, <2>4 DEF Unbeaten
<1>9. CASE Settled(id)
  <2>1. channels'[id].status = "CLOSED"
    BY <1>9 DEF Settled
  <2>2. CASE channels'[id].closedCooperatively
    BY <2>1, <2>2 DEF Unbeaten
  <2>3. CASE ~channels'[id].closedCooperatively
    <3>1. /\ channels[id].status = "CHALLENGE_PERIOD" /\ now >= channels[id].challengeExpiry
          /\ channels'[id].nonce = channels[id].nonce
          /\ channels'[id].depositA = channels[id].depositA
          /\ channels'[id].depositB = channels[id].depositB
      BY <1>9, <2>3 DEF Settled, DepositsKept
    <3>2. Better(id) = {}
      BY <1>2, <3>1 DEF Unbeaten
    <3>3. Better(id)' = {}
      BY <1>5, <3>1, <3>2
    <3> QED BY <2>1, <3>3 DEF Unbeaten
  <2> QED BY <2>2, <2>3
<1> QED BY <1>1, <1>6, <1>7, <1>8, <1>9, ChannelStep DEF OneOf

\* A channel whose better states are brought in before each window ends is never
\* settled, without the agreement of both parties, below a state they both signed.
THEOREM DefendedNewest == DefenceSpec => []NewestStateWins
<1>1. DefenceInit => Defended
  BY DEF DefenceInit, Defended, Unbeaten, Init, UnopenedChannel
<1>2. IInv /\ IInv' /\ Defended /\ [DefenceNext]_defenceVars => Defended'
  BY DefendedStep
<1>3. Defended => NewestStateWins
  BY DEF Defended, Unbeaten, NewestStateWins
<1>4. [DefenceNext]_defenceVars => [Next]_vars
  BY DEF DefenceNext, defenceVars
<1> QED BY <1>1, <1>2, <1>3, <1>4, Invariance, PTL DEF DefenceSpec, DefenceInit, Spec

----------------------------------------------------------------------------
(* What hinders an override with a proof is the blinding alone. *)

\* The updates of a chain rise from its anchor on, so its end is newer.
LEMMA ChainRises ==
    ASSUME TypeOK, NEW id \in ChannelId, NEW n \in Nat,
           NEW path \in [1 .. Steps -> eddsaSigned[id]],
           \A i \in 1 .. Steps :
               path[i].nonce > IF i = 1 THEN n ELSE path[i - 1].nonce
    PROVE  path[Steps].nonce > n
<1> DEFINE Good == {k \in 0 .. Steps : k = 0 \/ path[k].nonce > n}
<1>1. Steps \in Nat /\ Steps # 0
  BY ChannelAssumption
<1>2. \A i \in 1 .. Steps : path[i].nonce \in Nat
  BY ChannelAssumption DEF TypeOK, ChannelState
<1>3. 0 \in Good
  BY <1>1
<1>4. ASSUME NEW k \in 1 .. Steps, k - 1 \in Good
      PROVE  k \in Good
  <2>1. CASE k = 1
    BY <1>1, <2>1
  <2>2. CASE k # 1
    <3>1. k - 1 \in 1 .. Steps /\ path[k - 1].nonce > n
      BY <1>1, <1>4, <2>2
    <3>2. path[k].nonce > path[k - 1].nonce
      BY <2>2
    <3> QED BY <1>1, <1>2, <3>1, <3>2
  <2> QED BY <2>1, <2>2
<1> HIDE DEF Good
<1>5. \A k \in 0 .. Steps : k \in Good
  BY <1>1, <1>3, <1>4, TurnInduction
<1> QED BY <1>1, <1>5 DEF Good

\* Whoever can open the posted commitment, and everybody if there is none, can prove
\* every state that the updates in hand lead to from the posted one: the counterparty
\* of a poster with a blinding of its own lacks nothing else.
THEOREM KnownPostsOverridable == DefenceSpec => []KnownPostOverridable
<1>1. IInv => KnownPostOverridable
  <2> SUFFICES ASSUME IInv, NEW id \in ChannelId, NEW end \in ProofUpdates,
                      NEW p \in Party, Overtakes(id, end),
                      channels[id].balancesCommitted
                        => Knows(p, channels[id].balanceCommitment)
               PROVE  end.nonce > channels[id].nonce /\ VerifyChannelProof(p, id, end)
    BY DEF KnownPostOverridable
  <2> DEFINE ch == channels[id]
             post == Posted(ch)
  <2>1. /\ TypeOK /\ PostIsAuthentic(id)
        /\ ch \in Channel /\ ch.nonce \in Nat
        /\ ch.depositA \in Nat /\ ch.depositB \in Nat
    BY DEF IInv, Safe, TypeOK, Channel
  <2>2. post.nonce = ch.nonce
    BY DEF Posted
  <2>3. PICK path \in [1 .. Steps -> eddsaSigned[id]] :
          /\ path[Steps] = end
          /\ \A i \in 1 .. Steps :
               /\ path[i].balanceA + path[i].balanceB = post.balanceA + post.balanceB
               /\ path[i].nonce > IF i = 1 THEN post.nonce ELSE path[i - 1].nonce
    BY DEF Overtakes, UpdateChain, Poseidon
  <2>4. end.nonce > ch.nonce
    BY <2>1, <2>2, <2>3, ChainRises
  <2>5. post.balanceA + post.balanceB = ch.depositA + ch.depositB
    BY <2>1 DEF Overtakes, PostIsAuthentic, CheckConservation
  <2>6. CASE ch.balancesCommitted
    <3>1. /\ Anchor(ch).nonce = post.nonce
          /\ Anchor(ch).commitment = ch.balanceCommitment
          /\ post.balanceA = Anchor(ch).commitment.balanceA
          /\ post.balanceB = Anchor(ch).commitment.balanceB
      BY <2>6 DEF Anchor, Posted
    <3>2. UpdateChain(id, Anchor(ch), end)
      BY <2>3, <3>1 DEF UpdateChain
    <3> QED BY <2>4, <2>6, <3>1, <3>2 DEF VerifyChannelProof, Overtakes
  <2>7. CASE ~ch.balancesCommitted
    <3>1. /\ Anchor(ch).nonce = 0
          /\ Anchor(ch).commitment.balanceA = ch.depositA
          /\ Anchor(ch).commitment.balanceB = ch.depositB
          /\ Knows(p, Anchor(ch).commitment)
      BY <2>7 DEF Anchor, Poseidon, Knows
    <3>2. ASSUME NEW i \in 1 .. Steps
          PROVE  path[i].nonce > IF i = 1 THEN Anchor(ch).nonce ELSE path[i - 1].nonce
      <4>1. path[i].nonce \in Nat
        BY <2>1, ChannelAssumption DEF TypeOK, ChannelState
      <4> QED BY <2>1, <2>2, <2>3, <3>1, <4>1
    <3>3. UpdateChain(id, Anchor(ch), end)
      BY <2>3, <2>5, <3>1, <3>2 DEF UpdateChain
    <3> QED BY <2>4, <3>1, <3>3 DEF VerifyChannelProof, Overtakes
  <2> QED BY <2>6, <2>7
<1>2. [DefenceNext]_defenceVars => [Next]_vars
  BY DEF DefenceNext, defenceVars
<1> QED BY <1>1, <1>2, Invariance, PTL DEF DefenceSpec, DefenceInit, Spec

----------------------------------------------------------------------------
(* PaymentChannel implements ChannelLifecycle, step by step. *)

\* Storing a struct changes the observers' view of that channel alone.
LEMMA ViewUpdate ==
    ASSUME TypeOK, NEW id \in ChannelId, NEW new, Update(id, new)
    PROVE  /\ [j \in ChannelId |-> channels[j].status]'
                = [[j \in ChannelId |-> channels[j].status] EXCEPT ![id] = new.status]
           /\ [j \in ChannelId |-> channels[j].nonce]'
                = [[j \in ChannelId |-> channels[j].nonce] EXCEPT ![id] = new.nonce]
           /\ [j \in ChannelId |-> channels[j].challengeExpiry]'
                = [[j \in ChannelId |-> channels[j].challengeExpiry]
                     EXCEPT ![id] = new.challengeExpiry]
           /\ [j \in ChannelId |-> channels[j].closedCooperatively]'
                = [[j \in ChannelId |-> channels[j].closedCooperatively]
                     EXCEPT ![id] = new.closedCooperatively]
BY DEF Update, TypeOK

\* A field that keeps its value leaves the observers' view as it was.
LEMMA ViewKept ==
    ASSUME TypeOK, NEW id \in ChannelId, NEW new, Update(id, new)
    PROVE  /\ new.nonce = channels[id].nonce =>
                [j \in ChannelId |-> channels[j].nonce]'
                  = [j \in ChannelId |-> channels[j].nonce]
           /\ new.challengeExpiry = channels[id].challengeExpiry =>
                [j \in ChannelId |-> channels[j].challengeExpiry]'
                  = [j \in ChannelId |-> channels[j].challengeExpiry]
           /\ new.closedCooperatively = channels[id].closedCooperatively =>
                [j \in ChannelId |-> channels[j].closedCooperatively]'
                  = [j \in ChannelId |-> channels[j].closedCooperatively]
BY DEF Update, TypeOK

\* What the observers see of a settlement: all that was held is released.
LEMMA ViewRelease ==
    ASSUME IInv, IInv', NEW id \in ChannelId, NEW payA \in Nat, NEW payB \in Nat,
           channels[id].status # "CLOSED", channels'[id].status = "CLOSED",
           Payout(id, payA, payB), deposited' = deposited
    PROVE  [j \in ChannelId |-> paid[j].A + paid[j].B]'
             = [[j \in ChannelId |-> paid[j].A + paid[j].B] EXCEPT ![id] = deposited[id]]
<1>1. paid'[id].A + paid'[id].B = deposited[id]
  BY DEF IInv, Safe, PaysExactly
<1>2. \A j \in ChannelId : j # id => paid'[j] = paid[j]
  BY PayoutRecord
<1> QED BY <1>1, <1>2

\* Opening and joining are deposits.
LEMMA FundRefines ==
    ASSUME IInv, NEW id \in ChannelId, NEW value \in Deposits, NEW new,
           NEW next \in {"UNINITIALIZED", "ACTIVE"}, new.status = next,
           channels[id].status = "UNINITIALIZED", Update(id, new),
           new.nonce = channels[id].nonce,
           new.challengeExpiry = channels[id].challengeExpiry,
           new.closedCooperatively = channels[id].closedCooperatively,
           deposited' = [deposited EXCEPT ![id] = @ + value],
           UNCHANGED <<now, paid>>
    PROVE  Lifecycle!Fund(id, value, next)
<1>1. [j \in ChannelId |-> channels[j].status]'
        = [[j \in ChannelId |-> channels[j].status] EXCEPT ![id] = new.status]
  BY ViewUpdate DEF IInv
<1>2. UNCHANGED <<[j \in ChannelId |-> channels[j].nonce],
                  [j \in ChannelId |-> channels[j].challengeExpiry],
                  [j \in ChannelId |-> channels[j].closedCooperatively]>>
  BY ViewKept DEF IInv
<1>3. UNCHANGED [j \in ChannelId |-> paid[j].A + paid[j].B]
  OBVIOUS
<1> QED BY <1>1, <1>2, <1>3 DEF Lifecycle!Fund

\* Posting, by whichever of the five functions that open or extend a window.
LEMMA PostRefines ==
    ASSUME IInv, NEW id \in ChannelId, NEW n \in UpdateNonces, NEW new,
           \/ channels[id].status = "ACTIVE" /\ n >= channels[id].nonce
           \/ /\ channels[id].status = "CHALLENGE_PERIOD"
              /\ n > channels[id].nonce /\ now < channels[id].challengeExpiry,
           Update(id, new), new.status = "CHALLENGE_PERIOD", new.nonce = n,
           new.challengeExpiry = now + CHALLENGE_PERIOD,
           new.closedCooperatively = channels[id].closedCooperatively,
           UNCHANGED <<now, deposited, paid>>
    PROVE  Lifecycle!Post(id, n)
<1>1. /\ [j \in ChannelId |-> channels[j].status]'
           = [[j \in ChannelId |-> channels[j].status] EXCEPT ![id] = new.status]
      /\ [j \in ChannelId |-> channels[j].nonce]'
           = [[j \in ChannelId |-> channels[j].nonce] EXCEPT ![id] = new.nonce]
      /\ [j \in ChannelId |-> channels[j].challengeExpiry]'
           = [[j \in ChannelId |-> channels[j].challengeExpiry]
                EXCEPT ![id] = new.challengeExpiry]
  BY ViewUpdate DEF IInv
<1>2. UNCHANGED [j \in ChannelId |-> channels[j].closedCooperatively]
  BY ViewKept DEF IInv
<1>3. UNCHANGED [j \in ChannelId |-> paid[j].A + paid[j].B]
  OBVIOUS
<1> QED BY <1>1, <1>2, <1>3 DEF Lifecycle!Post

\* Closing gives everything back.
LEMMA ReleaseRefines ==
    ASSUME IInv, IInv', NEW id \in ChannelId, NEW payA \in Nat, NEW payB \in Nat, NEW new,
           channels[id].status # "CLOSED", Payout(id, payA, payB),
           Update(id, new), new.status = "CLOSED",
           new.challengeExpiry = channels[id].challengeExpiry,
           UNCHANGED <<now, deposited>>
    PROVE  Lifecycle!Release(id)
<1>1. channels'[id].status = "CLOSED"
  BY DEF Update, IInv, TypeOK
<1>2. [j \in ChannelId |-> paid[j].A + paid[j].B]'
        = [[j \in ChannelId |-> paid[j].A + paid[j].B] EXCEPT ![id] = deposited[id]]
  BY <1>1, ViewRelease
<1>3. [j \in ChannelId |-> channels[j].status]'
        = [[j \in ChannelId |-> channels[j].status] EXCEPT ![id] = new.status]
  BY ViewUpdate DEF IInv
<1>4. UNCHANGED [j \in ChannelId |-> channels[j].challengeExpiry]
  BY ViewKept DEF IInv
<1> QED BY <1>2, <1>3, <1>4 DEF Lifecycle!Release

----------------------------------------------------------------------------
(* Each function is one step of the lifecycle. *)

LEMMA OpenRefines ==
    ASSUME IInv, NEW sender \in Party, NEW partyB \in Party, NEW value \in Deposits,
           NEW key \in Party \cup {NoKey}, Open(sender, partyB, value, key)
    PROVE  \E c \in ChannelId : Lifecycle!Step(c)
<1> USE ChannelAssumption
<1>. PICK id \in ChannelId : id = nextChannelId
  BY DEF Open, IInv, TypeOK, ChannelId
<1> DEFINE new == [channels[id] EXCEPT !.partyA = sender, !.partyB = partyB,
                     !.depositA = value, !.status = "UNINITIALIZED",
                     !.balanceA = value, !.pubKeyA = key]
<1>1. /\ Update(id, new) /\ deposited' = [deposited EXCEPT ![id] = @ + value]
      /\ UNCHANGED <<now, paid>> /\ ~(id < nextChannelId)
  BY DEF Open, ChannelId
<1>2. channels[id] = UnopenedChannel
  BY <1>1 DEF IInv, Safe, Booked
<1>3. /\ channels[id].status = "UNINITIALIZED" /\ new.status = "UNINITIALIZED"
      /\ new.nonce = channels[id].nonce
      /\ new.challengeExpiry = channels[id].challengeExpiry
      /\ new.closedCooperatively = channels[id].closedCooperatively
  BY <1>2 DEF UnopenedChannel
<1> HIDE DEF new
<1>4. Lifecycle!Fund(id, value, "UNINITIALIZED")
  BY <1>1, <1>3, FundRefines
<1> QED BY <1>3, <1>4 DEF Lifecycle!Step

LEMMA JoinRefines ==
    ASSUME IInv, NEW sender \in Party, NEW id \in ChannelId, NEW value \in Deposits,
           NEW key \in {NoKey, sender}, Join(sender, id, value, key)
    PROVE  Lifecycle!Step(id)
<1> DEFINE ch == channels[id]
           new == [ch EXCEPT !.depositB = value, !.balanceB = value,
                     !.status = "ACTIVE", !.pubKeyB = key]
<1>1. /\ ch.status = "UNINITIALIZED" /\ Update(id, new)
      /\ deposited' = [deposited EXCEPT ![id] = @ + value] /\ UNCHANGED <<now, paid>>
  BY DEF Join
<1>2. /\ new.status = "ACTIVE" /\ new.nonce = ch.nonce
      /\ new.challengeExpiry = ch.challengeExpiry
      /\ new.closedCooperatively = ch.closedCooperatively
  BY DEF IInv, TypeOK, Channel
<1> HIDE DEF new
<1>3. Lifecycle!Fund(id, value, "ACTIVE")
  BY <1>1, <1>2, FundRefines
<1> QED BY <1>2, <1>3 DEF Lifecycle!Step

LEMMA CancelRefines ==
    ASSUME IInv, IInv', NEW sender \in Party, NEW id \in ChannelId,
           CancelUnjoined(sender, id)
    PROVE  Lifecycle!Step(id)
<1> DEFINE ch == channels[id]
           new == [ch EXCEPT !.balanceA = 0, !.depositA = 0, !.status = "CLOSED"]
<1>1. /\ ch.status = "UNINITIALIZED" /\ Update(id, new) /\ Payout(id, ch.depositA, 0)
      /\ UNCHANGED <<now, deposited>>
  BY DEF CancelUnjoined
<1>2. /\ ch.depositA \in Nat /\ new.status = "CLOSED" /\ new.nonce = ch.nonce
      /\ new.challengeExpiry = ch.challengeExpiry
      /\ new.closedCooperatively = ch.closedCooperatively
  BY DEF IInv, TypeOK, Channel
<1> HIDE DEF new
<1>3. Lifecycle!Release(id)
  BY <1>1, <1>2, ReleaseRefines
<1>4. UNCHANGED <<[j \in ChannelId |-> channels[j].nonce],
                  [j \in ChannelId |-> channels[j].closedCooperatively]>>
  BY <1>1, <1>2, ViewKept DEF IInv
<1>5. Lifecycle!Cancel(id)
  BY <1>1, <1>3, <1>4 DEF Lifecycle!Cancel
<1> QED BY <1>5 DEF Lifecycle!Step

LEMMA CooperativeRefines ==
    ASSUME IInv, IInv', NEW sender \in Party, NEW id \in ChannelId, NEW st \in RawUpdates,
           CloseCooperative(sender, id, st)
    PROVE  Lifecycle!Step(id)
<1> DEFINE ch == channels[id]
           new == [ch EXCEPT !.balanceA = 0, !.balanceB = 0, !.nonce = st.nonce,
                     !.balancesCommitted = FALSE, !.closedCooperatively = TRUE,
                     !.status = "CLOSED"]
<1>1. /\ ch.status \in {"ACTIVE", "CHALLENGE_PERIOD"} /\ st.nonce >= ch.nonce
      /\ Update(id, new) /\ Payout(id, st.balanceA, st.balanceB)
      /\ UNCHANGED <<now, deposited>>
  BY DEF CloseCooperative, VerifyBothSignatures
<1>2. /\ new.status = "CLOSED" /\ new.nonce = st.nonce /\ new.closedCooperatively
      /\ new.closedCooperatively = TRUE /\ new.challengeExpiry = ch.challengeExpiry
  BY DEF IInv, TypeOK, Channel
<1>3. st.balanceA \in Nat /\ st.balanceB \in Nat /\ st.nonce \in UpdateNonces
  BY ChannelAssumption DEF ChannelState, UpdateNonces
<1> HIDE DEF new
<1>4. Lifecycle!Release(id)
  BY <1>1, <1>2, <1>3, ReleaseRefines
<1>5. /\ [j \in ChannelId |-> channels[j].nonce]'
           = [[j \in ChannelId |-> channels[j].nonce] EXCEPT ![id] = new.nonce]
      /\ [j \in ChannelId |-> channels[j].closedCooperatively]'
           = [[j \in ChannelId |-> channels[j].closedCooperatively]
                EXCEPT ![id] = new.closedCooperatively]
  BY <1>1, ViewUpdate DEF IInv
<1>6. Lifecycle!Agree(id, st.nonce)
  BY <1>1, <1>2, <1>4, <1>5 DEF Lifecycle!Agree
<1> QED BY <1>3, <1>6 DEF Lifecycle!Step

LEMMA RevealedRefines ==
    ASSUME IInv, NEW id \in ChannelId, NEW st \in ChannelState, NEW evidence,
           st.nonce \in UpdateNonces, PostRevealed(id, st, evidence),
           \/ channels[id].status = "ACTIVE" /\ st.nonce >= channels[id].nonce
           \/ /\ channels[id].status = "CHALLENGE_PERIOD"
              /\ st.nonce > channels[id].nonce /\ now < channels[id].challengeExpiry
    PROVE  Lifecycle!Step(id)
<1> DEFINE ch == channels[id]
           new == [ch EXCEPT !.balanceA = st.balanceA, !.balanceB = st.balanceB,
                     !.nonce = st.nonce, !.balancesCommitted = FALSE,
                     !.status = "CHALLENGE_PERIOD",
                     !.challengeExpiry = now + CHALLENGE_PERIOD]
<1>1. Update(id, new) /\ UNCHANGED <<now, deposited, paid>>
  BY DEF PostRevealed
<1>2. /\ new.status = "CHALLENGE_PERIOD" /\ new.nonce = st.nonce
      /\ new.challengeExpiry = now + CHALLENGE_PERIOD
      /\ new.closedCooperatively = ch.closedCooperatively
  BY DEF IInv, TypeOK, Channel
<1> HIDE DEF new
<1>3. Lifecycle!Post(id, st.nonce)
  BY <1>1, <1>2, PostRefines
<1> QED BY <1>3 DEF Lifecycle!Step

LEMMA CommittedRefines ==
    ASSUME IInv, NEW id \in ChannelId, NEW sender \in Party, NEW end \in ChannelState,
           end.nonce \in UpdateNonces, PostCommitment(sender, id, end),
           \/ channels[id].status = "ACTIVE" /\ end.nonce >= channels[id].nonce
           \/ /\ channels[id].status = "CHALLENGE_PERIOD"
              /\ end.nonce > channels[id].nonce /\ now < channels[id].challengeExpiry
    PROVE  Lifecycle!Step(id)
<1> DEFINE ch == channels[id]
<1>1. PICK blinding \in {Public, sender} :
        Update(id, [ch EXCEPT
                      !.balanceCommitment = Poseidon(end.balanceA, end.balanceB, blinding),
                      !.balancesCommitted = TRUE, !.nonce = end.nonce,
                      !.status = "CHALLENGE_PERIOD",
                      !.challengeExpiry = now + CHALLENGE_PERIOD])
  BY DEF PostCommitment
<1> DEFINE new == [ch EXCEPT
                     !.balanceCommitment = Poseidon(end.balanceA, end.balanceB, blinding),
                     !.balancesCommitted = TRUE, !.nonce = end.nonce,
                     !.status = "CHALLENGE_PERIOD",
                     !.challengeExpiry = now + CHALLENGE_PERIOD]
<1>2. Update(id, new) /\ UNCHANGED <<now, deposited, paid>>
  BY <1>1 DEF PostCommitment
<1>3. /\ new.status = "CHALLENGE_PERIOD" /\ new.nonce = end.nonce
      /\ new.challengeExpiry = now + CHALLENGE_PERIOD
      /\ new.closedCooperatively = ch.closedCooperatively
  BY DEF IInv, TypeOK, Channel
<1> HIDE DEF new
<1>4. Lifecycle!Post(id, end.nonce)
  BY <1>2, <1>3, PostRefines
<1> QED BY <1>4 DEF Lifecycle!Step

LEMMA SettlingRefines ==
    ASSUME IInv, IInv', NEW sender \in Party, NEW id \in ChannelId, Settling(sender, id)
    PROVE  Lifecycle!Step(id)
<1> DEFINE ch == channels[id]
<1>1. ASSUME NEW new, NEW payA \in Nat, NEW payB \in Nat,
             ch.status = "CHALLENGE_PERIOD", now >= ch.challengeExpiry,
             Update(id, new), Payout(id, payA, payB), UNCHANGED <<now, deposited>>,
             new.status = "CLOSED", new.nonce = ch.nonce,
             new.challengeExpiry = ch.challengeExpiry,
             new.closedCooperatively = ch.closedCooperatively
      PROVE  Lifecycle!Step(id)
  <2>1. Lifecycle!Release(id)
    BY <1>1, ReleaseRefines
  <2>2. UNCHANGED <<[j \in ChannelId |-> channels[j].nonce],
                    [j \in ChannelId |-> channels[j].closedCooperatively]>>
    BY <1>1, ViewKept DEF IInv
  <2>3. Lifecycle!Expire(id)
    BY <1>1, <2>1, <2>2 DEF Lifecycle!Expire
  <2> QED BY <2>3 DEF Lifecycle!Step
<1>2. CASE Withdraw(sender, id)
  <2> DEFINE new == [ch EXCEPT !.status = "CLOSED", !.balanceA = 0, !.balanceB = 0]
  <2>1. /\ ch.status = "CHALLENGE_PERIOD" /\ now >= ch.challengeExpiry
        /\ Update(id, new) /\ Payout(id, ch.balanceA, ch.balanceB)
        /\ UNCHANGED <<now, deposited>>
    BY <1>2 DEF Withdraw
  <2>2. /\ ch.balanceA \in Nat /\ ch.balanceB \in Nat
        /\ new.status = "CLOSED" /\ new.nonce = ch.nonce
        /\ new.challengeExpiry = ch.challengeExpiry
        /\ new.closedCooperatively = ch.closedCooperatively
    BY DEF IInv, TypeOK, Channel
  <2> HIDE DEF new
  <2> QED BY <1>1, <2>1, <2>2
<1>3. CASE WithdrawWithOpening(sender, id)
  <2> DEFINE opening == ch.balanceCommitment
             new == [ch EXCEPT !.balancesCommitted = FALSE, !.status = "CLOSED",
                       !.balanceA = 0, !.balanceB = 0]
  <2>1. /\ ch.status = "CHALLENGE_PERIOD" /\ now >= ch.challengeExpiry
        /\ ch.balancesCommitted
        /\ Update(id, new) /\ Payout(id, opening.balanceA, opening.balanceB)
        /\ UNCHANGED <<now, deposited>>
    BY <1>3 DEF WithdrawWithOpening
  <2>2. opening \in Commitment
    BY <2>1 DEF IInv, Safe, CommitmentInWindow, TypeOK, Channel
  <2>3. /\ opening.balanceA \in Nat /\ opening.balanceB \in Nat
        /\ new.status = "CLOSED" /\ new.nonce = ch.nonce
        /\ new.challengeExpiry = ch.challengeExpiry
        /\ new.closedCooperatively = ch.closedCooperatively
    BY <2>2 DEF IInv, TypeOK, Channel, Commitment
  <2> HIDE DEF new
  <2> QED BY <1>1, <2>1, <2>3
<1> QED BY <1>2, <1>3 DEF Settling

\* Every step of the contract is a step of the lifecycle, or invisible in it.
LEMMA StepRefines ==
    ASSUME IInv, IInv', [Next]_vars
    PROVE  [Lifecycle!Next]_(Lifecycle!vars)
<1> USE ChannelAssumption
<1> DEFINE Refined == Lifecycle!Next \/ UNCHANGED Lifecycle!vars
<1>1. ASSUME NEW id \in ChannelId, Lifecycle!Step(id)
      PROVE  Refined
  BY <1>1 DEF Lifecycle!Next
<1>2. ASSUME UNCHANGED <<now, channels, deposited, paid>>
      PROVE  Refined
  BY <1>2 DEF Lifecycle!vars
<1>3. ASSUME Tick
      PROVE  Refined
  <2>1. /\ now < MaxTime /\ now' = now + 1
        /\ UNCHANGED <<channels, deposited, paid>>
    BY <1>3 DEF Tick, contractVars, historyVars
  <2>2. Lifecycle!Tick
    BY <2>1 DEF Lifecycle!Tick
  <2> QED BY <2>2 DEF Lifecycle!Next
<1>4. ASSUME NEW sender \in Party, NEW id \in ChannelId, Funding(sender, id)
      PROVE  Lifecycle!Step(id)
  BY <1>4, JoinRefines, CancelRefines DEF Funding
<1>5. \A st : st \in RawUpdates \cup ProofUpdates \cup Attestable =>
        st \in ChannelState /\ st.nonce \in UpdateNonces
  BY DEF UpdateNonces
<1>6. ASSUME NEW sender \in Party, NEW id \in ChannelId, Closing(sender, id)
      PROVE  Lifecycle!Step(id)
  <2>1. ASSUME NEW st \in RawUpdates, CloseCooperative(sender, id, st)
        PROVE  Lifecycle!Step(id)
    BY <2>1, CooperativeRefines
  <2>2. ASSUME NEW st \in RawUpdates, CloseUnilateral(sender, id, st)
        PROVE  Lifecycle!Step(id)
    <3>1. /\ channels[id].status = "ACTIVE" /\ st.nonce >= channels[id].nonce
          /\ PostRevealed(id, st, "signed")
      BY <2>2 DEF CloseUnilateral, VerifyBothSignatures
    <3> QED BY <1>5, <3>1, RevealedRefines
  <2>3. ASSUME NEW end \in ProofUpdates, CloseWithProof(sender, id, end)
        PROVE  Lifecycle!Step(id)
    <3>1. /\ channels[id].status = "ACTIVE" /\ end.nonce >= channels[id].nonce
          /\ PostCommitment(sender, id, end)
      BY <2>3 DEF CloseWithProof
    <3> QED BY <1>5, <3>1, CommittedRefines
  <2>4. ASSUME NEW st \in Attestable, CloseWithRemoteAttestation(sender, id, st)
        PROVE  Lifecycle!Step(id)
    <3>1. /\ channels[id].status = "ACTIVE" /\ st.nonce >= channels[id].nonce
          /\ PostRevealed(id, st, "remote")
      BY <2>4 DEF CloseWithRemoteAttestation
    <3> QED BY <1>5, <3>1, RevealedRefines
  <2> QED BY <1>6, <2>1, <2>2, <2>3, <2>4 DEF Closing
<1>7. ASSUME NEW id \in ChannelId, Dispute(id)
      PROVE  Lifecycle!Step(id)
  <2>1. ASSUME NEW st \in RawUpdates, Challenge(id, st)
        PROVE  Lifecycle!Step(id)
    <3>1. /\ channels[id].status = "CHALLENGE_PERIOD" /\ st.nonce > channels[id].nonce
          /\ now < channels[id].challengeExpiry /\ PostRevealed(id, st, "signed")
      BY <2>1 DEF Challenge, Challengeable
    <3> QED BY <1>5, <3>1, RevealedRefines
  <2>2. ASSUME NEW sender \in Party, NEW end \in ProofUpdates,
               ChallengeWithProof(sender, id, end)
        PROVE  Lifecycle!Step(id)
    <3>1. /\ channels[id].status = "CHALLENGE_PERIOD" /\ end.nonce > channels[id].nonce
          /\ now < channels[id].challengeExpiry /\ PostCommitment(sender, id, end)
      BY <2>2 DEF ChallengeWithProof
    <3> QED BY <1>5, <3>1, CommittedRefines
  <2> QED BY <1>7, <2>1, <2>2 DEF Dispute
<1>8. ASSUME NEW id \in ChannelId, Signing(id)
      PROVE  Refined
  BY <1>2, <1>8 DEF Signing, CoSign, CoSignEdDSA, contractVars, historyVars
<1>9. ASSUME NEW id \in ChannelId, NEW st \in Attestable, AttestRemote(id, st)
      PROVE  Refined
  BY <1>2, <1>9 DEF AttestRemote, contractVars
<1>10. ASSUME NEW sender \in Party, Claim(sender)
       PROVE  Refined
  BY <1>2, <1>10 DEF Claim, historyVars
<1>11. ASSUME UNCHANGED vars
       PROVE  Refined
  BY <1>2, <1>11 DEF vars, contractVars, historyVars
<1>12. ASSUME NEW sender \in Party, NEW partyB \in Party, NEW value \in Deposits,
              NEW key \in Party \cup {NoKey}, Open(sender, partyB, value, key)
       PROVE  Refined
  BY <1>1, <1>12, OpenRefines
<1>13. ASSUME NEW sender \in Party, NEW id \in ChannelId, Settling(sender, id)
       PROVE  Lifecycle!Step(id)
  BY <1>13, SettlingRefines
<1> HIDE DEF Refined
<1>14. Refined
  BY <1>1, <1>3, <1>4, <1>6, <1>7, <1>8, <1>9, <1>10, <1>11, <1>12, <1>13 DEF Next
<1> QED BY <1>14 DEF Refined

\* The contract implements the lifecycle it promises to its observers.
THEOREM Refinement == Spec => ImplementsLifecycle
<1>1. Init => Lifecycle!Init
  BY DEF Init, Lifecycle!Init, UnopenedChannel
<1>2. IInv /\ IInv' /\ [Next]_vars => [Lifecycle!Next]_(Lifecycle!vars)
  BY StepRefines
<1> QED BY <1>1, <1>2, Invariance, PTL DEF Spec, ImplementsLifecycle, Lifecycle!Spec
=============================================================================
