---------------------- MODULE WatchtowerRegistryProofs ----------------------
(* Theorems about WatchtowerRegistry for every value of its constants. *)
EXTENDS WatchtowerRegistry, FoldProofs

----------------------------------------------------------------------------
(* The ledger *)

\* What the registry has beyond the credits it owes.
Surplus(ld) == ld.balance - SumFunction(ld.pendingWithdrawals)

LEMMA LedgerFields ==
    ASSUME NEW ld \in L!Ledger
    PROVE  /\ ld.balance \in Nat /\ ld.pendingWithdrawals \in [Address -> Nat]
           /\ ld = [balance |-> ld.balance, pendingWithdrawals |-> ld.pendingWithdrawals]
           /\ SumFunction(ld.pendingWithdrawals) \in Nat
           /\ Surplus(ld) \in Int
<1>1. /\ ld.balance \in Nat /\ ld.pendingWithdrawals \in [Address -> Nat]
      /\ ld = [balance |-> ld.balance, pendingWithdrawals |-> ld.pendingWithdrawals]
  BY DEF L!Ledger
<1>2. SumFunction(ld.pendingWithdrawals) \in Nat
  BY <1>1, SumType, RegistryAssumption
<1> QED BY <1>1, <1>2 DEF Surplus

\* A push costs its amount, whether the recipient takes it or is credited.
LEMMA PushCosts ==
    ASSUME NEW ld \in L!Ledger, NEW share \in [to : Address, amount : Nat],
           NEW accepts \in BOOLEAN
    PROVE  /\ Push(ld, share, accepts) \in L!Ledger
           /\ Surplus(Push(ld, share, accepts)) = Surplus(ld) - share.amount
<1> DEFINE to == share.to
           amount == share.amount
           w == ld.pendingWithdrawals
           next == Push(ld, share, accepts)
<1>1. /\ ld.balance \in Nat /\ w \in [Address -> Nat]
      /\ ld = [balance |-> ld.balance, pendingWithdrawals |-> w]
      /\ SumFunction(w) \in Nat
      /\ to \in Address /\ amount \in Nat
  BY LedgerFields
<1> HIDE DEF to, amount
<1>2. CASE amount = 0
  <2>1. next = ld
    BY <1>2 DEF Push, L!CreditOrSend, amount
  <2> HIDE DEF next
  <2>2. Surplus(ld) = Surplus(ld) - amount
    BY <1>1, <1>2, LedgerFields
  <2> QED BY <2>1, <2>2 DEF amount, next
<1>3. CASE amount # 0 /\ accepts /\ amount <= ld.balance
  <2>1. next = [balance |-> ld.balance - amount, pendingWithdrawals |-> w]
    BY <1>1, <1>3 DEF Push, L!CreditOrSend, amount
  <2> HIDE DEF next
  <2>2. next \in L!Ledger
    BY <1>1, <1>3, <2>1 DEF L!Ledger
  <2>3. next.balance = ld.balance - amount /\ next.pendingWithdrawals = w
    BY <2>1
  <2>4. Surplus(next) = Surplus(ld) - amount
    BY <1>1, <2>3 DEF Surplus
  <2> QED BY <2>2, <2>4 DEF amount, next
<1>4. CASE amount # 0 /\ ~(accepts /\ amount <= ld.balance)
  <2> DEFINE credited == [w EXCEPT ![to] = w[to] + amount]
  <2>1. next = [balance |-> ld.balance, pendingWithdrawals |-> credited]
    BY <1>1, <1>4 DEF Push, L!CreditOrSend, amount, to
  <2> HIDE DEF next
  <2>2. w[to] \in Nat /\ w[to] + amount \in Nat /\ credited \in [Address -> Nat]
    BY <1>1
  <2>3. next \in L!Ledger
    BY <1>1, <2>1, <2>2 DEF L!Ledger
  <2>4. SumFunction(credited) = (SumFunction(w) - w[to]) + (w[to] + amount)
    BY <1>1, <2>2, SumChange, RegistryAssumption
  <2> HIDE DEF credited
  <2>5. next.balance = ld.balance /\ next.pendingWithdrawals = credited
    BY <2>1
  <2>6. Surplus(next) = Surplus(ld) - amount
    BY <1>1, <2>2, <2>4, <2>5 DEF Surplus
  <2> QED BY <2>3, <2>6 DEF amount, next
<1> QED BY <1>1, <1>2, <1>3, <1>4

\* Money that comes in.
LEMMA ReceiveAdds ==
    ASSUME NEW ld \in L!Ledger, NEW value \in Nat
    PROVE  /\ L!Receive(ld, value) \in L!Ledger
           /\ Surplus(L!Receive(ld, value)) = Surplus(ld) + value
<1> DEFINE next == L!Receive(ld, value)
<1>1. next = [balance |-> ld.balance + value, pendingWithdrawals |-> ld.pendingWithdrawals]
  BY LedgerFields DEF L!Receive
<1> HIDE DEF next
<1>2. /\ ld.balance \in Nat /\ ld.pendingWithdrawals \in [Address -> Nat]
      /\ SumFunction(ld.pendingWithdrawals) \in Nat
  BY LedgerFields
<1>3. next \in L!Ledger
  BY <1>1, <1>2 DEF L!Ledger
<1>4. Surplus(next) = Surplus(ld) + value
  BY <1>1, <1>2 DEF Surplus
<1> QED BY <1>3, <1>4 DEF next

\* Money that its owner takes back.
LEMMA RefundTakes ==
    ASSUME NEW ld \in L!Ledger, NEW amount \in Nat, amount <= ld.balance
    PROVE  /\ [ld EXCEPT !.balance = @ - amount] \in L!Ledger
           /\ Surplus([ld EXCEPT !.balance = @ - amount]) = Surplus(ld) - amount
<1> DEFINE next == [ld EXCEPT !.balance = @ - amount]
<1>1. next = [balance |-> ld.balance - amount, pendingWithdrawals |-> ld.pendingWithdrawals]
  BY LedgerFields
<1> HIDE DEF next
<1>2. /\ ld.balance \in Nat /\ ld.pendingWithdrawals \in [Address -> Nat]
      /\ SumFunction(ld.pendingWithdrawals) \in Nat
  BY LedgerFields
<1>3. next \in L!Ledger
  BY <1>1, <1>2 DEF L!Ledger
<1>4. Surplus(next) = Surplus(ld) - amount
  BY <1>1, <1>2 DEF Surplus
<1> QED BY <1>3, <1>4 DEF next

\* A claim takes as much out of the contract as out of what it owes.
LEMMA ClaimIsFree ==
    ASSUME NEW ld \in L!Ledger, NEW to \in Address, L!CanClaim(ld, to)
    PROVE  /\ L!Claimed(ld, to) \in L!Ledger
           /\ Surplus(L!Claimed(ld, to)) = Surplus(ld)
<1> DEFINE w == ld.pendingWithdrawals
           cleared == [w EXCEPT ![to] = 0]
           next == L!Claimed(ld, to)
<1>1. /\ ld.balance \in Nat /\ w \in [Address -> Nat] /\ SumFunction(w) \in Nat
      /\ w[to] \in Nat /\ w[to] <= ld.balance /\ 0 \in Nat
  BY LedgerFields DEF L!CanClaim
<1>2. next = [balance |-> ld.balance - w[to], pendingWithdrawals |-> cleared]
  BY DEF L!Claimed
<1>3. cleared \in [Address -> Nat]
  BY <1>1
<1>4. SumFunction(cleared) = SumFunction(w) - w[to]
  BY <1>1, SumClear, RegistryAssumption
<1> HIDE DEF next, cleared
<1>5. next \in L!Ledger
  BY <1>1, <1>2, <1>3 DEF L!Ledger
<1>6. next.balance = ld.balance - w[to] /\ next.pendingWithdrawals = cleared
  BY <1>2
<1>7. Surplus(next) = Surplus(ld)
  BY <1>1, <1>4, <1>6 DEF Surplus
<1> QED BY <1>5, <1>7 DEF next
----------------------------------------------------------------------------
(* The stakes *)

Staked == [c \in Channel |-> SumFunction(stakes[c])]

\* Replacing one stake changes the total staked by as much.
LEMMA StakeChange ==
    ASSUME stakes \in [Channel -> [Address -> Nat]], NEW c \in Channel, NEW w \in Address,
           NEW v \in Nat, stakes' = [stakes EXCEPT ![c][w] = v]
    PROVE  /\ stakes' \in [Channel -> [Address -> Nat]]
           /\ SumFunction(Staked') = (SumFunction(Staked) - stakes[c][w]) + v
           /\ SumFunction(Staked) \in Nat
<1> DEFINE row == [stakes[c] EXCEPT ![w] = v]
           total == SumFunction(row)
<1>1. /\ stakes[c] \in [Address -> Nat] /\ stakes[c][w] \in Nat
      /\ row \in [Address -> Nat] /\ stakes' = [stakes EXCEPT ![c] = row]
  OBVIOUS
<1>2. \A d \in Channel : SumFunction(stakes[d]) \in Nat
  BY SumType, RegistryAssumption
<1>3. Staked \in [Channel -> Nat] /\ Staked[c] = SumFunction(stakes[c])
  BY <1>2 DEF Staked
<1>4. IsFiniteSet(Channel) /\ IsFiniteSet(Address)
  BY RegistryAssumption
<1>5. stakes[c] \in [Address -> Nat]
  BY <1>1
<1>6. total = (SumFunction(stakes[c]) - stakes[c][w]) + v
  BY <1>4, <1>5, SumChange, Zenon
<1>7. total \in Nat
  BY <1>1, SumType, RegistryAssumption
<1> HIDE DEF row
<1>8. Staked' = [Staked EXCEPT ![c] = total]
  BY <1>1 DEF Staked
<1> HIDE DEF total
<1>9. SumFunction([Staked EXCEPT ![c] = total]) = (SumFunction(Staked) - Staked[c]) + total
  <2>1. Staked \in [Channel -> Nat]
    BY <1>3
  <2> HIDE DEF Staked
  <2> QED BY <1>4, <1>7, <2>1, SumChange, Zenon
<1>10. SumFunction(Staked) \in Nat
  BY <1>3, SumType, RegistryAssumption
<1>11. SumFunction(Staked') = (SumFunction(Staked) - stakes[c][w]) + v
  BY <1>1, <1>2, <1>3, <1>6, <1>7, <1>8, <1>9, <1>10
<1> QED BY <1>1, <1>10, <1>11

\* The three shares of a confiscated stake are natural numbers that add up to it.
LEMMA SharesAddUp ==
    ASSUME NEW caller \in Address, NEW c \in Channel, NEW staked \in Nat
    PROVE  LET shares == Shares(caller, c, staked) IN
           /\ \A i \in 1 .. 3 : shares[i] \in [to : Address, amount : Nat]
           /\ shares[1].amount + shares[2].amount + shares[3].amount = staked
<1> DEFINE bounty == Bounty(staked)
           rest == staked - bounty
<1>1. bounty \in Nat /\ bounty <= staked
  <2> DEFINE s == SLASH_BOUNTY_BPS
             d == BPS_DENOMINATOR
             q == (staked * s) \div d
  <2>1. s \in Nat /\ d \in Nat /\ d > 0 /\ s <= d
    BY RegistryAssumption
  <2> HIDE DEF s, d
  <2>2. staked * s \in Nat
    BY <2>1
  <2>3. staked * s <= staked * d
    BY <2>1
  <2>4. q \in Nat /\ d * q <= staked * s
    BY <2>1, <2>2
  <2> HIDE DEF q
  <2>5. ASSUME q > staked PROVE FALSE
    <3>1. d * q > d * staked
      BY <2>1, <2>4, <2>5
    <3>2. d * staked = staked * d /\ d * staked \in Nat /\ d * q \in Nat
      BY <2>1, <2>4
    <3> QED BY <2>2, <2>3, <2>4, <3>1, <3>2
  <2>6. q <= staked
    BY <2>4, <2>5
  <2> QED BY <2>4, <2>6 DEF Bounty, q, s, d
<1> HIDE DEF bounty
<1>2. /\ rest \in Nat /\ rest \div 2 \in Nat /\ rest \div 2 <= rest
      /\ rest - (rest \div 2) \in Nat
  BY <1>1
<1>3. PartyA[c] \in Address /\ PartyB[c] \in Address
  BY RegistryAssumption
<1>4. Shares(caller, c, staked) =
        <<[to |-> caller, amount |-> bounty],
          [to |-> PartyA[c], amount |-> rest \div 2],
          [to |-> PartyB[c], amount |-> rest - (rest \div 2)]>>
  BY DEF Shares, bounty
<1> HIDE DEF rest
<1>5. bounty + (rest \div 2) + (rest - (rest \div 2)) = staked
  BY <1>1, <1>2 DEF rest
<1> QED BY <1>1, <1>2, <1>3, <1>4, <1>5

\* Paying the shares out costs the stake, whichever pushes fail.
LEMMA SharesCost ==
    ASSUME ledger \in L!Ledger, NEW caller \in Address, NEW c \in Channel,
           NEW staked \in Nat, PayShares(Shares(caller, c, staked))
    PROVE  ledger' \in L!Ledger /\ Surplus(ledger') = Surplus(ledger) - staked
<1> DEFINE shares == Shares(caller, c, staked)
<1>1. PICK first \in BOOLEAN, second \in BOOLEAN, third \in BOOLEAN :
        ledger' = Push(Push(Push(ledger, shares[1], first), shares[2], second),
                       shares[3], third)
  BY DEF PayShares
<1>2. /\ \A i \in 1 .. 3 : shares[i] \in [to : Address, amount : Nat]
      /\ shares[1].amount + shares[2].amount + shares[3].amount = staked
  BY SharesAddUp
<1> HIDE DEF shares
<1> DEFINE one == Push(ledger, shares[1], first)
           two == Push(one, shares[2], second)
<1>3. one \in L!Ledger /\ Surplus(one) = Surplus(ledger) - shares[1].amount
  BY <1>2, PushCosts
<1> HIDE DEF one
<1>4. two \in L!Ledger /\ Surplus(two) = Surplus(one) - shares[2].amount
  BY <1>2, <1>3, PushCosts
<1> HIDE DEF two
<1>5. /\ Push(two, shares[3], third) \in L!Ledger
      /\ Surplus(Push(two, shares[3], third)) = Surplus(two) - shares[3].amount
  BY <1>2, <1>4, PushCosts
<1>6. /\ Surplus(ledger) \in Int
      /\ shares[1].amount \in Nat /\ shares[2].amount \in Nat /\ shares[3].amount \in Nat
  BY <1>2, LedgerFields
<1> QED BY <1>1, <1>2, <1>3, <1>4, <1>5, <1>6 DEF one, two

----------------------------------------------------------------------------
(* The channels, as the registry sees them move *)

Statuses == {"UNINITIALIZED", "ACTIVE", "CHALLENGE_PERIOD", "CLOSED"}

ChannelsTyped ==
    /\ now \in 0 .. MaxTime
    /\ status \in [Channel -> Statuses]
    /\ nonce \in [Channel -> Nat]
    /\ challengeExpiry \in [Channel -> Nat]
    /\ cooperative \in [Channel -> BOOLEAN]

\* What one step may do to channel c, as far as commitments are concerned.
Quiet(c) ==
    /\ status'[c] = status[c] /\ nonce'[c] = nonce[c]
    /\ challengeExpiry'[c] = challengeExpiry[c] /\ cooperative'[c] = cooperative[c]

Begins(c) ==            \* funded or cancelled
    /\ status[c] = "UNINITIALIZED" /\ status'[c] # "CHALLENGE_PERIOD"
    /\ nonce'[c] = nonce[c] /\ cooperative'[c] = cooperative[c]
    /\ now' = now

Reposts(c) ==
    /\ status[c] # "CLOSED" /\ status'[c] = "CHALLENGE_PERIOD"
    /\ challengeExpiry'[c] = now + CHALLENGE_PERIOD
    /\ now' = now

Agrees(c) ==
    /\ status[c] # "CLOSED" /\ status'[c] = "CLOSED" /\ cooperative'[c]
    /\ now' = now

Expires(c) ==
    /\ status[c] = "CHALLENGE_PERIOD" /\ now >= challengeExpiry[c]
    /\ status'[c] = "CLOSED"
    /\ nonce'[c] = nonce[c] /\ cooperative'[c] = cooperative[c]
    /\ now' = now

Moves(c) == Quiet(c) \/ Begins(c) \/ Reposts(c) \/ Agrees(c) \/ Expires(c)

\* A step of the channels keeps their types, lets the clock only go forward, and
\* does one of these things to each channel.
LEMMA LifeStep ==
    ASSUME ChannelsTyped, Ch!Next
    PROVE  /\ ChannelsTyped' /\ now' >= now
           /\ \A c \in Channel : Moves(c)
<1> USE RegistryAssumption DEF ChannelsTyped, Statuses
<1>1. CASE Ch!Tick
  BY <1>1 DEF Ch!Tick, Moves, Quiet
<1>2. ASSUME NEW d \in Channel, NEW amount \in Amounts,
             NEW next \in {"UNINITIALIZED", "ACTIVE"}, Ch!Fund(d, amount, next)
      PROVE  /\ ChannelsTyped' /\ now' >= now
             /\ \A c \in Channel : Moves(c)
  BY <1>2 DEF Ch!Fund, Moves, Quiet, Begins
<1>3. ASSUME NEW d \in Channel, NEW n \in Nonces, Ch!Post(d, n)
      PROVE  /\ ChannelsTyped' /\ now' >= now
             /\ \A c \in Channel : Moves(c)
  <2>1. n \in Nat /\ now + CHALLENGE_PERIOD \in Nat
    OBVIOUS
  <2> QED BY <1>3, <2>1 DEF Ch!Post, Moves, Quiet, Reposts
<1>4. ASSUME NEW d \in Channel, NEW n \in Nonces, Ch!Agree(d, n)
      PROVE  /\ ChannelsTyped' /\ now' >= now
             /\ \A c \in Channel : Moves(c)
  <2>1. n \in Nat
    OBVIOUS
  <2>2. ChannelsTyped' /\ now' >= now
    BY <1>4, <2>1 DEF Ch!Agree, Ch!Release
  <2>3. ASSUME NEW c \in Channel, c # d
        PROVE  Quiet(c)
    BY <1>4, <2>3 DEF Ch!Agree, Ch!Release, Quiet
  <2>4. Agrees(d)
    BY <1>4 DEF Ch!Agree, Ch!Release, Agrees
  <2> QED BY <2>2, <2>3, <2>4 DEF Moves
<1>5. ASSUME NEW d \in Channel, Ch!Cancel(d)
      PROVE  /\ ChannelsTyped' /\ now' >= now
             /\ \A c \in Channel : Moves(c)
  BY <1>5 DEF Ch!Cancel, Ch!Release, Moves, Quiet, Begins
<1>6. ASSUME NEW d \in Channel, Ch!Expire(d)
      PROVE  /\ ChannelsTyped' /\ now' >= now
             /\ \A c \in Channel : Moves(c)
  BY <1>6 DEF Ch!Expire, Ch!Release, Moves, Quiet, Expires
<1> QED BY <1>1, <1>2, <1>3, <1>4, <1>5, <1>6 DEF Ch!Next, Ch!Step

----------------------------------------------------------------------------
(* The inductive invariant *)

\* A close is observed only once the channel is CLOSED, and not before it was.
ObservedAfterClose(c) ==
    /\ closedSince[c] <= now
    /\ closedObservedAt[c] # Unobserved =>
         status[c] = "CLOSED" /\ closedSince[c] <= closedObservedAt[c]

\* Whoever is committed above the nonce of a channel that nobody can challenge
\* any more, and that was not closed cooperatively, let its window end or
\* committed when there was no window.
Answerable(c) ==
    ~Contestable(c) /\ ~cooperative[c] =>
        \A w \in Address : nonce[c] < commitments[c][w] => w \in missed[c] \cup untimely[c]

Defended(c) == slashed[c] \subseteq missed[c] \cup untimely[c]

Safe(c) == ObservedAfterClose(c) /\ Answerable(c) /\ Defended(c)

IInv ==
    /\ TypeOK /\ ChannelsTyped
    /\ Surplus(ledger) = SumFunction(Staked)
    /\ \A c \in Channel : Safe(c)

\* What the actions of the registry that move no channel leave as it was.
LEMMA SafeFrame ==
    ASSUME NEW c \in Channel, Safe(c), UNCHANGED channelVars,
           closedSince' = closedSince, missed' = missed,
           closedObservedAt'[c] = closedObservedAt[c], commitments'[c] = commitments[c],
           untimely'[c] = untimely[c], slashed'[c] = slashed[c]
    PROVE  Safe(c)'
BY DEF Safe, ObservedAfterClose, Answerable, Defended, Contestable, channelVars

LEMMA TypedFrame ==
    ASSUME ChannelsTyped, UNCHANGED channelVars
    PROVE  ChannelsTyped'
BY DEF ChannelsTyped, channelVars

----------------------------------------------------------------------------
(* Each action keeps the invariant *)

LEMMA StakeStep ==
    ASSUME IInv, NEW w \in Address, NEW c \in Channel, NEW value \in StakeAmounts,
           Stake(w, c, value)
    PROVE  IInv'
<1>1. value \in Nat /\ stakes[c][w] \in Nat
  BY RegistryAssumption DEF IInv, TypeOK
<1> DEFINE grown == stakes[c][w] + value
<1>2. grown \in Nat /\ stakes' = [stakes EXCEPT ![c][w] = grown]
  BY <1>1 DEF Stake, IInv, TypeOK
<1> HIDE DEF grown
<1>3. /\ stakes' \in [Channel -> [Address -> Nat]]
      /\ SumFunction(Staked') = (SumFunction(Staked) - stakes[c][w]) + grown
      /\ SumFunction(Staked) \in Nat
  BY <1>2, StakeChange DEF IInv, TypeOK
<1>4. ledger' \in L!Ledger /\ Surplus(ledger') = Surplus(ledger) + value
  BY <1>1, ReceiveAdds DEF Stake, IInv, TypeOK
<1>5. Surplus(ledger') = SumFunction(Staked')
  BY <1>1, <1>3, <1>4 DEF IInv, grown
<1>6. TypeOK' /\ ChannelsTyped'
  BY <1>3, <1>4, TypedFrame DEF Stake, IInv, TypeOK, historyVars, channelVars
<1>7. \A d \in Channel : Safe(d)'
  BY SafeFrame DEF Stake, IInv, historyVars
<1> QED BY <1>5, <1>6, <1>7 DEF IInv

LEMMA UnstakeStep ==
    ASSUME IInv, NEW w \in Address, NEW c \in Channel, Unstake(w, c)
    PROVE  IInv'
<1>1. stakes[c][w] \in Nat /\ 0 \in Nat /\ stakes[c][w] <= ledger.balance
  BY DEF Unstake, IInv, TypeOK
<1>2. stakes' = [stakes EXCEPT ![c][w] = 0]
  BY DEF Unstake
<1>3. /\ stakes' \in [Channel -> [Address -> Nat]]
      /\ SumFunction(Staked') = (SumFunction(Staked) - stakes[c][w]) + 0
      /\ SumFunction(Staked) \in Nat
  BY <1>1, <1>2, StakeChange DEF IInv, TypeOK
<1>4. ledger' \in L!Ledger /\ Surplus(ledger') = Surplus(ledger) - stakes[c][w]
  BY <1>1, RefundTakes DEF Unstake, IInv, TypeOK
<1>5. Surplus(ledger') = SumFunction(Staked')
  BY <1>1, <1>3, <1>4 DEF IInv
<1>6. TypeOK' /\ ChannelsTyped'
  BY <1>3, <1>4, TypedFrame DEF Unstake, IInv, TypeOK, historyVars, channelVars
<1>7. \A d \in Channel : Safe(d)'
  BY SafeFrame DEF Unstake, IInv, historyVars
<1> QED BY <1>5, <1>6, <1>7 DEF IInv

\* What recording a close changes.
LEMMA RecordStep ==
    ASSUME IInv, NEW c \in Channel, RecordClosed(c), now' = now
    PROVE  /\ status[c] = "CLOSED"
           /\ closedObservedAt' \in [Channel -> 0 .. MaxTime \cup {Unobserved}]
           /\ closedSince[c] <= now
           /\ closedObservedAt'[c] # Unobserved => closedSince[c] <= closedObservedAt'[c]
           /\ \A d \in Channel \ {c} : closedObservedAt'[d] = closedObservedAt[d]
<1>1. /\ now \in 0 .. MaxTime /\ ObservedAfterClose(c)
      /\ closedObservedAt \in [Channel -> 0 .. MaxTime \cup {Unobserved}]
  BY DEF IInv, TypeOK, ChannelsTyped, Safe
<1> QED BY <1>1 DEF RecordClosed, ObservedAfterClose

LEMMA ObserveStep ==
    ASSUME IInv, NEW c \in Channel, ObserveClosed(c)
    PROVE  IInv'
<1>1. RecordClosed(c) /\ now' = now
  BY DEF ObserveClosed, channelVars
<1>2. TypeOK' /\ ChannelsTyped'
  BY <1>1, RecordStep, TypedFrame DEF ObserveClosed, IInv, TypeOK, historyVars, channelVars
<1>3. ASSUME NEW d \in Channel PROVE Safe(d)'
  <2>1. CASE d = c
    <3>1. ObservedAfterClose(c)'
      BY <1>1, RecordStep DEF ObserveClosed, ObservedAfterClose, channelVars, historyVars
    <3>2. Answerable(c)' /\ Defended(c)'
      BY DEF ObserveClosed, Answerable, Defended, Contestable, IInv, Safe, channelVars, historyVars
    <3> QED BY <2>1, <3>1, <3>2 DEF Safe
  <2>2. CASE d # c
    BY <1>1, <2>2, RecordStep, SafeFrame DEF ObserveClosed, IInv, historyVars
  <2> QED BY <2>1, <2>2
<1>4. Surplus(ledger') = SumFunction(Staked')
  BY DEF ObserveClosed, IInv, Staked
<1> QED BY <1>2, <1>3, <1>4 DEF IInv

LEMMA CommitStep ==
    ASSUME IInv, NEW w \in Address, NEW c \in Channel, NEW n \in Nonces,
           CommitCheckpoint(w, c, n)
    PROVE  IInv'
<1>1. n \in Nat
  BY RegistryAssumption
<1>2. /\ commitments' = [commitments EXCEPT ![c][w] = n]
      /\ commitments' \in [Channel -> [Address -> Nat]]
  BY <1>1 DEF CommitCheckpoint, IInv, TypeOK
<1>3. /\ untimely' \in [Channel -> SUBSET Address]
      /\ \A d \in Channel : untimely[d] \subseteq untimely'[d]
      /\ ~Contestable(c) => w \in untimely'[c]
      /\ \A d \in Channel \ {c} : untimely'[d] = untimely[d]
  BY DEF CommitCheckpoint, IInv, TypeOK
<1>4. TypeOK' /\ ChannelsTyped'
  BY <1>2, <1>3, TypedFrame DEF CommitCheckpoint, IInv, TypeOK, channelVars
<1>5. ASSUME NEW d \in Channel PROVE Safe(d)'
  <2>1. CASE d = c
    <3>1. ObservedAfterClose(c)' /\ Defended(c)'
      BY <1>3 DEF CommitCheckpoint, ObservedAfterClose, Defended, IInv, Safe, channelVars
    <3>2. Answerable(c)'
      <4> SUFFICES ASSUME ~Contestable(c), ~cooperative[c], NEW v \in Address,
                          nonce[c] < commitments'[c][v]
                   PROVE  v \in missed[c] \cup untimely'[c]
        BY DEF CommitCheckpoint, Answerable, Contestable, channelVars
      <4>1. CASE v = w
        BY <1>3, <4>1
      <4>2. CASE v # w
        <5>1. commitments'[c][v] = commitments[c][v]
          BY <1>2, <4>2 DEF IInv, TypeOK
        <5> QED BY <1>3, <5>1 DEF IInv, Safe, Answerable
      <4> QED BY <4>1, <4>2
    <3> QED BY <2>1, <3>1, <3>2 DEF Safe
  <2>2. CASE d # c
    BY <1>2, <1>3, <2>2, SafeFrame DEF CommitCheckpoint, IInv, TypeOK
  <2> QED BY <2>1, <2>2
<1>6. Surplus(ledger') = SumFunction(Staked')
  BY DEF CommitCheckpoint, IInv, Staked
<1> QED BY <1>4, <1>5, <1>6 DEF IInv

LEMMA SlashStep ==
    ASSUME IInv, NEW caller \in Address, NEW w \in Address, NEW c \in Channel,
           Slash(caller, c, w)
    PROVE  IInv'
<1>1. /\ ~cooperative[c] /\ nonce[c] < commitments[c][w]
      /\ RecordClosed(c) /\ UNCHANGED channelVars /\ now' = now
  BY DEF Slash, Confiscate, channelVars
<1>2. stakes[c][w] \in Nat /\ 0 \in Nat
  BY DEF IInv, TypeOK
<1>3. stakes' = [stakes EXCEPT ![c][w] = 0]
  BY DEF Slash, Confiscate
<1>4. /\ stakes' \in [Channel -> [Address -> Nat]]
      /\ SumFunction(Staked') = (SumFunction(Staked) - stakes[c][w]) + 0
      /\ SumFunction(Staked) \in Nat
  BY <1>2, <1>3, StakeChange DEF IInv, TypeOK
<1>5. ledger' \in L!Ledger /\ Surplus(ledger') = Surplus(ledger) - stakes[c][w]
  BY <1>2, SharesCost DEF Slash, Confiscate, IInv, TypeOK
<1>6. Surplus(ledger') = SumFunction(Staked')
  BY <1>2, <1>4, <1>5 DEF IInv
<1>7. /\ slashed' \in [Channel -> SUBSET Address]
      /\ slashed'[c] = slashed[c] \cup {w}
      /\ \A d \in Channel \ {c} : slashed'[d] = slashed[d]
  BY DEF Slash, Confiscate, IInv, TypeOK
<1>8. TypeOK' /\ ChannelsTyped'
  BY <1>1, <1>4, <1>5, <1>7, RecordStep, TypedFrame DEF Slash, Confiscate, IInv, TypeOK
<1>9. w \in missed[c] \cup untimely[c]
  BY <1>1, RecordStep DEF IInv, Safe, Answerable, Contestable
<1>10. ASSUME NEW d \in Channel PROVE Safe(d)'
  <2>1. CASE d = c
    <3>1. ObservedAfterClose(c)'
      BY <1>1, RecordStep DEF Slash, Confiscate, ObservedAfterClose, channelVars
    <3>2. Answerable(c)'
      BY DEF Slash, Confiscate, Answerable, Contestable, IInv, Safe, channelVars
    <3>3. Defended(c)'
      BY <1>7, <1>9 DEF Slash, Confiscate, Defended, IInv, Safe
    <3> QED BY <2>1, <3>1, <3>2, <3>3 DEF Safe
  <2>2. CASE d # c
    BY <1>1, <1>7, <2>2, RecordStep, SafeFrame DEF Slash, Confiscate, IInv
  <2> QED BY <2>1, <2>2
<1> QED BY <1>6, <1>8, <1>10 DEF IInv

LEMMA ClaimStep ==
    ASSUME IInv, NEW w \in Address, Claim(w)
    PROVE  IInv'
<1>1. ledger' \in L!Ledger /\ Surplus(ledger') = Surplus(ledger)
  BY ClaimIsFree DEF Claim, IInv, TypeOK
<1>2. TypeOK' /\ ChannelsTyped'
  BY <1>1, TypedFrame DEF Claim, IInv, TypeOK, historyVars, channelVars
<1>3. \A d \in Channel : Safe(d)'
  BY SafeFrame DEF Claim, IInv, historyVars
<1>4. Surplus(ledger') = SumFunction(Staked')
  BY <1>1 DEF Claim, IInv, Staked
<1> QED BY <1>2, <1>3, <1>4 DEF IInv

LEMMA ChannelMovesStep ==
    ASSUME IInv, ChannelStep
    PROVE  IInv'
<1>1. /\ ChannelsTyped' /\ now' >= now
      /\ \A c \in Channel : Moves(c)
  BY LifeStep DEF IInv, ChannelStep
<1>2. TypeOK'
  <2>1. closedSince' \in [Channel -> 0 .. MaxTime]
    BY DEF ChannelStep, IInv, TypeOK, ChannelsTyped
  <2>2. missed' \in [Channel -> SUBSET Address]
    BY DEF ChannelStep, IInv, TypeOK
  <2> QED BY <2>1, <2>2 DEF ChannelStep, IInv, TypeOK, registryVars
<1>3. Surplus(ledger') = SumFunction(Staked')
  BY DEF ChannelStep, IInv, Staked, registryVars
<1>4. ASSUME NEW c \in Channel PROVE Safe(c)'
  <2> USE RegistryAssumption
  <2>1. /\ now \in Nat /\ now' \in Nat /\ now' >= now
        /\ challengeExpiry[c] \in Nat /\ CHALLENGE_PERIOD \in Nat \ {0}
        /\ closedSince[c] \in Nat
        /\ ObservedAfterClose(c) /\ Answerable(c) /\ Defended(c)
    BY <1>1 DEF IInv, TypeOK, ChannelsTyped, Safe
  <2>2. /\ missed[c] \subseteq missed'[c]
        /\ WindowEnds(c) =>
             \A w \in Address : nonce[c] < commitments[c][w] => w \in missed'[c]
        /\ untimely' = untimely /\ slashed' = slashed /\ commitments' = commitments
        /\ closedObservedAt' = closedObservedAt
    BY DEF ChannelStep, registryVars
  <2>3. closedSince'[c] = IF status[c] # "CLOSED" /\ status'[c] = "CLOSED"
                          THEN now ELSE closedSince[c]
    BY DEF ChannelStep
  <2>4. ObservedAfterClose(c)'
    <3>1. status[c] = "CLOSED" => status'[c] = "CLOSED"
      BY <1>1 DEF Moves, Quiet, Begins, Reposts, Agrees, Expires
    <3> QED BY <2>1, <2>2, <2>3, <3>1 DEF ObservedAfterClose
  <2>5. Defended(c)'
    BY <2>1, <2>2 DEF Defended
  <2>6. Answerable(c)'
    <3> SUFFICES ASSUME ~Contestable(c)', ~cooperative'[c], NEW w \in Address,
                        nonce'[c] < commitments[c][w]
                 PROVE  w \in missed'[c] \cup untimely[c]
      BY <2>2 DEF Answerable
    <3>1. CASE Quiet(c)
      <4>1. CASE ~Contestable(c)
        BY <2>1, <2>2, <3>1, <4>1 DEF Quiet, Answerable
      <4>2. CASE Contestable(c)
        <5>1. WindowEnds(c)
          BY <2>1, <3>1, <4>2 DEF Quiet, Contestable, WindowEnds
        <5> QED BY <2>2, <3>1, <5>1 DEF Quiet
      <4> QED BY <4>1, <4>2
    <3>2. CASE Begins(c)
      BY <2>1, <2>2, <3>2 DEF Begins, Answerable, Contestable
    <3>3. CASE Reposts(c)
      BY <2>1, <3>3 DEF Reposts, Contestable
    <3>4. CASE Agrees(c)
      BY <3>4 DEF Agrees
    <3>5. CASE Expires(c)
      BY <2>1, <2>2, <3>5 DEF Expires, Answerable, Contestable
    <3> QED BY <1>1, <3>1, <3>2, <3>3, <3>4, <3>5 DEF Moves
  <2> QED BY <2>4, <2>5, <2>6 DEF Safe
<1> QED BY <1>1, <1>2, <1>3, <1>4 DEF IInv

LEMMA InitIInv == Init => IInv
<1> SUFFICES ASSUME Init PROVE IInv
  OBVIOUS
<1> USE RegistryAssumption DEF Init, Ch!Init
<1>1. TypeOK /\ ChannelsTyped
  BY DEF TypeOK, ChannelsTyped, Statuses, L!EmptyLedger, L!Ledger
<1>2. ASSUME NEW c \in Channel
      PROVE  Safe(c)
  BY DEF Safe, ObservedAfterClose, Answerable, Defended
<1>3. Surplus(ledger) = 0
  <2>1. SumFunction([a \in Address |-> 0]) = 0
    BY SumOfZeros
  <2>2. ledger.balance = 0 /\ ledger.pendingWithdrawals = [a \in Address |-> 0]
    BY DEF L!EmptyLedger
  <2> QED BY <2>1, <2>2 DEF Surplus
<1>4. SumFunction(Staked) = 0
  <2>1. SumFunction([a \in Address |-> 0]) = 0 /\ SumFunction([c \in Channel |-> 0]) = 0
    BY SumOfZeros
  <2>2. \A c \in Channel : stakes[c] = [a \in Address |-> 0]
    OBVIOUS
  <2>3. Staked = [c \in Channel |-> 0]
    BY <2>1, <2>2 DEF Staked
  <2> QED BY <2>1, <2>3
<1> QED BY <1>1, <1>2, <1>3, <1>4 DEF IInv

LEMMA StutterStep ==
    ASSUME IInv, UNCHANGED vars
    PROVE  IInv'
BY DEF IInv, vars, channelVars, registryVars, historyVars, TypeOK, ChannelsTyped,
   Staked, Safe, ObservedAfterClose, Answerable, Defended, Contestable

----------------------------------------------------------------------------
(* Theorems *)

\* The inductive invariant holds in every reachable state.
THEOREM Invariance == Spec => []IInv
<1>1. IInv /\ [Next]_vars => IInv'
  <2> SUFFICES ASSUME IInv, [Next]_vars PROVE IInv'
    OBVIOUS
  <2>1. ASSUME NEW w \in Address, NEW c \in Channel, Operation(w, c)
        PROVE  IInv'
    BY <2>1, StakeStep, UnstakeStep, CommitStep, SlashStep DEF Operation
  <2> QED BY <2>1, ChannelMovesStep, ObserveStep, ClaimStep, StutterStep DEF Next
<1> QED BY <1>1, InitIInv, PTL DEF Spec

\* Type correctness: no stake, credit or balance of the registry underflows.
THEOREM TypeCorrect == Spec => []TypeOK
<1>1. IInv => TypeOK
  BY DEF IInv
<1> QED BY <1>1, Invariance, PTL

\* The registry always holds exactly the stakes and the unclaimed credits,
\* whatever is rounded in a slash and whichever of its pushes fail.
THEOREM RegistrySolvent == Spec => []Solvency
<1>1. IInv => Solvency
  <2> SUFFICES ASSUME IInv PROVE Solvency
    OBVIOUS
  <2>1. /\ ledger \in L!Ledger /\ stakes \in [Channel -> [Address -> Nat]]
        /\ ledger.balance - SumFunction(ledger.pendingWithdrawals) = SumFunction(Staked)
    BY DEF IInv, TypeOK, Surplus
  <2>2. ledger.balance \in Nat /\ SumFunction(ledger.pendingWithdrawals) \in Nat
    BY <2>1, LedgerFields
  <2>3. \A c \in Channel : SumFunction(stakes[c]) \in Nat
    BY <2>1, SumType, RegistryAssumption
  <2>4. Staked \in [Channel -> Nat]
    BY <2>3 DEF Staked
  <2>5. SumFunction(Staked) \in Nat
    BY <2>4, SumType, RegistryAssumption
  <2>6. ledger.balance = SumFunction(Staked) + SumFunction(ledger.pendingWithdrawals)
    BY <2>1, <2>2, <2>5
  <2> QED BY <2>6 DEF Solvency, Staked
<1> QED BY <1>1, Invariance, PTL

\* Whoever loses a stake let a window end below its own commitment, or had
\* committed when there was nothing to challenge.
THEOREM DiligentSafe == Spec => []DiligentNeverSlashed
<1>1. IInv => DiligentNeverSlashed
  BY DEF IInv, Safe, Defended, DiligentNeverSlashed
<1> QED BY <1>1, Invariance, PTL

\* Stake leaves only for a settlement below the owner's commitment, or after a
\* whole cooldown since the channel really closed.
THEOREM JustStakes == Spec => StakeLeavesJustly
<1> DEFINE Just == \A c \in Channel, w \in Address :
             stakes'[c][w] < stakes[c][w] =>
                 /\ status[c] = "CLOSED" /\ stakes'[c][w] = 0
                 /\ \/ nonce[c] < commitments[c][w]
                    \/ now >= closedSince[c] + UNSTAKE_COOLDOWN
<1>1. IInv /\ [Next]_vars => Just
  <2> SUFFICES ASSUME IInv, [Next]_vars, NEW c \in Channel, NEW w \in Address,
                      stakes'[c][w] < stakes[c][w]
               PROVE  /\ status[c] = "CLOSED" /\ stakes'[c][w] = 0
                      /\ \/ nonce[c] < commitments[c][w]
                         \/ now >= closedSince[c] + UNSTAKE_COOLDOWN
    OBVIOUS
  <2>1. /\ stakes \in [Channel -> [Address -> Nat]] /\ stakes[c][w] \in Nat
        /\ now \in Nat /\ closedSince[c] \in Nat /\ UNSTAKE_COOLDOWN \in Nat
        /\ ObservedAfterClose(c)
        /\ closedObservedAt[c] \in Nat \cup {Unobserved}
    BY RegistryAssumption DEF IInv, TypeOK, ChannelsTyped, Safe
  <2>2. stakes' # stakes
    BY <2>1
  <2>3. ASSUME NEW v \in Address, NEW d \in Channel, NEW value \in StakeAmounts,
               Stake(v, d, value)
        PROVE  FALSE
    <3>1. value \in Nat /\ stakes[d][v] \in Nat
      BY RegistryAssumption DEF IInv, TypeOK
    <3> QED BY <2>1, <2>3, <3>1 DEF Stake
  <2>4. ASSUME NEW v \in Address, NEW d \in Channel, Unstake(v, d)
        PROVE  /\ d = c /\ v = w /\ stakes'[c][w] = 0
               /\ status[c] = "CLOSED" /\ now >= closedSince[c] + UNSTAKE_COOLDOWN
    <3>1. d = c /\ v = w /\ stakes'[c][w] = 0
      BY <2>1, <2>4 DEF Unstake
    <3> QED BY <2>1, <2>4, <3>1, RegistryAssumption DEF Unstake, ObservedAfterClose
  <2>5. ASSUME NEW caller \in Address, NEW v \in Address, NEW d \in Channel,
               Slash(caller, d, v)
        PROVE  /\ d = c /\ v = w /\ stakes'[c][w] = 0
               /\ status[c] = "CLOSED" /\ nonce[c] < commitments[c][w]
    <3>1. d = c /\ v = w /\ stakes'[c][w] = 0
      BY <2>1, <2>5 DEF Slash, Confiscate
    <3>2. RecordClosed(c) /\ now' = now
      BY <2>5, <3>1 DEF Slash, Confiscate, channelVars
    <3> QED BY <2>5, <3>1, <3>2, RecordStep DEF Slash
  <2>6. ASSUME NEW v \in Address, NEW d \in Channel, Operation(v, d)
        PROVE  /\ status[c] = "CLOSED" /\ stakes'[c][w] = 0
               /\ \/ nonce[c] < commitments[c][w]
                  \/ now >= closedSince[c] + UNSTAKE_COOLDOWN
    <3>1. ASSUME NEW n \in Nonces, CommitCheckpoint(v, d, n)
          PROVE  FALSE
      BY <2>2, <3>1 DEF CommitCheckpoint
    <3> QED BY <2>3, <2>4, <2>5, <2>6, <3>1 DEF Operation
  <2>7. ~ChannelStep /\ ~(\E d \in Channel : ObserveClosed(d))
        /\ ~(\E v \in Address : Claim(v)) /\ ~UNCHANGED vars
    BY <2>2 DEF ChannelStep, ObserveClosed, Claim, vars, registryVars
  <2> QED BY <2>6, <2>7 DEF Next
<1> QED BY <1>1, Invariance, PTL DEF Spec, StakeLeavesJustly

\* Every stake and every credit can be paid out at any time: a transfer never
\* fails for want of funds.
Affordable ==
    \A w \in Address :
        /\ ledger.pendingWithdrawals[w] <= ledger.balance
        /\ \A c \in Channel : stakes[c][w] <= ledger.balance

\* No transfer ever fails for want of funds.
THEOREM AlwaysFunded == Spec => []Affordable
<1>1. IInv => Affordable
  <2> SUFFICES ASSUME IInv, NEW w \in Address
               PROVE  /\ ledger.pendingWithdrawals[w] <= ledger.balance
                      /\ \A c \in Channel : stakes[c][w] <= ledger.balance
    BY DEF Affordable
  <2> USE RegistryAssumption
  <2>1. /\ ledger \in L!Ledger /\ stakes \in [Channel -> [Address -> Nat]]
        /\ ledger.balance - SumFunction(ledger.pendingWithdrawals) = SumFunction(Staked)
    BY DEF IInv, TypeOK, Surplus
  <2>2. /\ ledger.balance \in Nat /\ ledger.pendingWithdrawals \in [Address -> Nat]
        /\ SumFunction(ledger.pendingWithdrawals) \in Nat
    BY <2>1, LedgerFields
  <2>3. /\ ledger.pendingWithdrawals[w] <= SumFunction(ledger.pendingWithdrawals)
        /\ ledger.pendingWithdrawals[w] \in Nat
    BY <2>2, SumClear
  <2>4. \A d \in Channel : SumFunction(stakes[d]) \in Nat
    BY <2>1, SumType
  <2>5. Staked \in [Channel -> Nat]
    BY <2>4 DEF Staked
  <2>6. SumFunction(Staked) \in Nat
    BY <2>5, SumType
  <2>7. ledger.balance = SumFunction(Staked) + SumFunction(ledger.pendingWithdrawals)
    BY <2>1, <2>2, <2>6
  <2>8. ASSUME NEW c \in Channel PROVE stakes[c][w] <= ledger.balance
    <3>1. Staked[c] = SumFunction(stakes[c]) /\ Staked[c] <= SumFunction(Staked)
      <4>1. Staked[c] = SumFunction(stakes[c])
        BY DEF Staked
      <4>2. Staked[c] <= SumFunction(Staked)
        BY <2>5, SumClear
      <4> QED BY <4>1, <4>2
    <3>2. stakes[c] \in [Address -> Nat] /\ stakes[c][w] \in Nat
      BY <2>1
    <3>3. stakes[c][w] <= SumFunction(stakes[c])
      BY <3>2, SumClear
    <3> QED BY <2>2, <2>4, <2>6, <2>7, <3>1, <3>2, <3>3
  <2> QED BY <2>2, <2>3, <2>6, <2>7, <2>8
<1> QED BY <1>1, Invariance, PTL
=============================================================================
