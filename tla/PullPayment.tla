---------------------------- MODULE PullPayment ----------------------------
(* The pull-payment ledger that PaymentChannel.sol and WatchtowerRegistry.sol *)
(* both carry: the contract's own ETH and the credits (pendingWithdrawals) of *)
(* recipients whose push transfer failed.  A ledger is a value; the contracts *)
(* keep one in a variable and the operators below return the next one.        *)
EXTENDS Naturals

CONSTANT Address          \* accounts that can receive ETH

Ledger == [balance : Nat, pendingWithdrawals : [Address -> Nat]]

EmptyLedger == [balance |-> 0, pendingWithdrawals |-> [a \in Address |-> 0]]

\* A payable call brings msg.value into the contract.
Receive(ledger, value) == [ledger EXCEPT !.balance = @ + value]

\* Mutant: the amount is credited even when the push went through.
CreditOrSend_CreditsAnyway(ledger, to, amount, accepts) ==
    IF accepts /\ amount <= ledger.balance
    THEN [ledger EXCEPT !.balance = @ - amount, !.pendingWithdrawals[to] = @ + amount]
    ELSE [ledger EXCEPT !.pendingWithdrawals[to] = @ + amount]

(* _creditOrSend: nothing for a zero amount; a push that the recipient takes *)
(* (and the contract can fund) leaves the contract; any other is credited.   *)
CreditOrSend(ledger, to, amount, accepts) ==
    IF amount = 0 THEN ledger
    ELSE IF accepts /\ amount <= ledger.balance
         THEN [ledger EXCEPT !.balance = @ - amount]
         ELSE [ledger EXCEPT !.pendingWithdrawals[to] = @ + amount]

\* claim() reverts (no step) without a credit or when the transfer fails.
CanClaim(ledger, to) ==
    /\ ledger.pendingWithdrawals[to] > 0
    /\ ledger.pendingWithdrawals[to] <= ledger.balance

Claimed(ledger, to) ==
    [balance |-> ledger.balance - ledger.pendingWithdrawals[to],
     pendingWithdrawals |-> [ledger.pendingWithdrawals EXCEPT ![to] = 0]]
=============================================================================
