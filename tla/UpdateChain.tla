---------------------------- MODULE UpdateChain -----------------------------
(***************************************************************************)
(* What a proof of the channel circuit promises: a chain of exactly Steps  *)
(* updates that starts at the claimed nonce, in which nonces rise and the  *)
(* two balances always make up the deposit, and that ends in the claimed   *)
(* state.  Numbers are integers here: nothing wraps.                       *)
(***************************************************************************)
EXTENDS Integers, Sequences

CONSTANTS
  Steps,    \* the updates of one chain
  Limit     \* nonces and balances are below it

VARIABLES
  claim,    \* [start_nonce, total_deposit, out_nonce, final_balance_a, final_balance_b]
  chain,    \* the updates so far
  verdict   \* "open", "accepted" or "rejected"

Head0 == IF chain = <<>> THEN claim.start_nonce ELSE chain[Len(chain)].nonce

Init == chain = <<>> /\ verdict = "open"

\* One more update of the chain, after the last and within the deposit.
Extend ==
  /\ verdict = "open"
  /\ Len(chain) < Steps
  /\ \E nonce, a, b \in 0..(Limit - 1) :
       /\ nonce > Head0
       /\ a + b = claim.total_deposit
       /\ chain' = Append(chain, [nonce |-> nonce, balance_a |-> a, balance_b |-> b])
  /\ UNCHANGED <<claim, verdict>>

\* A complete chain that ends as claimed.
Accept ==
  /\ verdict = "open"
  /\ Len(chain) = Steps
  /\ chain[Steps] = [nonce |-> claim.out_nonce, balance_a |-> claim.final_balance_a,
                     balance_b |-> claim.final_balance_b]
  /\ verdict' = "accepted"
  /\ UNCHANGED <<claim, chain>>

Reject ==
  /\ verdict = "open"
  /\ verdict' = "rejected"
  /\ UNCHANGED <<claim, chain>>

Next == Extend \/ Accept \/ Reject
Spec == Init /\ [][Next]_<<claim, chain, verdict>>
=============================================================================
