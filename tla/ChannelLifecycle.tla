-------------------------- MODULE ChannelLifecycle --------------------------
(* What PaymentChannel promises to those who only watch it (the parties, the   *)
(* watchtowers and their registry, the relayer): the life of every channel,    *)
(* seen through getChannel, with no signatures, proofs, keys or accounts.      *)
(* PaymentChannel is shown to implement this specification.                    *)
EXTENDS Naturals

CONSTANTS Channel,          \* channel ids
          Amounts,          \* deposits
          Nonces,           \* nonces of the states that can be posted
          CHALLENGE_PERIOD,
          MaxTime           \* bound on the clock

VARIABLES now,              \* block.timestamp
          status,           \* Channel.status
          nonce,            \* nonce of the posted state
          challengeExpiry,
          cooperative,      \* closedCooperatively
          held,             \* ETH the channel received
          released          \* ETH the channel gave back

vars == <<now, status, nonce, challengeExpiry, cooperative, held, released>>

Init ==
    /\ now = 0
    /\ status = [c \in Channel |-> "UNINITIALIZED"]
    /\ nonce = [c \in Channel |-> 0]
    /\ challengeExpiry = [c \in Channel |-> 0]
    /\ cooperative = [c \in Channel |-> FALSE]
    /\ held = [c \in Channel |-> 0]
    /\ released = [c \in Channel |-> 0]

\* A deposit arrives: partyA's leaves the channel waiting, partyB's starts it.
Fund(c, amount, next) ==
    /\ status[c] = "UNINITIALIZED"
    /\ status' = [status EXCEPT ![c] = next]
    /\ held' = [held EXCEPT ![c] = @ + amount]
    /\ UNCHANGED <<now, nonce, challengeExpiry, cooperative, released>>

\* A state is put up for dispute: the first one no older than the channel's
\* nonce, each later one strictly newer and before the window expires.  Every
\* post leaves a whole period to answer it.
Post(c, n) ==
    /\ \/ status[c] = "ACTIVE" /\ n >= nonce[c]
       \/ status[c] = "CHALLENGE_PERIOD" /\ n > nonce[c] /\ now < challengeExpiry[c]
    /\ status' = [status EXCEPT ![c] = "CHALLENGE_PERIOD"]
    /\ nonce' = [nonce EXCEPT ![c] = n]
    /\ challengeExpiry' = [challengeExpiry EXCEPT ![c] = now + CHALLENGE_PERIOD]
    /\ UNCHANGED <<now, cooperative, held, released>>

\* Closing gives everything back, in one step.
Release(c) ==
    /\ status' = [status EXCEPT ![c] = "CLOSED"]
    /\ released' = [released EXCEPT ![c] = held[c]]
    /\ UNCHANGED <<now, challengeExpiry, held>>

Cancel(c) ==
    /\ status[c] = "UNINITIALIZED"
    /\ Release(c)
    /\ UNCHANGED <<nonce, cooperative>>

\* Both parties agree: no window, but never below the posted nonce.
Agree(c, n) ==
    /\ status[c] \in {"ACTIVE", "CHALLENGE_PERIOD"}
    /\ n >= nonce[c]
    /\ nonce' = [nonce EXCEPT ![c] = n]
    /\ cooperative' = [cooperative EXCEPT ![c] = TRUE]
    /\ Release(c)

\* The window went by.
Expire(c) ==
    /\ status[c] = "CHALLENGE_PERIOD"
    /\ now >= challengeExpiry[c]
    /\ Release(c)
    /\ UNCHANGED <<nonce, cooperative>>

Tick ==
    /\ now < MaxTime
    /\ now' = now + 1
    /\ UNCHANGED <<status, nonce, challengeExpiry, cooperative, held, released>>

Step(c) ==
    \/ \E amount \in Amounts, next \in {"UNINITIALIZED", "ACTIVE"} : Fund(c, amount, next)
    \/ \E n \in Nonces : Post(c, n) \/ Agree(c, n)
    \/ Cancel(c)
    \/ Expire(c)

Next == Tick \/ \E c \in Channel : Step(c)

Spec == Init /\ [][Next]_vars
=============================================================================
