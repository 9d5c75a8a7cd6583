----------------------------- MODULE Watchtower -----------------------------
(* watchtower/src: one process that stores checkpoints of co-signed states      *)
(* (server.ts, checkpoint.ts, store.ts), commits to them in WatchtowerRegistry, *)
(* and answers stale closes of PaymentChannel with challenge (monitor.ts).      *)
(* Handlers interleave at their awaits; what lies between two awaits is a step. *)
EXTENDS PaymentChannel, SequencesExt

CONSTANT Torn              \* a checkpoint file cut off by a crash in mid-write

ASSUME WatchtowerAssumption ==
    /\ None \notin RawUpdates
    /\ Torn \notin [ChannelId -> RawUpdates \cup {None}]

VARIABLES
    up,                    \* the process runs
    data,                  \* CheckpointStore.data: channel -> checkpoint or None
    disk,                  \* the JSON file it is saved to
    requests,              \* POST /checkpoint handlers in progress
    commits,               \* per channel: nonces waiting for the commit lock
    committed,             \* per channel: the registry's commitments entry
    alerts,                \* per channel: an event not delivered yet
    reactions,             \* reactToChannel calls in progress
    missed,                \* history: channels on which the process has failed
    early                  \* history: the newest nonce stored before the close

processVars == <<up, data, disk, requests, commits, alerts, reactions>>
watchtowerVars == <<vars, processVars, committed, missed, early>>

Empty == [id \in ChannelId |-> None]
StoredNonce(checkpoint) == IF checkpoint = None THEN 0 ELSE checkpoint.nonce
Newer(st, checkpoint) == checkpoint # None => st.nonce > checkpoint.nonce

WatchtowerInit ==
    /\ Init
    /\ up = TRUE
    /\ data = Empty /\ disk = Empty
    /\ requests = {} /\ reactions = {}
    /\ commits = [id \in ChannelId |-> <<>>]
    /\ committed = [id \in ChannelId |-> 0]
    /\ alerts = [id \in ChannelId |-> FALSE]
    /\ missed = {}
    /\ early = [id \in ChannelId |-> 0]

----------------------------------------------------------------------------
(* The chain: a running process hears of ChannelClosedUnilaterally and *)
(* ChannelChallenged.                                                  *)

Notified ==
    alerts' = [id \in ChannelId |->
        \/ alerts[id]
        \/ /\ up /\ channels'[id] # channels[id]
           /\ channels'[id].status = "CHALLENGE_PERIOD"]

ChainStep ==
    /\ Next
    /\ Notified
    /\ UNCHANGED <<up, data, disk, requests, commits, committed, reactions>>

----------------------------------------------------------------------------
(* POST /checkpoint *)

\* Unsigned states are refused, whatever else happens to them.
PostCheckpoint(id, st) ==
    /\ up
    /\ st \in signed[id]
    /\ requests' = requests \cup {[id |-> id, st |-> st, pc |-> "verify"]}
    /\ UNCHANGED <<vars, up, data, disk, commits, committed, alerts, reactions>>

\* verifyCheckpoint: the channel exists and the state conserves its deposits.
VerifyCheckpoint(rq) ==
    /\ rq.pc = "verify"
    /\ requests' = (requests \ {rq}) \cup
         IF channels[rq.id].partyA # ZeroAddress /\ CheckConservation(channels[rq.id], rq.st)
         THEN {[rq EXCEPT !.pc = "store"]} ELSE {}
    /\ UNCHANGED <<vars, up, data, disk, commits, committed, alerts, reactions>>

\* Mutants: the file is not rewritten; commits do not wait for earlier ones.
PutIfNewer_Unsaved(rq) ==
    /\ rq.pc = "store"
    /\ requests' = requests \ {rq}
    /\ IF Newer(rq.st, data[rq.id])
       THEN /\ data' = [data EXCEPT ![rq.id] = rq.st]
            /\ commits' = [commits EXCEPT ![rq.id] = Append(@, rq.st.nonce)]
       ELSE UNCHANGED <<data, commits>>
    /\ UNCHANGED <<vars, up, disk, committed, alerts, reactions>>

PutIfNewer_Unlocked(rq) ==
    /\ rq.pc = "store"
    /\ requests' = requests \ {rq}
    /\ IF Newer(rq.st, data[rq.id])
       THEN /\ data' = [data EXCEPT ![rq.id] = rq.st]
            /\ disk' = data'
            /\ \E i \in 1 .. Len(commits[rq.id]) + 1 :
                 commits' = [commits EXCEPT ![rq.id] = InsertAt(@, i, rq.st.nonce)]
       ELSE UNCHANGED <<data, disk, commits>>
    /\ UNCHANGED <<vars, up, committed, alerts, reactions>>

\* putIfNewer and, before any other await, the place in the commit queue.
PutIfNewer(rq) ==
    /\ rq.pc = "store"
    /\ requests' = requests \ {rq}
    /\ IF Newer(rq.st, data[rq.id])
       THEN /\ data' = [data EXCEPT ![rq.id] = rq.st]
            /\ disk' = data'
            /\ commits' = [commits EXCEPT ![rq.id] = Append(@, rq.st.nonce)]
       ELSE UNCHANGED <<data, disk, commits>>
    /\ UNCHANGED <<vars, up, committed, alerts, reactions>>

\* commitCheckpoint, one at a time; a failure is reported and never retried.
Commit(id) ==
    /\ commits[id] # <<>>
    /\ commits' = [commits EXCEPT ![id] = Tail(@)]
    /\ \/ /\ Head(commits[id]) > committed[id]
          /\ committed' = [committed EXCEPT ![id] = Head(commits[id])]
       \/ UNCHANGED committed
    /\ UNCHANGED <<vars, up, data, disk, requests, alerts, reactions>>

----------------------------------------------------------------------------
(* reactToChannel *)

React(id) ==
    /\ alerts[id]
    /\ alerts' = [alerts EXCEPT ![id] = FALSE]
    /\ reactions' = reactions \cup {[id |-> id, pc |-> "read"]}
    /\ UNCHANGED <<vars, up, data, disk, requests, commits, committed>>

ReadChannel(rx) ==
    LET ch == channels[rx.id] IN
    /\ rx.pc = "read"
    /\ reactions' = (reactions \ {rx}) \cup
         IF ch.status = "CHALLENGE_PERIOD"
         THEN {[id |-> rx.id, pc |-> "decide", nonce |-> ch.nonce, expiry |-> ch.challengeExpiry]}
         ELSE {}
    /\ UNCHANGED <<vars, up, data, disk, requests, commits, committed, alerts>>

\* Mutant: only a state two ahead is worth a challenge.
Decide_TwoAhead(rx) ==
    /\ rx.pc = "decide"
    /\ reactions' = (reactions \ {rx}) \cup
         IF now < rx.expiry /\ StoredNonce(data[rx.id]) > rx.nonce + 1
         THEN {[id |-> rx.id, pc |-> "send", st |-> data[rx.id]]} ELSE {}
    /\ UNCHANGED <<vars, up, data, disk, requests, commits, committed, alerts>>

\* The latest block's time and the stored checkpoint against the channel as read.
Decide(rx) ==
    /\ rx.pc = "decide"
    /\ reactions' = (reactions \ {rx}) \cup
         IF now < rx.expiry /\ StoredNonce(data[rx.id]) > rx.nonce
         THEN {[id |-> rx.id, pc |-> "send", st |-> data[rx.id]]} ELSE {}
    /\ UNCHANGED <<vars, up, data, disk, requests, commits, committed, alerts>>

\* The transaction, which may revert because the channel has moved on.  (One that
\* would reopen the window beyond MaxTime is beyond the bound and not sent.)
SendChallenge(rx) ==
    /\ rx.pc = "send"
    /\ IF Challengeable(rx.id, rx.st) THEN Challenge(rx.id, rx.st) ELSE UNCHANGED vars
    /\ Notified
    /\ reactions' = reactions \ {rx}
    /\ UNCHANGED <<up, data, disk, requests, commits, committed>>

----------------------------------------------------------------------------
(* Failures *)

\* A read or a transaction fails: the handler ends and nothing retries it.
HandlerFails(id) ==
    /\ \/ \E rq \in requests : rq.id = id /\ requests' = requests \ {rq} /\ UNCHANGED reactions
       \/ \E rx \in reactions : rx.id = id /\ reactions' = reactions \ {rx} /\ UNCHANGED requests
    /\ UNCHANGED <<vars, up, data, disk, commits, committed, alerts>>

\* Everything in memory is gone.
Stop ==
    /\ up' = FALSE
    /\ data' = Empty
    /\ requests' = {} /\ reactions' = {}
    /\ commits' = [id \in ChannelId |-> <<>>]
    /\ alerts' = [id \in ChannelId |-> FALSE]
    /\ UNCHANGED <<vars, committed>>

Crash == up /\ Stop /\ UNCHANGED disk

\* writeFileSync truncates the file before it writes it.
CrashWhileSaving ==
    /\ \E rq \in requests : rq.pc = "store" /\ Newer(rq.st, data[rq.id])
    /\ Stop
    /\ disk' = Torn

\* A file that is not JSON stops the process again; nobody looks at old events.
Restart ==
    /\ ~up /\ disk # Torn
    /\ up' = TRUE
    /\ data' = disk
    /\ UNCHANGED <<vars, disk, requests, commits, committed, alerts, reactions>>

----------------------------------------------------------------------------
Serve ==
    \/ \E id \in ChannelId, st \in RawUpdates : PostCheckpoint(id, st)
    \/ \E rq \in requests : VerifyCheckpoint(rq) \/ PutIfNewer(rq)
    \/ \E id \in ChannelId : Commit(id)

Monitor ==
    \/ \E id \in ChannelId : React(id)
    \/ \E rx \in reactions : ReadChannel(rx) \/ Decide(rx) \/ SendChallenge(rx)

\* Channels that the process still has something to do about.
Busy ==
    {id \in ChannelId : alerts[id]}
        \cup {rx.id : rx \in reactions} \cup {rq.id : rq \in requests}

\* Channels whose challenge window ends in this step.
WindowEnds ==
    {id \in ChannelId :
        /\ channels[id].status = "CHALLENGE_PERIOD"
        /\ now < channels[id].challengeExpiry /\ channels[id].challengeExpiry <= now'}

\* The newest nonce stored for each channel, with those stored in time up to now.
Newest(history, InTime(_)) ==
    [id \in ChannelId |->
        IF InTime(id) /\ StoredNonce(data'[id]) > history[id]
        THEN StoredNonce(data'[id]) ELSE history[id]]

\* Channels in use whose checkpoint belongs to other deposits than theirs, so that
\* challenge reverts on it: verifyCheckpoint does not look at the status and took
\* it before partyB joined.
Unusable ==
    {id \in ChannelId :
        /\ channels'[id].status \in {"ACTIVE", "CHALLENGE_PERIOD"} /\ data'[id] # None
        /\ ~CheckConservation(channels'[id], data'[id])}

\* The process fails a channel when a handler for it fails, its window ends before
\* it is dealt with or its checkpoint is of no use, and all when it stops.
Records(failed) ==
    /\ missed' = missed \cup failed \cup (Busy \cap WindowEnds) \cup Unusable
    /\ early' = Newest(early, LAMBDA id : channels[id].status = "ACTIVE")

WatchtowerNext ==
    \/ (ChainStep \/ Serve \/ Monitor \/ Restart) /\ Records({})
    \/ \E id \in ChannelId : HandlerFails(id) /\ Records({id})
    \/ (Crash \/ CrashWhileSaving) /\ Records(ChannelId)

WatchtowerSpec == WatchtowerInit /\ [][WatchtowerNext]_watchtowerVars
----------------------------------------------------------------------------
(* Properties *)

\* The commit lock: the nonces sent to the registry rise, so that none of them is
\* refused because a later one got there first (the registry refuses 0 in any case).
CommitsRise ==
    \A id \in ChannelId :
        LET nonces == <<committed[id]>> \o commits[id] IN
        \A i \in 1 .. Len(nonces) - 1 : nonces[i + 1] = 0 \/ nonces[i] < nonces[i + 1]

\* Whatever the process is slashable for, it can still defend: across crashes and
\* restarts it holds a checkpoint at least as new as its on-chain commitment.
CommitmentsBacked ==
    \A id \in ChannelId : up => committed[id] <= StoredNonce(data[id])

\* checkpoint.ts:121-122: a checkpoint that was accepted before the close protects
\* the channel: while the process does not fail, the channel does not settle below
\* it unless both parties agree to.
CheckpointsProtect ==
    \A id \in ChannelId \ missed :
        /\ channels[id].status = "CLOSED" /\ origin[id] # "none"
        /\ ~channels[id].closedCooperatively
        => early[id] <= channels[id].nonce
=============================================================================
