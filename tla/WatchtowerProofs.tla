-------------------------- MODULE WatchtowerProofs --------------------------
(* Theorems about Watchtower for every value of its constants: the commit lock, *)
(* what survives a crash, and that a checkpoint taken in time protects a channel *)
(* with which the process does not fail.                                        *)
EXTENDS Watchtower, PaymentChannelProofs, SequenceTheorems

----------------------------------------------------------------------------
(* Types *)

Checkpoint == RawUpdates \cup {None}
Request == [id : ChannelId, st : RawUpdates, pc : {"verify", "store"}]
Reading == [id : ChannelId, pc : {"read"}]
Deciding == [id : ChannelId, pc : {"decide"}, nonce : Nat, expiry : Nat]
Sending == [id : ChannelId, pc : {"send"}, st : RawUpdates]

Running ==
    /\ up \in BOOLEAN
    /\ data \in [ChannelId -> Checkpoint]
    /\ disk \in [ChannelId -> Checkpoint] \cup {Torn}
    /\ requests \subseteq Request
    /\ reactions \subseteq Reading \cup Deciding \cup Sending
    /\ commits \in [ChannelId -> Seq(Nat)]
    /\ committed \in [ChannelId -> Nat]
    /\ alerts \in [ChannelId -> BOOLEAN]
ProcessTyped == Running /\ early \in [ChannelId -> Nat]

\* The nonce of a stored checkpoint.
LEMMA StoredNonceType ==
    /\ \A c \in Checkpoint : StoredNonce(c) \in Nat
    /\ \A st \in RawUpdates : st # None /\ StoredNonce(st) = st.nonce /\ st.nonce \in Nat
    /\ StoredNonce(None) = 0
BY ChannelAssumption, WatchtowerAssumption DEF StoredNonce, Checkpoint, ChannelState

\* A newer checkpoint has a higher nonce than the stored one, or is the first.
LEMMA NewerNonce ==
    ASSUME NEW st \in RawUpdates, NEW c \in Checkpoint, Newer(st, c)
    PROVE  StoredNonce(st) >= StoredNonce(c) /\ (c # None => StoredNonce(st) > StoredNonce(c))
<1>1. CASE c = None
  BY <1>1, StoredNonceType
<1>2. CASE c # None
  <2>1. StoredNonce(c) = c.nonce /\ StoredNonce(st) = st.nonce /\ c.nonce \in Nat /\ st.nonce \in Nat
    BY <1>2, StoredNonceType DEF StoredNonce, Checkpoint
  <2> QED BY <1>2, <2>1 DEF Newer
<1> QED BY <1>1, <1>2

\* Every step of the process is a step of the chain, or leaves it alone.
LEMMA ChainOnly ==
    ASSUME ProcessTyped, [WatchtowerNext]_watchtowerVars
    PROVE  [Next]_vars
<1>1. ASSUME NEW id \in ChannelId, NEW st \in RawUpdates, PostCheckpoint(id, st)
      PROVE  UNCHANGED vars
  BY <1>1 DEF PostCheckpoint
<1>2. ASSUME NEW rq \in requests, VerifyCheckpoint(rq) \/ PutIfNewer(rq)
      PROVE  UNCHANGED vars
  BY <1>2 DEF VerifyCheckpoint, PutIfNewer
<1>3. ASSUME NEW id \in ChannelId, Commit(id) \/ React(id) \/ HandlerFails(id)
      PROVE  UNCHANGED vars
  BY <1>3 DEF Commit, React, HandlerFails
<1>4. ASSUME NEW rx \in reactions, ReadChannel(rx) \/ Decide(rx)
      PROVE  UNCHANGED vars
  BY <1>4 DEF ReadChannel, Decide
<1>5. ASSUME NEW rx \in reactions, SendChallenge(rx)
      PROVE  [Next]_vars
  <2>1. rx \in Sending
    BY <1>5 DEF SendChallenge, ProcessTyped, Running, Reading, Deciding
  <2>2. rx.id \in ChannelId /\ rx.st \in RawUpdates
    BY <2>1 DEF Sending
  <2>3. CASE Challenge(rx.id, rx.st)
    BY <2>2, <2>3 DEF Next, Dispute
  <2> QED BY <1>5, <2>3 DEF SendChallenge
<1>6. ASSUME Crash \/ CrashWhileSaving \/ Restart
      PROVE  UNCHANGED vars
  BY <1>6 DEF Crash, CrashWhileSaving, Restart, Stop
<1> QED BY <1>1, <1>2, <1>3, <1>4, <1>5, <1>6
        DEF WatchtowerNext, watchtowerVars, ChainStep, Serve, Monitor

----------------------------------------------------------------------------
(* The commit queue and the file *)

\* The nonces waiting for the lock rise, from the one the registry has; only a first
\* nonce of 0, which it will refuse, does not exceed that.
Queued(id) ==
    /\ \A i \in 1 .. Len(commits[id]) : commits[id][i] = 0 \/ committed[id] < commits[id][i]
    /\ \A i, j \in 1 .. Len(commits[id]) : i < j => commits[id][i] < commits[id][j]

\* None of them is newer than what the file has.
Filed(id) ==
    /\ committed[id] <= StoredNonce(disk[id])
    /\ \A i \in 1 .. Len(commits[id]) :
         disk[id] # None /\ commits[id][i] <= StoredNonce(disk[id])

Orderly ==
    /\ up => disk = data
    /\ ~up => requests = {}
    /\ \A id \in ChannelId :
         /\ ~up => commits[id] = <<>>
         /\ Queued(id)
         /\ disk # Torn => Filed(id)

\* A step that leaves the file and the queues alone.
LEMMA QuietOrderly ==
    ASSUME Orderly, UNCHANGED <<up, data, disk, commits, committed>>,
           ~up => requests' = requests
    PROVE  Orderly'
BY DEF Orderly, Queued, Filed

\* Storing a newer checkpoint adds the newest nonce to the queue.
LEMMA StoreOrderly ==
    ASSUME ProcessTyped, Orderly, NEW rq \in requests, PutIfNewer(rq)
    PROVE  Orderly'
<1>1. /\ rq.id \in ChannelId /\ rq.st \in RawUpdates /\ up /\ disk = data
      /\ data \in [ChannelId -> Checkpoint] /\ disk # Torn
  BY WatchtowerAssumption DEF ProcessTyped, Running, Orderly, Request, Checkpoint
<1>2. CASE ~(Newer(rq.st, data[rq.id]))
  BY <1>1, <1>2, QuietOrderly DEF PutIfNewer
<1>3. CASE Newer(rq.st, data[rq.id])
  <2>1. /\ data' = [data EXCEPT ![rq.id] = rq.st] /\ disk' = data'
        /\ commits' = [commits EXCEPT ![rq.id] = Append(@, rq.st.nonce)]
        /\ committed' = committed /\ up' = up
    BY <1>3 DEF PutIfNewer
  <2>2. ASSUME NEW id \in ChannelId, id # rq.id
        PROVE  (Queued(id) /\ Filed(id))'
    <3>1. /\ disk'[id] = disk[id] /\ commits'[id] = commits[id]
          /\ committed'[id] = committed[id]
      BY <1>1, <2>1, <2>2 DEF ProcessTyped, Running
    <3> QED BY <1>1, <3>1 DEF Orderly, Queued, Filed
  <2>3. (Queued(rq.id) /\ Filed(rq.id))'
    <3> DEFINE q == commits[rq.id]
               n == rq.st.nonce
    <3>1. /\ disk'[rq.id] = rq.st /\ commits'[rq.id] = Append(q, n)
          /\ committed'[rq.id] = committed[rq.id]
      BY <1>1, <2>1 DEF ProcessTyped, Running
    <3>2. q \in Seq(Nat) /\ n \in Nat /\ StoredNonce(rq.st) = n /\ committed[rq.id] \in Nat
          /\ StoredNonce(data[rq.id]) \in Nat
      BY <1>1, StoredNonceType DEF ProcessTyped, Running
    <3>3. Queued(rq.id) /\ Filed(rq.id) /\ disk[rq.id] = data[rq.id]
      BY <1>1 DEF Orderly
    <3> DEFINE m == StoredNonce(data[rq.id])
               c == committed[rq.id]
    <3>12. n >= m /\ (data[rq.id] # None => n > m) /\ (data[rq.id] = None => m = 0)
      BY <1>1, <1>3, <3>2, NewerNonce, StoredNonceType
    <3>13. /\ c <= m
           /\ \A i \in 1 .. Len(q) : data[rq.id] # None /\ q[i] <= m
           /\ \A i \in 1 .. Len(q) : q[i] = 0 \/ c < q[i]
           /\ \A i, j \in 1 .. Len(q) : i < j => q[i] < q[j]
      BY <3>3 DEF Queued, Filed
    <3> HIDE DEF m
    <3>15. m \in Nat /\ c \in Nat /\ n \in Nat /\ \A i \in 1 .. Len(q) : q[i] \in Nat
      BY <3>2 DEF m
    <3>4. /\ c <= n /\ (n = 0 \/ c < n)
          /\ \A i \in 1 .. Len(q) : q[i] \in Nat /\ q[i] < n
          /\ \A i \in 1 .. Len(q) : q[i] = 0 \/ c < q[i]
          /\ \A i, j \in 1 .. Len(q) : i < j => q[i] < q[j]
      BY <3>12, <3>13, <3>15
    <3>14. rq.st # None
      BY <1>1, StoredNonceType
    <3> HIDE DEF q, n
    <3>5. /\ Len(Append(q, n)) = Len(q) + 1 /\ Len(q) \in Nat
          /\ \A i \in 1 .. Len(q) : Append(q, n)[i] = q[i]
          /\ Append(q, n)[Len(q) + 1] = n
      BY <3>2
    <3>6. \A i \in 1 .. Len(q) + 1 : i \in 1 .. Len(q) \/ i = Len(q) + 1
      BY <3>5
    <3>7. \A i \in 1 .. Len(q) + 1 :
            /\ Append(q, n)[i] = 0 \/ committed[rq.id] < Append(q, n)[i]
            /\ Append(q, n)[i] <= n
      BY <3>2, <3>4, <3>5, <3>6
    <3>8. \A i, j \in 1 .. Len(q) + 1 : i < j => Append(q, n)[i] < Append(q, n)[j]
      <4> SUFFICES ASSUME NEW i \in 1 .. Len(q) + 1, NEW j \in 1 .. Len(q) + 1, i < j
                   PROVE  Append(q, n)[i] < Append(q, n)[j]
        OBVIOUS
      <4>1. i \in 1 .. Len(q)
        BY <3>5, <3>6
      <4> QED BY <3>4, <3>5, <3>6, <4>1
    <3>9. Queued(rq.id)'
      BY <3>1, <3>5, <3>7, <3>8 DEF Queued
    <3>10. Filed(rq.id)'
      BY <3>1, <3>2, <3>4, <3>5, <3>7, <3>14 DEF Filed
    <3> QED BY <3>9, <3>10
  <2> QED BY <1>1, <2>1, <2>2, <2>3 DEF Orderly
<1> QED BY <1>2, <1>3

\* A commit takes the oldest nonce of the queue.
LEMMA CommitOrderly ==
    ASSUME ProcessTyped, Orderly, NEW c \in ChannelId, Commit(c)
    PROVE  Orderly'
<1> DEFINE q == commits[c]
<1>1. /\ q \in Seq(Nat) /\ q # <<>> /\ commits' = [commits EXCEPT ![c] = Tail(q)]
      /\ up' = up /\ data' = data /\ disk' = disk /\ requests' = requests /\ up
  BY DEF Commit, ProcessTyped, Running, Orderly
<1>2. ASSUME NEW id \in ChannelId, id # c
      PROVE  Queued(id)' /\ (disk' # Torn => Filed(id)')
  <2>1. commits'[id] = commits[id] /\ committed'[id] = committed[id]
    BY <1>2 DEF Commit, ProcessTyped, Running
  <2> QED BY <1>1, <2>1 DEF Orderly, Queued, Filed
<1>3. Queued(c)' /\ (disk' # Torn => Filed(c)')
  <2>1. Queued(c) /\ (disk # Torn => Filed(c))
    BY DEF Orderly
  <2>2. commits'[c] = Tail(q)
    BY <1>1 DEF ProcessTyped, Running
  <2>3. /\ Len(Tail(q)) = Len(q) - 1 /\ Len(q) \in Nat /\ Len(q) >= 1 /\ Head(q) = q[1]
        /\ \A i \in 1 .. Len(Tail(q)) : Tail(q)[i] = q[i + 1]
    BY <1>1
  <2>4. \A i \in 1 .. Len(Tail(q)) : i + 1 \in 1 .. Len(q) /\ 1 < i + 1
    BY <2>3
  <2>5. 1 \in 1 .. Len(q)
    BY <2>3
  <2>6. (committed'[c] = q[1] /\ q[1] > committed[c]) \/ committed'[c] = committed[c]
    BY <1>1, <2>3 DEF Commit, ProcessTyped, Running
  <2> HIDE DEF q
  <2>7. /\ \A i \in 1 .. Len(q) : q[i] = 0 \/ committed[c] < q[i]
        /\ \A i, j \in 1 .. Len(q) : i < j => q[i] < q[j]
        /\ disk # Torn => /\ committed[c] <= StoredNonce(disk[c])
                          /\ \A i \in 1 .. Len(q) :
                               disk[c] # None /\ q[i] <= StoredNonce(disk[c])
    BY <2>1 DEF Queued, Filed, q
  <2>8. \A i \in 1 .. Len(Tail(q)) : Tail(q)[i] = 0 \/ committed'[c] < Tail(q)[i]
    BY <2>3, <2>4, <2>5, <2>6, <2>7
  <2>9. \A i, j \in 1 .. Len(Tail(q)) : i < j => Tail(q)[i] < Tail(q)[j]
    <3> SUFFICES ASSUME NEW i \in 1 .. Len(Tail(q)), NEW j \in 1 .. Len(Tail(q)), i < j
                 PROVE  Tail(q)[i] < Tail(q)[j]
      OBVIOUS
    <3>1. i + 1 < j + 1
      BY <2>3
    <3> QED BY <2>3, <2>4, <2>7, <3>1
  <2>10. disk # Torn => /\ committed'[c] <= StoredNonce(disk[c])
                        /\ \A i \in 1 .. Len(Tail(q)) :
                             disk[c] # None /\ Tail(q)[i] <= StoredNonce(disk[c])
    BY <2>3, <2>4, <2>5, <2>6, <2>7
  <2> QED BY <1>1, <2>2, <2>8, <2>9, <2>10 DEF Queued, Filed
<1> QED BY <1>1, <1>2, <1>3 DEF Orderly

\* A crash empties the queue, whatever it leaves of the file; a restart reads it.
LEMMA StopOrderly ==
    ASSUME ProcessTyped, Orderly, Crash \/ CrashWhileSaving
    PROVE  Orderly'
<1>1. /\ up' = FALSE /\ requests' = {} /\ commits' = [id \in ChannelId |-> <<>>]
      /\ committed' = committed /\ (disk' = disk \/ disk' = Torn)
  BY DEF Crash, CrashWhileSaving, Stop
<1>2. \A id \in ChannelId : commits'[id] = <<>> /\ Len(commits'[id]) = 0
  BY <1>1
<1>3. 1 .. 0 = {}
  OBVIOUS
<1> QED BY <1>1, <1>2, <1>3 DEF Orderly, Queued, Filed

LEMMA OrderlyStep ==
    ASSUME ProcessTyped, Orderly, [WatchtowerNext]_watchtowerVars
    PROVE  Orderly'
<1>1. ASSUME ChainStep
      PROVE  Orderly'
  BY <1>1, QuietOrderly DEF ChainStep
<1>2. ASSUME NEW id \in ChannelId, NEW st \in RawUpdates, PostCheckpoint(id, st)
      PROVE  Orderly'
  BY <1>2, QuietOrderly DEF PostCheckpoint
<1>3. ASSUME NEW rq \in requests, VerifyCheckpoint(rq)
      PROVE  Orderly'
  <2>1. up
    BY DEF Orderly
  <2> QED BY <1>3, <2>1, QuietOrderly DEF VerifyCheckpoint
<1>4. ASSUME NEW id \in ChannelId, React(id)
      PROVE  Orderly'
  BY <1>4, QuietOrderly DEF React
<1>5. ASSUME NEW id \in ChannelId, HandlerFails(id)
      PROVE  Orderly'
  <2>1. ~up => requests' = requests
    BY <1>5 DEF HandlerFails, Orderly
  <2> QED BY <1>5, <2>1, QuietOrderly DEF HandlerFails
<1>6. ASSUME NEW rx \in reactions, ReadChannel(rx) \/ Decide(rx) \/ SendChallenge(rx)
      PROVE  Orderly'
  BY <1>6, QuietOrderly DEF ReadChannel, Decide, SendChallenge
<1>7. ASSUME Restart
      PROVE  Orderly'
  BY <1>7 DEF Restart, Orderly, Queued, Filed
<1>8. ASSUME UNCHANGED watchtowerVars
      PROVE  Orderly'
  BY <1>8, QuietOrderly DEF watchtowerVars, processVars
<1> QED BY <1>1, <1>2, <1>3, <1>4, <1>5, <1>6, <1>7, <1>8, StoreOrderly, CommitOrderly, StopOrderly
        DEF WatchtowerNext, Serve, Monitor

----------------------------------------------------------------------------
(* Every step keeps the types. *)

\* The newest nonce stored in time is as before or that of the stored checkpoint.
LEMMA EarlyStep ==
    ASSUME NEW failed, Records(failed), NEW id \in ChannelId
    PROVE  early'[id] = IF channels[id].status = "ACTIVE" /\ StoredNonce(data'[id]) > early[id]
                        THEN StoredNonce(data'[id]) ELSE early[id]
BY DEF Records, Newest

LEMMA EarlyTyped ==
    ASSUME ProcessTyped, data' \in [ChannelId -> Checkpoint],
           [WatchtowerNext]_watchtowerVars
    PROVE  early' \in [ChannelId -> Nat]
<1>1. \A id \in ChannelId : StoredNonce(data'[id]) \in Nat /\ early[id] \in Nat
  BY StoredNonceType DEF ProcessTyped, Running
<1>2. ASSUME NEW failed, Records(failed)
      PROVE  early' \in [ChannelId -> Nat]
  BY <1>1, <1>2 DEF Records, Newest
<1>3. ASSUME UNCHANGED watchtowerVars
      PROVE  early' \in [ChannelId -> Nat]
  BY <1>3 DEF watchtowerVars, ProcessTyped, Running
<1> QED BY <1>2, <1>3 DEF WatchtowerNext

LEMMA NotifiedType ==
    ASSUME ProcessTyped, Notified
    PROVE  alerts' \in [ChannelId -> BOOLEAN]
BY DEF Notified, ProcessTyped, Running

LEMMA ServeTyped ==
    ASSUME ProcessTyped, TypeOK, Serve
    PROVE  Running'
<1>1. ASSUME NEW id \in ChannelId, NEW st \in RawUpdates, PostCheckpoint(id, st)
      PROVE  Running'
  <2>1. [id |-> id, st |-> st, pc |-> "verify"] \in Request
    BY DEF Request
  <2> QED BY <1>1, <2>1 DEF PostCheckpoint, ProcessTyped, Running
<1>2. ASSUME NEW rq \in requests, VerifyCheckpoint(rq)
      PROVE  Running'
  <2>1. [rq EXCEPT !.pc = "store"] \in Request
    BY DEF ProcessTyped, Running, Request
  <2> QED BY <1>2, <2>1 DEF VerifyCheckpoint, ProcessTyped, Running
<1>3. ASSUME NEW rq \in requests, PutIfNewer(rq)
      PROVE  Running'
  <2>1. rq.id \in ChannelId /\ rq.st \in RawUpdates /\ rq.st.nonce \in Nat
    BY StoredNonceType DEF ProcessTyped, Running, Request
  <2>2. data' \in [ChannelId -> Checkpoint] /\ disk' \in [ChannelId -> Checkpoint] \cup {Torn}
    <3>1. /\ rq.st \in Checkpoint /\ data \in [ChannelId -> Checkpoint]
          /\ disk \in [ChannelId -> Checkpoint] \cup {Torn}
      BY <2>1 DEF ProcessTyped, Running, Checkpoint
    <3>2. \/ UNCHANGED <<data, disk>>
          \/ data' = [data EXCEPT ![rq.id] = rq.st] /\ disk' = data'
      BY <1>3 DEF PutIfNewer
    <3> QED BY <2>1, <3>1, <3>2
  <2>3. Append(commits[rq.id], rq.st.nonce) \in Seq(Nat)
    BY <2>1 DEF ProcessTyped, Running
  <2>4. commits' \in [ChannelId -> Seq(Nat)]
    BY <1>3, <2>1, <2>3 DEF PutIfNewer, ProcessTyped, Running
  <2> QED BY <1>3, <2>2, <2>4 DEF PutIfNewer, ProcessTyped, Running
<1>4. ASSUME NEW id \in ChannelId, Commit(id)
      PROVE  Running'
  <2>1. commits[id] \in Seq(Nat) /\ commits[id] # <<>>
    BY <1>4 DEF Commit, ProcessTyped, Running
  <2>2. Tail(commits[id]) \in Seq(Nat) /\ Head(commits[id]) \in Nat
    BY <2>1
  <2>3. commits' \in [ChannelId -> Seq(Nat)] /\ committed' \in [ChannelId -> Nat]
    BY <1>4, <2>2 DEF Commit, ProcessTyped, Running
  <2> QED BY <1>4, <2>3 DEF Commit, ProcessTyped, Running
<1> QED BY <1>1, <1>2, <1>3, <1>4 DEF Serve

LEMMA MonitorTyped ==
    ASSUME ProcessTyped, TypeOK, Monitor
    PROVE  Running'
<1>1. ASSUME NEW id \in ChannelId, React(id)
      PROVE  Running'
  <2>1. [id |-> id, pc |-> "read"] \in Reading
    BY DEF Reading
  <2> QED BY <1>1, <2>1 DEF React, ProcessTyped, Running
<1>2. ASSUME NEW rx \in reactions, ReadChannel(rx)
      PROVE  Running'
  <2>1. rx.id \in ChannelId
    BY DEF ProcessTyped, Running, Reading, Deciding, Sending
  <2>2. channels[rx.id].nonce \in Nat /\ channels[rx.id].challengeExpiry \in Nat
    BY <2>1 DEF TypeOK, Channel
  <2>3. [id |-> rx.id, pc |-> "decide", nonce |-> channels[rx.id].nonce,
         expiry |-> channels[rx.id].challengeExpiry] \in Deciding
    BY <2>1, <2>2 DEF Deciding
  <2> QED BY <1>2, <2>3 DEF ReadChannel, ProcessTyped, Running
<1>3. ASSUME NEW rx \in reactions, Decide(rx)
      PROVE  Running'
  <2>1. rx \in Deciding
    BY <1>3 DEF Decide, ProcessTyped, Running, Reading, Sending
  <2>2. rx.id \in ChannelId /\ rx.nonce \in Nat
    BY <2>1 DEF Deciding
  <2>3. ASSUME StoredNonce(data[rx.id]) > rx.nonce
        PROVE  [id |-> rx.id, pc |-> "send", st |-> data[rx.id]] \in Sending
    <3>1. data[rx.id] \in RawUpdates
      BY <2>2, <2>3, StoredNonceType DEF ProcessTyped, Running, Checkpoint
    <3> QED BY <2>2, <3>1 DEF Sending
  <2> QED BY <1>3, <2>3 DEF Decide, ProcessTyped, Running
<1>4. ASSUME NEW rx \in reactions, SendChallenge(rx)
      PROVE  Running'
  BY <1>4, NotifiedType DEF SendChallenge, ProcessTyped, Running
<1> QED BY <1>1, <1>2, <1>3, <1>4 DEF Monitor

LEMMA FailureTyped ==
    ASSUME ProcessTyped,
           \/ \E id \in ChannelId : HandlerFails(id)
           \/ Crash \/ CrashWhileSaving \/ Restart
    PROVE  Running'
<1>1. ASSUME NEW id \in ChannelId, HandlerFails(id)
      PROVE  Running'
  BY <1>1 DEF HandlerFails, ProcessTyped, Running
<1>2. ASSUME Crash \/ CrashWhileSaving
      PROVE  Running'
  <2>1. Empty \in [ChannelId -> Checkpoint] /\ <<>> \in Seq(Nat)
    BY DEF Empty, Checkpoint
  <2>2. commits' \in [ChannelId -> Seq(Nat)] /\ data' \in [ChannelId -> Checkpoint]
    BY <1>2, <2>1 DEF Crash, CrashWhileSaving, Stop
  <2> QED BY <1>2, <2>2 DEF Crash, CrashWhileSaving, Stop, ProcessTyped, Running
<1>3. ASSUME Restart
      PROVE  Running'
  BY <1>3 DEF Restart, ProcessTyped, Running
<1> QED BY <1>1, <1>2, <1>3

LEMMA TypedStep ==
    ASSUME ProcessTyped, TypeOK, [WatchtowerNext]_watchtowerVars
    PROVE  ProcessTyped'
<1>1. ASSUME ChainStep
      PROVE  Running'
  BY <1>1, NotifiedType DEF ChainStep, ProcessTyped, Running
<1>2. ASSUME UNCHANGED watchtowerVars
      PROVE  Running'
  BY <1>2 DEF watchtowerVars, processVars, ProcessTyped, Running
<1>3. Running'
  BY <1>1, <1>2, ServeTyped, MonitorTyped, FailureTyped DEF WatchtowerNext
<1> QED BY <1>3, EarlyTyped DEF ProcessTyped, Running

----------------------------------------------------------------------------
(* The invariant, and what follows from the queue and the file *)

ProcessInv == IInv /\ ProcessTyped /\ Orderly

LEMMA InitProcessInv == WatchtowerInit => ProcessInv
<1> SUFFICES ASSUME WatchtowerInit PROVE ProcessInv
  OBVIOUS
<1>1. IInv
  BY InitIInv DEF WatchtowerInit
<1>2. Empty \in [ChannelId -> Checkpoint] /\ <<>> \in Seq(Nat)
  BY DEF Empty, Checkpoint
<1>3. ProcessTyped
  BY <1>2 DEF WatchtowerInit, ProcessTyped, Running
<1>4. \A id \in ChannelId : /\ commits[id] = <<>> /\ Len(commits[id]) = 0 /\ committed[id] = 0
                             /\ disk[id] = None
  BY DEF WatchtowerInit, Empty
<1>5. 1 .. 0 = {}
  OBVIOUS
<1>6. Orderly
  BY <1>4, <1>5, StoredNonceType DEF WatchtowerInit, Orderly, Queued, Filed
<1> QED BY <1>1, <1>3, <1>6 DEF ProcessInv

LEMMA ProcessStep ==
    ASSUME ProcessInv, [WatchtowerNext]_watchtowerVars
    PROVE  ProcessInv' /\ [Next]_vars
<1>1. [Next]_vars
  BY ChainOnly DEF ProcessInv
<1>2. IInv'
  BY <1>1, StepIInv DEF ProcessInv
<1>3. ProcessTyped' /\ Orderly'
  BY TypedStep, OrderlyStep DEF ProcessInv, IInv
<1> QED BY <1>1, <1>2, <1>3 DEF ProcessInv

\* Types, queue and file are in order in every reachable state.
THEOREM ProcessInvariance == WatchtowerSpec => []ProcessInv
<1>1. ProcessInv /\ [WatchtowerNext]_watchtowerVars => ProcessInv'
  BY ProcessStep
<1> QED BY <1>1, InitProcessInv, PTL DEF WatchtowerSpec

\* However requests interleave, nonces reach the registry in rising order.
THEOREM RisingCommits == WatchtowerSpec => []CommitsRise
<1>1. ProcessInv => CommitsRise
  <2> SUFFICES ASSUME ProcessInv, NEW id \in ChannelId,
                      NEW i \in 1 .. Len(<<committed[id]>> \o commits[id]) - 1
               PROVE  \/ (<<committed[id]>> \o commits[id])[i + 1] = 0
                      \/ (<<committed[id]>> \o commits[id])[i]
                           < (<<committed[id]>> \o commits[id])[i + 1]
    BY DEF CommitsRise
  <2> DEFINE q == commits[id]
             c == committed[id]
             all == <<c>> \o q
  <2>1. q \in Seq(Nat) /\ c \in Nat /\ Len(q) \in Nat
    BY DEF ProcessInv, ProcessTyped, Running
  <2>2. /\ \A k \in 1 .. Len(q) : q[k] = 0 \/ c < q[k]
        /\ \A k, m \in 1 .. Len(q) : k < m => q[k] < q[m]
    BY DEF ProcessInv, Orderly, Queued
  <2> HIDE DEF q, c
  <2>3. /\ Len(all) = Len(q) + 1 /\ all[1] = c
        /\ \A k \in 1 .. Len(q) : all[k + 1] = q[k]
    BY <2>1
  <2>4. i \in 1 .. Len(q)
    BY <2>1, <2>3 DEF q, c
  <2>5. CASE i = 1
    BY <2>2, <2>3, <2>4, <2>5 DEF q, c
  <2>6. CASE i # 1
    <3>1. i - 1 \in 1 .. Len(q) /\ i - 1 < i /\ (i - 1) + 1 = i
      BY <2>1, <2>4, <2>6
    <3>2. all[i] = q[i - 1] /\ all[i + 1] = q[i]
      BY <2>3, <2>4, <3>1
    <3>3. all[i] < all[i + 1]
      BY <2>2, <2>4, <3>1, <3>2
    <3> QED BY <3>3 DEF q, c
  <2> QED BY <2>5, <2>6
<1> QED BY <1>1, ProcessInvariance, PTL

\* Across crashes, a running process holds what it has committed to.
THEOREM BackedCommitments == WatchtowerSpec => []CommitmentsBacked
<1>1. ProcessInv => CommitmentsBacked
  BY WatchtowerAssumption
     DEF ProcessInv, ProcessTyped, Running, Checkpoint, Orderly, Filed, CommitmentsBacked
<1> QED BY <1>1, ProcessInvariance, PTL

----------------------------------------------------------------------------
(* What the process holds is signed, and a process that stopped has failed. *)

Signatures ==
    /\ \A rq \in requests : rq.st \in signed[rq.id]
    /\ \A id \in ChannelId : data[id] # None => data[id] \in signed[id]
    /\ disk # Torn => \A id \in ChannelId : disk[id] # None => disk[id] \in signed[id]
    /\ \A rx \in reactions : rx.pc = "send" => rx.st \in signed[rx.id]
Alive == ~up => ChannelId \subseteq missed

\* Nobody takes back a signature.
LEMMA SignedGrows ==
    ASSUME TypeOK, [Next]_vars, NEW id \in ChannelId
    PROVE  signed[id] \subseteq signed'[id]
<1> DEFINE Kept == signed[id] \subseteq signed'[id]
<1>1. ASSUME signed' = signed
      PROVE  Kept
  BY <1>1
<1>2. ASSUME NEW k \in ChannelId, Signing(k)
      PROVE  Kept
  BY <1>2 DEF Signing, CoSign, CoSignEdDSA, TypeOK
<1> HIDE DEF Kept
<1>3. ASSUME NEW sender \in Party, NEW k \in ChannelId, Funding(sender, k)
      PROVE  Kept
  BY <1>1, <1>3 DEF Funding, Join, CancelUnjoined, offChainVars
<1>4. ASSUME NEW sender \in Party, NEW k \in ChannelId, Closing(sender, k)
      PROVE  Kept
  BY <1>1, <1>4 DEF Closing, CloseCooperative, CloseUnilateral, CloseWithProof,
     CloseWithRemoteAttestation, PostRevealed, PostCommitment, offChainVars
<1>5. ASSUME NEW sender \in Party, NEW k \in ChannelId, Settling(sender, k)
      PROVE  Kept
  BY <1>1, <1>5 DEF Settling, Withdraw, WithdrawWithOpening, offChainVars
<1>6. ASSUME NEW k \in ChannelId, Dispute(k)
      PROVE  Kept
  BY <1>1, <1>6 DEF Dispute, Challenge, ChallengeWithProof, PostRevealed,
     PostCommitment, offChainVars
<1>7. ASSUME NEW sender \in Party, NEW partyB \in Party, NEW value \in Deposits,
             NEW key \in Party \cup {NoKey}, Open(sender, partyB, value, key)
      PROVE  Kept
  BY <1>1, <1>7 DEF Open, offChainVars
<1>8. ASSUME NEW k \in ChannelId, NEW st \in Attestable, AttestRemote(k, st)
      PROVE  Kept
  BY <1>1, <1>8 DEF AttestRemote
<1>9. ASSUME NEW sender \in Party, Claim(sender)
      PROVE  Kept
  BY <1>1, <1>9 DEF Claim, offChainVars
<1>10. ASSUME Tick \/ UNCHANGED vars
       PROVE  Kept
  BY <1>1, <1>10 DEF Tick, vars, offChainVars
<1>11. Kept
  BY <1>2, <1>3, <1>4, <1>5, <1>6, <1>7, <1>8, <1>9, <1>10 DEF Next
<1> QED BY <1>11 DEF Kept

\* A handler only passes on what it was given or what is stored.
LEMMA SignaturesStep ==
    ASSUME ProcessInv, Signatures, [WatchtowerNext]_watchtowerVars
    PROVE  Signatures'
<1>1. ASSUME NEW id \in ChannelId, NEW st, st \in signed[id]
      PROVE  st \in signed'[id]
  BY <1>1, ProcessStep, SignedGrows DEF ProcessInv, IInv
<1>2. /\ \A rq \in requests : rq.id \in ChannelId
      /\ \A rx \in reactions : rx.id \in ChannelId
  BY DEF ProcessInv, ProcessTyped, Running, Request, Reading, Deciding, Sending
<1>3. /\ \A rq \in requests : rq.st \in signed'[rq.id]
      /\ \A id \in ChannelId : data[id] # None => data[id] \in signed'[id]
      /\ disk # Torn => \A id \in ChannelId : disk[id] # None => disk[id] \in signed'[id]
      /\ \A rx \in reactions : rx.pc = "send" => rx.st \in signed'[rx.id]
  BY <1>1, <1>2 DEF Signatures
<1>4. ASSUME requests' \subseteq requests, reactions' \subseteq reactions,
             data' = data, disk' = disk
      PROVE  Signatures'
  BY <1>3, <1>4 DEF Signatures
<1>5. ASSUME ChainStep \/ Restart \/ UNCHANGED watchtowerVars
      PROVE  Signatures'
  BY <1>3, <1>5 DEF ChainStep, Restart, watchtowerVars, processVars, Signatures
<1>6. ASSUME NEW id \in ChannelId, NEW st \in RawUpdates, PostCheckpoint(id, st)
      PROVE  Signatures'
  BY <1>3, <1>6 DEF PostCheckpoint, Signatures, vars, offChainVars
<1>7. ASSUME NEW rq \in requests, VerifyCheckpoint(rq)
      PROVE  Signatures'
  <2>1. \A new \in requests' : \E old \in requests : new.id = old.id /\ new.st = old.st
    BY <1>7 DEF VerifyCheckpoint, ProcessInv, ProcessTyped, Running, Request
  <2> QED BY <1>3, <1>7, <2>1 DEF VerifyCheckpoint, Signatures
<1>8. ASSUME NEW rq \in requests, PutIfNewer(rq)
      PROVE  Signatures'
  <2>1. CASE ~(Newer(rq.st, data[rq.id]))
    BY <1>4, <1>8, <2>1 DEF PutIfNewer
  <2>2. CASE Newer(rq.st, data[rq.id])
    <3>1. /\ data' = [data EXCEPT ![rq.id] = rq.st] /\ disk' = data'
          /\ requests' \subseteq requests /\ reactions' = reactions
      BY <1>8, <2>2 DEF PutIfNewer
    <3>2. \A id \in ChannelId : data'[id] # None => data'[id] \in signed'[id]
      BY <1>2, <1>3, <3>1 DEF ProcessInv, ProcessTyped, Running
    <3> QED BY <1>3, <3>1, <3>2 DEF Signatures
  <2> QED BY <2>1, <2>2
<1>9. ASSUME NEW id \in ChannelId, Commit(id) \/ HandlerFails(id)
      PROVE  Signatures'
  BY <1>4, <1>9 DEF Commit, HandlerFails
<1>10. ASSUME NEW id \in ChannelId, React(id)
       PROVE  Signatures'
  BY <1>3, <1>10 DEF React, Signatures
<1>11. ASSUME NEW rx \in reactions, ReadChannel(rx)
       PROVE  Signatures'
  BY <1>3, <1>11 DEF ReadChannel, Signatures
<1>12. ASSUME NEW rx \in reactions, Decide(rx)
       PROVE  Signatures'
  <2>1. rx \in Deciding
    BY <1>12 DEF Decide, ProcessInv, ProcessTyped, Running, Reading, Sending
  <2>2. rx.id \in ChannelId /\ rx.nonce \in Nat
    BY <2>1 DEF Deciding
  <2>3. StoredNonce(data[rx.id]) > rx.nonce => data[rx.id] \in signed'[rx.id]
    BY <1>3, <2>2, StoredNonceType
  <2> QED BY <1>3, <1>12, <2>3 DEF Decide, Signatures
<1>13. ASSUME NEW rx \in reactions, SendChallenge(rx)
       PROVE  Signatures'
  BY <1>4, <1>13 DEF SendChallenge
<1>14. ASSUME Crash \/ CrashWhileSaving
       PROVE  Signatures'
  BY <1>3, <1>14 DEF Crash, CrashWhileSaving, Stop, Empty, Signatures
<1> QED BY <1>5, <1>6, <1>7, <1>8, <1>9, <1>10, <1>11, <1>12, <1>13, <1>14
        DEF WatchtowerNext, Serve, Monitor

\* A process that stops has failed every channel, for good.
LEMMA AliveStep ==
    ASSUME Alive, [WatchtowerNext]_watchtowerVars
    PROVE  Alive' /\ missed \subseteq missed'
<1>1. missed \subseteq missed'
  BY DEF WatchtowerNext, Records, watchtowerVars
<1>2. ASSUME up' = up \/ up'
      PROVE  Alive'
  BY <1>1, <1>2 DEF Alive
<1>3. ASSUME ChainStep \/ Restart \/ UNCHANGED watchtowerVars
      PROVE  up' = up \/ up'
  BY <1>3 DEF ChainStep, Restart, watchtowerVars, processVars
<1>4. ASSUME Serve \/ Monitor \/ \E id \in ChannelId : HandlerFails(id)
      PROVE  up' = up
  BY <1>4 DEF Serve, Monitor, HandlerFails, PostCheckpoint, VerifyCheckpoint, PutIfNewer,
     Commit, React, ReadChannel, Decide, SendChallenge
<1>5. ASSUME Records(ChannelId)
      PROVE  Alive'
  BY <1>5 DEF Records, Alive
<1> QED BY <1>1, <1>2, <1>3, <1>4, <1>5 DEF WatchtowerNext

----------------------------------------------------------------------------
(* A checkpoint stored in time is brought in before the window ends. *)

\* A reaction that will bring in what is stored for channel id as it stands now.
Useful(rx, id) ==
    /\ rx.id = id
    /\ \/ rx.pc = "read"
       \/ /\ rx.pc = "decide"
          /\ rx.nonce = channels[id].nonce /\ rx.expiry = channels[id].challengeExpiry
       \/ /\ rx.pc = "send"
          /\ early[id] <= rx.st.nonce /\ CheckConservation(channels[id], rx.st)
Pending(id) == alerts[id] \/ \E rx \in reactions : Useful(rx, id)

\* What is posted falls short of a checkpoint stored before the close.
Stale(id) == channels[id].status = "CHALLENGE_PERIOD" /\ channels[id].nonce < early[id]

Protected(id) ==
    /\ early[id] <= StoredNonce(data[id])
    /\ data[id] # None /\ channels[id].status \in {"ACTIVE", "CHALLENGE_PERIOD"}
         => CheckConservation(channels[id], data[id])
    /\ Stale(id) => now < channels[id].challengeExpiry /\ Pending(id)
    /\ channels[id].status = "CLOSED" /\ origin[id] # "none"
         /\ ~channels[id].closedCooperatively
         => early[id] <= channels[id].nonce

WatchtowerInv ==
    ProcessInv /\ Signatures /\ Alive /\ \A id \in ChannelId \ missed : Protected(id)

\* What is stored only gets newer while the process does not fail.
LEMMA DataRises ==
    ASSUME ProcessInv, Alive, [WatchtowerNext]_watchtowerVars, NEW id \in ChannelId \ missed'
    PROVE  StoredNonce(data'[id]) >= StoredNonce(data[id])
<1>1. /\ StoredNonce(data[id]) \in Nat /\ up /\ data \in [ChannelId -> Checkpoint]
  BY AliveStep, StoredNonceType DEF ProcessInv, ProcessTyped, Running, Alive
<1>2. ASSUME data' = data
      PROVE  StoredNonce(data'[id]) >= StoredNonce(data[id])
  BY <1>1, <1>2
<1>3. ASSUME NEW rq \in requests, PutIfNewer(rq)
      PROVE  StoredNonce(data'[id]) >= StoredNonce(data[id])
  <2>1. CASE data' = data
    BY <1>2, <2>1
  <2>2. CASE /\ Newer(rq.st, data[rq.id])
             /\ data' = [data EXCEPT ![rq.id] = rq.st]
    <3>1. rq.id \in ChannelId /\ rq.st \in RawUpdates
      BY DEF ProcessInv, ProcessTyped, Running, Request
    <3>2. data[rq.id] \in Checkpoint /\ StoredNonce(rq.st) >= StoredNonce(data[rq.id])
      BY <1>1, <2>2, <3>1, NewerNonce
    <3>3. CASE rq.id = id
      BY <1>1, <2>2, <3>2, <3>3
    <3>4. CASE rq.id # id
      BY <1>1, <2>2, <3>4
    <3> QED BY <3>3, <3>4
  <2> QED BY <1>3, <2>1, <2>2 DEF PutIfNewer
<1>4. data' = data \/ Records(ChannelId) \/ (\E rq \in requests : PutIfNewer(rq))
  BY <1>1 DEF WatchtowerNext, watchtowerVars, processVars, ChainStep, Serve, Monitor,
     HandlerFails, PostCheckpoint, VerifyCheckpoint, Commit, React, ReadChannel, Decide,
     SendChallenge, Restart
<1>5. ~Records(ChannelId)
  BY DEF Records
<1> QED BY <1>2, <1>3, <1>4, <1>5 DEF WatchtowerNext

\* A channel that is (re)posted raises an alert in a running process.
LEMMA AlertStep ==
    ASSUME [WatchtowerNext]_watchtowerVars, up, NEW id \in ChannelId,
           channels'[id] # channels[id], channels'[id].status = "CHALLENGE_PERIOD"
    PROVE  alerts'[id]
<1>1. ASSUME Notified
      PROVE  alerts'[id]
  BY <1>1 DEF Notified
<1>2. ~UNCHANGED vars
  BY DEF vars, contractVars
<1>3. \/ ChainStep \/ \E rx \in reactions : SendChallenge(rx)
  BY <1>2 DEF WatchtowerNext, watchtowerVars, Serve, Monitor, HandlerFails, PostCheckpoint,
     VerifyCheckpoint, PutIfNewer, Commit, React, ReadChannel, Decide, Crash,
     CrashWhileSaving, Stop, Restart
<1> QED BY <1>1, <1>3 DEF ChainStep, SendChallenge

\* While a stale post stands, whatever will answer it stays on its way: dropping it
\* or letting the window end first is a failure.
LEMMA PendingStep ==
    ASSUME ProcessInv, Signatures, Alive, [WatchtowerNext]_watchtowerVars,
           NEW id \in ChannelId \ missed', Protected(id), Stale(id),
           channels'[id] = channels[id], early'[id] = early[id]
    PROVE  Pending(id)'
<1> DEFINE ch == channels[id]
<1>1. /\ now < ch.challengeExpiry /\ Pending(id) /\ early[id] <= StoredNonce(data[id])
      /\ ch.status = "CHALLENGE_PERIOD" /\ ch.nonce < early[id]
      /\ data[id] # None => CheckConservation(ch, data[id])
  BY DEF Protected, Stale
<1>2. /\ ch.nonce \in Nat /\ early[id] \in Nat /\ data[id] \in Checkpoint
      /\ StoredNonce(data[id]) \in Nat
      /\ reactions \subseteq Reading \cup Deciding \cup Sending
  BY StoredNonceType DEF ProcessInv, IInv, TypeOK, Channel, ProcessTyped, Running
<1>3. ASSUME NEW rx \in reactions', Useful(rx, id)
      PROVE  Pending(id)'
  BY <1>3 DEF Useful, Pending
<1>4. ASSUME alerts'[id] = alerts[id], reactions \subseteq reactions'
      PROVE  Pending(id)'
  <2>1. CASE alerts[id]
    BY <1>4, <2>1 DEF Pending
  <2>2. CASE ~alerts[id]
    <3>1. PICK rx \in reactions : Useful(rx, id)
      BY <1>1, <2>2 DEF Pending
    <3> QED BY <1>3, <1>4, <3>1
  <2> QED BY <2>1, <2>2
<1>5. ASSUME NEW r \in reactions, reactions \ {r} \subseteq reactions',
             alerts'[id] = alerts[id],
             Useful(r, id) => \E rx \in reactions' : Useful(rx, id)
      PROVE  Pending(id)'
  <2>1. CASE alerts[id]
    BY <1>5, <2>1 DEF Pending
  <2>2. CASE ~alerts[id]
    <3>1. PICK rx \in reactions : Useful(rx, id)
      BY <1>1, <2>2 DEF Pending
    <3>2. CASE rx = r
      BY <1>3, <1>5, <3>1, <3>2
    <3>3. CASE rx # r
      BY <1>3, <1>5, <3>1, <3>3
    <3> QED BY <3>2, <3>3
  <2> QED BY <2>1, <2>2
<1>6. ASSUME ChainStep
      PROVE  Pending(id)'
  <2>1. CASE alerts[id]
    BY <1>6, <2>1 DEF ChainStep, Notified, Pending
  <2>2. CASE ~alerts[id]
    <3>1. PICK rx \in reactions : Useful(rx, id)
      BY <1>1, <2>2 DEF Pending
    <3> QED BY <1>3, <1>6, <3>1 DEF ChainStep
  <2> QED BY <2>1, <2>2
<1>7. ASSUME Serve \/ Restart \/ UNCHANGED watchtowerVars
      PROVE  Pending(id)'
  BY <1>4, <1>7 DEF Serve, Restart, watchtowerVars, processVars, PostCheckpoint,
     VerifyCheckpoint, PutIfNewer, Commit
<1>8. ASSUME NEW k \in ChannelId, React(k)
      PROVE  Pending(id)'
  <2>1. CASE k = id
    <3>1. [id |-> id, pc |-> "read"] \in reactions'
      BY <1>8, <2>1 DEF React
    <3>2. Useful([id |-> id, pc |-> "read"], id)
      BY DEF Useful
    <3> QED BY <1>3, <3>1, <3>2
  <2>2. CASE k # id
    BY <1>4, <1>8, <2>2 DEF React, ProcessInv, ProcessTyped, Running
  <2> QED BY <2>1, <2>2
<1>9. ASSUME NEW r \in reactions, ReadChannel(r)
      PROVE  Pending(id)'
  <2>1. ASSUME Useful(r, id)
        PROVE  \E rx \in reactions' : Useful(rx, id)
    <3> DEFINE new == [id |-> id, pc |-> "decide", nonce |-> ch.nonce, expiry |-> ch.challengeExpiry]
    <3>1. r.id = id
      BY <2>1 DEF Useful
    <3>2. new \in reactions'
      BY <1>1, <1>9, <3>1 DEF ReadChannel
    <3>3. Useful(new, id)
      BY DEF Useful
    <3> QED BY <3>2, <3>3
  <2>2. reactions \ {r} \subseteq reactions' /\ alerts' = alerts
    BY <1>9 DEF ReadChannel
  <2> QED BY <1>5, <2>1, <2>2
<1>10. ASSUME NEW r \in reactions, Decide(r)
       PROVE  Pending(id)'
  <2>1. ASSUME Useful(r, id)
        PROVE  \E rx \in reactions' : Useful(rx, id)
    <3> DEFINE new == [id |-> id, pc |-> "send", st |-> data[id]]
    <3>1. r.id = id /\ r.nonce = ch.nonce /\ r.expiry = ch.challengeExpiry
      BY <1>10, <2>1 DEF Useful, Decide
    <3>2. StoredNonce(data[id]) > r.nonce /\ now < r.expiry
      BY <1>1, <1>2, <3>1
    <3>3. new \in reactions'
      BY <1>10, <3>1, <3>2 DEF Decide
    <3>4. data[id] # None
      BY <1>2, <3>1, <3>2, StoredNonceType
    <3>5. early[id] <= new.st.nonce /\ CheckConservation(ch, new.st)
      BY <1>1, <3>4 DEF StoredNonce
    <3>6. Useful(new, id)
      BY <3>5 DEF Useful
    <3> QED BY <3>3, <3>6
  <2>2. reactions \ {r} \subseteq reactions' /\ alerts' = alerts
    BY <1>10 DEF Decide
  <2> QED BY <1>5, <2>1, <2>2
<1>11. ASSUME NEW r \in reactions, SendChallenge(r)
       PROVE  Pending(id)'
  <2>1. r \in Sending
    BY <1>2, <1>11 DEF SendChallenge, Reading, Deciding
  <2>2. r.st \in RawUpdates /\ r.st.nonce \in Nat /\ r.st \in signed[r.id]
    BY <1>11, <2>1, StoredNonceType DEF Sending, SendChallenge, Signatures
  <2>3. ~Useful(r, id)
    <3> SUFFICES ASSUME Useful(r, id) PROVE FALSE
      OBVIOUS
    <3>1. /\ r.id = id /\ early[id] <= r.st.nonce /\ CheckConservation(ch, r.st)
      BY <1>11 DEF SendChallenge, Useful
    <3>2. r.st.nonce > ch.nonce /\ r.st.nonce >= ch.nonce
      BY <1>1, <1>2, <2>2, <3>1
    <3>3. Challengeable(id, r.st)
      BY <1>1, <2>2, <3>1, <3>2 DEF Challengeable, VerifyBothSignatures
    <3>4. Challenge(id, r.st)
      BY <1>11, <3>1, <3>3 DEF SendChallenge
    <3> DEFINE new == [ch EXCEPT !.balanceA = r.st.balanceA, !.balanceB = r.st.balanceB,
                         !.nonce = r.st.nonce, !.balancesCommitted = FALSE,
                         !.status = "CHALLENGE_PERIOD",
                         !.challengeExpiry = now + CHALLENGE_PERIOD]
    <3>5. Update(id, new)
      BY <3>4 DEF Challenge, PostRevealed
    <3>6. channels'[id] = new /\ new.nonce = r.st.nonce
      BY <3>5 DEF Update, ProcessInv, IInv, TypeOK, Channel
    <3> QED BY <1>2, <2>2, <3>2, <3>6
  <2>4. alerts[id] => alerts'[id]
    BY <1>11 DEF SendChallenge, Notified
  <2>5. CASE alerts[id]
    BY <2>4, <2>5 DEF Pending
  <2>6. CASE ~alerts[id]
    <3>1. PICK rx \in reactions : Useful(rx, id)
      BY <1>1, <2>6 DEF Pending
    <3>2. rx \in reactions'
      BY <1>11, <2>3, <3>1 DEF SendChallenge
    <3> QED BY <1>3, <3>1, <3>2
  <2> QED BY <2>5, <2>6
<1>12. ASSUME NEW k \in ChannelId, HandlerFails(k), Records({k})
       PROVE  Pending(id)'
  <2>1. k # id /\ alerts' = alerts
    BY <1>12 DEF HandlerFails, Records
  <2>2. CASE alerts[id]
    BY <2>1, <2>2 DEF Pending
  <2>3. CASE ~alerts[id]
    <3>1. PICK rx \in reactions : Useful(rx, id)
      BY <1>1, <2>3 DEF Pending
    <3>2. rx \in reactions'
      BY <1>12, <2>1, <3>1 DEF HandlerFails, Useful
    <3> QED BY <1>3, <3>1, <3>2
  <2> QED BY <2>2, <2>3
<1>13. ~Records(ChannelId)
  BY DEF Records
<1> QED BY <1>6, <1>7, <1>8, <1>9, <1>10, <1>11, <1>12, <1>13 DEF WatchtowerNext, Monitor

\* The windows of pending channels do not end behind the process's back.
LEMMA InTime ==
    ASSUME ProcessInv, [WatchtowerNext]_watchtowerVars, NEW id \in ChannelId \ missed',
           Pending(id), channels[id].status = "CHALLENGE_PERIOD",
           now < channels[id].challengeExpiry
    PROVE  now' < channels[id].challengeExpiry
<1>1. /\ now \in Nat /\ now' \in Nat /\ channels[id].challengeExpiry \in Nat
  BY ProcessStep DEF ProcessInv, IInv, TypeOK, Channel
<1>2. id \in Busy
  BY DEF Pending, Useful, Busy
<1>3. CASE UNCHANGED watchtowerVars
  BY <1>3 DEF watchtowerVars, vars
<1>4. ASSUME NEW failed, Records(failed)
      PROVE  now' < channels[id].challengeExpiry
  <2>1. id \notin WindowEnds
    BY <1>2, <1>4 DEF Records
  <2> QED BY <1>1, <2>1 DEF WindowEnds
<1> QED BY <1>3, <1>4 DEF WatchtowerNext

LEMMA ProtectedStep ==
    ASSUME WatchtowerInv, [WatchtowerNext]_watchtowerVars, NEW id \in ChannelId \ missed'
    PROVE  Protected(id)'
<1> DEFINE ch == channels[id]
<1>1. ProcessInv /\ Signatures /\ Alive /\ Protected(id) /\ up
  BY AliveStep DEF WatchtowerInv, Alive
<1>2. [Next]_vars /\ IInv /\ ProcessInv'
  BY <1>1, ProcessStep DEF ProcessInv
<1>3. /\ StoredNonce(data[id]) \in Nat /\ StoredNonce(data'[id]) \in Nat
      /\ early[id] \in Nat /\ ch.nonce \in Nat /\ now \in Nat
      /\ ch.challengeExpiry \in Nat /\ CHALLENGE_PERIOD \in Nat \ {0}
  <2>1. data[id] \in Checkpoint /\ data'[id] \in Checkpoint
    BY <1>1, <1>2 DEF ProcessInv, ProcessTyped, Running
  <2>2. /\ early[id] \in Nat /\ ch.nonce \in Nat /\ now \in Nat /\ ch.challengeExpiry \in Nat
    BY <1>1 DEF ProcessInv, IInv, TypeOK, Channel, ProcessTyped
  <2> QED BY <2>1, <2>2, StoredNonceType, ChannelAssumption
<1>4. StoredNonce(data'[id]) >= StoredNonce(data[id])
  BY <1>1, DataRises
<1>5. /\ early'[id] = early[id] \/ early'[id] = StoredNonce(data'[id])
      /\ ch.status # "ACTIVE" => early'[id] = early[id]
  <2>1. CASE UNCHANGED watchtowerVars
    BY <2>1 DEF watchtowerVars
  <2>2. ASSUME NEW failed, Records(failed)
        PROVE  /\ early'[id] = early[id] \/ early'[id] = StoredNonce(data'[id])
               /\ ch.status # "ACTIVE" => early'[id] = early[id]
    BY <2>2, EarlyStep
  <2> QED BY <2>1, <2>2 DEF WatchtowerNext
<1>6. early'[id] <= StoredNonce(data'[id])
  BY <1>1, <1>3, <1>4, <1>5 DEF Protected
<1>7. data'[id] # None /\ channels'[id].status \in {"ACTIVE", "CHALLENGE_PERIOD"}
        => CheckConservation(channels'[id], data'[id])
  <2>1. CASE UNCHANGED watchtowerVars
    BY <1>1, <2>1 DEF watchtowerVars, vars, contractVars, processVars, Protected
  <2>2. ASSUME NEW failed, Records(failed)
        PROVE  id \notin Unusable
    BY <2>2 DEF Records
  <2>3. CASE id \notin Unusable
    BY <2>3 DEF Unusable
  <2> QED BY <2>1, <2>2, <2>3 DEF WatchtowerNext
<1>8. ASSUME Stale(id)'
      PROVE  now' < channels'[id].challengeExpiry /\ Pending(id)'
  <2>1. channels'[id].status = "CHALLENGE_PERIOD" /\ channels'[id].nonce < early'[id]
    BY <1>8 DEF Stale
  <2>2. CASE channels'[id] = ch
    <3>1. early'[id] = early[id] /\ Stale(id)
      BY <1>5, <2>1, <2>2 DEF Stale
    <3>2. now < ch.challengeExpiry /\ Pending(id)
      BY <1>1, <3>1 DEF Protected
    <3>3. now' < ch.challengeExpiry
      BY <1>1, <2>1, <2>2, <3>2, InTime
    <3>4. Pending(id)'
      BY <1>1, <2>2, <3>1, PendingStep
    <3> QED BY <2>2, <3>3, <3>4
  <2>3. CASE channels'[id] # ch
    <3>1. alerts'[id]
      BY <1>1, <2>1, <2>3, AlertStep
    <3>2. channels'[id].challengeExpiry = now + CHALLENGE_PERIOD
      BY <1>2, <2>1, <2>3, ChannelStep DEF OneOf, Untouched, Funded, Reposted, Settled
    <3>3. now' = now
      BY <1>2, <2>3, ClockOrChannels
    <3> QED BY <1>3, <3>1, <3>2, <3>3 DEF Pending
  <2> QED BY <2>2, <2>3
<1>9. ASSUME channels'[id].status = "CLOSED", origin'[id] # "none",
             ~channels'[id].closedCooperatively
      PROVE  early'[id] <= channels'[id].nonce
  <2>1. CASE Untouched(id)
    <3>1. channels'[id] = ch /\ ch.status = "CLOSED"
      BY <1>9, <2>1 DEF Untouched
    <3>2. origin'[id] = origin[id]
      BY <1>2, <3>1, OriginStep DEF IInv
    <3> QED BY <1>1, <1>5, <1>9, <3>1, <3>2 DEF Protected
  <2>2. CASE Funded(id)
    <3>1. origin[id] = "none" /\ origin'[id] = origin[id]
      BY <1>2, <2>2, OriginStep DEF Funded, IInv, Safe, Booked
    <3> QED BY <1>9, <3>1
  <2>3. CASE Settled(id)
    <3>1. /\ ch.status = "CHALLENGE_PERIOD" /\ now >= ch.challengeExpiry
          /\ channels'[id].nonce = ch.nonce
      BY <1>9, <2>3 DEF Settled
    <3>2. ~Stale(id)
      BY <1>1, <1>3, <3>1 DEF Protected
    <3>3. early[id] <= ch.nonce /\ early'[id] = early[id]
      BY <1>3, <1>5, <3>1, <3>2 DEF Stale
    <3> QED BY <3>1, <3>3
  <2>4. ~Reposted(id)
    BY <1>9 DEF Reposted
  <2> QED BY <1>2, <2>1, <2>2, <2>3, <2>4, ChannelStep DEF OneOf
<1> QED BY <1>6, <1>7, <1>8, <1>9 DEF Protected

\* The whole invariant of the process holds in every reachable state.
THEOREM WatchtowerInvariance == WatchtowerSpec => []WatchtowerInv
<1>1. WatchtowerInit => WatchtowerInv
  <2> SUFFICES ASSUME WatchtowerInit PROVE WatchtowerInv
    OBVIOUS
  <2>1. \A id \in ChannelId : /\ data[id] = None /\ disk[id] = None /\ early[id] = 0
                               /\ channels[id] = UnopenedChannel
    BY DEF WatchtowerInit, Init, Empty
  <2>2. Signatures /\ Alive
    BY <2>1 DEF WatchtowerInit, Signatures, Alive
  <2>3. \A id \in ChannelId : Protected(id)
    BY <2>1, StoredNonceType DEF Protected, Stale, UnopenedChannel
  <2> QED BY <2>2, <2>3, InitProcessInv DEF WatchtowerInv
<1>2. WatchtowerInv /\ [WatchtowerNext]_watchtowerVars => WatchtowerInv'
  BY ProcessStep, SignaturesStep, AliveStep, ProtectedStep DEF WatchtowerInv
<1> QED BY <1>1, <1>2, PTL DEF WatchtowerSpec

\* A process that does not fail a channel keeps it from settling, without the
\* agreement of both parties, below a checkpoint it took before the close.
THEOREM CheckpointProtection == WatchtowerSpec => []CheckpointsProtect
<1>1. WatchtowerInv => CheckpointsProtect
  BY DEF WatchtowerInv, Protected, CheckpointsProtect
<1> QED BY <1>1, WatchtowerInvariance, PTL
=============================================================================
