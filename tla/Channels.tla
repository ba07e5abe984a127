------------------------------ MODULE Channels ------------------------------
(***************************************************************************)
(* The replication channels and what uses them: a primary of the static    *)
(* primary replication proposes commands and publishes each one over a     *)
(* TCP, RDMA or UDP channel to its replica; a background thread sends      *)
(* heartbeats over the same channel; the counters of the channel decide    *)
(* when it is full.                                                        *)
(*                                                                         *)
(* TCP and RDMA exchange a request and an answer; either can be lost with  *)
(* the connection, and the sender tries again.  UDP cuts a payload into    *)
(* frames that the network may lose, repeat and reorder, and the receiver  *)
(* puts them together again.                                               *)
(***************************************************************************)
EXTENDS Naturals, Sequences, FiniteSets, SequencesExt, TLC

CONSTANTS
    ChThread,       \* threads that may propose at the same time
    ChConf,         \* instances explored
    MaxPropose,     \* bound on the commands proposed
    MaxPayload,     \* units of payload in one frame
    FragmentLimit,  \* 2^16 in the code: the width of the fragment counters
    MaxInFlight,    \* max_in_flight_batches
    MaxBeats        \* bound on the heartbeats

\* An instance is a record with the fields the actions read; it names threads
\* that exist and tries at least once.
ASSUME ChConfAssumption ==
    \A c \in ChConf :
        /\ {"rdma", "threads", "pieces", "attempts", "faults", "ops", "used"} \subseteq DOMAIN c
        /\ c.threads \subseteq ChThread
        /\ c.attempts \in Nat \ {0}
        /\ c.faults \in Nat

VARIABLES
    chConf,         \* the instance: kinds offered, attempts, faults, operations
    chEndpoint,     \* the endpoint agreed on, or NoEndpoint
    chPrimary,      \* term, next index and commit index of the primary
    chReplica,      \* the same of the replica, and the commands it took
    chThread,       \* thread -> its proposal and the attempts it has left
    chAcked,        \* history: entries reported to their proposer as replicated
    chUdp,          \* frames under way, the receiver, payloads sent and received
    chMetrics       \* the channel's counters

chVars == <<chConf, chEndpoint, chPrimary, chReplica, chThread, chAcked, chUdp, chMetrics>>

-----------------------------------------------------------------------------
(* Endpoints, capabilities and their negotiation.                          *)

\* No limit on the frame stands for every number of units.
NoLimit == 99

ReliableStream == [append |-> TRUE, vote |-> TRUE, snapshot |-> TRUE, catchUp |-> TRUE, frame |-> NoLimit]

UnreliableDatagram(frame) ==
    [append |-> FALSE, vote |-> FALSE, snapshot |-> FALSE, catchUp |-> FALSE, frame |-> frame]

Supports(has, needs) ==
    /\ \A f \in {"append", "vote", "snapshot", "catchUp"} : needs[f] => has[f]
    /\ needs.frame = NoLimit \/ has.frame >= needs.frame

EndpointOf(kind) ==
    [kind |-> kind,
     caps |-> IF kind = "udp" THEN UnreliableDatagram(MaxPayload) ELSE ReliableStream]

NoEndpoint == [kind |-> "unsupported", caps |-> UnreliableDatagram(0)]

\* The first preferred kind with an offered endpoint that supports what is
\* required; none is an error.
NegotiateReplicationChannel(preferred, offered, needs) ==
    LET fits(k) == k \in offered /\ Supports(EndpointOf(k).caps, needs)
        i == SelectInSeq(preferred, fits)
    IN  IF i = 0 THEN NoEndpoint ELSE EndpointOf(preferred[i])

NegotiateOnly == [UnreliableDatagram(0) EXCEPT !.frame = NoLimit]

-----------------------------------------------------------------------------
(* Counters of the channel.                                                *)

NoMetrics == [sent |-> 0, inFlight |-> 0, rejected |-> 0]

RecordSend(m) == [m EXCEPT !.sent = @ + 1, !.inFlight = @ + 1]

\* record_ack and record_failure: a batch is over, whatever came of it.
RecordOver(m) == [m EXCEPT !.inFlight = IF @ = 0 THEN 0 ELSE @ - 1]

EnsureReplicationCapacity(m) == m.inFlight < MaxInFlight

-----------------------------------------------------------------------------
(* Payloads and frames of the UDP channel.                                 *)

\* An entry is [index, term, cmd]; a payload is a sequence of units, strings.
EncodeUdpEntries(entries) ==
    <<"REPL", ToString(Len(entries))>> \o [i \in DOMAIN entries |-> ToString(entries[i])]

EncodeUdpRaftAppend(commit, entries) == <<"RAPP", ToString(commit)>> \o EncodeUdpEntries(entries)

EncodeUdpVote(op, term) == <<op, ToString(term)>>

\* The chunk of a snapshot of n pieces that starts at one of them.
EncodeUdpSnapshotChunk(offset, n) ==
    <<"RSNP", ToString(offset), IF offset + 1 = n THEN "done" ELSE "more", "piece" \o ToString(offset)>>

Chunks(payload, size) ==
    [i \in 1..((Len(payload) + size - 1) \div size) |->
        SubSeq(payload, (i - 1) * size + 1, IF i * size < Len(payload) THEN i * size ELSE Len(payload))]

FragmentPayload(stream, sequence, payload) ==
    LET chunks == Chunks(payload, MaxPayload) IN
    {[stream |-> stream, seq |-> sequence, ack |-> 0, index |-> (i - 1) % FragmentLimit,
      count |-> Len(chunks) % FragmentLimit, payload |-> chunks[i]] : i \in DOMAIN chunks}

\* The wire form keeps "no acknowledgement" as the number 0, which decode
\* reads back as none, and carries the length of the payload.
EncodeFrame(f) == <<f.stream, f.seq, f.ack, f.index, f.count, Len(f.payload), f.payload>>

DecodeFrame(w) ==
    [stream |-> w[1], seq |-> w[2], ack |-> w[3], index |-> w[4], count |-> w[5], payload |-> w[7]]

\* Every payload is sent with the sequence number 1.
SendPayload(udp, stream, payload) ==
    [udp EXCEPT !.net = @ \cup {EncodeFrame(f) : f \in FragmentPayload(stream, 1, payload)},
                !.sent = @ \cup {payload}]

NoUdp == [net |-> {}, seen |-> {}, parts |-> {}, sent |-> {}, got |-> {}]

AcceptMutant(udp, f) ==
    LET parts == udp.parts \cup {f}
        mine == {p \in parts : p.stream = f.stream /\ p.seq = f.seq}
        whole == SetToSortSeq(mine, LAMBDA a, b : a.index < b.index)
    IN  IF f.index + 1 # f.count THEN [udp EXCEPT !.parts = parts]
        ELSE [udp EXCEPT !.parts = parts, !.got = @ \cup {FlattenSeq([i \in DOMAIN whole |-> whole[i].payload])}]

\* ReliableDatagramReceiver::accept: a key already completed is dropped, a
\* single frame is the payload, and the last missing fragment completes it.
\* The first fragment to arrive at an index stays.
Accept(udp, f) ==
    LET key == <<f.stream, f.seq>>
        held == {p \in udp.parts : p.stream = f.stream /\ p.seq = f.seq}
        mine == IF \E p \in held : p.index = f.index THEN held ELSE held \cup {f}
        whole == SetToSortSeq(mine, LAMBDA a, b : a.index < b.index)
    IN  IF key \in udp.seen THEN udp
        ELSE IF f.count <= 1 THEN [udp EXCEPT !.seen = @ \cup {key}, !.got = @ \cup {f.payload}]
        ELSE IF Cardinality(mine) # f.count THEN [udp EXCEPT !.parts = (@ \ held) \cup mine]
        ELSE [udp EXCEPT !.parts = @ \ held, !.seen = @ \cup {key},
                         !.got = @ \cup {FlattenSeq([i \in DOMAIN whole |-> whole[i].payload])}]

\* One frame arrives; it stays on the network and may arrive again.
ReceiveFrame(w) ==
    /\ chUdp' = Accept(chUdp, DecodeFrame(w))
    /\ UNCHANGED <<chConf, chEndpoint, chPrimary, chReplica, chThread, chAcked, chMetrics>>

-----------------------------------------------------------------------------
(* Static primary replication.                                             *)

FreshState == [term |-> 1, next |-> 1, commit |-> 0]

NoJob == [entry |-> [index |-> 0, term |-> 0, cmd |-> 0], left |-> 0]

MaxOf(a, b) == IF a > b THEN a ELSE b

AllocateEntry(state, cmd) ==
    [entry |-> [index |-> state.next, term |-> state.term, cmd |-> cmd],
     state |-> [state EXCEPT !.next = @ + 1]]

\* A failed proposal gives its index back only while it is the last one.
RollbackProposal(state, entry) ==
    IF state.next = entry.index + 1 /\ state.commit < entry.index /\ state.term = entry.term
    THEN [state EXCEPT !.next = entry.index] ELSE state

MarkCommitted(state, entry) ==
    [term |-> MaxOf(state.term, entry.term), next |-> MaxOf(state.next, entry.index + 1),
     commit |-> MaxOf(state.commit, entry.index)]

AppendAccepted(state, entry) == entry.term >= state.term /\ entry.index <= state.next

AppendEntryMutant(replica, entry) ==
    IF ~AppendAccepted(replica, entry) THEN replica
    ELSE [replica EXCEPT !.term = MaxOf(@, entry.term), !.commit = MaxOf(@, entry.index),
                         !.next = entry.index + 1, !.log = Append(@, entry.cmd)]

\* An index below the next one counts as a repetition, whatever its command.
AppendEntry(replica, entry) ==
    LET after == [replica EXCEPT !.term = MaxOf(@, entry.term), !.commit = MaxOf(@, entry.index)] IN
    IF ~AppendAccepted(replica, entry) THEN replica
    ELSE IF entry.index < replica.next THEN after
    ELSE [after EXCEPT !.next = entry.index + 1, !.log = Append(@, entry.cmd)]

Propose(t, cmd) ==
    /\ "propose" \in chConf.ops
    /\ t \in chConf.threads
    /\ chThread[t] = NoJob
    /\ cmd \notin chConf.used
    /\ LET made == AllocateEntry(chPrimary, cmd) IN
       /\ chPrimary' = made.state
       /\ chThread' = [chThread EXCEPT ![t] = [entry |-> made.entry, left |-> chConf.attempts]]
    /\ chConf' = [chConf EXCEPT !.used = @ \cup {cmd}]
    /\ chMetrics' = RecordSend(chMetrics)
    /\ UNCHANGED <<chEndpoint, chReplica, chAcked, chUdp>>

\* The proposal is over: committed at the primary, or its index given back.
Committed(t) ==
    /\ chPrimary' = MarkCommitted(chPrimary, chThread[t].entry)
    /\ chAcked' = chAcked \cup {chThread[t].entry}
    /\ chThread' = [chThread EXCEPT ![t] = NoJob]
    /\ chMetrics' = RecordOver(chMetrics)

Failed(t) ==
    /\ chPrimary' = RollbackProposal(chPrimary, chThread[t].entry)
    /\ chThread' = [chThread EXCEPT ![t] = NoJob]
    /\ chMetrics' = RecordOver(chMetrics)
    /\ UNCHANGED chAcked

\* An attempt that failed is followed by the next one, while some are left.
RetryOrFail(t) ==
    IF chThread[t].left > 1
    THEN /\ chThread' = [chThread EXCEPT ![t].left = @ - 1]
         /\ UNCHANGED <<chPrimary, chAcked, chMetrics>>
    ELSE Failed(t)

Reliable(kind) == kind \in {"tcp", "rdma"}

\* One attempt over a connection: it fails before the replica has the
\* request, or after it, or the answer comes.
Exchange(t, arrives, answered) ==
    /\ chThread[t] # NoJob
    /\ answered => arrives
    /\ ~answered => chConf.faults > 0
    /\ chConf' = [chConf EXCEPT !.faults = IF answered THEN @ ELSE @ - 1]
    /\ chReplica' = IF arrives THEN AppendEntry(chReplica, chThread[t].entry) ELSE chReplica
    /\ IF answered /\ AppendAccepted(chReplica, chThread[t].entry) THEN Committed(t) ELSE RetryOrFail(t)
    /\ UNCHANGED <<chEndpoint, chUdp>>

SendOverTcp(t, arrives, answered) == chEndpoint.kind = "tcp" /\ Exchange(t, arrives, answered)

\* The provider needs a device and the rping command before it connects.
RdmaValidate(rdma) == rdma.devices > 0 /\ rdma.rping

\* An address may be a bare host, host:port, or a bracketed host with or
\* without a port; without one the default port is used, and a host with
\* more than one colon and no brackets is taken whole.
RdmaTarget(address, default) ==
    [host |-> address.host, port |-> IF address.port = 0 \/ (address.v6 /\ ~address.brackets) THEN default ELSE address.port]

RdmaTargetValid(address) == address.host # ""

\* connect_target tries the resolved addresses in order until one connects.
RdmaConnects(rdma) ==
    /\ RdmaValidate(rdma)
    /\ RdmaTargetValid(rdma.address)
    /\ \E i \in DOMAIN rdma.resolved : rdma.resolved[i] = RdmaTarget(rdma.address, rdma.port)

SendOverRdma(t, arrives, answered) ==
    /\ chEndpoint.kind = "rdma"
    /\ RdmaConnects(chConf.rdma)
    /\ Exchange(t, arrives, answered)

RdmaCannotConnect(t) ==
    /\ chEndpoint.kind = "rdma"
    /\ chThread[t] # NoJob
    /\ ~RdmaConnects(chConf.rdma)
    /\ RetryOrFail(t)
    /\ UNCHANGED <<chConf, chEndpoint, chReplica, chUdp>>

\* UDP sends the frames and reports every entry as replicated.
SendOverUdp(t) ==
    /\ chThread[t] # NoJob
    /\ chEndpoint.kind = "udp"
    /\ chUdp' = SendPayload(chUdp, 1, EncodeUdpEntries(<<chThread[t].entry>>))
    /\ Committed(t)
    /\ UNCHANGED <<chConf, chEndpoint, chReplica>>

SendOverUnsupported(t) ==
    /\ chThread[t] # NoJob
    /\ chEndpoint.kind = "unsupported"
    /\ Failed(t)
    /\ UNCHANGED <<chConf, chEndpoint, chReplica, chUdp>>

\* The other requests over UDP: an append with a commit index, a vote, a
\* pre-vote, and a snapshot sent piece by piece.  A vote request is sent and
\* then reported as failed, for no answer can come back.
SendControlOverUdp(kind) ==
    /\ kind \in chConf.ops
    /\ chEndpoint.kind = "udp"
    /\ chUdp' = CASE kind = "append" -> SendPayload(chUdp, 2, EncodeUdpRaftAppend(chPrimary.commit, <<>>))
                  [] kind = "vote" -> SendPayload(chUdp, 3, EncodeUdpVote("RVOT", chPrimary.term))
                  [] kind = "preVote" -> SendPayload(chUdp, 4, EncodeUdpVote("RPVT", chPrimary.term + 1))
                  [] kind = "snapshot" ->
                       LET sent[n \in 0..chConf.pieces] ==
                               IF n = 0 THEN chUdp
                               ELSE SendPayload(sent[n - 1], 5, EncodeUdpSnapshotChunk(n - 1, chConf.pieces))
                       IN  sent[chConf.pieces]
    /\ UNCHANGED <<chConf, chEndpoint, chPrimary, chReplica, chThread, chAcked, chMetrics>>

\* send_raft_heartbeats for one peer and shard: counted as sent, never as
\* over, and refused once the channel counts as full.
SendRaftHeartbeats ==
    /\ "heartbeat" \in chConf.ops
    /\ chMetrics.sent + chMetrics.rejected < MaxBeats
    /\ chMetrics' = IF EnsureReplicationCapacity(chMetrics) THEN RecordSend(chMetrics)
                    ELSE [chMetrics EXCEPT !.rejected = @ + 1]
    /\ UNCHANGED <<chConf, chEndpoint, chPrimary, chReplica, chThread, chAcked, chUdp>>

-----------------------------------------------------------------------------

ChannelInit ==
    /\ chConf \in ChConf
    /\ chEndpoint = NegotiateReplicationChannel(chConf.preferred, chConf.offered, chConf.needs)
    /\ chPrimary = FreshState
    /\ chReplica = [term |-> 1, next |-> 1, commit |-> 0, log |-> <<>>]
    /\ chThread = [t \in ChThread |-> NoJob]
    /\ chAcked = {}
    /\ chUdp = NoUdp
    /\ chMetrics = NoMetrics

ChannelNext ==
    \/ \E t \in ChThread :
         \/ \E cmd \in 1..MaxPropose : Propose(t, cmd)
         \/ \E arrives, answered \in BOOLEAN : SendOverTcp(t, arrives, answered) \/ SendOverRdma(t, arrives, answered)
         \/ RdmaCannotConnect(t)
         \/ SendOverUdp(t)
         \/ SendOverUnsupported(t)
    \/ \E w \in chUdp.net : ReceiveFrame(w)
    \/ \E kind \in {"append", "vote", "preVote", "snapshot"} : SendControlOverUdp(kind)
    \/ SendRaftHeartbeats

ChannelSpec == ChannelInit /\ [][ChannelNext]_chVars

-----------------------------------------------------------------------------
(* Properties.                                                             *)

\* Over TCP and RDMA, an entry reported to its proposer as replicated is in
\* the replica's log, at its index and with its command, even when an answer
\* was lost and the request sent again and when two proposals are in flight.
AckedIsReplicated ==
    Reliable(chEndpoint.kind) => \A e \in chAcked : e.index \in DOMAIN chReplica.log /\ chReplica.log[e.index] = e.cmd

\* Whatever frames are lost, repeated or reordered, every payload the
\* receiver puts together is one that was sent.
ReassembledWasSent == chUdp.got \subseteq chUdp.sent

\* The channel counts as in flight exactly the batches that are: when no
\* thread is sending, the count is back at zero.
InFlightSettles == (\A t \in ChThread : chThread[t] = NoJob) => chMetrics.inFlight = 0

=============================================================================
