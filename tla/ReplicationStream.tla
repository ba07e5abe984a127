------------------------- MODULE ReplicationStream -------------------------
(***************************************************************************)
(* Requests and answers between servers over a TCP or RDMA connection: how *)
(* each is written and read, the handler that serves a connection, and the *)
(* callers that send, repeat and continue requests.  The connection may be *)
(* cut at any point of a request or an answer.                             *)
(*                                                                         *)
(* What the database does with a request is the subject of the other       *)
(* modules; here it is an abstract log, a term and a snapshot.             *)
(***************************************************************************)
EXTENDS LogCodec

CONSTANTS
    RqConf,         \* instances: the calls a requester makes, cuts, log of the server
    RqShard,        \* the shard the requests are about
    ChunkBytes      \* snapshot_fetch_chunk_bytes of a fetch

VARIABLES
    rqConf,         \* the instance
    rqServer,       \* the serving database
    rqClient,       \* the requesting database
    rqCall,         \* the call being made, or NoCall
    rqStage,        \* "idle", "sent" or "answered"
    rqWire,         \* what is under way: the request, then the answer
    rqWhole,        \* the request or the answer before any cut
    rqAnswer,       \* history: what the handler answered last
    rqGot           \* history: what the caller read last

rqVars == <<rqConf, rqServer, rqClient, rqCall, rqStage, rqWire, rqWhole, rqAnswer, rqGot>>

NoCall == [op |-> "none"]

Good(v) == [ok |-> TRUE, val |-> v]

-----------------------------------------------------------------------------
(* Requests.                                                               *)

ReplicateMagic == 701
HelloMagic == 702
AppendMagic == 703
VoteMagic == 704
PreVoteMagic == 705
TransferMagic == 706
InstallMagic == 707
FetchMagic == 708
FetchChunkMagic == 709
CatchUpMagic == 710
CatchUpLimitedMagic == 711

WriteEntries(entries) ==
    <<Len(entries)>> \o FlattenSeq([i \in DOMAIN entries |-> WriteString(EncodeLogEntry(entries[i]))])

WriteReplicationRequest(q) == <<ReplicateMagic>> \o WriteEntries(q.entries)

WriteRaftAppendRequest(q) == <<AppendMagic, RqShard, q.commit>> \o WriteEntries(q.entries)

WriteVoteFields(v) == <<v.term, v.candidate, v.lastIndex, v.lastTerm>>

WriteRaftVoteRequest(q) == <<VoteMagic, RqShard>> \o WriteVoteFields(q.vote)

WriteRaftPreVoteRequest(q) == <<PreVoteMagic, RqShard>> \o WriteVoteFields(q.vote)

WriteLeaderTransferRequest(q) == <<TransferMagic, RqShard, q.transferee>>

WriteSnapshotFields(s) == <<s.term, s.leader, RqShard, s.lastTerm, s.lastIndex>> \o WriteString(s.payload)

WriteInstallSnapshotRequest(q) == <<InstallMagic>> \o WriteSnapshotFields(q.snapshot)

WriteSnapshotFetchRequest == <<FetchMagic, RqShard>>

WriteSnapshotFetchChunkRequest(offset) == <<FetchChunkMagic, RqShard, offset, ChunkBytes>>

\* A limit of zero stands for no limit, which is another request.
WriteCatchUpRequest(start, max) ==
    IF max = 0 THEN <<CatchUpMagic, RqShard, start>> ELSE <<CatchUpLimitedMagic, RqShard, start, max>>

ReadNumbers(r, n) == LET step(a, i) == ReadU64(a) IN FoldLeft(step, r, [i \in 1..n |-> i])

DecodedEntries(r, all, decoded) ==
    IF \E i \in DOMAIN decoded : ~decoded[i].ok THEN Corrupt(r)
    ELSE [all EXCEPT !.out = <<[i \in DOMAIN decoded |-> decoded[i].val]>>]

DecodeEntries(r, all) ==
    IF all.ok THEN DecodedEntries(r, all, [i \in DOMAIN all.out[1] |-> DecodeLogEntry(all.out[1][i])]) ELSE Corrupt(r)

\* Entries are used as far as they arrived.
ReadEntriesMutant(r) ==
    LET whole(a, i) == IF a.in = <<>> \/ Len(a.in) <= Head(a.in) THEN [a EXCEPT !.in = <<>>] ELSE ReadString(a) IN
    DecodeEntries(r, Gather([r EXCEPT !.out = <<>>],
                            FoldLeft(whole, [ReadU64(r) EXCEPT !.out = <<>>], [i \in 1..Len(r.in) |-> i])))

\* All the entries are read and decoded before any of them is used.
ReadEntries(r) == DecodeEntries(r, ReadMany([r EXCEPT !.out = <<>>], ReadString))

ReadVoteRequest(r) ==
    LET vote(v) == IF v.ok THEN Good([term |-> v.out[1], candidate |-> v.out[2], lastIndex |-> v.out[3], lastTerm |-> v.out[4]])
                   ELSE NoValue
    IN  vote(ReadNumbers(r, 4))

ReadPreVoteRequest(r) == ReadVoteRequest(r)

ReadSnapshotFields(r) ==
    LET fields(s) == IF s.ok THEN Good([term |-> s.out[1], leader |-> s.out[2], lastTerm |-> s.out[4], lastIndex |-> s.out[5],
                                        payload |-> s.out[6]])
                     ELSE NoValue
    IN  fields(ReadString(ReadNumbers(r, 5)))

\* A limited request for no entries is refused.
ReadCatchUpRequest(r, limited) ==
    LET request(q) == IF ~q.ok \/ (limited /\ q.out[3] = 0) THEN NoValue
                      ELSE Good([start |-> q.out[2], max |-> IF limited THEN q.out[3] ELSE 0])
    IN  request(ReadNumbers(r, IF limited THEN 3 ELSE 2))

-----------------------------------------------------------------------------
(* Answers.                                                                *)

AnswerMagic == 721
AppendAnswerMagic == 722
CatchUpAnswerMagic == 723
StatusOk == 1
StatusErr == 2
ErrorText == <<0>>

\* Every answer is a magic, a status and a payload, which for an error is its
\* message.
WriteAnswer(magic, result, Payload(_)) ==
    IF result.ok THEN <<magic, StatusOk>> \o WriteString(Payload(result.val))
    ELSE <<magic, StatusErr>> \o WriteString(ErrorText)

ReadAnswer(in, magic, Decode(_)) ==
    LET payload(r) == IF r.ok /\ r.out[1] = magic /\ r.out[2] = StatusOk THEN Decode(r.out[3]) ELSE NoValue
    IN  payload(ReadString(ReadNumbers(Reader(in), 2)))

AckPositions(entries) == [i \in DOMAIN entries |-> [shard |-> entries[i].shard, index |-> entries[i].index]]

EncodeAckPositions(ps) == <<Len(ps)>> \o FlattenSeq([i \in DOMAIN ps |-> <<ps[i].shard, ps[i].index>>])

\* An empty payload is no positions; otherwise the length must be exact.
DecodeAckPositions(in) ==
    IF in = <<>> THEN Good(<<>>)
    ELSE IF Len(in) # 1 + 2 * Head(in) THEN NoValue
    ELSE Good([i \in 1..Head(in) |-> [shard |-> in[2 * i], index |-> in[2 * i + 1]]])

Bit(b) == IF b THEN 1 ELSE 0

\* An optional number is a flag and the number, zero when there is none.
EncodeOptional(o) == IF o = <<>> THEN <<0, 0>> ELSE <<1, o[1]>>

DecodeOptional(flag, n) == IF flag = 0 THEN <<>> ELSE <<n>>

EncodeAppendAnswer(a) ==
    <<a.term, Bit(a.success), a.match>> \o EncodeOptional(a.conflictIndex) \o EncodeOptional(a.conflictTerm)
        \o WriteString(EncodeAckPositions(a.acks))

\* The answer does not carry whether the entries are durable: success stands
\* for it.
DecodeAppendAnswer(in) ==
    LET answer(n, acks) ==
            IF ~acks.ok THEN NoValue
            ELSE Good([term |-> n[1], success |-> n[2] # 0, durable |-> n[2] # 0, match |-> n[3],
                       conflictIndex |-> DecodeOptional(n[4], n[5]), conflictTerm |-> DecodeOptional(n[6], n[7]),
                       acks |-> acks.val])
        whole(r) == IF r.ok /\ r.in = <<>> THEN answer(r.out, DecodeAckPositions(r.out[8])) ELSE NoValue
    IN  whole(ReadString(ReadNumbers(Reader(in), 7)))

EncodeVoteAnswer(a) == <<a.term, Bit(a.granted)>>

DecodeVoteAnswer(in) == IF Len(in) = 2 THEN Good([term |-> in[1], granted |-> in[2] # 0]) ELSE NoValue

DecodeTransferAnswer(in) == IF Len(in) = 4 THEN ReadVoteRequest(Reader(in)) ELSE NoValue

EncodeInstallAnswer(a) == <<a.term, Bit(a.success), a.lastIndex>>

DecodeInstallAnswer(in) ==
    IF Len(in) = 3 THEN Good([term |-> in[1], success |-> in[2] # 0, lastIndex |-> in[3]]) ELSE NoValue

\* A snapshot is a sequence of none or one.
EncodeFetchAnswer(s) == IF s = <<>> THEN <<0>> ELSE <<1>> \o WriteSnapshotFields(s[1])

DecodeFetchAnswer(in) ==
    LET snapshot(s) == IF s.ok /\ Len(in) = 7 + Len(s.val.payload) THEN Good(<<s.val>>) ELSE NoValue IN
    CASE in = <<0>> -> Good(<<>>)
      [] in # <<>> /\ Head(in) = 1 -> snapshot(ReadSnapshotFields(Reader(Tail(in))))
      [] OTHER -> NoValue

\* snapshot_checksum, as a number that tells payloads apart.
Checksum(payload) == FoldLeft(LAMBDA h, b : (h * 31 + b + 1) % 997, 7, payload)

\* The chunk of a snapshot at an offset; past its end is an error, and the
\* chunk that reaches the end is the last.
SliceSnapshotFetchChunk(snapshot, offset, max) ==
    IF snapshot = <<>> THEN Good([total |-> 0, checksum |-> 0, resume |-> 0, chunk |-> <<>>])
    ELSE LET s == snapshot[1]
             n == Len(s.payload)
             end == IF offset + max < n THEN offset + max ELSE n
         IN  IF offset > n THEN NoValue
             ELSE Good([total |-> n, checksum |-> Checksum(s.payload), resume |-> end,
                        chunk |-> <<[offset |-> offset, done |-> end = n,
                                     snapshot |-> [s EXCEPT !.payload = SubSeq(s.payload, offset + 1, end)]]>>])

EncodeChunkAnswer(c) ==
    <<c.total, c.checksum, c.resume>>
        \o IF c.chunk = <<>> THEN <<0>>
           ELSE <<1, c.chunk[1].offset, Bit(c.chunk[1].done)>> \o WriteSnapshotFields(c.chunk[1].snapshot)

DecodeChunkAnswer(in) ==
    LET answer(n, chunk) == Good([total |-> n[1], checksum |-> n[2], resume |-> n[3], chunk |-> chunk])
        chunk(n, s) == IF s.ok /\ Len(in) = 12 + Len(s.val.payload)
                       THEN answer(n, <<[offset |-> n[5], done |-> n[6] # 0, snapshot |-> s.val]>>) ELSE NoValue
        at(r) == IF r.ok THEN chunk(r.out, ReadSnapshotFields([r EXCEPT !.out = <<>>])) ELSE NoValue
        head(r) == CASE r.ok /\ r.out[4] = 0 -> answer(r.out, <<>>)
                     [] r.ok /\ r.out[4] = 1 -> at(ReadNumbers(r, 2))
                     [] OTHER -> NoValue
    IN  head(ReadNumbers(Reader(in), 4))

WriteCatchUpAnswer(result) ==
    IF result.ok THEN <<CatchUpAnswerMagic, StatusOk, 0>> \o WriteEntries(result.val)
    ELSE <<CatchUpAnswerMagic, StatusErr>> \o WriteString(ErrorText)

CatchUpEntries(e) == IF e.ok THEN Good(e.out[1]) ELSE NoValue

CatchUpAnswer(r) ==
    IF r.ok /\ r.out[1] = CatchUpAnswerMagic /\ r.out[2] = StatusOk
    THEN CatchUpEntries(ReadEntries([r EXCEPT !.out = <<>>])) ELSE NoValue

ReadCatchUpAnswer(in) == CatchUpAnswer(ReadString(ReadNumbers(Reader(in), 2)))

\* The entries must be of the shard, from the start on without a gap, and no
\* more than asked for.
ValidateCatchUpEntries(entries, start, max) ==
    /\ max = 0 \/ Len(entries) <= max
    /\ \A i \in DOMAIN entries : entries[i].shard = RqShard /\ entries[i].index = start + i - 1

\* An identity is [server, node, cluster, database, transports], sent as text.
EncodeNodeIdentity(id) == <<id.server, id.node, id.cluster, id.database>> \o WriteString(id.transports)

DecodeNodeIdentity(in) ==
    LET identity(r) == Finish(r, [server |-> r.out[1], node |-> r.out[2], cluster |-> r.out[3], database |-> r.out[4],
                                  transports |-> r.out[5]])
    IN  identity(ReadString(ReadNumbers(Reader(in), 4)))

-----------------------------------------------------------------------------
(* The database behind the handler, as the other modules describe it.      *)

TermAt(db, i) == IF i = 0 THEN 0 ELSE db.log[i].term

\* apply_replicated_entries: entries it has are skipped, a gap is an error.
ApplyEntries(db, entries) ==
    LET step(a, e) == CASE ~a.ok -> a
                        [] e.index <= Len(a.val.log) -> a
                        [] e.index = Len(a.val.log) + 1 -> Good([a.val EXCEPT !.log = Append(@, e)])
                        [] OTHER -> NoValue
    IN  FoldLeft(step, Good(db), entries)

RaftAppend(db, entries) ==
    LET answer(ok, log) ==
            [term |-> db.term, success |-> ok, durable |-> ok, match |-> Len(log),
             conflictIndex |-> IF ok THEN <<>> ELSE <<Len(log) + 1>>,
             conflictTerm |-> IF ok THEN <<>> ELSE <<TermAt(db, Len(log))>>,
             acks |-> IF ok THEN AckPositions(entries) ELSE <<>>]
        append(applied) == IF applied.ok THEN [db |-> applied.val, answer |-> answer(TRUE, applied.val.log)]
                           ELSE [db |-> db, answer |-> answer(FALSE, db.log)]
    IN  append(ApplyEntries(db, entries))

RequestVote(db, v) ==
    IF v.term > db.term THEN [db |-> [db EXCEPT !.term = v.term], answer |-> [term |-> v.term, granted |-> v.lastIndex >= Len(db.log)]]
    ELSE [db |-> db, answer |-> [term |-> db.term, granted |-> FALSE]]

InstallSnapshot(db, s) ==
    IF s.lastIndex > Len(db.log) \/ db.log = <<>>
    THEN [db |-> [db EXCEPT !.snapshot = <<s>>], answer |-> [term |-> db.term, success |-> TRUE, lastIndex |-> s.lastIndex]]
    ELSE [db |-> db, answer |-> [term |-> db.term, success |-> FALSE, lastIndex |-> Len(db.log)]]

\* read_catch_up_entries: the log from the start, cut at the limit.
ReadCatchUpEntries(db, q) ==
    LET from == IF q.start > Len(db.log) THEN <<>> ELSE SubSeq(db.log, q.start, Len(db.log)) IN
    IF q.max = 0 \/ Len(from) <= q.max THEN from ELSE SubSeq(from, 1, q.max)

-----------------------------------------------------------------------------
(* handle_tcp_replication_stream: one request is read whole, served and    *)
(* answered; a request that cannot be read gets no answer.                 *)

Served(db, result, wire) == [db |-> db, result |-> result, wire |-> wire]

NotServed(db) == Served(db, NoValue, <<>>)

\* One definition to a request; each is given what was read of it.
ServeReplicate(db, e) ==
    LET applied(a, result) == Served(IF a.ok THEN a.val ELSE db, result, WriteAnswer(AnswerMagic, result, EncodeAckPositions))
        apply(a) == applied(a, IF a.ok THEN Good(AckPositions(e.out[1])) ELSE NoValue)
    IN  IF e.ok THEN apply(ApplyEntries(db, e.out[1])) ELSE NotServed(db)

ServeAppend(db, e) ==
    LET answer(a) == Served(a.db, Good(a.answer), WriteAnswer(AppendAnswerMagic, Good(a.answer), EncodeAppendAnswer))
    IN  IF e.ok THEN answer(RaftAppend(db, e.out[1])) ELSE NotServed(db)

\* A pre-vote is answered like a vote and changes nothing.
ServeVote(db, v, real) ==
    LET answer(a) == Served(IF real THEN a.db ELSE db, Good(a.answer), WriteAnswer(AnswerMagic, Good(a.answer), EncodeVoteAnswer))
    IN  IF v.ok THEN answer(RequestVote(db, v.val)) ELSE NotServed(db)

ServeTransfer(db, to) ==
    LET answer(v) == Served(db, Good(v), WriteAnswer(AnswerMagic, Good(v), WriteVoteFields)) IN
    IF to.ok THEN answer([term |-> db.term + 1, candidate |-> to.out[1], lastIndex |-> Len(db.log),
                          lastTerm |-> TermAt(db, Len(db.log))])
    ELSE NotServed(db)

ServeInstall(db, s) ==
    LET answer(a) == Served(a.db, Good(a.answer), WriteAnswer(AnswerMagic, Good(a.answer), EncodeInstallAnswer)) IN
    IF s.ok THEN answer(InstallSnapshot(db, s.val)) ELSE NotServed(db)

ServeFetchChunk(db, q) ==
    LET answer(c) == Served(db, c, WriteAnswer(AnswerMagic, c, EncodeChunkAnswer)) IN
    IF q.ok THEN answer(SliceSnapshotFetchChunk(db.snapshot, q.out[1], q.out[2])) ELSE NotServed(db)

ServeCatchUp(db, q) ==
    LET answer(e) == Served(db, e, WriteCatchUpAnswer(e)) IN
    IF q.ok THEN answer(Good(ReadCatchUpEntries(db, q.val))) ELSE NotServed(db)

HandleStream(db, in) ==
    LET r == Reader(IF in = <<>> THEN <<>> ELSE Tail(in))
        rest == [ReadU64(r) EXCEPT !.out = <<>>]
        magic == IF in = <<>> THEN 0 ELSE Head(in)
    IN  CASE magic = HelloMagic ->
               Served(db, Good(db.identity), WriteAnswer(AnswerMagic, Good(db.identity), EncodeNodeIdentity))
          [] magic = ReplicateMagic -> ServeReplicate(db, ReadEntries(r))
          [] magic = AppendMagic -> ServeAppend(db, ReadEntries([ReadU64(rest) EXCEPT !.out = <<>>]))
          [] magic \in {VoteMagic, PreVoteMagic} ->
               ServeVote(db, IF magic = VoteMagic THEN ReadVoteRequest(rest) ELSE ReadPreVoteRequest(rest), magic = VoteMagic)
          [] magic = TransferMagic -> ServeTransfer(db, ReadU64(rest))
          [] magic = InstallMagic -> ServeInstall(db, ReadSnapshotFields(r))
          [] magic = FetchMagic ->
               IF rest.ok THEN Served(db, Good(db.snapshot), WriteAnswer(AnswerMagic, Good(db.snapshot), EncodeFetchAnswer))
               ELSE NotServed(db)
          [] magic = FetchChunkMagic -> ServeFetchChunk(db, ReadNumbers(rest, 2))
          [] magic \in {CatchUpMagic, CatchUpLimitedMagic} ->
               ServeCatchUp(db, ReadCatchUpRequest(r, magic = CatchUpLimitedMagic))
          [] OTHER -> NotServed(db)

-----------------------------------------------------------------------------
(* The callers.  A call keeps where it is in a loop over several requests: *)
(* the next index or offset, the attempts left, what it has collected.     *)

NewCall(op, start, max, attempts) ==
    [op |-> op, start |-> start, max |-> max, left |-> attempts, total |-> 0, first |-> <<>>, parts |-> <<>>]

LogFrom(db, i) == SubSeq(db.log, i, Len(db.log))

Candidate(db) ==
    [term |-> db.term + 1, candidate |-> db.identity.server, lastIndex |-> Len(db.log), lastTerm |-> TermAt(db, Len(db.log))]

SnapshotOf(db) ==
    [term |-> db.term, leader |-> db.identity.server, lastTerm |-> TermAt(db, Len(db.log)), lastIndex |-> Len(db.log),
     payload |-> [i \in DOMAIN db.log |-> i % 2]]

\* The bytes of the request a call sends next.
Request(c, db) ==
    CASE c.op = "hello" -> <<HelloMagic>>
      [] c.op = "replicate" -> WriteReplicationRequest([entries |-> LogFrom(db, c.start)])
      [] c.op \in {"append", "appendOrInstall"} ->
           WriteRaftAppendRequest([commit |-> Len(db.log), entries |-> LogFrom(db, c.start)])
      [] c.op = "vote" -> WriteRaftVoteRequest([vote |-> Candidate(db)])
      [] c.op = "preVote" -> WriteRaftPreVoteRequest([vote |-> Candidate(db)])
      [] c.op = "transfer" -> WriteLeaderTransferRequest([transferee |-> db.identity.server])
      [] c.op = "install" -> WriteInstallSnapshotRequest([snapshot |-> SnapshotOf(db)])
      [] c.op = "fetch" -> WriteSnapshotFetchRequest
      [] c.op = "fetchChunks" -> WriteSnapshotFetchChunkRequest(c.start)
      [] c.op = "catchUp" -> WriteCatchUpRequest(c.start, c.max)

\* The value a caller reads from an answer, or none.
ReadResponse(c, in) ==
    CASE c.op = "hello" -> ReadAnswer(in, AnswerMagic, DecodeNodeIdentity)
      [] c.op = "replicate" -> ReadAnswer(in, AnswerMagic, DecodeAckPositions)
      [] c.op \in {"append", "appendOrInstall"} -> ReadAnswer(in, AppendAnswerMagic, DecodeAppendAnswer)
      [] c.op \in {"vote", "preVote"} -> ReadAnswer(in, AnswerMagic, DecodeVoteAnswer)
      [] c.op = "transfer" -> ReadAnswer(in, AnswerMagic, DecodeTransferAnswer)
      [] c.op = "install" -> ReadAnswer(in, AnswerMagic, DecodeInstallAnswer)
      [] c.op = "fetch" -> ReadAnswer(in, AnswerMagic, DecodeFetchAnswer)
      [] c.op = "fetchChunks" -> ReadAnswer(in, AnswerMagic, DecodeChunkAnswer)
      [] c.op = "catchUp" -> ReadCatchUpAnswer(in)

Then(c, db) == [call |-> c, db |-> db]

\* send_tcp_replication_batch and send_tcp_raft_append_batch: the same entries
\* again while an attempt is left; only a durable append is a success.
AfterSend(c, db, got) ==
    LET done == got.ok /\ (c.op = "replicate" \/ (got.val.success /\ got.val.durable)) IN
    IF done \/ c.left = 1 THEN Then(NoCall, db) ELSE Then([c EXCEPT !.left = @ - 1], db)

\* request_tcp_raft_append_or_install_snapshot: whatever is not an accepted
\* append is followed by the snapshot.
AfterAppendOrInstall(c, db, got) ==
    IF got.ok /\ got.val.success THEN Then(NoCall, db) ELSE Then([c EXCEPT !.op = "install"], db)

\* request_tcp_snapshot_fetch: chunks until the last; a snapshot that is gone
\* or has changed on the way is an error.
AfterChunkMutant(c, db, got) ==
    LET chunk == got.val.chunk[1]
        parts == c.parts \o chunk.snapshot.payload
    IN  CASE ~got.ok -> Then(NoCall, db)
          [] got.ok /\ got.val.chunk = <<>> -> Then(NoCall, db)
          [] got.ok /\ got.val.chunk # <<>> /\ chunk.done ->
               Then(NoCall, [db EXCEPT !.snapshot = <<[chunk.snapshot EXCEPT !.payload = parts]>>])
          [] OTHER -> Then([c EXCEPT !.start = got.val.resume, !.parts = parts, !.first = <<got.val>>], db)

AfterChunk(c, db, got) ==
    LET chunk == got.val.chunk[1]
        parts == c.parts \o chunk.snapshot.payload
        changed == c.first # <<>> /\ (got.val.checksum # c.first[1].checksum \/ got.val.total # c.first[1].total)
    IN  CASE ~got.ok -> Then(NoCall, db)
          [] got.ok /\ (got.val.chunk = <<>> \/ changed) -> Then(NoCall, db)
          [] got.ok /\ got.val.chunk # <<>> /\ ~changed /\ chunk.done ->
               Then(NoCall, [db EXCEPT !.snapshot = <<[chunk.snapshot EXCEPT !.payload = parts]>>])
          [] OTHER -> Then([c EXCEPT !.start = got.val.resume, !.parts = parts,
                                     !.first = IF @ = <<>> THEN <<got.val>> ELSE @], db)

\* catch_up_from_tcp_primary_batched: another request after a full batch.
AfterCatchUp(c, db, got) ==
    LET n == Len(got.val)
        after(applied) == IF ~applied.ok THEN Then(NoCall, db)
                          ELSE IF n = 0 \/ c.max = 0 \/ n < c.max THEN Then(NoCall, applied.val)
                          ELSE Then([c EXCEPT !.start = @ + n, !.total = @ + n], applied.val)
    IN  IF got.ok /\ ValidateCatchUpEntries(got.val, c.start, c.max) THEN after(ApplyEntries(db, got.val))
        ELSE Then(NoCall, db)

After(c, db, got) ==
    CASE c.op \in {"replicate", "append"} -> AfterSend(c, db, got)
      [] c.op = "appendOrInstall" -> AfterAppendOrInstall(c, db, got)
      [] c.op = "fetchChunks" -> AfterChunk(c, db, got)
      [] c.op = "catchUp" -> AfterCatchUp(c, db, got)
      [] OTHER -> Then(NoCall, db)

-----------------------------------------------------------------------------
(* Behaviours.                                                             *)

Database(server, log, term, snapshot) ==
    [log |-> log, term |-> term, snapshot |-> snapshot,
     identity |-> [server |-> server, node |-> 10 + server, cluster |-> 1, database |-> 1, transports |-> <<1, 2>>]]

StreamInit ==
    /\ rqConf \in RqConf
    /\ rqServer = Database(1, rqConf.serverLog, 2, rqConf.snapshot)
    /\ rqClient = Database(2, rqConf.clientLog, 1, <<>>)
    /\ rqCall = NoCall /\ rqStage = "idle"
    /\ rqWire = <<>> /\ rqWhole = <<>>
    /\ rqAnswer = NoValue /\ rqGot = NoValue

Sent(c, db) ==
    /\ rqCall' = c /\ rqStage' = "sent"
    /\ rqWire' = Request(c, db) /\ rqWhole' = rqWire'

\* A new call, while the instance has calls left to make.
Call ==
    /\ rqStage = "idle"
    /\ \E c \in rqConf.calls :
         /\ Sent(c, rqClient)
         /\ rqConf' = [rqConf EXCEPT !.calls = @ \ {c}]
         /\ rqGot' = NoValue
    /\ UNCHANGED <<rqServer, rqClient, rqAnswer>>

\* The connection breaks: the reader sees the bytes sent so far and an end.
Cut ==
    /\ rqConf.cuts > 0 /\ rqStage \in {"sent", "answered"} /\ rqWire = rqWhole
    /\ \E n \in 0..Len(rqWire) - 1 : rqWire' = SubSeq(rqWire, 1, n)
    /\ rqConf' = [rqConf EXCEPT !.cuts = @ - 1]
    /\ UNCHANGED <<rqServer, rqClient, rqCall, rqStage, rqWhole, rqAnswer, rqGot>>

\* Between two requests of a call the server may replace its snapshot.
Resnapshot ==
    /\ rqConf.resnapshot # <<>> /\ rqServer.snapshot # rqConf.resnapshot
    /\ rqServer' = [rqServer EXCEPT !.snapshot = rqConf.resnapshot]
    /\ rqConf' = [rqConf EXCEPT !.resnapshot = <<>>]
    /\ UNCHANGED <<rqClient, rqCall, rqStage, rqWire, rqWhole, rqAnswer, rqGot>>

HandleTcpReplicationStream ==
    /\ rqStage = "sent"
    /\ \E served \in {HandleStream(rqServer, rqWire)} :
         /\ rqServer' = served.db
         /\ rqAnswer' = served.result
         /\ rqWire' = served.wire /\ rqWhole' = served.wire
    /\ rqStage' = "answered" /\ rqGot' = NoValue
    /\ UNCHANGED <<rqConf, rqClient, rqCall>>

Receive ==
    /\ rqStage = "answered"
    /\ \E got \in {ReadResponse(rqCall, rqWire)} : \E next \in {After(rqCall, rqClient, got)} :
         /\ rqGot' = got
         /\ rqClient' = next.db
         /\ IF next.call = NoCall
            THEN rqCall' = NoCall /\ rqStage' = "idle" /\ rqWire' = <<>> /\ rqWhole' = <<>>
            ELSE Sent(next.call, next.db)
    /\ UNCHANGED <<rqConf, rqServer, rqAnswer>>

StreamNext == Call \/ Cut \/ Resnapshot \/ HandleTcpReplicationStream \/ Receive

StreamSpec == StreamInit /\ [][StreamNext]_rqVars

-----------------------------------------------------------------------------
(* Properties.                                                             *)

\* What a caller reads from an answer is what the handler answered, however
\* much of the answer arrived: an answer cut short is an error and never a
\* shorter or a different value.
AnswersReadAsSent == rqGot.ok => rqAnswer.ok /\ rqGot.val = rqAnswer.val

\* A request of which only a part arrived changes nothing on the server: the
\* entries that came whole before the cut are not applied either.
CutRequestsChangeNothing ==
    [][rqStage = "sent" /\ rqStage' = "answered" /\ rqWire # rqWhole => rqServer' = rqServer]_rqVars

\* However often entries are sent again, or a batch is asked for again after a
\* cut, the shorter of the two logs is a prefix of the longer, and a fetched
\* snapshot is one the server had, whole.
LogsAndSnapshotsCopied ==
    /\ IsPrefix(rqClient.log, rqServer.log) \/ IsPrefix(rqServer.log, rqClient.log)
    /\ rqClient.snapshot # <<>> => rqClient.snapshot[1] \in rqConf.snapshots

\* What either side takes over from a stream is what the other side had:
\* answers as they were given, logs and snapshots as they were stored.
CopiedAsSent == AnswersReadAsSent /\ LogsAndSnapshotsCopied

=============================================================================
