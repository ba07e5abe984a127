------------------------------ MODULE LogFiles ------------------------------
(***************************************************************************)
(* The files a server keeps, at the level of the single writes that fill   *)
(* them: the segments of a shard's log, the commit, checkpoint, snapshot   *)
(* and routing files and the text files under cluster/, which are replaced *)
(* through a temporary file, the log of metadata operations, which is      *)
(* appended to, and the log of transaction decisions, which is appended to *)
(* and replaced.  A kill may come between any two writes.                  *)
(***************************************************************************)
EXTENDS LogCodec, ClusterFiles

CONSTANTS
    LfConf,         \* instances: operations, kills allowed, command set
    LfShard,        \* the shard whose files these are
    SegmentSize,    \* entries_per_segment
    LfMaxIndex      \* bound on the log entries

VARIABLES
    lfConf,         \* the instance
    lfSegments,     \* segment start -> what its file holds
    lfFile,         \* name -> what the file and its temporary file hold
    lfSteps,        \* writes the running operation still has to make
    lfLog,          \* history: entries appended and not removed
    lfSaved,        \* history: name -> contents saved last, and being saved
    lfDecided       \* history: decisions appended and not removed

lfVars == <<lfConf, lfSegments, lfFile, lfSteps, lfLog, lfSaved, lfDecided>>

-----------------------------------------------------------------------------
(* Segments of the log.                                                    *)

SegmentHeaders == {801, 802}

SegmentStartForIndex(index) ==
    IF index = 0 THEN 0 ELSE ((index - 1) \div SegmentSize) * SegmentSize + 1

SegmentPathsFrom(segments, start) ==
    SetToSortSeq({s \in DOMAIN segments : s >= SegmentStartForIndex(start) /\ segments[s] # <<>>}, LAMBDA a, b : a < b)

CompactionCandidatesBefore(segments, retained) ==
    {s \in DOMAIN segments : s < SegmentStartForIndex(retained) /\ segments[s] # <<>>}

\* write_payload: the length and the payload are two writes.
WritePayload(at, payload) == <<[segment |-> at, add |-> <<Len(payload)>>], [segment |-> at, add |-> payload]>>

\* open_log_file writes the header into an empty file and otherwise checks it.
OpenLogFile(at, content) == IF content = <<>> THEN <<[segment |-> at, add |-> <<802>>]>> ELSE <<>>

\* read_payload: nothing left is the end; a short length or payload is corrupt.
ReadPayloads(content) ==
    LET step(r, i) == IF r.in = <<>> THEN r ELSE ReadString(r)
        n == Len(content)
    IN  IF content = <<>> \/ Head(content) \notin SegmentHeaders THEN Corrupt(Reader(<<>>))
        ELSE FoldLeft(step, Reader(Tail(content)), [i \in 1..n |-> i])

DecodePayloads(r) == IF r.ok THEN [i \in DOMAIN r.out |-> DecodeLogEntry(r.out[i])] ELSE <<NoValue>>

ReadSegments(segments, paths) == FlattenSeq([i \in DOMAIN paths |-> DecodePayloads(ReadPayloads(segments[paths[i]]))])

ReplayEntries(entries, start) ==
    IF \A i \in DOMAIN entries : entries[i].ok /\ entries[i].val.shard = LfShard
    THEN [ok |-> TRUE, val |-> SelectSeq([i \in DOMAIN entries |-> entries[i].val], LAMBDA e : e.index >= start)]
    ELSE NoValue

\* replay_from: every entry of every segment from the start's segment on is
\* decoded and must be of this shard; those below the start are left out.
ReplayFrom(segments, start) == ReplayEntries(ReadSegments(segments, SegmentPathsFrom(segments, start)), start)

\* entry(index): the first entry of that index.
FirstOf(all, index) == IF all.ok THEN SelectSeq(all.val, LAMBDA e : e.index = index) ELSE <<>>

EntryAt(segments, index) == FirstOf(ReplayFrom(segments, index), index)

-----------------------------------------------------------------------------
(* Files replaced through a temporary file.                                *)

CommitMagic == 811
CheckpointV1 == 821
CheckpointV2 == 822
RoutingMagic == 831
SnapshotMagic == 841
ClusterFile == {"plan", "execution", "authority", "statistics", "membership", "manifest"}
StateFile == {"commit", "checkpoint", "routing", "snapshot", "operations"} \cup ClusterFile

EncodeCommit(v) == <<CommitMagic, LfShard, v.term, v.index>>

DecodeCommit(in) ==
    IF Len(in) = 4 /\ in[1] = CommitMagic /\ in[2] = LfShard
    THEN [ok |-> TRUE, val |-> [term |-> in[3], index |-> in[4]]] ELSE NoValue

EncodeCheckpoint(v) == <<CheckpointV2, LfShard, v.term, v.index, v.physical, v.logical>>

\* The timestamp is what follows the index: none in the first version, or two
\* numbers.
DecodeCheckpointTimestamp(version, rest) ==
    CASE version = CheckpointV1 /\ rest = <<>> -> [ok |-> TRUE, val |-> <<0, 0>>]
      [] Len(rest) = 2 -> [ok |-> TRUE, val |-> rest]
      [] OTHER -> NoValue

DecodeCheckpoint(in) ==
    IF Len(in) < 4 \/ in[1] \notin {CheckpointV1, CheckpointV2} \/ in[2] # LfShard THEN NoValue
    ELSE LET stamp == DecodeCheckpointTimestamp(in[1], SubSeq(in, 5, Len(in))) IN
         IF ~stamp.ok THEN NoValue
         ELSE [ok |-> TRUE, val |-> [term |-> in[3], index |-> in[4], physical |-> stamp.val[1], logical |-> stamp.val[2]]]

EncodeRouting(t) == <<RoutingMagic>> \o WriteRoutingTable(t)

FinishTable(r) == Finish(r, r.out[1])

DecodeRouting(in) ==
    IF in = <<>> \/ Head(in) # RoutingMagic THEN NoValue ELSE FinishTable(ReadRoutingTable(Reader(Tail(in))))

WriteToLog(c) == WriteString(EncodeCommand(c))

WriteCommands(cs) == <<Len(cs)>> \o FlattenSeq([i \in DOMAIN cs |-> WriteToLog(cs[i])])

\* A snapshot holds its nodes, boundary nodes and relationships as the
\* commands that create them.
EncodeSnapshot(v) ==
    <<SnapshotMagic, LfShard, v.term, v.index>>
        \o WriteCommands(v.nodes) \o WriteCommands(v.boundary) \o WriteCommands(v.relationships)

DecodeCommands(s) == [i \in DOMAIN s |-> DecodeCommand(s[i])]

SnapshotCommands(r) == IF r.ok /\ r.in = <<>> THEN [i \in 1..3 |-> DecodeCommands(r.out[i])] ELSE <<>>

\* A snapshot holds nodes, boundary nodes and relationships, in this order.
SnapshotTags == <<1, 7, 2>>

SnapshotOf(term, index, all) ==
    LET vals(s) == [i \in DOMAIN s |-> s[i].val] IN
    IF all = <<>> \/ \E k \in DOMAIN all : \E i \in DOMAIN all[k] : ~all[k][i].ok \/ all[k][i].val.tag # SnapshotTags[k]
    THEN NoValue
    ELSE [ok |-> TRUE, val |-> [term |-> term, index |-> index, nodes |-> vals(all[1]), boundary |-> vals(all[2]),
                                relationships |-> vals(all[3])]]

DecodeSnapshot(in) ==
    IF Len(in) < 4 \/ in[1] # SnapshotMagic \/ in[2] # LfShard THEN NoValue
    ELSE SnapshotOf(in[3], in[4], SnapshotCommands(
             FoldLeft(LAMBDA r, i : ReadMany(r, ReadString), Reader(SubSeq(in, 5, Len(in))), <<1, 2, 3>>)))

Encode(name, v) ==
    CASE name = "commit" -> EncodeCommit(v)
      [] name = "checkpoint" -> EncodeCheckpoint(v)
      [] name = "routing" -> EncodeRouting(v)
      [] name = "snapshot" -> EncodeSnapshot(v)
      [] name = "plan" -> SavePlan(v)
      [] name = "execution" -> SaveExecutionText(v)
      [] name = "authority" -> SaveAuthority(v)
      [] name = "statistics" -> SaveStatistics(v)
      [] name = "membership" -> SaveMembershipText(v)
      [] name = "manifest" -> SaveManifest(v)

Load(name, content) ==
    CASE name = "commit" -> DecodeCommit(content)
      [] name = "checkpoint" -> DecodeCheckpoint(content)
      [] name = "routing" -> DecodeRouting(content)
      [] name = "snapshot" -> DecodeSnapshot(content)
      [] name = "plan" -> LoadPlan(content)
      [] name = "execution" -> LoadExecutionText(content)
      [] name = "authority" -> LoadAuthority(content)
      [] name = "statistics" -> LoadStatistics(content)
      [] name = "membership" -> LoadMembershipText(content)
      [] name = "manifest" -> LoadManifest(content)
      [] name = "operations" -> LoadOperations(content)

\* The temporary file is truncated, filled in several writes, and renamed.
SaveSteps(name, content) ==
    <<[file |-> name, clear |-> "tmp"], [file |-> name, write |-> SubSeq(content, 1, 2)],
      [file |-> name, write |-> content], [file |-> name, rename |-> TRUE]>>

-----------------------------------------------------------------------------
(* The log of transaction decisions: text, one record to a line.           *)

DecisionMagic == "N4RTXD1"

\* A record is [decision, tx, participants]; a participant is
\* [location, shard, prepared].  Its fields are joined by tabs, its
\* participants by commas and their fields by colons, and the location is
\* written in hexadecimal, so none of these characters is part of a field.
EncodeRecord(r) == ToString(<<r.decision, r.tx, r.participants>>)

\* What a line holds is read back as a record when it is exactly one.
DecodeLine(pieces, known) ==
    IF Len(pieces) = 1 /\ \E r \in known : EncodeRecord(r) = pieces[1]
    THEN [ok |-> TRUE, val |-> CHOOSE r \in known : EncodeRecord(r) = pieces[1]] ELSE NoValue

\* writeln! makes one write for the text and one for the newline.
WriteLine(text) == <<[file |-> "decisions", add |-> <<text>>], [file |-> "decisions", add |-> <<NewLine>>]>>

AppendDecisionSteps(content, r) ==
    (IF content = <<>> THEN WriteLine(DecisionMagic) ELSE <<>>) \o WriteLine(EncodeRecord(r))

\* The lines of the file, the last of which may lack its newline.
LinesOf(content) ==
    LET step(a, piece) == IF piece = NewLine THEN [done |-> Append(a.done, a.line), line |-> <<>>]
                          ELSE [a EXCEPT !.line = Append(@, piece)]
        r == FoldLeft(step, [done |-> <<>>, line |-> <<>>], content)
    IN  IF r.line = <<>> THEN r.done ELSE Append(r.done, r.line)

RecordsOf(lines, known) == [i \in 1..(Len(lines) - 1) |-> DecodeLine(lines[i + 1], known)]

LoadRecords(lines, records) ==
    IF lines[1] # <<DecisionMagic>> \/ \E i \in DOMAIN records : ~records[i].ok THEN NoValue
    ELSE [ok |-> TRUE, val |-> [i \in DOMAIN records |-> records[i].val]]

LoadDecisions(content, known) ==
    LET lines == LinesOf(content) IN
    IF content = <<>> THEN [ok |-> TRUE, val |-> <<>>] ELSE LoadRecords(lines, RecordsOf(lines, known))

EncodeDecisions(rs) ==
    <<DecisionMagic, NewLine>> \o FlattenSeq([i \in DOMAIN rs |-> <<EncodeRecord(rs[i]), NewLine>>])

-----------------------------------------------------------------------------
(* Operations: each starts by laying out its writes.                       *)

Idle == lfSteps = <<>>

EntriesWith(c, index) ==
    [shard |-> LfShard, term |-> 1, index |-> index, origin |-> 2, config |-> 3, physical |-> 4, logical |-> 5, command |-> c]

\* append_with_sync of the next entry.
AppendWithSync(c) ==
    LET index == IF lfLog = <<>> THEN 1 ELSE Last(lfLog).index + 1
        at == SegmentStartForIndex(index)
        e == EntriesWith(c, index)
    IN  /\ Idle /\ "append" \in lfConf.ops
        /\ index <= LfMaxIndex
        /\ lfSteps' = OpenLogFile(at, lfSegments[at]) \o WritePayload(at, EncodeLogEntry(e))
        /\ lfLog' = Append(lfLog, e)
        /\ UNCHANGED <<lfConf, lfSegments, lfFile, lfSaved, lfDecided>>

\* truncate_from rewrites what it keeps into new segments, in this format.
SegmentFile(mine) ==
    IF mine = <<>> THEN <<>>
    ELSE <<802>> \o FlattenSeq([i \in DOMAIN mine |-> WriteString(EncodeLogEntry(mine[i]))])

TruncateFrom(index) ==
    /\ Idle /\ "truncate" \in lfConf.ops
    /\ \E all \in {ReplayFrom(lfSegments, 0)} :
         /\ all.ok
         /\ lfSegments' = [s \in DOMAIN lfSegments |->
                SegmentFile(SelectSeq(all.val, LAMBDA e : e.index < index /\ SegmentStartForIndex(e.index) = s))]
    /\ lfLog' = SelectSeq(lfLog, LAMBDA e : e.index < index)
    /\ UNCHANGED <<lfConf, lfFile, lfSteps, lfSaved, lfDecided>>

\* Compaction removes the segments before that of the retained index.
Compact(retained) ==
    LET gone == CompactionCandidatesBefore(lfSegments, retained) IN
    /\ Idle /\ "compact" \in lfConf.ops
    /\ gone # {}
    /\ lfSegments' = [s \in DOMAIN lfSegments |-> IF s \in gone THEN <<>> ELSE lfSegments[s]]
    /\ lfLog' = SelectSeq(lfLog, LAMBDA e : SegmentStartForIndex(e.index) \notin gone)
    /\ UNCHANGED <<lfConf, lfFile, lfSteps, lfSaved, lfDecided>>

\* What has to be read back: texts lose their tabs and newlines on the way.
CleanPairs(pairs) == [i \in DOMAIN pairs |-> <<SanitizeClusterText(pairs[i][1]), pairs[i][2]>>]
CleanNode(n) == [n EXCEPT ![2] = SanitizeClusterText(@), ![7] = SanitizeClusterText(@)]
CleanStep(x) == [x EXCEPT !.error = SanitizeClusterText(@)]
Clean(name, v) ==
    CASE name = "execution" ->
             [v EXCEPT !.error = SanitizeClusterText(@), !.steps = [i \in DOMAIN @ |-> CleanStep(@[i])]]
      [] name = "statistics" ->
             [v EXCEPT !.labels = CleanPairs(@), !.properties = CleanPairs(@), !.types = CleanPairs(@)]
      [] name = "manifest" ->
             [v EXCEPT !.head[3] = SanitizeClusterText(@), !.head[4] = SanitizeClusterText(@),
                       !.membership.nodes = [i \in DOMAIN @ |-> CleanNode(@[i])]]
      [] OTHER -> v

\* A history of what the file held last, and of what it is about to hold.
Next2(history, v) == IF history = <<>> THEN <<v>> ELSE <<Last(history), v>>

\* save of the membership stops at a node it refuses; the temporary file
\* stays behind, half written.
Refused(name, v) == name = "membership" /\ \E i \in DOMAIN v.nodes : RefusedNode(v.nodes[i])

Save(name, v) ==
    /\ Idle /\ "save" \in lfConf.ops
    /\ IF Refused(name, v)
       THEN /\ lfSteps' = SubSeq(SaveSteps(name, Encode(name, v)), 1, 2)
            /\ UNCHANGED lfSaved
       ELSE /\ lfSteps' = SaveSteps(name, Encode(name, v))
            /\ lfSaved' = [lfSaved EXCEPT ![name] = Next2(@, Clean(name, v))]
    /\ UNCHANGED <<lfConf, lfSegments, lfFile, lfLog, lfDecided>>

\* append of the log of metadata operations, whose index it takes from the
\* last record of the file.
AppendOperation(term, epoch, text) ==
    /\ Idle /\ "operate" \in lfConf.ops
    /\ \E loaded \in {LoadOperations(lfFile["operations"].cur)} :
         /\ loaded.ok /\ Len(loaded.val) < LfMaxIndex
         /\ LET o == [index |-> NextOperationIndex(loaded.val), term |-> term, epoch |-> epoch,
                      text |-> SanitizeClusterText(text)]
            IN  /\ lfSteps' = <<[file |-> "operations", add |-> OperationLine(o)]>>
                /\ lfSaved' = [lfSaved EXCEPT !["operations"] =
                                   Next2(@, Append(IF @ = <<>> THEN <<>> ELSE Last(@), o))]
    /\ UNCHANGED <<lfConf, lfSegments, lfFile, lfLog, lfDecided>>

AppendDecision(r) ==
    /\ Idle /\ "decide" \in lfConf.ops
    /\ r \notin ToSet(lfDecided)
    /\ lfSteps' = AppendDecisionSteps(lfFile["decisions"].cur, r)
    /\ lfDecided' = Append(lfDecided, r)
    /\ UNCHANGED <<lfConf, lfSegments, lfFile, lfLog, lfSaved>>

\* remove_tx_ids loads, filters, and replaces the file when it removed some.
RemoveTxIds(txs) ==
    /\ Idle /\ "decide" \in lfConf.ops
    /\ \E loaded \in {LoadDecisions(lfFile["decisions"].cur, lfConf.decisions)} :
         /\ loaded.ok /\ \E i \in DOMAIN loaded.val : loaded.val[i].tx \in txs
         /\ lfSteps' = SaveSteps("decisions", EncodeDecisions(SelectSeq(loaded.val, LAMBDA r : r.tx \notin txs)))
    /\ lfDecided' = SelectSeq(lfDecided, LAMBDA r : r.tx \notin txs)
    /\ UNCHANGED <<lfConf, lfSegments, lfFile, lfLog, lfSaved>>

\* One write reaches its file.
Perform ==
    LET s == Head(lfSteps) IN
    /\ ~Idle
    /\ lfSteps' = Tail(lfSteps)
    /\ IF "segment" \in DOMAIN s
       THEN lfSegments' = [lfSegments EXCEPT ![s.segment] = @ \o s.add] /\ UNCHANGED lfFile
       ELSE /\ lfFile' = [lfFile EXCEPT ![s.file] =
                   CASE "add" \in DOMAIN s -> [@ EXCEPT !.cur = @ \o s.add]
                     [] "clear" \in DOMAIN s -> [@ EXCEPT ![s.clear] = <<>>]
                     [] "write" \in DOMAIN s -> [@ EXCEPT !.tmp = s.write]
                     [] "rename" \in DOMAIN s -> [cur |-> @.tmp, tmp |-> <<>>]]
            /\ UNCHANGED lfSegments
    /\ UNCHANGED <<lfConf, lfLog, lfSaved, lfDecided>>

Appending == ~Idle /\ "add" \in DOMAIN Head(lfSteps)

Interrupted == IF "file" \in DOMAIN Head(lfSteps) THEN Head(lfSteps).file ELSE "segment"

\* What the operation was to save has not reached its file.
SaveUnfinished == Appending \/ "rename" \in DOMAIN Last(lfSteps)

\* The process is killed and the writes it had still to make are never made.
\* An entry or a decision whose append did not return counts as not appended, and a file that was
\* not renamed as not saved.
Kill ==
    /\ ~Idle
    /\ lfConf.kills > 0
    /\ (IF Appending THEN "append" ELSE "replace") \in lfConf.killIn
    /\ lfSteps' = <<>>
    /\ lfConf' = [lfConf EXCEPT !.kills = @ - 1]
    /\ lfLog' = IF Appending /\ "segment" \in DOMAIN Head(lfSteps) THEN Front(lfLog) ELSE lfLog
    /\ lfDecided' = IF Appending /\ Interrupted = "decisions" THEN Front(lfDecided) ELSE lfDecided
    /\ lfSaved' = [f \in StateFile |->
                      IF Interrupted = f /\ Len(lfSaved[f]) > 0 /\ SaveUnfinished THEN Front(lfSaved[f]) ELSE lfSaved[f]]
    /\ UNCHANGED <<lfSegments, lfFile>>

-----------------------------------------------------------------------------

SegmentStarts == {SegmentStartForIndex(i) : i \in 1..LfMaxIndex}

\* A log left by an older server has one entry in an older format.
FilesInit ==
    /\ lfConf \in LfConf
    /\ \E c \in lfConf.commands :
         LET e == [EntriesWith(c, 1) EXCEPT !.origin = 0, !.config = 0, !.physical = IF lfConf.legacy = 1 THEN 0 ELSE @,
                                            !.logical = IF lfConf.legacy = 1 THEN 0 ELSE @]
         IN  /\ lfLog = IF lfConf.legacy = 0 THEN <<>> ELSE <<e>>
             /\ lfSegments = [s \in SegmentStarts |->
                    IF lfConf.legacy # 0 /\ s = SegmentStartForIndex(1)
                    THEN <<800 + lfConf.legacy>> \o WriteString(LegacyLogEntry(lfConf.legacy, e)) ELSE <<>>]
    /\ lfFile = [f \in StateFile \cup {"decisions"} |->
                    [cur |-> IF f = "operations" THEN OperationsHeader ELSE <<>>, tmp |-> <<>>]]
    /\ lfSteps = <<>>
    /\ lfSaved = [f \in StateFile |-> <<>>]
    /\ lfDecided = <<>>

FilesNext ==
    \/ \E c \in lfConf.commands : AppendWithSync(c)
    \/ \E i \in 1..LfMaxIndex : TruncateFrom(i) \/ Compact(i)
    \/ \E name \in StateFile : \E v \in lfConf.values[name] : Save(name, v)
    \/ \E text \in lfConf.texts : AppendOperation(1, 2, text)
    \/ \E r \in lfConf.decisions : AppendDecision(r) \/ RemoveTxIds({r.tx})
    \/ Perform
    \/ Kill

FilesSpec == FilesInit /\ [][FilesNext]_lfVars

-----------------------------------------------------------------------------
(* Properties.                                                             *)

\* Between operations, replaying the log from any index yields exactly the
\* entries appended and not removed, from that index on, with every field,
\* whatever formats, segment boundaries, truncations and compactions are
\* behind it.
ReplayReadsAppended ==
    Idle => \A start \in 0..LfMaxIndex :
                /\ ReplayFrom(lfSegments, start) =
                       [ok |-> TRUE, val |-> SelectSeq(lfLog, LAMBDA e : e.index >= start)]
                /\ EntryAt(lfSegments, start) = SelectSeq(lfLog, LAMBDA e : e.index = start)

\* Whenever the process is killed, each of the files that are replaced can be
\* loaded and holds what was saved last, or what is being saved.
StateFilesAtomic ==
    \A f \in StateFile :
        \/ lfSaved[f] = <<>>
        \/ lfFile[f].cur \in {<<>>, OperationsHeader} /\ Len(lfSaved[f]) = 1
        \/ LET r == Load(f, lfFile[f].cur) IN r.ok /\ \E i \in DOMAIN lfSaved[f] : r.val = lfSaved[f][i]

\* What was written reads back: the log between operations, the replaced
\* files at every moment.
FilesReadBack == ReplayReadsAppended /\ StateFilesAtomic

\* Between operations the decision log can be loaded, and it holds every
\* decision whose append returned and that was not removed.
DecisionsReadable ==
    Idle => LET r == LoadDecisions(lfFile["decisions"].cur, lfConf.decisions) IN
            r.ok /\ ToSet(lfDecided) \subseteq ToSet(r.val)

=============================================================================
