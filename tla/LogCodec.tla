------------------------------ MODULE LogCodec ------------------------------
(***************************************************************************)
(* The binary form of commands and log entries, as codec.rs writes and     *)
(* reads it.  An encoded value is a sequence of numbers, one for each      *)
(* integer, byte count or character the code writes; a string is the       *)
(* sequence of its characters.  What is written and what is read are laid  *)
(* out by separate definitions, because they are separate functions.       *)
(***************************************************************************)
EXTENDS Naturals, Sequences, FiniteSets, SequencesExt, TLC

\* A value is [t, d, m]: its tag, its numbers or characters, and for a map
\* its properties.  A property is [k, v]; the values of a map are scalars.
ValNull == 0
ValBool == 1
ValInt == 2
ValFloat == 3
ValString == 4
ValVector == 5
ValMap == 6

Scalar(t, d) == [t |-> t, d |-> d, m |-> {}]

-----------------------------------------------------------------------------
(* Writers.                                                                *)

WriteString(s) == <<Len(s)>> \o s

WriteStrings(ss) == <<Len(ss)>> \o FlattenSeq([i \in DOMAIN ss |-> WriteString(ss[i])])

WriteScalar(v) ==
    <<v.t>> \o (IF v.t \in {ValString, ValVector} THEN WriteString(v.d) ELSE v.d)

ByKey(props) == SetToSortSeq(props, LAMBDA a, b : a.k[1] < b.k[1])

\* Properties are written in the order of their keys.
WritePropertiesOf(props, WriteV(_)) ==
    LET s == ByKey(props) IN
    <<Len(s)>> \o FlattenSeq([i \in DOMAIN s |-> WriteString(s[i].k) \o WriteV(s[i].v)])

WriteValue(v) ==
    IF v.t = ValMap THEN <<v.t>> \o WritePropertiesOf(v.m, WriteScalar) ELSE WriteScalar(v)

\* A routing table is [version, placements]; a placement is [shard, replicas]
\* and a replica [server, role], with role 1 for the primary and 2 otherwise.
WriteRoutingTable(t) ==
    LET replicas(p) == FlattenSeq([i \in DOMAIN p.replicas |-> <<p.replicas[i].server, p.replicas[i].role>>]) IN
    <<t.version, Len(t.placements)>>
        \o FlattenSeq([i \in DOMAIN t.placements |->
                <<t.placements[i].shard, Len(t.placements[i].replicas)>> \o replicas(t.placements[i])])

\* The fields of each command in the order encode_command writes them.  A
\* command is [tag, args], with one argument for each field.
WrittenFields ==
    << <<"u64", "strings", "props">>, <<"u64", "u64", "u64", "string", "props">>, <<"u64", "string", "value">>,
       <<"u64", "string", "value">>, <<"u64">>, <<"u64">>, <<"u64", "u64", "strings", "props", "u64">>,
       <<"u64", "string">>, <<"u64", "string">>, <<"u64", "string">>, <<"u64", "string">>,
       <<"string", "string", "string", "table">> >>

WriteField(kind, v) ==
    CASE kind = "u64" -> <<v>>
      [] kind = "string" -> WriteString(v)
      [] kind = "strings" -> WriteStrings(v)
      [] kind = "value" -> WriteValue(v)
      [] kind = "props" -> WritePropertiesOf(v, WriteValue)
      [] kind = "table" -> WriteRoutingTable(v)

EncodeCommand(c) ==
    <<c.tag>> \o FlattenSeq([i \in DOMAIN c.args |-> WriteField(WrittenFields[c.tag][i], c.args[i])])

\* Log entries are written in the third format; older files hold the others.
EntryV2Magic == 902
EntryV3Magic == 903

EncodeLogEntry(e) ==
    <<EntryV3Magic, e.shard, e.term, e.index, e.origin, e.config, e.physical, e.logical>>
        \o WriteString(EncodeCommand(e.command))

LegacyLogEntry(version, e) ==
    (IF version = 2 THEN <<EntryV2Magic, e.shard, e.term, e.index, e.physical, e.logical>>
     ELSE <<e.shard, e.term, e.index>>) \o WriteString(EncodeCommand(e.command))

-----------------------------------------------------------------------------
(* The reader: what is left of the input, whether every read so far        *)
(* succeeded, and what was read.                                           *)

Reader(in) == [in |-> in, ok |-> TRUE, out |-> <<>>]

Corrupt(r) == [r EXCEPT !.ok = FALSE]

ReadU64(r) ==
    IF r.ok /\ r.in # <<>> THEN [in |-> Tail(r.in), ok |-> TRUE, out |-> Append(r.out, Head(r.in))] ELSE Corrupt(r)

ReadExact(r, n) ==
    IF r.ok /\ Len(r.in) >= n
    THEN [in |-> SubSeq(r.in, n + 1, Len(r.in)), ok |-> TRUE, out |-> Append(r.out, SubSeq(r.in, 1, n))]
    ELSE Corrupt(r)

\* sub has read one value or several behind r: v becomes r's next output.
Nest(r, sub, v) == IF sub.ok THEN [sub EXCEPT !.out = Append(r.out, v)] ELSE Corrupt(r)

Gather(r, sub) == Nest(r, sub, sub.out)

ReadString(r) ==
    IF r.ok /\ r.in # <<>> THEN ReadExact([r EXCEPT !.in = Tail(@)], Head(r.in)) ELSE Corrupt(r)

\* A count and then that many values, whose sequence is the next output.
ReadMany(r, Read(_)) ==
    LET step(a, i) == Read(a) IN
    IF r.ok /\ r.in # <<>>
    THEN Gather(r, FoldLeft(step, [r EXCEPT !.in = Tail(@), !.out = <<>>], [i \in 1..Head(r.in) |-> i]))
    ELSE Corrupt(r)

ReadScalarBody(t, r) ==
    CASE t = ValNull -> [r EXCEPT !.out = << <<>> >>]
      [] t \in {ValBool, ValInt, ValFloat} -> ReadExact(r, 1)
      [] t \in {ValString, ValVector} -> ReadString(r)
      [] OTHER -> Corrupt(r)

NestScalar(r, t, body) == Nest(r, body, Scalar(t, body.out[1]))

ReadScalar(r) ==
    IF r.ok /\ r.in # <<>>
    THEN NestScalar(r, Head(r.in), ReadScalarBody(Head(r.in), [r EXCEPT !.in = Tail(@), !.out = <<>>]))
    ELSE Corrupt(r)

\* A repeated key keeps the value read last.
PropertiesOf(pairs) ==
    {[k |-> pairs[i][1], v |-> pairs[i][2]] :
        i \in {j \in DOMAIN pairs : \A n \in DOMAIN pairs : n > j => pairs[n][1] # pairs[j][1]}}

NestProperties(r, all) == Nest(r, all, PropertiesOf(all.out[1]))

ReadPropertiesOf(r, ReadV(_)) ==
    NestProperties(r, ReadMany([r EXCEPT !.out = <<>>],
                               LAMBDA a : Gather(a, ReadV(ReadString([a EXCEPT !.out = <<>>])))))

NestMap(r, props) == Nest(r, props, [t |-> ValMap, d |-> <<>>, m |-> props.out[1]])

ReadValue(r) ==
    IF r.ok /\ r.in # <<>> /\ Head(r.in) = ValMap
    THEN NestMap(r, ReadPropertiesOf([r EXCEPT !.in = Tail(@), !.out = <<>>], ReadScalar))
    ELSE ReadScalar(r)

NestReplica(r, s) ==
    IF s.ok /\ s.out[2] \in {1, 2} THEN Nest(r, s, [server |-> s.out[1], role |-> s.out[2]]) ELSE Corrupt(r)

ReadReplica(r) == NestReplica(r, ReadU64(ReadU64([r EXCEPT !.out = <<>>])))

NestPlacement(r, s) == Nest(r, s, [shard |-> s.out[1], replicas |-> s.out[2]])

ReadPlacement(r) == NestPlacement(r, ReadMany(ReadU64([r EXCEPT !.out = <<>>]), ReadReplica))

NestRoutingTable(r, s) == Nest(r, s, [version |-> s.out[1], placements |-> s.out[2]])

ReadRoutingTable(r) == NestRoutingTable(r, ReadMany(ReadU64([r EXCEPT !.out = <<>>]), ReadPlacement))

\* The fields of each command in the order decode_command reads them.
ReadFields ==
    << <<"u64", "strings", "props">>, <<"u64", "u64", "u64", "string", "props">>, <<"u64", "string", "value">>,
       <<"u64", "string", "value">>, <<"u64">>, <<"u64">>, <<"u64", "u64", "strings", "props", "u64">>,
       <<"u64", "string">>, <<"u64", "string">>, <<"u64", "string">>, <<"u64", "string">>,
       <<"string", "string", "string", "table">> >>

ReadField(kind, r) ==
    CASE kind = "u64" -> ReadU64(r)
      [] kind = "string" -> ReadString(r)
      [] kind = "strings" -> ReadMany(r, ReadString)
      [] kind = "value" -> ReadValue(r)
      [] kind = "props" -> ReadPropertiesOf(r, ReadValue)
      [] kind = "table" -> ReadRoutingTable(r)

NoValue == [ok |-> FALSE]

\* Bytes left over after the last field are an error as well.
Finish(r, v) == IF r.ok /\ r.in = <<>> THEN [ok |-> TRUE, val |-> v] ELSE NoValue

FinishCommand(tag, r) == Finish(r, [tag |-> tag, args |-> r.out])

DecodeCommand(in) ==
    IF in = <<>> \/ Head(in) \notin DOMAIN ReadFields THEN NoValue
    ELSE FinishCommand(Head(in), FoldLeft(LAMBDA r, kind : ReadField(kind, r), Reader(Tail(in)), ReadFields[Head(in)]))

\* A log entry is the numbers of its header and its command; a number an old
\* format lacks is zero.
LogEntryV3Mutant(h, c) ==
    [shard |-> h[1], term |-> h[2], index |-> h[3], origin |-> h[5], config |-> h[4], physical |-> h[6], logical |-> h[7],
     command |-> c]

LogEntryV3(h, c) ==
    [shard |-> h[1], term |-> h[2], index |-> h[3], origin |-> h[4], config |-> h[5], physical |-> h[6], logical |-> h[7],
     command |-> c]

LogEntryV2(h, c) ==
    [shard |-> h[1], term |-> h[2], index |-> h[3], origin |-> 0, config |-> 0, physical |-> h[4], logical |-> h[5],
     command |-> c]

LogEntryV1(h, c) ==
    [shard |-> h[1], term |-> h[2], index |-> h[3], origin |-> 0, config |-> 0, physical |-> 0, logical |-> 0, command |-> c]

HeaderNumbers == <<3, 5, 7>>

EntryVersion(in) ==
    IF in # <<>> /\ Head(in) = EntryV3Magic THEN 3 ELSE IF in # <<>> /\ Head(in) = EntryV2Magic THEN 2 ELSE 1

EntryOf(version, h, command) ==
    IF ~command.ok THEN NoValue
    ELSE [ok |-> TRUE,
          val |-> CASE version = 3 -> LogEntryV3(h, command.val)
                    [] version = 2 -> LogEntryV2(h, command.val)
                    [] version = 1 -> LogEntryV1(h, command.val)]

\* Nothing may follow the command.
DecodeEntryCommand(version, r) ==
    IF r.ok /\ r.in = <<>> THEN EntryOf(version, r.out, DecodeCommand(Last(r.out))) ELSE NoValue

DecodeLogEntry(in) ==
    LET version == EntryVersion(in) IN
    DecodeEntryCommand(version,
        ReadString(FoldLeft(LAMBDA r, i : ReadU64(r), Reader(IF version = 1 THEN in ELSE Tail(in)),
                            [i \in 1..HeaderNumbers[version] |-> i])))

=============================================================================
