---------------------------- MODULE ClusterFiles ----------------------------
(***************************************************************************)
(* The text files under cluster/: membership, metadata authority,          *)
(* rebalance plan and execution, bootstrap manifest, statistics and the    *)
(* log of metadata operations.  A file is a sequence of symbols, a text    *)
(* the sequence of its characters, and a number or a keyword is one        *)
(* symbol.  Fields are separated by tabs and records by newlines, so a     *)
(* text that holds one of these would be read back as several fields.      *)
(* Writers and readers are separate functions and laid out separately.     *)
(***************************************************************************)
EXTENDS Naturals, Sequences, FiniteSets, SequencesExt, TLC

Tab == "\t"
NewLine == "\n"
Breaks == {Tab, NewLine, "\r"}

\* Numbers a text file may hold.
TextNumbers == 0..9

SanitizeClusterText(t) == [i \in DOMAIN t |-> IF t[i] \in Breaks THEN " " ELSE t[i]]

NoText == [ok |-> FALSE]
Parsed(v) == [ok |-> TRUE, val |-> v]

-----------------------------------------------------------------------------
(* Keywords.                                                               *)

PlanStates == {"proposed", "running", "completed", "failed", "cancelled"}
StepStates ==
    {"pending", "preparing", "catching_up", "ready", "applying", "applied", "failed", "cancelled"}
NodeStates == {"negotiating", "joining", "active", "draining", "leaving", "removed", "dead", "rejected"}
AssignmentStates ==
    {"planned", "catching_up", "caught_up", "serving_replica", "promoting", "serving_primary", "removing", "removed"}
BootstrapModes == {"join_existing", "recover_from_data"}

Keywords ==
    [plan |-> PlanStates, step |-> StepStates, node |-> NodeStates, assignment |-> AssignmentStates,
     mode |-> BootstrapModes]

-----------------------------------------------------------------------------
(* Lines and fields.                                                       *)

\* How a field is written: a number, a flag, a text with or without its
\* breaks, or a keyword.
WriteText(kind, v) ==
    CASE kind = "u64" -> <<ToString(v)>>
      [] kind = "bool" -> <<IF v THEN "1" ELSE "0">>
      [] kind = "text" -> SanitizeClusterText(v)
      [] kind = "raw" -> v
      [] OTHER -> <<v>>

WriteTexts(kinds, vs) == [i \in DOMAIN vs |-> WriteText(kinds[i], vs[i])]

TextLine(fields) == Tail(FlattenSeq([i \in DOMAIN fields |-> <<Tab>> \o fields[i]])) \o <<NewLine>>

\* A line with its first word and the fields behind it.
Line(word, kinds, vs) == TextLine(<<<<word>>>> \o WriteTexts(kinds, vs))

Split(t, mark) ==
    LET step(a, c) == IF c = mark THEN Append(a, <<>>) ELSE [a EXCEPT ![Len(a)] = Append(@, c)] IN
    FoldLeft(step, <<<<>>>>, t)

\* The lines of a file; the newline at its end opens no further one.
TextLines(content) ==
    LET all == Split(content, NewLine) IN IF Len(all) > 1 /\ Last(all) = <<>> THEN Front(all) ELSE all

HeaderOf(content) == Split(Head(TextLines(content)), Tab)

\* The fields of every line behind the header.
FieldsBehind(content) == [i \in DOMAIN Tail(TextLines(content)) |-> Split(Tail(TextLines(content))[i], Tab)]

\* Most readers pass over empty lines.
RecordsBehind(content) == SelectSeq(FieldsBehind(content), LAMBDA fs : fs # <<<<>>>>)

ParsePlanU64(f) ==
    IF \E n \in TextNumbers : f = <<ToString(n)>>
    THEN Parsed(CHOOSE n \in TextNumbers : f = <<ToString(n)>>) ELSE NoText

ParsePlanBool(f) ==
    CASE f = <<"0">> -> Parsed(FALSE)
      [] f = <<"1">> -> Parsed(TRUE)
      [] OTHER -> NoText

ReadText(kind, f) ==
    CASE kind = "u64" -> ParsePlanU64(f)
      [] kind = "bool" -> ParsePlanBool(f)
      [] kind = "text" -> Parsed(f)
      [] OTHER -> IF Len(f) = 1 /\ f[1] \in Keywords[kind] THEN Parsed(f[1]) ELSE NoText

\* As many fields as kinds, every one of which can be read.
ReadTexts(kinds, fs) ==
    LET all == [i \in DOMAIN fs |-> ReadText(kinds[i], fs[i])] IN
    IF Len(fs) # Len(kinds) THEN NoText
    ELSE IF \E i \in DOMAIN all : ~all[i].ok THEN NoText ELSE Parsed([i \in DOMAIN all |-> all[i].val])

\* The fields behind a first word.
ReadLine(word, kinds, fs) == IF Head(fs) = <<word>> THEN ReadTexts(kinds, Tail(fs)) ELSE NoText

\* Every one of the results, or none.
AllParsed(rs) ==
    IF \A i \in DOMAIN rs : rs[i].ok THEN Parsed([i \in DOMAIN rs |-> rs[i].val]) ELSE NoText

\* The records of one kind in their order.
ValuesOf(records, word) ==
    LET mine == SelectSeq(records, LAMBDA r : r.word = word) IN [i \in DOMAIN mine |-> mine[i].val]

-----------------------------------------------------------------------------
(* Rebalance steps, plan and execution.                                    *)

\* A step is [op, args]: a shard, then one server or two.
StepNumbers == [ADD_REPLICA |-> 2, TRANSFER_PRIMARY |-> 3, REMOVE_REPLICA |-> 2]
U64s(n) == [i \in 1..n |-> "u64"]

EncodeRebalanceStep(st) == <<<<st.op>>>> \o WriteTexts(U64s(Len(st.args)), st.args)

StepOfNumbers(op, ns) == IF ns.ok THEN Parsed([op |-> op, args |-> ns.val]) ELSE NoText

DecodeRebalanceStep(fs) ==
    IF Len(fs[1]) # 1 \/ fs[1][1] \notin DOMAIN StepNumbers THEN NoText
    ELSE StepOfNumbers(fs[1][1], ReadTexts(U64s(StepNumbers[fs[1][1]]), Tail(fs)))

SavePlan(p) ==
    Line("N4RPLAN1", <<"u64", "plan", "u64", "u64">>, <<p.id, p.state, p.from, p.target>>)
        \o FlattenSeq([i \in DOMAIN p.steps |-> TextLine(EncodeRebalanceStep(p.steps[i]))])

PlanOf(h, steps) ==
    IF h.ok /\ steps.ok
    THEN Parsed([id |-> h.val[1], state |-> h.val[2], from |-> h.val[3], target |-> h.val[4], steps |-> steps.val])
    ELSE NoText

LoadPlan(content) ==
    LET rs == RecordsBehind(content) IN
    PlanOf(ReadLine("N4RPLAN1", <<"u64", "plan", "u64", "u64">>, HeaderOf(content)),
           AllParsed([i \in DOMAIN rs |-> DecodeRebalanceStep(rs[i])]))

\* An execution is [plan, state, current, steps, error], a step of it
\* [index, state, attempts, retryable, error, step].
SaveExecutionStep(x) ==
    TextLine(<<<<"step">>>>
             \o WriteTexts(<<"u64", "step", "u64", "bool", "text">>,
                           <<x.index, x.state, x.attempts, x.retryable, x.error>>)
             \o EncodeRebalanceStep(x.step))

SaveExecutionText(x) ==
    Line("N4REXEC1", <<"u64", "plan", "u64", "u64", "u64", "u64", "text">>,
         <<x.plan.id, x.state, x.current, x.plan.from, x.plan.target, Len(x.steps), x.error>>)
        \o FlattenSeq([i \in DOMAIN x.steps |-> SaveExecutionStep(x.steps[i])])

ExecutionStepOf(a, step) ==
    IF a.ok /\ step.ok
    THEN Parsed([index |-> a.val[1], state |-> a.val[2], attempts |-> a.val[3], retryable |-> a.val[4],
                 error |-> a.val[5], step |-> step.val])
    ELSE NoText

LoadExecutionStep(fs) ==
    IF Len(fs) < 9 THEN NoText
    ELSE ExecutionStepOf(ReadLine("step", <<"u64", "step", "u64", "bool", "text">>, SubSeq(fs, 1, 6)),
                         DecodeRebalanceStep(SubSeq(fs, 7, Len(fs))))

\* The plan is rebuilt from the execution; the count of steps is not used.
ExecutionOf(h, xs) ==
    IF ~h.ok \/ ~xs.ok THEN NoText
    ELSE Parsed([plan |-> [id |-> h.val[1], state |-> h.val[2], from |-> h.val[4], target |-> h.val[5],
                           steps |-> [i \in DOMAIN xs.val |-> xs.val[i].step]],
                 state |-> h.val[2], current |-> h.val[3], steps |-> xs.val, error |-> h.val[7]])

LoadExecutionText(content) ==
    LET rs == RecordsBehind(content) IN
    ExecutionOf(ReadLine("N4REXEC1", <<"u64", "plan", "u64", "u64", "u64", "u64", "text">>, HeaderOf(content)),
                AllParsed([i \in DOMAIN rs |-> LoadExecutionStep(rs[i])]))

-----------------------------------------------------------------------------
(* Metadata authority, operations and statistics.                          *)

SaveAuthority(m) == Line("N4RMETA1", U64s(5), <<m.server, m.term, m.epoch, m.factor, m.limit>>)

AuthorityOf(h) ==
    IF h.ok THEN Parsed([server |-> h.val[1], term |-> h.val[2], epoch |-> h.val[3], factor |-> h.val[4],
                         limit |-> h.val[5]])
    ELSE NoText

LoadAuthority(content) == AuthorityOf(ReadLine("N4RMETA1", U64s(5), HeaderOf(content)))

\* An operation is [index, term, epoch, text].
OperationsHeader == <<"N4RMETALOG1", NewLine>>

OperationLine(o) == TextLine(WriteTexts(<<"u64", "u64", "u64", "text">>, <<o.index, o.term, o.epoch, o.text>>))

OperationOf(r) ==
    IF r.ok THEN Parsed([index |-> r.val[1], term |-> r.val[2], epoch |-> r.val[3], text |-> r.val[4]]) ELSE NoText

LoadOperations(content) ==
    LET rs == RecordsBehind(content) IN
    IF HeaderOf(content) # <<<<"N4RMETALOG1">>>> THEN NoText
    ELSE AllParsed([i \in DOMAIN rs |-> OperationOf(ReadTexts(<<"u64", "u64", "u64", "text">>, rs[i]))])

NextOperationIndex(loaded) == IF loaded = <<>> THEN 1 ELSE Last(loaded).index + 1

\* Statistics are [counts, labels, properties, types]; the last three are
\* sequences of pairs of a text and a number.
SaveCounts(word, pairs) == FlattenSeq([i \in DOMAIN pairs |-> Line(word, <<"text", "u64">>, pairs[i])])

SaveStatistics(s) ==
    Line("N4RSTATS1", U64s(4), s.counts) \o SaveCounts("label", s.labels)
        \o SaveCounts("node_property", s.properties) \o SaveCounts("relationship_type", s.types)

\* One record: its first word and its fields.
TaggedRecord(kindsOf, fs) ==
    IF Len(fs[1]) # 1 \/ fs[1][1] \notin DOMAIN kindsOf THEN NoText
    ELSE LET r == ReadTexts(kindsOf[fs[1][1]], Tail(fs)) IN
         IF r.ok THEN Parsed([word |-> fs[1][1], val |-> r.val]) ELSE NoText

StatisticsKinds == [w \in {"label", "node_property", "relationship_type"} |-> <<"text", "u64">>]

StatisticsOf(h, rs) ==
    IF h.ok /\ rs.ok
    THEN Parsed([counts |-> h.val, labels |-> ValuesOf(rs.val, "label"),
                 properties |-> ValuesOf(rs.val, "node_property"), types |-> ValuesOf(rs.val, "relationship_type")])
    ELSE NoText

LoadStatistics(content) ==
    LET rs == FieldsBehind(content) IN
    StatisticsOf(ReadLine("N4RSTATS1", U64s(4), HeaderOf(content)),
                 AllParsed([i \in DOMAIN rs |-> TaggedRecord(StatisticsKinds, rs[i])]))

-----------------------------------------------------------------------------
(* Membership and bootstrap manifest.                                      *)

\* A node is <<server, address, state, protocol, storage, shards, reason>>,
\* an assignment <<shard, server, state, match>>.
NodeFileKinds == <<"u64", "node", "u64", "u64", "u64", "raw", "raw">>
InFileOrder(n) == <<n[1], n[3], n[4], n[5], n[6], n[2], n[7]>>
FromFileOrder(f) == <<f[1], f[6], f[2], f[3], f[4], f[5], f[7]>>
AssignmentKinds == <<"u64", "u64", "assignment", "u64">>

\* save refuses a node whose address or reason would break a line.
RefusedNode(n) == (Range(n[2]) \cup Range(n[7])) \cap Breaks # {}

SaveMembershipText(m) ==
    Line("N4RMEM1", U64s(1), <<m.version>>)
        \o FlattenSeq([i \in DOMAIN m.nodes |-> Line("node", NodeFileKinds, InFileOrder(m.nodes[i]))])
        \o FlattenSeq([i \in DOMAIN m.assignments |-> Line("assignment", AssignmentKinds, m.assignments[i])])

MembershipKinds ==
    [node |-> <<"u64", "node", "u64", "u64", "u64", "text", "text">>, assignment |-> AssignmentKinds]

\* Older files hold a node as its id, its state and its address.
OldNode(r) ==
    IF r.ok THEN Parsed([word |-> "node", val |-> <<r.val[1], r.val[2], 0, 0, 0, r.val[3], <<>>>>]) ELSE NoText

MembershipRecord(fs) ==
    IF Len(fs) = 3 THEN OldNode(ReadTexts(<<"u64", "node", "text">>, fs)) ELSE TaggedRecord(MembershipKinds, fs)

MembershipOf(h, rs) ==
    IF ~h.ok \/ ~rs.ok THEN NoText
    ELSE LET nodes == ValuesOf(rs.val, "node") IN
         Parsed([version |-> h.val[1], nodes |-> [i \in DOMAIN nodes |-> FromFileOrder(nodes[i])],
                 assignments |-> ValuesOf(rs.val, "assignment")])

LoadMembershipText(content) ==
    LET rs == RecordsBehind(content) IN
    MembershipOf(ReadLine("N4RMEM1", U64s(1), HeaderOf(content)), AllParsed([i \in DOMAIN rs |-> MembershipRecord(rs[i])]))

\* A manifest is [head, membership, shards]; head holds the format version,
\* the mode, the ids of cluster and database and the seed's numbers.
ManifestHead ==
    <<"u64", "mode", "text", "text", "u64", "u64", "u64", "u64", "u64", "bool">>
ManifestNode == <<"u64", "text", "node", "u64", "u64", "u64", "text">>

SaveManifest(m) ==
    Line("N4RBOOT1", ManifestHead, m.head)
        \o Line("membership_version", U64s(1), <<m.membership.version>>)
        \o FlattenSeq([i \in DOMAIN m.membership.nodes |-> Line("node", ManifestNode, m.membership.nodes[i])])
        \o FlattenSeq([i \in DOMAIN m.membership.assignments |->
                           Line("assignment", AssignmentKinds, m.membership.assignments[i])])
        \o FlattenSeq([i \in DOMAIN m.shards |-> Line("shard", U64s(5), m.shards[i])])

ManifestKinds ==
    [membership_version |-> U64s(1), node |-> ManifestNode, assignment |-> AssignmentKinds, shard |-> U64s(5)]

\* The membership version must be there; the last one counts.
ManifestOf(h, rs) ==
    IF ~h.ok \/ ~rs.ok THEN NoText
    ELSE LET versions == ValuesOf(rs.val, "membership_version") IN
         IF versions = <<>> THEN NoText
         ELSE Parsed([head |-> h.val, shards |-> ValuesOf(rs.val, "shard"),
                      membership |-> [version |-> Last(versions)[1], nodes |-> ValuesOf(rs.val, "node"),
                                      assignments |-> ValuesOf(rs.val, "assignment")]])

LoadManifest(content) ==
    LET rs == RecordsBehind(content) IN
    ManifestOf(ReadLine("N4RBOOT1", ManifestHead, HeaderOf(content)),
               AllParsed([i \in DOMAIN rs |-> TaggedRecord(ManifestKinds, rs[i])]))
=============================================================================
