---------------------------- MODULE WireCommands ----------------------------
(***************************************************************************)
(* Requests and responses: the commands that parse_request and its         *)
(* neighbours accept, the text in which a server forwards a command to     *)
(* another, and the responses that servers write and clients read.         *)
(*                                                                         *)
(* A request is the name of its command and its arguments.  The form of a  *)
(* command lists what its fields are; the field at the end of a form may   *)
(* be "ignored", when the code does not look at what follows.              *)
(***************************************************************************)
EXTENDS WireCodec

WireRequest(cmd, args) == [cmd |-> cmd, args |-> args]

-----------------------------------------------------------------------------
(* The forms of the commands.                                              *)

QueryForms ==
    [QUERY |-> <<"query">>, QUERY_PLAN |-> <<"query">>, PROFILE |-> <<"query">>,
     QUERY_SHARD |-> <<"num", "query">>, QUERY_STAGED_SHARD |-> <<"num", "staged">>,
     QUERY_WRITE_SHARD |-> <<"num", "query">>, QUERY_WRITE_BATCH_SHARD |-> <<"num", "batch">>,
     QUERY_DISTRIBUTED |-> <<"query">>]

PeerForms ==
    [REGISTER_QUERY_PEER |-> <<"num", "key">>, UNREGISTER_QUERY_PEER |-> <<"num">>,
     REGISTER_REPLICATION_PEER |-> <<"num", "key", "blank num", "blank transport">>,
     NEGOTIATE_REPLICATION_PEER |-> <<"num", "key", "blank num">>,
     UNREGISTER_REPLICATION_PEER |-> <<"num">>, REPLICATION_PEER_STATUS |-> <<"num">>]

GossipForm == [GOSSIP_NODE |-> <<"num", "key", "key", "num", "num", "blank text">>]

CatchUpForms ==
    [CATCH_UP_FROM_PRIMARIES |-> <<"positive">>, CATCH_UP_FROM_PRIMARY |-> <<"num", "maybe positive">>,
     CATCH_UP_PLAN_PRIMARY |-> <<"num">>]

CreateForms ==
    [CREATE_NODE |-> <<"labels", "props">>, CREATE_NODE_SHARD |-> <<"num", "labels", "props">>,
     CREATE_RELATIONSHIP |-> <<"num", "num", "type", "props">>]

PropertyForms ==
    [SET_NODE_PROPERTY |-> <<"num", "key", "value", "ignored">>,
     REMOVE_NODE_PROPERTY |-> <<"num", "key", "ignored">>,
     ADD_NODE_LABEL |-> <<"num", "key", "ignored">>, REMOVE_NODE_LABEL |-> <<"num", "key", "ignored">>,
     SET_RELATIONSHIP_PROPERTY |-> <<"num", "key", "value", "ignored">>,
     REMOVE_RELATIONSHIP_PROPERTY |-> <<"num", "key", "ignored">>,
     DELETE_NODE |-> <<"num">>, DELETE_RELATIONSHIP |-> <<"num">>]

IndexForms ==
    [CREATE_INDEX |-> <<"key", "key", "key", "IF_NOT_EXISTS">>,
     CREATE_CONSTRAINT |-> <<"key", "key", "key", "IF_NOT_EXISTS">>,
     CREATE_VECTOR_INDEX |-> <<"key", "key", "key", "num", "key", "IF_NOT_EXISTS">>,
     REBUILD_VECTOR_INDEX |-> <<"key">>, VECTOR_INDEX_STATUS |-> <<"key">>,
     DROP_INDEX |-> <<"key", "IF_EXISTS">>, DROP_CONSTRAINT |-> <<"key", "IF_EXISTS">>,
     INSTALL_INDEX_CATALOG |-> <<"catalog">>, SYNC_INDEX_CATALOG_FROM_PEER |-> <<"num">>]

ClusterForms ==
    [INSTALL_ROUTING_TABLE |-> <<"num", "placements">>, RESTORE_SNAPSHOT |-> <<"num">>,
     RAFT_LEADER_TRANSFER |-> <<"num", "num">>, REGISTER_NODE |-> <<"num", "key">>,
     JOIN_REQUEST |-> <<"num", "key", "num", "num", "num">>, JOIN_ACCEPT |-> <<"num">>,
     JOIN_REJECT |-> <<"num", "rest">>, DECOMMISSION_NODE |-> <<"num">>, SET_METADATA_AUTHORITY |-> <<"num">>]

RebalanceForms ==
    [SET_REBALANCE_POLICY |-> <<"num", "num">>, PREPARE_REBALANCE_STEP |-> <<"step">>,
     MARK_SHARD_CAUGHT_UP |-> <<"num", "num", "num">>, TOPOLOGY_RECONCILE |-> <<"blank positive">>,
     PROMOTE_CAUGHT_UP_NODE |-> <<"num">>, APPLY_REBALANCE_STEP |-> <<"step">>]

SafetyForms ==
    [WRITE_BOOTSTRAP_MANIFEST |-> <<"text", "text", "text">>, BOOTSTRAP_SAFETY |-> <<"text", "bool">>,
     OPERATIONAL_SAFETY |-> <<"text", "maybe text">>]

StepForms ==
    [ADD_REPLICA |-> <<"num", "num">>, TRANSFER_PRIMARY |-> <<"num", "num", "num">>,
     REMOVE_REPLICA |-> <<"num", "num">>]

\* The commands of a transaction and of a prepared query, which the server
\* looks for before the others.  The ids are read like numbers.
TransactionForms ==
    [BEGIN_TX |-> <<"options">>, TX_QUERY |-> <<"num", "query">>, TX_EXECUTE_PREPARED |-> <<"num", "num", "params">>,
     TX_PREPARED_QUERY_PLAN |-> <<"num", "num", "params">>, TX_PREPARED_QUERY_ROUTE |-> <<"num", "num", "params">>,
     TX_QUERY_DISTRIBUTED |-> <<"num", "query">>, TX_QUERY_PLAN |-> <<"num", "query">>]

TransactionIdForms ==
    [COMMIT_TX |-> <<"num">>, ROLLBACK_TX |-> <<"num">>, KILL_TX |-> <<"num">>, TX_STATUS |-> <<"num">>,
     TX_PREPARE_WRITE_BATCH_SHARD |-> <<"num", "batch">>, TX_COMMIT_PREPARED |-> <<"num">>,
     TX_ABORT_PREPARED |-> <<"num">>, TX_PREPARED_STATUS |-> <<"num">>]

PreparedForms ==
    [PREPARE_QUERY |-> <<"cypher">>, EXECUTE_PREPARED |-> <<"num", "params">>,
     PREPARED_QUERY_PLAN |-> <<"num", "params">>, PREPARED_QUERY_ROUTE |-> <<"num", "params">>,
     DESCRIBE_PREPARED |-> <<"num">>, CLOSE_PREPARED |-> <<"num">>]

BareTransactionCommands == {"BEGIN_TX", "LIST_TX", "LIST_ALL_TX", "LIST_PREPARED_TX", "LIST_PREPARED"}

Forms ==
    PreparedForms @@ TransactionForms @@ TransactionIdForms @@ QueryForms @@ PeerForms @@ GossipForm @@ CatchUpForms
        @@ CreateForms @@ PropertyForms @@ IndexForms @@ ClusterForms @@ RebalanceForms @@ SafetyForms

\* The commands that need no argument.
ZeroArgCommands ==
    {"PING", "QUIT", "LIST_QUERY_PEERS", "LIST_REPLICATION_PEERS", "LIST_GOSSIP_NODES", "GOSSIP_REFRESH_MEMBERSHIP",
     "REPLICATION_PEER_STATUS", "REPLICATION_STATUS", "ROUTING_TABLE", "CLUSTER_REGISTRY", "CAPABILITIES",
     "CATCH_UP_FROM_PRIMARIES", "CATCH_UP_PLAN", "LIST_TX_DECISIONS", "RECOVER_TX_DECISIONS",
     "REBUILD_VECTOR_INDEXES", "VECTOR_INDEX_STATUS", "LIST_INDEXES", "DUMP_INDEX_CATALOG", "CLUSTER_STATUS",
     "STORAGE_STATUS", "STATISTICS", "CHECKPOINT_NOW", "COMPACT_STORAGE", "SNAPSHOT_NOW", "VERIFY_INVARIANTS",
     "REPAIR_INVARIANTS", "BACKUP_NOW", "RAFT_STATUS", "METADATA_LOG", "LIST_NODES", "METADATA_AUTHORITY",
     "PLAN_REBALANCE", "START_REBALANCE", "CANCEL_REBALANCE", "REBALANCE_STATUS", "ADVANCE_REBALANCE",
     "CLUSTER_MANAGEMENT_STATUS", "TOPOLOGY_OBSERVE", "TOPOLOGY_RECONCILE", "CHAOS_CHECKS"}

-----------------------------------------------------------------------------
(* Catalogs, placements and steps.                                         *)

EncodeIndexDefinition(d) ==
    JoinText(<<HexEncode(d.parts[1].text), HexEncode(d.parts[2].text), HexEncode(d.parts[3].text), d.text>>
                 \o IF d.text = <<"vector">> THEN <<d.parts[4].text, HexEncode(d.parts[5].text)>> ELSE <<>>, ":")

EncodeIndexCatalog(c) == JoinText(<<c.text>> \o [i \in DOMAIN c.parts |-> EncodeIndexDefinition(c.parts[i])], ";")

DecodeIndexDefinition(t) ==
    LET fields == SplitText(t, ":", 0)
        hex == AllRight(<<HexDecode(fields[1]), HexDecode(fields[2]), HexDecode(fields[3])>>)
        names == [i \in 1..3 |-> Leaf("name", hex.val[i])]
        size == ReadNumber(fields[5])
        metric == HexDecode(fields[6]) IN
    IF Len(fields) \notin {4, 6} \/ ~hex.good THEN Wrong
    ELSE CASE fields[4] \in {<<"node">>, <<"unique_node">>} ->
                  IF Len(fields) = 4 THEN Right(Part("index", fields[4], names)) ELSE Wrong
           [] fields[4] = <<"vector">> ->
                  IF Len(fields) = 6 /\ size.good /\ metric.good
                  THEN Right(Part("index", fields[4], names \o <<Leaf("name", size.val), Leaf("name", metric.val)>>))
                  ELSE Wrong
           [] OTHER -> Wrong

DecodeIndexCatalog(t) ==
    LET fields == SplitText(t, ";", 0)
        defs == AllRight([i \in 1..(Len(fields) - 1) |-> DecodeIndexDefinition(fields[i + 1])]) IN
    IF IsNumber(fields[1]) /\ defs.good THEN Right(Part("catalog", fields[1], defs.val)) ELSE Wrong

RECURSIVE Distinct(_)
Distinct(ts) ==
    IF ts = <<>> THEN <<>>
    ELSE LET rest == Distinct(SubSeq(ts, 1, Len(ts) - 1))
             end == ts[Len(ts)] IN
         IF \E i \in DOMAIN rest : rest[i] = end THEN rest ELSE Append(rest, end)

\* shard:primary:replicas; the primary comes first and no server twice.
ParseRoutingPlacement(t) ==
    LET fields == SplitText(t, ":", 0)
        listed == IF Len(fields) = 3 THEN SelectSeq(SplitText(fields[3], ",", 0), LAMBDA x : x # <<>>) ELSE <<>>
        servers == <<fields[2]>> \o listed IN
    IF Len(fields) \in {2, 3} /\ IsNumber(fields[1])
        /\ \A i \in DOMAIN servers : IsNumber(servers[i]) /\ servers[i] # <<"0">>
    THEN Right(Part("placement", fields[1],
                    LET kept == Distinct(servers) IN [i \in DOMAIN kept |-> Leaf("server", kept[i])]))
    ELSE Wrong

ParsePlacements(fields) ==
    IF fields = <<>> THEN Wrong
    ELSE LET read == AllRight([i \in DOMAIN fields |-> ParseRoutingPlacement(fields[i])]) IN
         IF read.good THEN Right(Part("placements", <<>>, read.val)) ELSE Wrong

-----------------------------------------------------------------------------
(* Fields.                                                                 *)

Positive(t) == IF IsNumber(t) /\ t # <<"0">> THEN Right(Leaf("num", t)) ELSE Wrong

ParseLabels(t) ==
    LET items == SelectSeq(SplitText(t, ",", 0), LAMBDA x : x # <<>>) IN
    IF items # <<>> /\ \A i \in DOMAIN items : ValidToken(items[i])
    THEN Right(Part("labels", <<>>, [i \in DOMAIN items |-> Leaf("label", items[i])])) ELSE Wrong

ParseBool(t) ==
    CASE t \in {<<"1">>, <<"true">>, <<"TRUE">>, <<"yes">>, <<"YES">>} -> Right(Leaf("bool", <<"true">>))
      [] t \in {<<"0">>, <<"false">>, <<"FALSE">>, <<"no">>, <<"NO">>} -> Right(Leaf("bool", <<"false">>))
      [] OTHER -> Wrong

ReplicationChannelKinds == {<<"tcp">>, <<"udp">>, <<"rdma">>, <<"custom">>}

\* The reading of one field; t is the text of the field.
ParseField(kind, t) ==
    CASE kind = "num" -> Tagged("num", ReadNumber(t))
      [] kind = "positive" -> Positive(t)
      [] kind = "key" -> IF ValidToken(t) THEN Right(Leaf("key", t)) ELSE Wrong
      [] kind = "type" -> IF t # <<>> THEN Right(Leaf("key", t)) ELSE Wrong
      [] kind \in {"text", "maybe text"} -> Right(Leaf("text", t))
      [] kind = "bool" -> ParseBool(t)
      [] kind = "labels" -> ParseLabels(t)
      [] kind = "value" -> ParseValue(t)
      [] kind = "maybe positive" -> Positive(t)
      [] kind = "blank positive" -> IF t = <<>> THEN Right(NoWireValue) ELSE Positive(t)
      [] kind = "blank num" -> IF t = <<>> THEN Right(NoWireValue) ELSE Tagged("num", ReadNumber(t))
      [] kind = "blank text" -> Right(IF t = <<>> THEN NoWireValue ELSE Leaf("text", t))
      [] kind = "blank transport" ->
            IF t = <<>> THEN Right(NoWireValue) ELSE IF t \in ReplicationChannelKinds THEN Right(Leaf("text", t)) ELSE Wrong

Optional == {"maybe text", "maybe positive", "blank positive", "blank num", "blank text", "blank transport"}

\* IF_NOT_EXISTS and IF_EXISTS may only come last.
ParseFlag(flag, fields) ==
    IF fields = <<>> THEN Right(Leaf("bool", <<"false">>))
    ELSE IF fields = <<<<flag>>>> THEN Right(Leaf("bool", <<"true">>)) ELSE Wrong

ParseTxBeginOptions(t) ==
    LET options == SelectSeq(SplitText(t, " ", 0), LAMBDA x : x # <<>>)
        chosen(among, default) ==
            LET at == {i \in DOMAIN options : options[i] \in among} IN
            IF at = {} THEN default ELSE options[Max(at)] IN
    IF \A i \in DOMAIN options :
           options[i] \in {<<"READ_ONLY">>, <<"READ_WRITE">>, <<"SNAPSHOT">>, <<"READ_COMMITTED">>}
    THEN Right(Part("options", <<>>,
                    <<Leaf("mode", chosen({<<"READ_ONLY">>, <<"READ_WRITE">>}, <<"READ_ONLY">>)),
                      Leaf("isolation", chosen({<<"SNAPSHOT">>, <<"READ_COMMITTED">>}, <<"SNAPSHOT">>))>>))
    ELSE Wrong

\* The readings of a form's last field, which takes all the fields that are left.
NeedBatch(kind, batch) ==
    IF ~batch.good \/ (kind = "staged" /\ batch.val.parts = <<>>) THEN Wrong ELSE batch

PropsPart(props) == IF props.good THEN Right(Part("props", <<>>, props.val)) ELSE Wrong

ParseRest(kind, fields) ==
    LET text == JoinText(fields, "\t") IN
    CASE kind = "query" -> IF text = <<>> THEN Wrong ELSE ParseQueryPayload(text)
      [] kind \in {"batch", "staged"} ->
            IF fields = <<>> THEN Wrong ELSE NeedBatch(kind, DecodeQueryBatchPayload(text))
      [] kind = "params" -> PropsPart(ParseCommandProperties(fields))
      [] kind = "props" -> PropsPart(ParseProperties(fields))
      [] kind = "catalog" -> DecodeIndexCatalog(text)
      [] kind = "placements" -> ParsePlacements(fields)
      [] kind = "rest" -> IF fields = <<>> THEN Wrong ELSE Right(Leaf("text", text))
      [] kind = "cypher" -> IF text = <<>> THEN Wrong ELSE Right(Leaf("text", text))
      [] kind = "options" -> ParseTxBeginOptions(text)
      [] kind \in {"IF_NOT_EXISTS", "IF_EXISTS"} -> ParseFlag(kind, fields)

TakesRest == {"query", "batch", "staged", "props", "params", "catalog", "placements", "rest", "cypher", "options",
              "IF_NOT_EXISTS", "IF_EXISTS"}

RECURSIVE ParseFields(_, _)

\* The arguments that the fields spell, or an error: a missing field, a field
\* that cannot be read, or a field too many.
ParseFields(form, fields) ==
    CASE form = <<>> -> IF fields = <<>> THEN Right(<<>>) ELSE Wrong
      [] form # <<>> /\ Head(form) = "ignored" -> Right(<<>>)
      [] form # <<>> /\ Head(form) \in TakesRest -> AllRight(<<ParseRest(Head(form), fields)>>)
      [] OTHER ->
            LET rest == ParseFields(Tail(form), IF fields = <<>> THEN <<>> ELSE Tail(fields))
                field == IF fields # <<>> THEN ParseField(Head(form), Head(fields))
                         ELSE IF Head(form) \in Optional THEN Right(NoWireValue) ELSE Wrong IN
            IF field.good /\ rest.good THEN Right(<<field.val>> \o rest.val) ELSE Wrong

\* The first field of a rebalance step names the step.
ParseRebalanceStep(fields) ==
    LET step(name, args) == IF args.good THEN Right(<<Part("step", name, args.val)>>) ELSE Wrong IN
    IF Len(fields[1]) = 1 /\ fields[1][1] \in DOMAIN StepForms
    THEN step(fields[1], ParseFields(StepForms[fields[1][1]], Tail(fields))) ELSE Wrong

ParseRequest(t) ==
    LET fields == SplitText(t, "\t", 0)
        cmd == IF Len(fields[1]) = 1 THEN fields[1][1] ELSE ""
        request(args) == IF args.good THEN Right(WireRequest(cmd, args.val)) ELSE Wrong IN
    IF Len(fields) = 1
    THEN IF cmd \in ZeroArgCommands \union BareTransactionCommands THEN Right(WireRequest(cmd, <<>>)) ELSE Wrong
    ELSE IF cmd \notin DOMAIN Forms THEN Wrong
    ELSE request(IF Forms[cmd] = <<"step">> THEN ParseRebalanceStep(Tail(fields)) ELSE ParseFields(Forms[cmd], Tail(fields)))

-----------------------------------------------------------------------------
(* Commands that a server writes for another server.                       *)

\* The writes that belong to one shard; the others run where they arrive.
Forwardable ==
    {"CREATE_NODE_SHARD", "CREATE_RELATIONSHIP"} \union DOMAIN PropertyForms
        \union {"CREATE_INDEX", "CREATE_CONSTRAINT", "CREATE_VECTOR_INDEX", "REBUILD_VECTOR_INDEX",
                "REBUILD_VECTOR_INDEXES", "DROP_INDEX", "DROP_CONSTRAINT"}

\* The flag gets lost when the command is passed on.
FormatFlagMutant(flag, v) == <<>>

FormatFlag(flag, v) == IF v.text = <<"true">> THEN <<<<flag>>>> ELSE <<>>

\* The fields that an argument becomes.
FormatArg(kind, v) ==
    CASE kind \in {"num", "key", "type"} -> <<v.text>>
      [] kind = "labels" -> <<JoinText([i \in DOMAIN v.parts |-> v.parts[i].text], ",")>>
      [] kind = "value" -> <<FormatValueForRequest(v)>>
      [] kind = "props" -> FormatEntries(v.parts)
      [] kind \in {"IF_NOT_EXISTS", "IF_EXISTS"} -> FormatFlag(kind, v)

RECURSIVE FormatArgs(_, _)
FormatArgs(form, args) ==
    IF args = <<>> THEN <<>> ELSE FormatArg(Head(form), Head(args)) \o FormatArgs(Tail(form), Tail(args))

FormatCommandRequestPayload(r) ==
    JoinText(<<<<r.cmd>>>> \o (IF r.args = <<>> THEN <<>> ELSE FormatArgs(Forms[r.cmd], r.args)), "\t")

FormatQueryPayloadWithCommand(cmd, shard, q) ==
    JoinText(<<<<cmd>>, shard, q.text>> \o FormatEntries(q.parts), "\t")

\* The query of the transaction comes first in the batch, then its writes.
FormatQueryStagedShardPayload(shard, batch) ==
    JoinText(<<<<"QUERY_STAGED_SHARD">>, shard, EncodeQueryBatchPayload(batch.parts)>>, "\t")

FormatTxPrepareWriteBatchShardPayload(shard, batch) ==
    JoinText(<<<<"TX_PREPARE_WRITE_BATCH_SHARD">>, shard, EncodeQueryBatchPayload(batch.parts)>>, "\t")

-----------------------------------------------------------------------------
(* Responses.                                                              *)

RECURSIVE EscapeText(_, _)
EscapeText(t, table) ==
    IF t = <<>> THEN <<>>
    ELSE (IF Head(t) \in DOMAIN table THEN <<"\\", table[Head(t)]>> ELSE <<Head(t)>>) \o EscapeText(Tail(t), table)

\* What a server escapes in a response, and in the text of an error.
EscapeResponse(t) == EscapeText(t, "\\" :> "\\" @@ "\t" :> "t")
EscapePayload(t) == EscapeText(t, "\\" :> "\\" @@ "\t" :> "t" @@ "\n" :> "n" @@ "\r" :> "r")

RECURSIVE UnescapeResponse(_)

\* What a client makes of it.
UnescapeResponse(t) ==
    IF t = <<>> THEN <<>>
    ELSE IF Head(t) # "\\" \/ Len(t) = 1 THEN <<Head(t)>> \o UnescapeResponse(Tail(t))
    ELSE CASE t[2] = "n" -> <<"\n">> \o UnescapeResponse(SubSeq(t, 3, Len(t)))
           [] t[2] = "\\" -> <<"\\">> \o UnescapeResponse(SubSeq(t, 3, Len(t)))
           [] OTHER -> <<"\\", t[2]>> \o UnescapeResponse(SubSeq(t, 3, Len(t)))

\* A response of a kind with one text, and what the client returns of it.
FormatResponse(kind, text) == <<"OK", "\t", kind, "\t">> \o EscapeResponse(text)

ResponseField(t, kind) ==
    LET fields == SplitText(t, "\t", 3) IN
    IF Len(fields) = 3 /\ fields[1] = <<"OK">> /\ fields[2] = <<kind>>
    THEN Right(UnescapeResponse(fields[3])) ELSE Wrong

\* A page of a result: the cursor, whether more rows follow and the rows.
ResultPageOf(cursor, more, rows) == [cursor |-> cursor, more |-> more, rows |-> rows]

FormatResultStart(total, page) ==
    JoinText(<<<<"OK">>, <<"RESULT_START">>, page.cursor, total, <<ToString(Len(page.rows))>>, <<page.more>>,
               EncodeQueryRows(page.rows)>>, "\t")

\* Later pages are written like the first one.
FormatResultPageMutant(page) == FormatResultStart(<<"UNKNOWN">>, page)

FormatResultPage(page) ==
    JoinText(<<<<"OK">>, <<"RESULT_PAGE">>, page.cursor, <<ToString(Len(page.rows))>>, <<page.more>>,
               EncodeQueryRows(page.rows)>>, "\t")

ReadPage(cursor, count, more, rows) ==
    LET page(read) ==
            IF read.good /\ count = <<ToString(Len(read.val))>> /\ IsNumber(cursor) /\ more \in {<<"true">>, <<"false">>}
            THEN Right(ResultPageOf(cursor, more[1], read.val)) ELSE Wrong IN
    page(DecodeQueryRows(rows))

ParseResultStartResponse(t) ==
    LET fields == SplitText(t, "\t", 7) IN
    IF Len(fields) = 7 /\ fields[1] = <<"OK">> /\ fields[2] = <<"RESULT_START">>
        /\ (fields[4] = <<"UNKNOWN">> \/ IsNumber(fields[4]))
    THEN ReadPage(fields[3], fields[5], fields[6], fields[7]) ELSE Wrong

ParseResultPageResponse(t) ==
    LET fields == SplitText(t, "\t", 6) IN
    IF Len(fields) = 6 /\ fields[1] = <<"OK">> /\ fields[2] = <<"RESULT_PAGE">>
    THEN ReadPage(fields[3], fields[4], fields[5], fields[6]) ELSE Wrong

\* The rows of a write that another server ran: all of them on one page.
ParseOkRowsResponse(t) ==
    LET fields == SplitText(t, "\t", 4)
        all(start) == IF start.good /\ start.val.more = "false" THEN Right(start.val.rows) ELSE Wrong IN
    IF StartsWith(t, <<"OK", "\t", "ROWS", "\t">>) THEN (IF Len(fields) = 4 THEN DecodeQueryRows(fields[4]) ELSE Wrong)
    ELSE all(ParseResultStartResponse(t))

ParseTxPreparedResponse(t) ==
    LET fields == SplitText(t, "\t", 0) IN
    IF Len(fields) >= 3 /\ fields[1] = <<"OK">> /\ fields[2] = <<"TX_PREPARED">> THEN ReadNumber(fields[3]) ELSE Wrong

\* The catalog is read without undoing the escapes.
ParseOkIndexCatalogResponse(t) ==
    LET fields == SplitText(t, "\t", 3) IN
    IF Len(fields) = 3 /\ fields[1] = <<"OK">> /\ fields[2] = <<"INDEX_CATALOG">>
    THEN DecodeIndexCatalog(fields[3]) ELSE Wrong

\* Fetch and cancel name a cursor or a request, and a page size.
ParseFetchPayload(t) == ParseFields(<<"num", "maybe positive">>, SplitText(t, "\t", 0))
ParseCancelPayload(t) == ParseFields(<<"num">>, SplitText(t, "\t", 0))

-----------------------------------------------------------------------------
(* Redirects and the registry.                                             *)

\* A redirect is its kind and its fields, as far as a client uses them.
FormatRedirectResponse(r) ==
    JoinText(<<<<"ERR">>, <<r.kind>>, <<"shard", "=">> \o r.shard, <<"leader", "=">> \o r.leader,
               <<"address", "=">> \o r.address, <<"routing_version", "=">> \o r.version,
               <<"retryable", "=", r.retryable>>>>, "\t")

\* A shard that replays its log answers with an error, not with a redirect.
ReplayingErrorResponse(r) ==
    <<"ERR", "\t">> \o EscapeResponse(
        JoinText(<<<<r.kind>>, <<"shard", "=">> \o r.shard, <<"leader", "=">> \o r.leader,
                   <<"address", "=">> \o r.address, <<"routing_version", "=">> \o r.version,
                   <<"retryable", "=", r.retryable>>>>, "\t"))

RedirectKinds == {"MOVED", "NOT_LEADER", "STALE_ROUTING", "STALE_EPOCH", "REPLAYING"}

\* A field that is missing keeps its default; a shard or a version that is
\* not a number makes the whole response an ordinary error.
ParseRedirectResponse(t) ==
    LET fields == SplitText(t, "\t", 0)
        cuts == [i \in DOMAIN fields |-> SplitText(fields[i], "=", 2)]
        named(key) == {i \in DOMAIN fields : Len(cuts[i]) = 2 /\ cuts[i][1] = <<key>>}
        value(key, default) == IF named(key) = {} THEN default ELSE cuts[Max(named(key))][2] IN
    IF Len(fields) < 2 \/ fields[1] # <<"ERR">> \/ ~(Len(fields[2]) = 1 /\ fields[2][1] \in RedirectKinds)
        \/ ~IsNumber(value("shard", <<"0">>)) \/ ~IsNumber(value("routing_version", <<"0">>))
    THEN Wrong
    ELSE Right([kind |-> fields[2][1], shard |-> value("shard", <<"0">>), leader |-> value("leader", <<"none">>),
                address |-> value("address", <<"missing">>), version |-> value("routing_version", <<"0">>),
                retryable |-> value("retryable", <<"false">>)[1]])

\* The registry lists the query peers and the member nodes of the cluster.
FormatRegistry(r) ==
    LET peers == [i \in DOMAIN r.peers |-> JoinText(<<r.peers[i].server, r.peers[i].address>>, ":")]
        nodes == [i \in DOMAIN r.nodes |-> JoinText(<<r.nodes[i].server, <<r.nodes[i].state>>, r.nodes[i].address>>, ":")] IN
    JoinText(<<<<"local_server", "=">> \o r.server, <<"routing_version", "=">> \o r.version,
               <<"query_peers", "=">> \o (IF r.peers = <<>> THEN <<"none">> ELSE JoinText(peers, "|")),
               <<"nodes", "=">> \o JoinText(nodes, "|")>>, " ")

RegistryField(t, key, default) ==
    LET fields == SplitText(t, " ", 0)
        at == {i \in DOMAIN fields : LET cut == SplitText(fields[i], "=", 2) IN Len(cut) = 2 /\ cut[1] = <<key>>} IN
    IF at = {} THEN default ELSE SplitText(fields[Max(at)], "=", 2)[2]

\* The servers that the registry names with an address: the query peers, then
\* the active nodes.
RegistryServers(t) ==
    LET peers == RegistryField(t, "query_peers", <<"none">>)
        peer == IF peers = <<"none">> THEN <<>> ELSE SplitText(peers, "|", 0)
        node == SplitText(RegistryField(t, "nodes", <<>>), "|", 0)
        peerOf(x) == LET cut == SplitText(x, ":", 2) IN
            [server |-> cut[1], address |-> IF Len(cut) = 2 THEN cut[2] ELSE <<>>]
        nodeOf(x) == LET cut == SplitText(x, ":", 3) IN
            [server |-> cut[1], address |-> IF Len(cut) = 3 /\ cut[2] = <<"active">> THEN cut[3] ELSE <<>>] IN
    SelectSeq([i \in DOMAIN peer |-> peerOf(peer[i])] \o [i \in DOMAIN node |-> nodeOf(node[i])],
              LAMBDA s : s.address # <<>>)

RegistryAddresses(t) ==
    LET servers == RegistryServers(t) IN Distinct([i \in DOMAIN servers |-> servers[i].address])

\* The first of them that is not the server itself.
FirstRegistryAddress(t) ==
    LET others == SelectSeq(RegistryServers(t), LAMBDA s : s.server # RegistryField(t, "local_server", <<"none">>)) IN
    IF others = <<>> THEN Wrong ELSE Right(others[1].address)

=============================================================================
