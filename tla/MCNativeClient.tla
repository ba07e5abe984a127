--------------------------- MODULE MCNativeClient ---------------------------
(***************************************************************************)
(* Instances of NativeClient: commands of every form the servers parse,    *)
(* with every kind of value and the characters that the text format        *)
(* gives a meaning, sent to servers that forward, redirect and replay.     *)
(***************************************************************************)
EXTENDS NativeClient

Tab == "\t"
NcInt(n) == Leaf("int", <<n>>)
NcStr(t) == Leaf("str", t)
NcFloat(x) == Leaf("float", <<x>>)
NcBool(x) == Leaf("bool", <<x>>)
NcNum(n) == Leaf("num", <<n>>)
NcKey(k) == Leaf("key", <<k>>)
NcText(t) == Leaf("text", <<t>>)
NcVector(xs) == Part("vec", <<>>, [i \in DOMAIN xs |-> NcFloat(xs[i])])
NcEntry(k, v) == Part("entry", <<k>>, <<v>>)
NcMap(es) == Part("map", <<>>, es)
NcProps(ps) == Part("props", <<>>, ps)
NcLabels(ls) == Part("labels", <<>>, [i \in DOMAIN ls |-> Leaf("label", <<ls[i]>>)])
NcQuery(ps) == Part("query", <<"MATCH">>, ps)

\* A string of separators, and a property of every kind.
OddString == NcStr(<<"a", ",", "=", ":", ";", "|", "~", "\\", "n">>)
OddMap ==
    NcMap(<<NcEntry("x", OddString),
            NcEntry("y", NcMap(<<NcEntry("z", NcInt("0")), NcEntry("zz", NcBool("false"))>>)),
            NcEntry("yy", NcFloat("2.5")), NcEntry("z", NcVector(<<"1.5">>))>>)
Properties ==
    <<NcEntry("a", NullValue), NcEntry("b", NcBool("true")), NcEntry("c", NcInt("3")),
      NcEntry("d", NcFloat("1.5")), NcEntry("e", OddString), NcEntry("f", NcStr(<<>>)),
      NcEntry("g", NcVector(<<"1.5", "2.5">>)), NcEntry("h", OddMap)>>
PropertiesText ==
    <<Tab, "a", "=", "n", ":", Tab, "b", "=", "b", ":", "true", Tab, "c", "=", "i", ":", "3",
      Tab, "d", "=", "f", ":", "1.5",
      Tab, "e", "=", "s", ":", "a", ",", "=", ":", ";", "|", "~", "\\", "n",
      Tab, "f", "=", "s", ":", Tab, "g", "=", "v", ":", "1.5", ",", "2.5",
      Tab, "h", "=", "m", ":">> \o HexEncode(EncodeProperties(OddMap.parts))

-----------------------------------------------------------------------------
\* A call of the client: the text it sends and the request it means.
NcCall(op, text, request) == [op |-> op, text |-> text, request |-> request, kind |-> "none"]
NcCommand(text, cmd, args) == NcCall("command", text, WireRequest(cmd, args))
NcField(cmd) == [NcCall("field", <<cmd>>, WireRequest(cmd, <<>>)) EXCEPT !.kind = cmd]
RegistryCall ==
    [NcCall("registry", <<"CLUSTER_REGISTRY">>, WireRequest("CLUSTER_REGISTRY", <<>>))
        EXCEPT !.kind = "CLUSTER_REGISTRY"]
CachedCall == NcCall("cached", <<>>, WireRequest("", <<>>))
PingCall == NcCall("ping", <<>>, WireRequest("", <<>>))
QueryCall(ps) ==
    NcCall("query", EncodeQueryPayload(<<"MATCH">>, ps), WireRequest("QUERY", <<NcQuery(ps)>>))

SetCall ==
    NcCommand(<<"SET_NODE_PROPERTY", Tab, "1", Tab, "k", Tab, "s", ":", "a", ":", "=">>,
              "SET_NODE_PROPERTY", <<NcNum("1"), NcKey("k"), NcStr(<<"a", ":", "=">>)>>)
DeleteCall == NcCommand(<<"DELETE_NODE", Tab, "2">>, "DELETE_NODE", <<NcNum("2")>>)
WriteCalls ==
    {SetCall, DeleteCall,
     NcCommand(<<"CREATE_NODE_SHARD", Tab, "0", Tab, "P", ",", "R">> \o PropertiesText,
               "CREATE_NODE_SHARD", <<NcNum("0"), NcLabels(<<"P", "R">>), NcProps(Properties)>>),
     NcCommand(<<"CREATE_RELATIONSHIP", Tab, "1", Tab, "2", Tab, "KNOWS">> \o PropertiesText,
               "CREATE_RELATIONSHIP",
               <<NcNum("1"), NcNum("2"), NcKey("KNOWS"), NcProps(Properties)>>),
     NcCommand(<<"CREATE_INDEX", Tab, "i", Tab, "P", Tab, "k", Tab, "IF_NOT_EXISTS">>,
               "CREATE_INDEX", <<NcKey("i"), NcKey("P"), NcKey("k"), NcBool("true")>>),
     NcCommand(<<"CREATE_VECTOR_INDEX", Tab, "i", Tab, "P", Tab, "k", Tab, "3", Tab, "cosine">>,
               "CREATE_VECTOR_INDEX",
               <<NcKey("i"), NcKey("P"), NcKey("k"), NcNum("3"), NcKey("cosine"), NcBool("false")>>),
     NcCommand(<<"DROP_CONSTRAINT", Tab, "i", Tab, "IF_EXISTS">>, "DROP_CONSTRAINT",
               <<NcKey("i"), NcBool("true")>>),
     NcCommand(<<"REBUILD_VECTOR_INDEXES">>, "REBUILD_VECTOR_INDEXES", <<>>)}

NcBatch == Part("batch", <<>>, <<NcQuery(SubSeq(Properties, 1, 6)), NcQuery(<<>>)>>)
ShardCalls ==
    {NcCommand(FormatQueryPayloadWithCommand("QUERY_WRITE_SHARD", <<"0">>, NcQuery(Properties)),
               "QUERY_WRITE_SHARD", <<NcNum("0"), NcQuery(Properties)>>),
     NcCommand(FormatQueryStagedShardPayload(<<"0">>, NcBatch),
               "QUERY_STAGED_SHARD", <<NcNum("0"), NcBatch>>),
     NcCommand(FormatTxPrepareWriteBatchShardPayload(<<"0">>, NcBatch),
               "TX_PREPARE_WRITE_BATCH_SHARD", <<NcNum("0"), NcBatch>>)}

NcHost(port) == Leaf("key", <<"host", ":", port>>)
NcServers(ids) == [i \in DOMAIN ids |-> Leaf("server", <<ids[i]>>)]
NcNames(names) == [i \in DOMAIN names |-> Leaf("name", names[i])]
NcCatalog ==
    Part("catalog", <<"4">>,
         <<Part("index", <<"node">>, NcNames(<<<<"i", ";">>, <<"P">>, <<"k">>>>)),
           Part("index", <<"vector">>,
                NcNames(<<<<"v", ":">>, <<"P">>, <<"k">>, <<"3">>, <<"l2">>>>))>>)
AdminCalls ==
    {NcCommand(<<"REGISTER_REPLICATION_PEER", Tab, "2", Tab, "host", ":", "2", Tab, Tab, "udp">>,
               "REGISTER_REPLICATION_PEER", <<NcNum("2"), NcHost("2"), NoWireValue, NcText("udp")>>),
     NcCommand(<<"CATCH_UP_FROM_PRIMARY", Tab, "2">>,
               "CATCH_UP_FROM_PRIMARY", <<NcNum("2"), NoWireValue>>),
     NcCommand(<<"APPLY_REBALANCE_STEP", Tab, "TRANSFER_PRIMARY", Tab, "0", Tab, "1", Tab, "2">>,
               "APPLY_REBALANCE_STEP",
               <<Part("step", <<"TRANSFER_PRIMARY">>, <<NcNum("0"), NcNum("1"), NcNum("2")>>)>>),
     NcCommand(<<"INSTALL_ROUTING_TABLE", Tab, "3", Tab, "0", ":", "1", ":", "2", ",", "1", ",",
                 "2", Tab, "1", ":", "2">>,
               "INSTALL_ROUTING_TABLE",
               <<NcNum("3"),
                 Part("placements", <<>>, <<Part("placement", <<"0">>, NcServers(<<"1", "2">>)),
                                            Part("placement", <<"1">>, NcServers(<<"2">>))>>)>>),
     NcCommand(<<"INSTALL_INDEX_CATALOG", Tab>> \o EncodeIndexCatalog(NcCatalog),
               "INSTALL_INDEX_CATALOG", <<NcCatalog>>),
     NcCommand(<<"GOSSIP_NODE", Tab, "2", Tab, "host", ":", "2", Tab, "host", ":", "3", Tab, "1",
                 Tab, "5">>,
               "GOSSIP_NODE",
               <<NcNum("2"), NcHost("2"), NcHost("3"), NcNum("1"), NcNum("5"), NoWireValue>>),
     NcCommand(<<"BEGIN_TX", Tab, "READ_WRITE">>, "BEGIN_TX",
               <<Part("options", <<>>, <<Leaf("mode", <<"READ_WRITE">>),
                                         Leaf("isolation", <<"SNAPSHOT">>)>>)>>),
     NcCommand(<<"TX_EXECUTE_PREPARED", Tab, "1", Tab, "2", Tab, "a", "=", "i", ":", "3">>,
               "TX_EXECUTE_PREPARED",
               <<NcNum("1"), NcNum("2"), NcProps(<<NcEntry("a", NcInt("3"))>>)>>),
     NcCommand(<<"BOOTSTRAP_SAFETY", Tab, "c", Tab, "yes">>,
               "BOOTSTRAP_SAFETY", <<NcText("c"), NcBool("true")>>),
     NcCommand(<<"JOIN_REJECT", Tab, "2", Tab, "why", Tab, "not">>,
               "JOIN_REJECT", <<NcNum("2"), Leaf("text", <<"why", Tab, "not">>)>>),
     NcCommand(<<"TOPOLOGY_RECONCILE">>, "TOPOLOGY_RECONCILE", <<>>)}

\* Commands that no server can parse.
MalformedCalls ==
    <<NcCommand(<<"DELETE_NODE", Tab, "x">>, "", <<>>),
      NcCommand(<<"SET_NODE_PROPERTY", Tab, "1", Tab, "k">>, "", <<>>)>>

-----------------------------------------------------------------------------
\* Result rows with a node, a vector value, a boundary node and a relationship.
NcRow(cells) == Part("row", <<>>, cells)
NcCell(k, v) == Part("cell", <<k>>, <<v>>)
NcNode(props) == Part("N", <<>>, <<NcNum("1"), NcLabels(<<"P", "R">>), NcProps(props)>>)
RowProperties ==
    <<NcEntry("a", NullValue), NcEntry("e", OddString), NcEntry("h", OddMap),
      NcEntry("v", NcVector(<<"1.5">>))>>
NcRows ==
    <<NcRow(<<NcCell("n", NcNode(RowProperties)),
              NcCell("s", Part("V", <<>>, <<NcVector(<<"1.5", "2.5">>)>>))>>),
      NcRow(<<NcCell("n", Part("B", <<>>, <<NcNum("1"), NcNum("0"), NcNum("2"),
                                            Part("labels", <<>>, <<>>), NcProps(<<>>)>>)),
              NcCell("r", Part("R", <<>>, <<NcNum("1"), NcNum("0"), NcNum("2"),
                                            Leaf("type", <<"K", ":">>),
                                            NcProps(RowProperties)>>))>>)>>

\* Each server's view of the primary: server 1 names 2, and 2 names 3.
Chain == 1 :> 2 @@ 2 :> 3 @@ 3 :> 3
NcSetting(made) ==
    [calls |-> made, primary |-> (1 :> 1 @@ 2 :> 2 @@ 3 :> 3),
     peers |-> (1 :> {2} @@ 2 :> {3} @@ 3 :> {1, 2}), start |-> 1, replaying |-> {},
     redirects |-> FALSE, rows |-> NcRows,
     report |-> <<"a", "\\", "n", "\\", "\\", "b", "=", "2">>, waits |-> 0, tables |-> 0]
NcForwarded(made) == [NcSetting(made) EXCEPT !.primary = Chain]

const_NcConf ==
    {NcForwarded(<<x>>) : x \in WriteCalls \cup ShardCalls \cup AdminCalls}
    \cup
    {\* answers that come after the client or a forwarding server gave up
     [NcForwarded(<<SetCall, QueryCall(Properties), NcField("STATISTICS")>>) EXCEPT !.waits = 2],
     [NcSetting(<<RegistryCall, CachedCall, QueryCall(<<>>)>>) EXCEPT !.waits = 1],
     \* tables that change while calls are forwarded or redirected
     [NcForwarded(<<SetCall, DeleteCall>>) EXCEPT !.waits = 1, !.tables = 2],
     [NcForwarded(<<DeleteCall, SetCall, CachedCall, PingCall>>)
        EXCEPT !.redirects = TRUE, !.waits = 1, !.tables = 2],
     \* a primary that cannot be reached, and one that is replaying its log
     [NcForwarded(<<DeleteCall, SetCall>>) EXCEPT !.peers = (1 :> {2} @@ 2 :> {1} @@ 3 :> {1})],
     [NcForwarded(MalformedCalls \o <<DeleteCall>>) EXCEPT !.replaying = {3}]}
=============================================================================
