----------------------------- MODULE MCLogFiles -----------------------------
(***************************************************************************)
(* Instances of LogFiles: one log entry per command tag with every kind of *)
(* property value, the older record formats, two contents for every state  *)
(* file, and a commit and an abort decision.                               *)
(***************************************************************************)
EXTENDS LogFiles

LfInt(n) == Scalar(ValInt, <<n>>)
LfMap(entries) == [t |-> ValMap, d |-> <<>>, m |-> entries]
LfProperties ==
    {[k |-> <<7>>, v |-> LfInt(5)],
     [k |-> <<8>>, v |-> LfMap({[k |-> <<9>>, v |-> Scalar(ValString, <<6, 6>>)]})]}
LfTable ==
    [version |-> 3,
     placements |-> <<[shard |-> 0,
                       replicas |-> <<[server |-> 1, role |-> 1],
                                      [server |-> 2, role |-> 2]>>]>>]

LfCommands ==
    {[tag |-> 1, args |-> <<1, <<<<4>>, <<5>>>>, LfProperties>>],
     [tag |-> 2, args |-> <<1, 2, 3, <<4>>, {}>>],
     [tag |-> 3, args |-> <<1, <<4>>, Scalar(ValVector, <<1, 2>>)>>],
     [tag |-> 4, args |-> <<1, <<4>>, Scalar(ValBool, <<1>>)>>],
     [tag |-> 5, args |-> <<1>>],
     [tag |-> 6, args |-> <<1>>],
     [tag |-> 7, args |-> <<1, 0, <<>>, LfProperties, 4>>],
     [tag |-> 8, args |-> <<1, <<4>>>>],
     [tag |-> 9, args |-> <<1, <<>>>>],
     [tag |-> 10, args |-> <<1, <<4>>>>],
     [tag |-> 11, args |-> <<1, <<4>>>>],
     [tag |-> 12, args |-> <<<<1>>, <<2, 3>>, <<1, 2>>, LfTable>>]}
LfTagged(tags) == {c \in LfCommands : c.tag \in tags}

LfValues ==
    [commit     |-> {[term |-> 1, index |-> 2], [term |-> 2, index |-> 3]},
     checkpoint |-> {[term |-> 1, index |-> 2, physical |-> 3, logical |-> 4]},
     routing    |-> {LfTable, [version |-> 4, placements |-> <<>>]},
     snapshot   |-> {[term |-> 1, index |-> 2, nodes |-> SetToSeq(LfTagged({1})),
                      boundary |-> <<>>, relationships |-> SetToSeq(LfTagged({2}))]}]

\* The files under cluster/: every kind of step, texts with tabs, a node that
\* cannot be saved.
LfStep(op, args) == [op |-> op, args |-> args]
LfSteps ==
    <<LfStep("ADD_REPLICA", <<0, 2>>), LfStep("TRANSFER_PRIMARY", <<0, 1, 2>>), LfStep("REMOVE_REPLICA", <<0, 1>>)>>
LfPlan == [id |-> 1, state |-> "failed", from |-> 3, target |-> 4, steps |-> LfSteps]
LfExecution ==
    [plan |-> LfPlan, state |-> "failed", current |-> 1, error |-> <<"e", Tab, "f">>,
     steps |-> [i \in 1..3 |-> [index |-> i - 1, state |-> <<"applied", "failed", "pending">>[i], attempts |-> 2,
                                retryable |-> i # 2, error |-> IF i = 2 THEN <<"e", NewLine>> ELSE <<>>, step |-> LfSteps[i]]]]
LfNode(s, address, reason) == <<s, address, IF s = 1 THEN "active" ELSE "rejected", 1, 2, 4, reason>>
LfMembership ==
    [version |-> 3, nodes |-> <<LfNode(1, <<"a">>, <<>>), LfNode(2, <<"b">>, <<"n", "o">>)>>,
     assignments |-> <<<<0, 1, "serving_primary", 5>>, <<1, 2, "catching_up", 0>>>>]
LfManifest ==
    [head |-> <<1, "recover_from_data", <<"c", Tab, "d">>, <<"g">>, 1, 2, 3, 4, 5, TRUE>>,
     membership |-> [LfMembership EXCEPT !.nodes[2][7] = <<"n", NewLine>>],
     shards |-> <<<<0, 5, 4, 1, 9>>>>]
LfStatistics ==
    [counts |-> <<2, 1, 0, 1>>, labels |-> <<<<<<"l", Tab, "m">>, 2>>, <<<<"o">>, 1>>>>,
     properties |-> <<<<<<"p">>, 1>>>>, types |-> <<>>]

LfClusterValues ==
    [plan |-> {LfPlan, [LfPlan EXCEPT !.steps = <<>>, !.state = "proposed"]},
     execution |-> {LfExecution, [LfExecution EXCEPT !.plan.steps = <<>>, !.steps = <<>>]},
     authority |-> {[server |-> 1, term |-> 2, epoch |-> 3, factor |-> 4, limit |-> 5]},
     statistics |-> {LfStatistics},
     membership |-> {LfMembership, [LfMembership EXCEPT !.nodes[1][2] = <<"a", NewLine>>]},
     manifest |-> {LfManifest}]

LfDecisions ==
    {[decision |-> "commit", tx |-> 1,
      participants |-> <<[location |-> "a", shard |-> 0, prepared |-> 1]>>],
     [decision |-> "abort", tx |-> 2, participants |-> <<>>]}

LfSetting(ops, commands, legacy, kills, killIn) ==
    [ops |-> ops, commands |-> commands, legacy |-> legacy, kills |-> kills,
     killIn |-> killIn, values |-> [f \in StateFile |-> IF f \in DOMAIN LfValues THEN LfValues[f] ELSE {}],
     decisions |-> LfDecisions, texts |-> {<<"o", Tab, "p">>, <<>>}]

LogSettings ==
    {LfSetting({"append", "truncate", "compact"},
               IF legacy = 0 THEN LfCommands ELSE LfTagged({1, 7}), legacy, 0, {}) :
        legacy \in 0..2}
SaveSetting == LfSetting({"save"}, LfTagged({12}), 0, 2, {"replace"})
DecideSetting == LfSetting({"decide"}, LfTagged({12}), 0, 1, {"replace"})

\* One of the files under cluster/ at a time, and the log of operations.
ClusterSettings ==
    {[SaveSetting EXCEPT !.values = [f \in StateFile |-> IF f = name THEN LfClusterValues[f] ELSE {}]] :
        name \in ClusterFile}
OperateSetting == LfSetting({"operate"}, LfTagged({12}), 0, 1, {"append"})

const_LfConf == LogSettings \cup ClusterSettings \cup {SaveSetting, DecideSetting, OperateSetting}
=============================================================================
