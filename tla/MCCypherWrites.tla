-------------------------- MODULE MCCypherWrites --------------------------
(***************************************************************************)
(* The statements and graphs of the model checker's runs of CypherWrites:  *)
(* at least one statement of every kind, chosen so that one of them finds  *)
(* what another made.                                                      *)
(***************************************************************************)
EXTENDS CypherWrites

PNull == [p |-> Null]
P1 == [p |-> 1]
P2 == [p |-> 2]
Q1 == [q |-> 1]
Sets(a) == [sets |-> a, repl |-> <<>>]
Replaces(m) == [sets |-> <<>>, repl |-> <<m>>]

OfLabel(l) == [labels |-> {l}, props |-> <<>>]
WithP1 == [labels |-> {}, props |-> P1]
AnyNode == [labels |-> {}, props |-> <<>>]
AnyRel == [type |-> "T", props |-> <<>>, from |-> AnyNode, to |-> AnyNode]
RelToB == [type |-> "T", props |-> <<>>, from |-> AnyNode, to |-> OfLabel("B")]

CreateA == [op |-> "create_node", labels |-> {"A"}, props |-> P1, clause |-> NoClause, hash |-> 0]
CreateB == [op |-> "create_node", labels |-> {"B"}, props |-> P1,
            clause |-> Replaces([p |-> Null, q |-> 1]), hash |-> 1]
CreateAB == [op |-> "create_rel", from |-> OfLabel("A"), to |-> OfLabel("B"), type |-> "T", props |-> <<>>,
             clause |-> NoClause]
CreateBP == [op |-> "create_rel", from |-> OfLabel("B"), to |-> WithP1, type |-> "T", props |-> P1,
             clause |-> Sets(PNull)]
CreateBoth(new) == [op |-> "create_node_rel", labels |-> {"B"}, props |-> <<>>, clause |-> NoClause, hash |-> 1,
                    match |-> OfLabel("B"), newIsFrom |-> new, type |-> "T", relProps |-> P1, relClause |-> Sets(PNull)]
MergeA == [op |-> "merge_node", labels |-> {"A"}, props |-> P1, onCreate |-> Sets(Q1),
           onMatch |-> Replaces([q |-> 1, p |-> Null]), hash |-> 0]
MergeB == [op |-> "merge_node", labels |-> {"B"}, props |-> <<>>, onCreate |-> NoClause,
           onMatch |-> Sets(P1), hash |-> 0]
MergeAB == [op |-> "merge_rel", from |-> OfLabel("A"), to |-> OfLabel("B"), type |-> "T", props |-> <<>>,
            onCreate |-> Sets(Q1), onMatch |-> Sets(P1)]
MergeOnMatch == [op |-> "merge_rel", from |-> WithP1, to |-> OfLabel("B"), type |-> "T", props |-> P1,
                 onCreate |-> NoClause, onMatch |-> Sets(PNull)]
SetOf(on, match, sets) == [op |-> "set", on |-> on, match |-> match, sets |-> sets]
ReplaceOf(on, match, props) == [op |-> "replace", on |-> on, match |-> match, props |-> props]
RemoveOf(on, match, keys) == [op |-> "remove", on |-> on, match |-> match, keys |-> keys]
LabelOf(op, match, labels) == [op |-> op, on |-> "node", match |-> match, labels |-> labels]
DeleteOf(on, match) == [op |-> "delete", on |-> on, match |-> match]
Metadata == [op |-> "metadata"]

NodeChanges ==
    {SetOf("node", OfLabel("B"), P1), SetOf("node", OfLabel("A"), [p |-> Null, q |-> 1]),
     ReplaceOf("node", OfLabel("A"), [p |-> Null, q |-> 1]), RemoveOf("node", WithP1, {"p"}),
     LabelOf("add_label", OfLabel("B"), {"A"}), LabelOf("remove_label", WithP1, {"A"})}
RelChanges ==
    {SetOf("rel", RelToB, P1), ReplaceOf("rel", AnyRel, [p |-> Null, q |-> 1]), RemoveOf("rel", AnyRel, {"p"})}
Deletes == {DeleteOf("node", OfLabel("A")), DeleteOf("rel", RelToB)}
Creates == {CreateA, CreateB, CreateAB, CreateBP}
Merges == {MergeA, MergeB, MergeAB, MergeOnMatch}

NodeOf(labels, props) == [labels |-> labels, props |-> props]
RelOf(from, to, props) == [from |-> from, to |-> to, type |-> "T", props |-> props]
EmptyBase == [node |-> <<>>, rel |-> <<>>, nextNode |-> 0, nextRel |-> 0]
SmallBase == [node |-> [n \in {0, 1} |-> IF n = 0 THEN NodeOf({"A"}, P1) ELSE NodeOf({"B"}, <<>>)],
              rel |-> [r \in {0} |-> RelOf(0, 1, P1)], nextNode |-> 2, nextRel |-> 1]
WideBase == [node |-> [n \in 0..3 |-> CASE n = 0 -> NodeOf({"A"}, P1) [] n = 1 -> NodeOf({"B"}, <<>>)
                                        [] n = 2 -> NodeOf({"A"}, <<>>) [] n = 3 -> NodeOf({"B"}, P2)],
             rel |-> [r \in 0..1 |-> IF r = 0 THEN RelOf(0, 1, <<>>) ELSE RelOf(3, 2, P1)],
             nextNode |-> 4, nextRel |-> 2]

const_CwConf ==
    <<[shards |-> 1, base |-> EmptyBase, tx |-> 3, commits |-> 1, writes |-> 0, now |-> {}, handle |-> {},
      staged |-> Creates \cup Merges \cup NodeChanges \cup RelChanges \cup Deletes],
      [shards |-> 1, base |-> SmallBase, tx |-> 3, commits |-> 1, writes |-> 0, now |-> {}, handle |-> {},
      staged |-> Creates \cup Merges \cup NodeChanges \cup RelChanges \cup Deletes],
      [shards |-> 2, base |-> WideBase, tx |-> 2, commits |-> 1, writes |-> 1, handle |-> {},
      now |-> Deletes \cup {CreateBoth(TRUE)},
      staged |-> Creates \cup NodeChanges \cup RelChanges \cup Deletes \cup {MergeA, MergeOnMatch, Metadata}],
      [shards |-> 1, base |-> WideBase, tx |-> 0, commits |-> 0, writes |-> 2, staged |-> {},
      now |-> {CreateA, ReplaceOf("node", AnyNode, Q1), DeleteOf("node", OfLabel("B")), CreateBoth(FALSE)},
      handle |-> Creates \cup NodeChanges \cup RelChanges \cup Deletes
                     \cup {MergeA, CreateBoth(TRUE), CreateBoth(FALSE)}]>>
=============================================================================
