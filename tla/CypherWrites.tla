---------------------------- MODULE CypherWrites ----------------------------
(***************************************************************************)
(* Cypher write statements on one server.  The repository runs a statement *)
(* in four ways, each with its own code for every kind of statement: under *)
(* the database lock, through the handle and its writer actor, as part of  *)
(* a mutation batch, and staged in a transaction, as an overlay over the   *)
(* store that reads see and that the commit turns into commands.           *)
(*                                                                         *)
(* Properties are partial functions over a few keys, a match is a label    *)
(* and property pattern, and applying a command to the store is what       *)
(* GraphStore shows it to be.  The store has one partition, and this       *)
(* server is primary of every shard; commits over several participants     *)
(* are TwoPhaseCommit's.                                                   *)
(***************************************************************************)
EXTENDS Integers, FiniteSets, Sequences, FiniteSetsExt, SequencesExt, Functions

CONSTANTS CwConf,          \* a sequence of configurations to choose from, each
                           \* [shards, base, staged, now, handle, tx, commits, writes]
          CwStagedIdStart  \* STAGED_TEMP_NODE_ID_START, odd as u64::MAX is

VARIABLES cwPick,   \* the configuration of this behaviour
          cwDb,     \* [node, rel, nextNode, nextRel]: the store and the allocators
          cwTx,     \* staged_writes of the open transaction
          cwRoute,  \* <<the commit under way>>, or <<>>
          cwJob,    \* <<the statement the handle is running>>, or <<>>
          cwWrites, \* statements run outside the transactions
          cwCommits \* transactions committed

cwVars == <<cwPick, cwDb, cwTx, cwRoute, cwJob, cwWrites, cwCommits>>

Null == 0                   \* other values are positive
AnyShard == -1              \* target_shard: None
CwRefused == [refused |-> TRUE]
Setting == CwConf[cwPick]

CwShard == 0..Setting.shards-1
CwOwner(n) == n % Setting.shards
InTarget(target, s) == target \in {AnyShard, s}

Put(f, x, v) == [y \in DOMAIN f \cup {x} |-> IF y = x THEN v ELSE f[y]]
Ascending(S) == [i \in 1..Cardinality(S) |-> CHOOSE x \in S : Cardinality({y \in S : y < x}) = i - 1]
Descending(S) == Reverse(Ascending(S))

\* The pairs of two nested loops, in the order they are visited.
LoopPairs(F, T) ==
    FlattenSeq([i \in 1..Cardinality(F) |->
        [j \in 1..Cardinality(T) |-> <<Ascending(F)[i], Ascending(T)[j]>>]])

-----------------------------------------------------------------------------
(* Properties.  A SET clause is a record [sets, repl]: its assignments, or *)
(* the map of SET n = {..} as a sequence of one element.                   *)

ApplyAssignments(props, sets) ==
    [k \in (DOMAIN props \cup DOMAIN sets) \ {x \in DOMAIN sets : sets[x] = Null} |->
        IF k \in DOMAIN sets THEN sets[k] ELSE props[k]]

WithoutNulls(props) == Restrict(props, {k \in DOMAIN props : props[k] # Null})

PropertiesAfterSet(props, clause) ==
    IF clause.repl # <<>> THEN WithoutNulls(clause.repl[1]) ELSE ApplyAssignments(props, clause.sets)

PropertyRemoves(before, after) == {k \in DOMAIN before : k \notin DOMAIN after \/ after[k] = Null}
PropertySets(before, after) ==
    {k \in DOMAIN after : after[k] # Null /\ ~(k \in DOMAIN before /\ before[k] = after[k])}

-----------------------------------------------------------------------------
(* Commands and the store.                                                 *)

RemoveKey(on, id, k) == [op |-> "RemoveProperty", on |-> on, id |-> id, key |-> k]
SetKey(on, id, k, v) == [op |-> "SetProperty", on |-> on, id |-> id, key |-> k, value |-> v]
ChangeLabel(op, id, l) == [op |-> op, on |-> "node", id |-> id, label |-> l]
MakeNode(id, rec) == [op |-> "Create", on |-> "node", id |-> id, rec |-> rec]
MakeRel(id, rec) == [op |-> "Create", on |-> "rel", id |-> id, rec |-> rec]
Erase(on, id) == [op |-> "Delete", on |-> on, id |-> id]

AttachedTo(db, n) == {r \in DOMAIN db.rel : n \in {db.rel[r].from, db.rel[r].to}}
Without(f, S) == Restrict(f, DOMAIN f \ S)

\* Commands on what is not there are no-ops; deleting a node deletes the
\* relationships it has.
ApplyToStore(db, c) ==
    CASE c.op = "Create" -> [db EXCEPT ![c.on] = Put(@, c.id, c.rec)]
      [] c.op # "Create" /\ c.id \notin DOMAIN db[c.on] -> db
      [] OTHER ->
            CASE c.op = "SetProperty"    -> [db EXCEPT ![c.on][c.id].props = Put(@, c.key, c.value)]
              [] c.op = "RemoveProperty" -> [db EXCEPT ![c.on][c.id].props = Without(@, {c.key})]
              [] c.op = "AddLabel"       -> [db EXCEPT !.node[c.id].labels = @ \cup {c.label}]
              [] c.op = "RemoveLabel"    -> [db EXCEPT !.node[c.id].labels = @ \ {c.label}]
              [] c.op = "Delete" /\ c.on = "rel" -> [db EXCEPT !.rel = Without(@, {c.id})]
              [] OTHER -> [db EXCEPT !.node = Without(@, {c.id}), !.rel = Without(@, AttachedTo(db, c.id))]

ApplyAll(db, cmds) == FoldLeft(ApplyToStore, db, cmds)

\* allocate_node_id_for_shard; create_node takes the next id whatever its shard.
NodeIdFor(db, target) ==
    IF target = AnyShard THEN db.nextNode
    ELSE Min({n \in db.nextNode..db.nextNode + Setting.shards - 1 : CwOwner(n) = target})
TookNodeId(db, id) == [db EXCEPT !.nextNode = id + 1]
TookRelIds(db, n) == [db EXCEPT !.nextRel = @ + n]

CreatedNode(db, rec, target) ==
    LET id == NodeIdFor(db, target) IN ApplyToStore(TookNodeId(db, id), MakeNode(id, rec))
CreatedRel(db, from, to, s, props) ==
    ApplyToStore(TookRelIds(db, 1),
        MakeRel(db.nextRel, [from |-> from, to |-> to, type |-> s.type, props |-> props]))

-----------------------------------------------------------------------------
(* What statements match, and the commands they give one element.          *)

HasProps(rec, props) == \A k \in DOMAIN props : k \in DOMAIN rec.props /\ rec.props[k] = props[k]

\* node_matches_merge_pattern, and MATCH (n:L {k: v}).
FitsNode(rec, m) == m.labels \subseteq rec.labels /\ HasProps(rec, m.props)
MatchNodeIds(db, m) == {n \in DOMAIN db.node : FitsNode(db.node[n], m)}
MatchRelIds(db, m) ==
    {r \in DOMAIN db.rel :
        /\ db.rel[r].type = m.type /\ HasProps(db.rel[r], m.props)
        /\ db.rel[r].from \in MatchNodeIds(db, m.from) /\ db.rel[r].to \in MatchNodeIds(db, m.to)}
Matched(db, s) == IF s.on = "node" THEN MatchNodeIds(db, s.match) ELSE MatchRelIds(db, s.match)
OwnerOf(db, on, id) == IF on = "node" THEN CwOwner(id) ELSE CwOwner(db.rel[id].from)

RelCandidates(db, from, to, s) ==
    {r \in DOMAIN db.rel : /\ db.rel[r].from = from /\ db.rel[r].to = to
                           /\ db.rel[r].type = s.type /\ HasProps(db.rel[r], s.props)}

CommandsFor(S, Cmd(_)) == LET q == SetToSeq(S) IN [i \in DOMAIN q |-> Cmd(q[i])]

AssignmentCommands(on, id, sets) ==
    CommandsFor(DOMAIN sets, LAMBDA k : IF sets[k] = Null THEN RemoveKey(on, id, k) ELSE SetKey(on, id, k, sets[k]))

\* A replacement that only sets.
ReplaceCommandsMutant(on, id, before, after) ==
    CommandsFor(PropertySets(before, after), LAMBDA k : SetKey(on, id, k, after[k]))

ReplaceCommands(on, id, before, after) ==
    CommandsFor(PropertyRemoves(before, after), LAMBDA k : RemoveKey(on, id, k))
        \o CommandsFor(PropertySets(before, after), LAMBDA k : SetKey(on, id, k, after[k]))

\* The commands of SET, SET =, REMOVE, SET :L, REMOVE :L and DELETE for one
\* matched element.
ElementCommands(db, s, id) ==
    CASE s.op = "set"          -> AssignmentCommands(s.on, id, s.sets)
      [] s.op = "replace"      -> ReplaceCommands(s.on, id, db[s.on][id].props, s.props)
      [] s.op = "remove"       -> CommandsFor(s.keys, LAMBDA k : RemoveKey(s.on, id, k))
      [] s.op = "add_label"    -> CommandsFor(s.labels, LAMBDA l : ChangeLabel("AddLabel", id, l))
      [] s.op = "remove_label" -> CommandsFor(s.labels, LAMBDA l : ChangeLabel("RemoveLabel", id, l))
      [] s.op = "delete"       -> <<Erase(s.on, id)>>

UpdateOps == {"set", "replace", "remove", "add_label", "remove_label"}
NodeRecOf(s) == [labels |-> s.labels, props |-> PropertiesAfterSet(s.props, s.clause)]
RelPropsOf(s) ==
    IF s.op = "create_rel" THEN PropertiesAfterSet(s.props, s.clause)
    ELSE PropertiesAfterSet(s.relProps, s.relClause)

PairsInTarget(db, s, target) ==
    LoopPairs({n \in MatchNodeIds(db, s.from) : InTarget(target, CwOwner(n))}, MatchNodeIds(db, s.to))

-----------------------------------------------------------------------------
(* Under the database lock: execute_write_cypher_on_optional_shard.        *)

NowCreate(db, s, target) ==
    CASE s.op = "create_node" -> CreatedNode(db, NodeRecOf(s), target)
      [] s.op = "create_rel" ->
            FoldLeft(LAMBDA d, p : CreatedRel(d, p[1], p[2], s, RelPropsOf(s)), db,
                     PairsInTarget(db, s, target))
      [] s.op = "create_node_rel" ->
            LET id   == NodeIdFor(db, target)
                made == CreatedNode(db, NodeRecOf(s), target)
            IN FoldLeft(LAMBDA d, m : IF s.newIsFrom THEN CreatedRel(d, id, m, s, RelPropsOf(s))
                                      ELSE CreatedRel(d, m, id, s, RelPropsOf(s)),
                        made, Ascending(MatchNodeIds(made, s.match)))

\* An ON MATCH clause on the element a MERGE found.
MergedInto(db, on, id, s) ==
    ApplyAll(db, ReplaceCommands(on, id, db[on][id].props, PropertiesAfterSet(db[on][id].props, s.onMatch)))

NowMergeNode(db, s, target, fits) ==
    IF fits # {} THEN MergedInto(db, "node", Min(fits), s)
    ELSE CreatedNode(db, [labels |-> s.labels, props |-> PropertiesAfterSet(s.props, s.onCreate)], target)

NowMergePair(db, from, to, s, found) ==
    IF found # {} THEN MergedInto(db, "rel", Min(found), s)
    ELSE CreatedRel(db, from, to, s, PropertiesAfterSet(s.props, s.onCreate))

MergeCandidates(db, s, target) == {n \in MatchNodeIds(db, s) : InTarget(target, CwOwner(n))}

NowMerge(db, s, target) ==
    IF s.op = "merge_node"
    THEN NowMergeNode(db, s, target, MergeCandidates(db, s, target))
    ELSE FoldLeft(LAMBDA d, p : NowMergePair(d, p[1], p[2], s, RelCandidates(d, p[1], p[2], s)),
                  db, PairsInTarget(db, s, target))

AffectedIds(db, s, target) == {id \in Matched(db, s) : InTarget(target, OwnerOf(db, s.on, id))}

\* The elements are matched once and then changed one after another.
NowUpdate(db, s, target) ==
    FoldLeft(LAMBDA d, id : ApplyAll(d, ElementCommands(d, s, id)), db, Ascending(AffectedIds(db, s, target)))

NowDelete(db, s, target) ==
    FoldLeft(LAMBDA d, id : ApplyToStore(d, Erase(s.on, id)), db, Ascending(AffectedIds(db, s, target)))

RunNow(db, s, target) ==
    CASE s.op \in {"create_node", "create_rel", "create_node_rel"} -> NowCreate(db, s, target)
      [] s.op \in {"merge_node", "merge_rel"} -> NowMerge(db, s, target)
      [] s.op \in UpdateOps -> NowUpdate(db, s, target)
      [] s.op = "delete" -> NowDelete(db, s, target)
      [] s.op = "metadata" -> db

-----------------------------------------------------------------------------
(* A mutation batch: the commands of all writes are collected against the  *)
(* store as it is, and only then written.                                  *)

\* c.db keeps the allocators and the store the writes are matched against.
AddCommands(c, cmds) == [c EXCEPT !.cmds = @ \o cmds]
Refuse(c) == [c EXCEPT !.ok = FALSE]
NewRels(c, pairs, s, props) ==
    [ok   |-> TRUE,
     db   |-> TookRelIds(c.db, Len(pairs)),
     cmds |-> c.cmds \o [i \in DOMAIN pairs |->
                 MakeRel(c.db.nextRel + i - 1,
                         [from |-> pairs[i][1], to |-> pairs[i][2], type |-> s.type, props |-> props])]]
NewNode(c, rec, target) ==
    LET id == NodeIdFor(c.db, target)
    IN [ok |-> TRUE, db |-> TookNodeId(c.db, id), cmds |-> Append(c.cmds, MakeNode(id, rec))]

\* Without a target shard nothing says where the node belongs.
BatchCreateNode(c, s, target) == IF target = AnyShard THEN Refuse(c) ELSE NewNode(c, NodeRecOf(s), target)

OnMatchCommands(on, id, props, clause) ==
    IF clause.repl # <<>> THEN ReplaceCommands(on, id, props, clause.repl[1])
    ELSE AssignmentCommands(on, id, clause.sets)

BatchMergeNode(c, s, target) ==
    LET fits == MergeCandidates(c.db, s, target)
    IN IF target = AnyShard THEN Refuse(c)
       ELSE IF fits # {} THEN AddCommands(c, OnMatchCommands("node", Min(fits), c.db.node[Min(fits)].props, s.onMatch))
       ELSE NewNode(c, [labels |-> s.labels, props |-> PropertiesAfterSet(s.props, s.onCreate)], target)

BatchCreateRel(c, s, target) ==
    NewRels(c, PairsInTarget(c.db, s, target), s, RelPropsOf(s))

BatchMergeRel(c, s, target) ==
    FoldLeft(LAMBDA d, p :
                LET found == RelCandidates(d.db, p[1], p[2], s)
                IN IF found # {}
                   THEN AddCommands(d, OnMatchCommands("rel", Min(found), d.db.rel[Min(found)].props, s.onMatch))
                   ELSE NewRels(d, <<p>>, s, PropertiesAfterSet(s.props, s.onCreate)),
             c, PairsInTarget(c.db, s, target))

BatchUpdate(c, s, target) ==
    FoldLeft(LAMBDA d, id : AddCommands(d, ElementCommands(c.db, s, id)), c, Ascending(AffectedIds(c.db, s, target)))

BatchDelete(c, s, target) ==
    FoldLeft(LAMBDA d, id : AddCommands(d, <<Erase(s.on, id)>>), c, Ascending(AffectedIds(c.db, s, target)))

BatchStatement(c, s, target) ==
    CASE s.op = "create_node" -> BatchCreateNode(c, s, target)
      [] s.op = "merge_node"  -> BatchMergeNode(c, s, target)
      [] s.op = "create_rel"  -> BatchCreateRel(c, s, target)
      [] s.op = "merge_rel"   -> BatchMergeRel(c, s, target)
      [] s.op \in UpdateOps   -> BatchUpdate(c, s, target)
      [] s.op = "delete"      -> BatchDelete(c, s, target)
      [] OTHER                -> Refuse(c)

\* Commands that are refused write nothing, but the ids they took are gone.
Written(c) == IF c.ok THEN ApplyAll(c.db, c.cmds) ELSE c.db

RunBatch(db, stmts, target) ==
    Written(FoldLeft(LAMBDA d, s : IF d.ok THEN BatchStatement(d, s, target) ELSE d,
                     [ok |-> TRUE, db |-> db, cmds |-> <<>>], stmts))

-----------------------------------------------------------------------------
(* Staged: the overlay of a transaction over the store.  An element it     *)
(* hides is <<>>, one it holds is <<record>>.                              *)

Hidden == <<>>
EmptyOverlay == [node |-> <<>>, rel |-> <<>>, tempNode |-> {}, tempRel |-> {},
                 nextNode |-> CwStagedIdStart, nextRel |-> CwStagedIdStart]

HasHiddenEndpoint(o, rec) ==
    \E n \in {rec.from, rec.to} : n \in DOMAIN o.node /\ o.node[n] = Hidden

\* Staged reads that see the store alone.
StagedViewMutant(db, o) == [node |-> db.node, rel |-> db.rel]

\* StagedOverlayGraph: overlay records go before the store's, and a
\* relationship goes with its hidden endpoint, save one the overlay changed.
StagedView(db, o) ==
    LET held(part) == {x \in DOMAIN o[part] : o[part][x] # Hidden}
        kept(part) == DOMAIN db[part] \ DOMAIN o[part]
        look(part, x) == IF x \in DOMAIN o[part] THEN o[part][x][1] ELSE db[part][x]
    IN [node |-> [n \in kept("node") \cup held("node") |-> look("node", n)],
        rel  |-> [r \in {r \in kept("rel") : ~HasHiddenEndpoint(o, db.rel[r])}
                           \cup {r \in held("rel") : r \in DOMAIN db.rel
                                     \/ ~HasHiddenEndpoint(o, o.rel[r][1])} |-> look("rel", r)]]

HoldTempNode(o, rec) ==
    [o EXCEPT !.node = Put(@, o.nextNode, <<rec>>), !.tempNode = @ \cup {o.nextNode}, !.nextNode = @ - 1]
HoldTempRel(o, from, to, s, props) ==
    [o EXCEPT !.rel = Put(@, o.nextRel, <<[from |-> from, to |-> to, type |-> s.type, props |-> props]>>),
              !.tempRel = @ \cup {o.nextRel}, !.nextRel = @ - 1]

StageCreateNode(v, o, s) == HoldTempNode(o, NodeRecOf(s))

StageCreateRel(v, o, s) ==
    FoldLeft(LAMBDA d, p : HoldTempRel(d, p[1], p[2], s, RelPropsOf(s)), o,
             LoopPairs(MatchNodeIds(v, s.from), MatchNodeIds(v, s.to)))

\* find_merge_node_in_graph takes the lowest id, staged ids being the highest.
StageMergeNode(v, o, s) ==
    LET n == Min(MatchNodeIds(v, s))
    IN IF MatchNodeIds(v, s) # {}
       THEN [o EXCEPT !.node = Put(@, n, <<[v.node[n] EXCEPT !.props = PropertiesAfterSet(@, s.onMatch)]>>)]
       ELSE HoldTempNode(o, [labels |-> s.labels, props |-> PropertiesAfterSet(s.props, s.onCreate)])

StageMergeRel(v, o, s) ==
    FoldLeft(LAMBDA d, p :
                LET found == RelCandidates(v, p[1], p[2], s)
                    r == Min(found)
                IN IF found # {}
                   THEN [d EXCEPT !.rel = Put(@, r, <<[v.rel[r] EXCEPT !.props = PropertiesAfterSet(@, s.onMatch)]>>)]
                   ELSE HoldTempRel(d, p[1], p[2], s, PropertiesAfterSet(s.props, s.onCreate)),
             o, LoopPairs(MatchNodeIds(v, s.from), MatchNodeIds(v, s.to)))

\* The record of a node or relationship after SET, SET = or REMOVE.
StagedProps(rec, s) ==
    CASE s.op = "set"     -> [rec EXCEPT !.props = ApplyAssignments(@, s.sets)]
      [] s.op = "replace" -> [rec EXCEPT !.props = s.props]
      [] s.op = "remove"  -> [rec EXCEPT !.props = Without(@, s.keys)]
StagedLabels(rec, s) ==
    [rec EXCEPT !.labels = IF s.op = "add_label" THEN @ \cup s.labels ELSE @ \ s.labels]

StageUpdateNodes(v, o, s) ==
    LET after(n) == IF s.op \in {"add_label", "remove_label"} THEN StagedLabels(v.node[n], s)
                    ELSE StagedProps(v.node[n], s)
    IN [o EXCEPT !.node = [n \in DOMAIN @ \cup Matched(v, s) |-> IF n \in Matched(v, s) THEN <<after(n)>> ELSE @[n]]]

StageUpdateRels(v, o, s) ==
    [o EXCEPT !.rel = [r \in DOMAIN @ \cup Matched(v, s) |->
                          IF r \in Matched(v, s) THEN <<StagedProps(v.rel[r], s)>> ELSE @[r]]]

HideAll(f, S) == [x \in DOMAIN f \cup S |-> IF x \in S THEN Hidden ELSE f[x]]

StageDelete(v, o, s) ==
    IF s.on = "rel" THEN [o EXCEPT !.rel = HideAll(@, Matched(v, s))]
    ELSE [o EXCEPT !.node = HideAll(@, Matched(v, s)),
                   !.rel = HideAll(@, UNION {AttachedTo(v, n) : n \in Matched(v, s)})]

\* v is the graph with what was staged before.
StageStatement(v, o, s) ==
    CASE s.op = "create_node" -> StageCreateNode(v, o, s)
      [] s.op = "create_rel"  -> StageCreateRel(v, o, s)
      [] s.op = "merge_node"  -> StageMergeNode(v, o, s)
      [] s.op = "merge_rel"   -> StageMergeRel(v, o, s)
      [] s.op \in UpdateOps   -> IF s.on = "node" THEN StageUpdateNodes(v, o, s) ELSE StageUpdateRels(v, o, s)
      [] s.op = "delete"      -> StageDelete(v, o, s)
      [] OTHER                -> CwRefused

BuildStagedOverlay(db, stmts) ==
    FoldLeft(LAMBDA o, s : IF o = CwRefused THEN o ELSE StageStatement(StagedView(db, o), o, s), EmptyOverlay, stmts)

-----------------------------------------------------------------------------
(* The commit of an overlay on one shard.                                  *)

\* append_property_delta_commands: a stored null is a value like any other.
DeltaCommands(on, id, before, after) ==
    CommandsFor(DOMAIN before \ DOMAIN after, LAMBDA k : RemoveKey(on, id, k))
        \o CommandsFor({k \in DOMAIN after : ~(k \in DOMAIN before /\ before[k] = after[k])},
                       LAMBDA k : SetKey(on, id, k, after[k]))

LabelDeltaCommands(id, before, after) ==
    CommandsFor(after \ before, LAMBDA l : ChangeLabel("AddLabel", id, l))
        \o CommandsFor(before \ after, LAMBDA l : ChangeLabel("RemoveLabel", id, l))

Held(f, S) == {x \in S : f[x] # Hidden}

\* The real ids of the staged nodes, in the order of their creation.
TempNodeIds(db, o, target) ==
    LET q == Descending(Held(o.node, o.tempNode))
        first == NodeIdFor(db, target)
    IN [n \in Range(q) |-> first + Setting.shards * ((CHOOSE i \in DOMAIN q : q[i] = n) - 1)]

\* A lowering that keeps the staged ids of new nodes in new relationships.
TempRelCommandsMutant(db, o, real) ==
    LET q == Descending(Held(o.rel, o.tempRel))
    IN [i \in DOMAIN q |-> MakeRel(db.nextRel + i - 1, o.rel[q[i]][1])]

TempRelCommands(db, o, real) ==
    LET q == Descending(Held(o.rel, o.tempRel))
        realOf(n) == IF n \in DOMAIN real THEN real[n] ELSE n
    IN [i \in DOMAIN q |-> MakeRel(db.nextRel + i - 1,
            [o.rel[q[i]][1] EXCEPT !.from = realOf(@), !.to = realOf(@)])]

BaseNodeCommands(db, o, target) ==
    LET ids == Ascending({n \in DOMAIN o.node \ o.tempNode : CwOwner(n) = target})
        of(n) == IF o.node[n] = Hidden THEN <<Erase("node", n)>>
                 ELSE DeltaCommands("node", n, db.node[n].props, o.node[n][1].props)
                          \o LabelDeltaCommands(n, db.node[n].labels, o.node[n][1].labels)
    IN FlattenSeq([i \in DOMAIN ids |-> of(ids[i])])

BaseRelCommands(db, o, target) ==
    LET ids == Ascending({r \in DOMAIN o.rel \ o.tempRel : CwOwner(db.rel[r].from) = target})
        of(r) == IF o.rel[r] = Hidden THEN <<Erase("rel", r)>>
                 ELSE DeltaCommands("rel", r, db.rel[r].props, o.rel[r][1].props)
    IN FlattenSeq([i \in DOMAIN ids |-> of(ids[i])])

\* commands_from_staged_overlay_on_shard: what is new first, then the changes
\* of what is stored and owned by the shard.  A new relationship that belongs
\* to another shard fails the commit, with the ids taken.
LowerOverlay(db, o, target, real) ==
    LET nodes == Descending(DOMAIN real)
        rels  == TempRelCommands(db, o, real)
    IN [ok   |-> \A i \in DOMAIN rels : CwOwner(rels[i].rec.from) = target,
        db   |-> TookRelIds(TookNodeId(db, Max({db.nextNode - 1} \cup Range(real))), Len(rels)),
        cmds |-> [i \in DOMAIN nodes |-> MakeNode(real[nodes[i]], o.node[nodes[i]][1])]
                     \o rels \o BaseNodeCommands(db, o, target) \o BaseRelCommands(db, o, target)]

LowerStaged(db, o, target) ==
    IF o = CwRefused THEN db ELSE Written(LowerOverlay(db, o, target, TempNodeIds(db, o, target)))

\* execute_staged_cypher_transaction_on_shard.
CommitStaged(db, stmts, target) == LowerStaged(db, BuildStagedOverlay(db, stmts), target)

\* What a shard's staged reads show: the elements it owns (ShardScopedGraphRead).
ScopedView(v, shard) ==
    [node |-> Restrict(v.node, {n \in DOMAIN v.node : CwOwner(n) = shard}),
     rel  |-> Restrict(v.rel, {r \in DOMAIN v.rel : CwOwner(v.rel[r].from) = shard})]

-----------------------------------------------------------------------------
(* The server: routing a commit and choosing how to run it.                *)

\* write_cypher_target_shards, and the hash that places a new or merged node.
\* Matches are made against the store, not against the overlay.
TargetShards(db, s) ==
    CASE s.op \in {"create_node", "merge_node", "create_node_rel"} -> {s.hash % Setting.shards}
      [] s.op \in {"create_rel", "merge_rel"} -> {CwOwner(n) : n \in MatchNodeIds(db, s.from)}
      [] s.op \in UpdateOps \cup {"delete"} -> {OwnerOf(db, s.on, id) : id \in Matched(db, s)}
      [] s.op = "metadata" -> {0}

NoClause == [sets |-> <<>>, repl |-> <<>>]
\* The server goes by the words of a query: MATCH, with SET or REMOVE and
\* without CREATE and DELETE, which a MERGE with only ON MATCH SET is too.
IsBatchableSet(s) ==
    s.op \in UpdateOps \/ (s.op = "merge_rel" /\ s.onMatch # NoClause /\ s.onCreate = NoClause)
IsMultiTarget(s) == IsBatchableSet(s) \/ s.op = "delete"
IsOverlayCypher(s) == s.op # "metadata"

\* writes_by_target_shard fails on a write other than SET, REMOVE or DELETE
\* that does not have one target; one that has none is passed over.
Routable(db, stmts) ==
    \A i \in DOMAIN stmts :
        LET t == TargetShards(db, stmts[i])
        IN (t = {} /\ IsOverlayCypher(stmts[i])) \/ Cardinality(t) = 1 \/ IsMultiTarget(stmts[i])
RouteTargets(db, stmts) == UNION {TargetShards(db, stmts[i]) : i \in DOMAIN stmts}

\* try_execute_staged_writes_as_local_batch: one target commits the overlay,
\* several a batch if all writes are SET or REMOVE and else shard by shard;
\* the writes run one by one if there is no target or one is metadata.
CommitPath(targets, stmts) ==
    CASE Cardinality(targets) = 1 /\ (\A i \in DOMAIN stmts : IsOverlayCypher(stmts[i])) -> "overlay"
      [] Cardinality(targets) > 1 /\ (\A i \in DOMAIN stmts : IsBatchableSet(stmts[i])) -> "batch"
      [] Cardinality(targets) > 1 /\ (\E i \in DOMAIN stmts : ~IsBatchableSet(stmts[i])) -> "prepared"
      [] OTHER -> "each"

WritesOn(db, stmts, shard) == SelectSeq(stmts, LAMBDA s : shard \in TargetShards(db, s))

-----------------------------------------------------------------------------
(* Actions.                                                                *)

CwInit ==
    /\ cwPick \in DOMAIN CwConf
    /\ cwDb = Setting.base
    /\ cwTx = <<>>
    /\ cwRoute = <<>>
    /\ cwJob = <<>>
    /\ cwWrites = 0
    /\ cwCommits = 0

MayWrite == cwWrites < Setting.writes

\* Marks the handle's statement as one that others wrote beside.
Disturb == cwJob' = [i \in DOMAIN cwJob |-> [cwJob[i] EXCEPT !.calm = FALSE]]

\* execute_cypher_with_params, under the lock.
ExecuteCypher ==
    /\ MayWrite
    /\ \E s \in Setting.now : cwDb' = RunNow(cwDb, s, AnyShard)
    /\ cwWrites' = cwWrites + 1
    /\ Disturb
    /\ UNCHANGED <<cwPick, cwTx, cwRoute, cwCommits>>

Routed(path, db, stmts, targets) ==
    <<[path |-> path, stmts |-> stmts, todo |-> targets, db |-> db,
       writes |-> [t \in targets |-> WritesOn(db, stmts, t)]]>>
RoutedEach(db, stmts) ==
    IF stmts = <<>> THEN <<>> ELSE Routed("each", db, stmts, TargetShards(db, Head(stmts)))

\* execute_write_query_with_routing: the shards are chosen, then each of
\* them runs the statement under the lock.
RouteWrite ==
    /\ MayWrite /\ cwRoute = <<>>
    /\ \E s \in Setting.now : cwRoute' = RoutedEach(cwDb, <<s>>)
    /\ cwWrites' = cwWrites + 1
    /\ UNCHANGED <<cwPick, cwDb, cwTx, cwJob, cwCommits>>

RunEach ==
    /\ cwRoute # <<>> /\ cwRoute[1].path = "each"
    /\ LET r == cwRoute[1]
       IN IF r.todo = {}
          THEN cwRoute' = RoutedEach(cwDb, Tail(r.stmts)) /\ UNCHANGED <<cwDb, cwJob>>
          ELSE /\ cwDb' = RunNow(cwDb, Head(r.stmts), Min(r.todo))
               /\ cwRoute' = <<[r EXCEPT !.todo = @ \ {Min(@)}]>>
               /\ Disturb
    /\ UNCHANGED <<cwPick, cwTx, cwWrites, cwCommits>>

\* What the handle reads before it writes: the elements, or the pairs of
\* nodes, that it will go through.
HandleTodo(db, s) ==
    CASE s.op \in {"create_node", "create_node_rel"} -> <<"new node">>
      [] s.op = "create_rel" -> LoopPairs(MatchNodeIds(db, s.from), MatchNodeIds(db, s.to))
      [] OTHER -> Ascending(Matched(db, s))

\* The handle's execute_cypher_with_params: a MERGE takes the lock, the
\* others match first and send the writer actor one write after another.
BeginHandle ==
    /\ MayWrite /\ cwJob = <<>>
    /\ \E s \in Setting.handle :
          IF s.op \in {"merge_node", "merge_rel"}
          THEN cwDb' = RunNow(cwDb, s, AnyShard) /\ UNCHANGED cwJob
          ELSE /\ cwJob' = <<[stmt |-> s, stage |-> "first", todo |-> HandleTodo(cwDb, s), cmds |-> <<>>,
                              new |-> -1, from |-> cwDb, calm |-> TRUE]>>
               /\ UNCHANGED cwDb
    /\ cwWrites' = cwWrites + 1
    /\ UNCHANGED <<cwPick, cwTx, cwRoute, cwCommits>>

\* The node of CREATE; the second half of the statement matches after it.
HandleCreateNode ==
    /\ cwJob # <<>> /\ cwJob[1].stage = "first"
    /\ cwJob[1].stmt.op \in {"create_node", "create_node_rel"}
    /\ cwDb' = CreatedNode(cwDb, NodeRecOf(cwJob[1].stmt), AnyShard)
    /\ cwJob' = <<[cwJob[1] EXCEPT !.new = cwDb.nextNode, !.todo = <<>>,
                      !.stage = IF cwJob[1].stmt.op = "create_node" THEN "each" ELSE "match"]>>
    /\ UNCHANGED <<cwPick, cwTx, cwRoute, cwWrites, cwCommits>>

HandleMatch ==
    /\ cwJob # <<>> /\ cwJob[1].stage = "match"
    /\ cwJob' = <<[cwJob[1] EXCEPT !.stage = "each",
                      !.todo = Ascending(MatchNodeIds(cwDb, cwJob[1].stmt.match))]>>
    /\ UNCHANGED <<cwPick, cwDb, cwTx, cwRoute, cwWrites, cwCommits>>

HandleEnds(j) ==
    CASE j.stmt.op = "create_rel" -> Head(j.todo)
      [] j.stmt.op = "create_node_rel" -> IF j.stmt.newIsFrom THEN <<j.new, Head(j.todo)>> ELSE <<Head(j.todo), j.new>>

\* One relationship; the statement ends where an endpoint is gone.
HandleCreateRel ==
    /\ cwJob # <<>> /\ cwJob[1].todo # <<>>
    /\ \/ cwJob[1].stmt.op = "create_rel"
       \/ cwJob[1].stmt.op = "create_node_rel" /\ cwJob[1].stage = "each"
    /\ LET j == cwJob[1]
           e == HandleEnds(j)
       IN IF {e[1], e[2]} \subseteq DOMAIN cwDb.node
          THEN /\ cwDb' = CreatedRel(cwDb, e[1], e[2], j.stmt, RelPropsOf(j.stmt))
               /\ cwJob' = <<[j EXCEPT !.todo = Tail(@)]>>
          ELSE cwJob' = <<>> /\ UNCHANGED cwDb
    /\ UNCHANGED <<cwPick, cwTx, cwRoute, cwWrites, cwCommits>>

\* The next element of an update or DELETE: SET n = {..} reads it first.
HandleElement ==
    /\ cwJob # <<>> /\ cwJob[1].stmt.op \in UpdateOps \cup {"delete"}
    /\ cwJob[1].cmds = <<>> /\ cwJob[1].todo # <<>>
    /\ LET j == cwJob[1]
       IN cwJob' = IF j.stmt.op = "replace" /\ Head(j.todo) \notin DOMAIN cwDb[j.stmt.on] THEN <<>>
                   ELSE <<[j EXCEPT !.todo = Tail(@), !.cmds = ElementCommands(cwDb, j.stmt, Head(j.todo))]>>
    /\ UNCHANGED <<cwPick, cwDb, cwTx, cwRoute, cwWrites, cwCommits>>

\* One write through the actor, which refuses what is no longer there.
HandleWrite ==
    /\ cwJob # <<>> /\ cwJob[1].cmds # <<>>
    /\ LET c == Head(cwJob[1].cmds)
       IN IF c.id \in DOMAIN cwDb[c.on]
          THEN cwDb' = ApplyToStore(cwDb, c) /\ cwJob' = <<[cwJob[1] EXCEPT !.cmds = Tail(@)]>>
          ELSE cwJob' = <<>> /\ UNCHANGED cwDb
    /\ UNCHANGED <<cwPick, cwTx, cwRoute, cwWrites, cwCommits>>

HandleDone(j) ==
    j.todo = <<>> /\ j.cmds = <<>> /\ (j.stmt.op \in {"create_node", "create_node_rel"} => j.stage = "each")

EndHandle ==
    /\ cwJob # <<>> /\ HandleDone(cwJob[1])
    /\ cwJob' = <<>>
    /\ UNCHANGED <<cwPick, cwDb, cwTx, cwRoute, cwWrites, cwCommits>>

StageCypher ==
    /\ cwRoute = <<>> /\ Len(cwTx) < Setting.tx /\ cwCommits < Setting.commits
    /\ \E s \in Setting.staged : cwTx' = Append(cwTx, s)
    /\ UNCHANGED <<cwPick, cwDb, cwRoute, cwJob, cwWrites, cwCommits>>

\* COMMIT up to the choice of a path; the transaction is closed, and a
\* commit that cannot be routed has failed.
RouteCommit ==
    /\ cwTx # <<>> /\ cwRoute = <<>>
    /\ LET targets == RouteTargets(cwDb, cwTx)
           path == CommitPath(targets, cwTx)
           metadata == \E i \in DOMAIN cwTx : ~IsOverlayCypher(cwTx[i])
       IN cwRoute' = IF ~Routable(cwDb, cwTx) \/ (Cardinality(targets) > 1 /\ metadata) THEN <<>>
                     ELSE IF path = "each" THEN RoutedEach(cwDb, cwTx)
                     ELSE Routed(path, cwDb, cwTx, targets)
    /\ cwTx' = <<>>
    /\ cwCommits' = cwCommits + 1
    /\ UNCHANGED <<cwPick, cwDb, cwJob, cwWrites>>

\* The whole transaction on its one shard.
CommitOverlay ==
    /\ cwRoute # <<>> /\ cwRoute[1].path = "overlay"
    /\ cwDb' = CommitStaged(cwDb, cwRoute[1].stmts, Min(cwRoute[1].todo))
    /\ cwRoute' = <<>>
    /\ Disturb
    /\ UNCHANGED <<cwPick, cwTx, cwWrites, cwCommits>>

CommitBatch ==
    /\ cwRoute # <<>> /\ cwRoute[1].path = "batch"
    /\ cwDb' = RunBatch(cwDb, cwRoute[1].stmts, AnyShard)
    /\ cwRoute' = <<>>
    /\ Disturb
    /\ UNCHANGED <<cwPick, cwTx, cwWrites, cwCommits>>

\* CommitPrepared of one participant, with the writes that were routed to it.
CommitPrepared ==
    /\ cwRoute # <<>> /\ cwRoute[1].path = "prepared"
    /\ LET r == cwRoute[1]
           t == Min(r.todo)
       IN /\ cwDb' = CommitStaged(cwDb, r.writes[t], t)
          /\ cwRoute' = IF r.todo = {t} THEN <<>> ELSE <<[r EXCEPT !.todo = @ \ {t}]>>
    /\ Disturb
    /\ UNCHANGED <<cwPick, cwTx, cwWrites, cwCommits>>

CwNext ==
    \/ ExecuteCypher
    \/ RouteWrite
    \/ RunEach
    \/ BeginHandle
    \/ HandleCreateNode
    \/ HandleMatch
    \/ HandleCreateRel
    \/ HandleElement
    \/ HandleWrite
    \/ EndHandle
    \/ StageCypher
    \/ RouteCommit
    \/ CommitOverlay
    \/ CommitBatch
    \/ CommitPrepared

CwSpec == CwInit /\ [][CwNext]_cwVars

-----------------------------------------------------------------------------
(* Graphs are compared as a query sees them: nodes in the order of their   *)
(* creation, relationships as a bag, a stored null read as no value.       *)

\* Staged ids count down, so the larger one was created first.
CreationOrder(n) == IF 2 * n > CwStagedIdStart THEN 2 * CwStagedIdStart - n ELSE n
CreationRank(f, n) == Cardinality({m \in DOMAIN f : CreationOrder(m) < CreationOrder(n)})
AtRank(f, i) == CHOOSE n \in DOMAIN f : CreationRank(f, n) = i

Observed(g) ==
    LET rels == Restrict(g.rel, {r \in DOMAIN g.rel : {g.rel[r].from, g.rel[r].to} \subseteq DOMAIN g.node})
        node(n) == [g.node[n] EXCEPT !.props = WithoutNulls(@)]
        rel(r) == [rels[r] EXCEPT !.props = WithoutNulls(@), !.from = CreationRank(g.node, @),
                                  !.to = CreationRank(g.node, @)]
    IN [node |-> [i \in 0..Cardinality(DOMAIN g.node) - 1 |-> node(AtRank(g.node, i))],
        rel  |-> [x \in {rel(r) : r \in DOMAIN rels} |-> Cardinality({r \in DOMAIN rels : rel(r) = x})]]

Supported(s) == s.op \notin {"create_node_rel", "metadata"}

RunOnEveryShard(db, s) == FoldLeft(LAMBDA d, t : RunBatch(d, <<s>>, t), db, Ascending(CwShard))

\* The results of a statement under the lock and in the other ways it can run.
Results(db, s) ==
    {RunNow(db, s, AnyShard)}
        \cup (IF Setting.shards = 1 /\ Supported(s)
              THEN {CommitStaged(db, <<s>>, 0), RunBatch(db, <<s>>, 0)} ELSE {})
        \cup (IF s.op \in UpdateOps \cup {"delete"}
              THEN {RunOnEveryShard(db, s), RunBatch(db, <<s>>, AnyShard)} ELSE {})

\* Whatever the store holds, a statement does the same under the lock, as a
\* transaction of its own, as a batch, and, for SET, REMOVE and DELETE, as one
\* batch per shard; and the handle's writes, if nobody writes between them,
\* add up to it.  The code for each of these is separate.
PathsAgree ==
    /\ cwRoute = <<>> /\ cwJob = <<>> /\ cwTx = <<>> =>
        \A s \in Setting.staged : Cardinality({Observed(d) : d \in Results(cwDb, s)}) = 1
    /\ \A i \in DOMAIN cwJob :
        cwJob[i].calm /\ HandleDone(cwJob[i]) => cwDb = RunNow(cwJob[i].from, cwJob[i].stmt, AnyShard)

HasMerge(stmts) == \E i \in DOMAIN stmts : stmts[i].op \in {"merge_node", "merge_rel"}

\* What the reads of a transaction on all shards show together.
SeenBy(db, stmts) ==
    LET o == BuildStagedOverlay(db, stmts)
        part(t) == ScopedView(StagedView(db, o), t)
    IN IF o = CwRefused THEN [node |-> db.node, rel |-> db.rel]
       ELSE [node |-> [n \in UNION {DOMAIN part(t).node : t \in CwShard} |-> part(CwOwner(n)).node[n]],
             rel  |-> [r \in UNION {DOMAIN part(t).rel : t \in CwShard} |-> StagedView(db, o).rel[r]]]

RunInOrder(db, stmts) == FoldLeft(LAMBDA d, s : RunNow(d, s, AnyShard), db, stmts)
MergeHasNoChoice(db, stmts) ==
    \A i \in DOMAIN stmts :
        LET d == RunInOrder(db, SubSeq(stmts, 1, i - 1))
            s == stmts[i]
        IN /\ s.op = "merge_node" => Cardinality(MatchNodeIds(d, s)) <= 1
           /\ s.op = "merge_rel" => \A a, b \in DOMAIN d.node : Cardinality(RelCandidates(d, a, b, s)) <= 1

\* With several shards the commit shows what was read only if nobody wrote
\* since it was routed and nothing is merged: a MERGE is sent to the shard of
\* its hash even if it matched a node of another.
CommittedAsSeen(r) ==
    Setting.shards = 1 \/ (r.db = cwDb /\ ~HasMerge(r.stmts))
        => Observed(cwDb') = Observed(SeenBy(cwDb, r.stmts))

\* A MERGE that has a choice takes the oldest, or the youngest staged element.
CommittedInOrder(r) ==
    /\ Setting.shards = 1
    /\ \A k \in DOMAIN r.stmts : Supported(r.stmts[k])
    /\ MergeHasNoChoice(cwDb, r.stmts)
    => Observed(cwDb') = Observed(RunInOrder(cwDb, r.stmts))

\* A transaction that commits on one shard leaves the graph its own reads
\* showed just before, with new ids for what is new; and with one shard that
\* is the graph its statements would have made one after another.
CommittedAsStaged ==
    [][\A i \in DOMAIN cwRoute :
        cwRoute[i].path = "overlay" /\ cwRoute' = <<>> => CommittedAsSeen(cwRoute[i]) /\ CommittedInOrder(cwRoute[i])]_cwVars
=============================================================================
