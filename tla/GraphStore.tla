----------------------------- MODULE GraphStore -----------------------------
(***************************************************************************)
(* The materialized graph of one server (KvGraphStore, one per local       *)
(* partition) and the write path above it: validation against the store,   *)
(* id allocation, group commit, the two ways a committed command reaches   *)
(* the store (apply and the staged apply_batch), checkpoints, and replay   *)
(* of the WAL over a store that already holds some of it.                  *)
(*                                                                         *)
(* A node has labels and at most one value for one property; relationships *)
(* have one type.  WAL, commit index and their faults are ShardStorage's:  *)
(* here a command is in the WAL exactly when it is committed.  Boundary    *)
(* nodes are left out, since nothing in the repository writes one.         *)
(***************************************************************************)
EXTENDS Integers, FiniteSets, Sequences, SequencesExt, FiniteSetsExt

CONSTANTS GraphShards,     \* ShardMap's shard_count
          GraphNodeIds,    \* bound: node ids are 0..GraphNodeIds-1
          GraphRelIds,     \* bound: relationship ids are 0..GraphRelIds-1
          Label,           \* labels
          UniqueLabel,     \* labels with a unique constraint on the property
          PropValue,       \* values of the property
          CkptInterval,    \* checkpoint_interval
          MaxWal,          \* bound: commands written
          GraphConf        \* configurations to choose from (see GraphInit)

VARIABLES gsConf,   \* [partitions, kills, deletes, batch]
          gsKv,     \* partition -> its key-value store
          gsWal,    \* committed commands of all shards, in the order written
          gsCkpt,   \* shard -> last_applied_index of its checkpoint
          gsNext,   \* next_node_id and next_relationship_id
          gsJob,    \* the write under way, or "down"
          gsKills   \* kills so far

graphVars == <<gsConf, gsKv, gsWal, gsCkpt, gsNext, gsJob, gsKills>>

AbsentValue == "no value"
Absent == [absent |-> TRUE]
GraphShard == 0..GraphShards-1
NodeId == 0..GraphNodeIds-1
RelId == 0..GraphRelIds-1
Partition == 0..gsConf.partitions-1

NodeRec == [labels : SUBSET Label, value : PropValue \cup {AbsentValue}]
RelRec == [from : NodeId, to : NodeId, value : PropValue \cup {AbsentValue}]
EmptyKv == [node |-> [n \in NodeId |-> Absent], rel |-> [r \in RelId |-> Absent], idx |-> {}]

-----------------------------------------------------------------------------
(* Keys of the secondary indexes, and what each record contributes.        *)

LabelKey(l, n) == <<"l", l, n>>
LabelPropertyKey(l, v, n) == <<"lp", l, v, n>>
OutgoingKeys(n, r) == {<<"out", n, r>>, <<"outt", n, r>>}
IncomingKeys(n, r) == {<<"in", n, r>>, <<"int", n, r>>}

NodeKeys(n, rec) ==
    {LabelKey(l, n) : l \in rec.labels}
        \cup {LabelPropertyKey(l, rec.value, n) : l \in IF rec.value = AbsentValue THEN {} ELSE rec.labels}

\* verify_invariants: the keys the primary records call for.
ExpectedKeys(kv) ==
    UNION {NodeKeys(n, kv.node[n]) : n \in {m \in NodeId : kv.node[m] # Absent}}
        \cup UNION {OutgoingKeys(kv.rel[r].from, r)
                        \cup IF kv.node[kv.rel[r].to] = Absent THEN {} ELSE IncomingKeys(kv.rel[r].to, r)
                    : r \in {q \in RelId : kv.rel[q] # Absent}}

-----------------------------------------------------------------------------
(* Commands and the store's two ways of applying them.                     *)

\* A rewrite of a node that forgets the keys of the record it replaces.
RewriteNodeMutant(kv, n, rec) ==
    [kv EXCEPT !.node[n] = rec, !.idx = @ \cup NodeKeys(n, rec)]

RewriteNode(kv, n, rec) ==
    [kv EXCEPT !.node[n] = rec, !.idx = (@ \ NodeKeys(n, kv.node[n])) \cup NodeKeys(n, rec)]

\* put_node and index_node: a creation does not look at what is there.
CreateNode(kv, c) ==
    LET rec == [labels |-> c.labels, value |-> c.value]
    IN [kv EXCEPT !.node[c.id] = rec, !.idx = @ \cup NodeKeys(c.id, rec)]

\* A node command on a missing node is a no-op, and so are the addition of a
\* label the node has and the removal of one it lacks.
UpdateNode(kv, c) ==
    LET old == kv.node[c.id]
        new == CASE c.op = "SetNodeProperty"    -> [old EXCEPT !.value = c.value]
                 [] c.op = "RemoveNodeProperty" -> [old EXCEPT !.value = AbsentValue]
                 [] c.op = "AddNodeLabel"       -> [old EXCEPT !.labels = @ \cup {c.label}]
                 [] c.op = "RemoveNodeLabel"    -> [old EXCEPT !.labels = @ \ {c.label}]
    IN IF old = Absent THEN kv ELSE RewriteNode(kv, c.id, new)

\* The incoming keys are written only if the target is in this partition.
CreateRel(kv, c) ==
    [kv EXCEPT !.rel[c.id] = [from |-> c.from, to |-> c.to, value |-> c.value],
               !.idx = @ \cup OutgoingKeys(c.from, c.id)
                         \cup IF kv.node[c.to] = Absent THEN {} ELSE IncomingKeys(c.to, c.id)]

UpdateRel(kv, c) ==
    IF kv.rel[c.id] = Absent THEN kv ELSE [kv EXCEPT !.rel[c.id].value = c.value]

DeleteRel(kv, r) ==
    IF kv.rel[r] = Absent THEN kv
    ELSE [kv EXCEPT !.rel[r] = Absent,
                    !.idx = @ \ (OutgoingKeys(kv.rel[r].from, r) \cup IncomingKeys(kv.rel[r].to, r))]

\* The relationships found under a node's outgoing and incoming keys.
Attached(idx, n) == {r \in RelId : <<"out", n, r>> \in idx \/ <<"in", n, r>> \in idx}

DropNode(kv, n, rels) ==
    LET bare == FoldSet(LAMBDA r, k : DeleteRel(k, r), kv, rels)
    IN [bare EXCEPT !.node[n] = Absent, !.idx = @ \ NodeKeys(n, kv.node[n])]

DeleteNode(kv, n) ==
    IF kv.node[n] = Absent THEN kv ELSE DropNode(kv, n, Attached(kv.idx, n))

\* KvGraphStore::apply.
ApplyCommand(kv, c) ==
    CASE c.op = "CreateNode"         -> CreateNode(kv, c)
      [] c.op = "CreateRelationship" -> CreateRel(kv, c)
      [] c.op \in {"SetRelationshipProperty", "RemoveRelationshipProperty"} -> UpdateRel(kv, c)
      [] c.op = "DeleteRelationship" -> DeleteRel(kv, c.id)
      [] c.op = "DeleteNode"         -> DeleteNode(kv, c.id)
      [] OTHER                       -> UpdateNode(kv, c)

\* A staged deletion that looks for relationships in the store alone.
StagedDeleteNodeMutant(base, s, n) ==
    IF s.kv.node[n] = Absent THEN s.kv ELSE DropNode(s.kv, n, Attached(base.idx, n))

\* Records are read through the staged ones, but attached relationships are
\* looked up in the indexes of the store and among the staged relationships.
StagedDeleteNode(base, s, n) ==
    IF s.kv.node[n] = Absent THEN s.kv
    ELSE DropNode(s.kv, n, Attached(base.idx, n)
             \cup {r \in s.rels : s.kv.rel[r] # Absent /\ n \in {s.kv.rel[r].from, s.kv.rel[r].to}})

\* apply_into_batch: s.kv is the store with the batch so far, s.rels the
\* relationships that are staged.
StageCommand(base, s, c) ==
    [kv   |-> IF c.op = "DeleteNode" THEN StagedDeleteNode(base, s, c.id) ELSE ApplyCommand(s.kv, c),
     rels |-> CASE c.op \in {"CreateRelationship", "SetRelationshipProperty",
                             "RemoveRelationshipProperty", "DeleteRelationship"} -> s.rels \cup {c.id}
                [] OTHER -> s.rels]

ApplyBatch(kv, cmds) ==
    FoldLeft(LAMBDA s, c : StageCommand(kv, s, c), [kv |-> kv, rels |-> {}], cmds).kv

-----------------------------------------------------------------------------
(* Routing and reading.                                                    *)

OwnerOfNode(n) == n % GraphShards
PartitionOfShard(s) == s % gsConf.partitions
ShardWal(s) == SelectSeq(gsWal, LAMBDA w : w.shard = s)
CommandsOf(ws) == [i \in DOMAIN ws |-> ws[i].cmd]

NodeAt(n) ==
    LET at == {p \in Partition : gsKv[p].node[n] # Absent}
    IN IF at = {} THEN Absent ELSE gsKv[Min(at)].node[n]
RelAt(r) ==
    LET at == {p \in Partition : gsKv[p].rel[r] # Absent}
    IN IF at = {} THEN Absent ELSE gsKv[Min(at)].rel[r]
IdsByLabelProperty(l, v) ==
    {n \in NodeId : \E p \in Partition : LabelPropertyKey(l, v, n) \in gsKv[p].idx}

-----------------------------------------------------------------------------
(* The write path.                                                         *)

GraphIdle == [stage |-> "idle", path |-> "single", cmds |-> <<>>, todo |-> {}]
GraphDown == [GraphIdle EXCEPT !.stage = "down"]

\* The label and value a command gives a node, as the unique check sees it.
UniqueClaim(c) ==
    LET rec == NodeAt(c.id)
    IN CASE c.op = "CreateNode" -> [labels |-> c.labels, value |-> c.value]
         [] c.op = "SetNodeProperty" /\ rec # Absent -> [labels |-> rec.labels, value |-> c.value]
         [] c.op = "AddNodeLabel" /\ rec # Absent ->
                IF c.label \in rec.labels THEN [labels |-> {}, value |-> AbsentValue]
                ELSE [labels |-> rec.labels \cup {c.label}, value |-> rec.value]
         [] OTHER -> [labels |-> {}, value |-> AbsentValue]

\* A check that takes the first hit of the index for the node itself.
ViolatesUniqueMutant(c) ==
    \E l \in UniqueClaim(c).labels \cap UniqueLabel :
        Cardinality(IdsByLabelProperty(l, UniqueClaim(c).value)) > 1

\* validate_unique_constraints_for_command: the store's index is asked, not
\* the commands of the batch that are still to be applied.
ViolatesUnique(c) ==
    \E l \in UniqueClaim(c).labels \cap UniqueLabel :
        IdsByLabelProperty(l, UniqueClaim(c).value) \ {c.id} # {}

\* allocate_node_id_for_shard skips to the next id the shard owns.
AllocateOnShard(s) ==
    Min({n \in gsNext.node..gsNext.node + GraphShards - 1 : OwnerOfNode(n) = s})

NodeCommands ==
    [op : {"CreateNode"}, id : {gsNext.node} \cup {AllocateOnShard(s) : s \in GraphShard},
     labels : SUBSET Label, value : PropValue \cup {AbsentValue}]
RelCommands ==
    {c \in [op : {"CreateRelationship"}, id : {gsNext.rel}, from : NodeId, to : NodeId, value : {AbsentValue}] :
        NodeAt(c.from) # Absent /\ NodeAt(c.to) # Absent}
Updates(n) ==
    [op : {"SetNodeProperty"}, id : {n}, value : PropValue]
        \cup [op : {"RemoveNodeProperty"}, id : {n}]
        \cup [op : {"AddNodeLabel", "RemoveNodeLabel"}, id : {n}, label : Label]
        \cup [op : IF gsConf.deletes THEN {"DeleteNode"} ELSE {}, id : {n}]
RelUpdates(r) ==
    [op : {"SetRelationshipProperty"}, id : {r}, value : PropValue]
        \cup [op : {"RemoveRelationshipProperty"}, id : {r}, value : {AbsentValue}]
        \cup [op : {"DeleteRelationship"}, id : {r}]

\* What clients may ask for: ensure_local_node_exists and
\* relationship_owner_shard refuse the rest.
Requests ==
    {c \in NodeCommands : c.id \in NodeId} \cup {c \in RelCommands : c.id \in RelId}
        \cup UNION {Updates(n) : n \in {m \in NodeId : NodeAt(m) # Absent}}
        \cup UNION {RelUpdates(r) : r \in {q \in RelId : RelAt(q) # Absent}}

ShardOfCommand(c) ==
    CASE c.op = "CreateRelationship" -> OwnerOfNode(c.from)
      [] c.op \in {"SetRelationshipProperty", "RemoveRelationshipProperty",
                   "DeleteRelationship"} -> OwnerOfNode(RelAt(c.id).from)
      [] OTHER -> OwnerOfNode(c.id)

\* An id is used up by the request, whether or not it is accepted.
Allocated(c) ==
    CASE c.op = "CreateNode"         -> [gsNext EXCEPT !.node = c.id + 1]
      [] c.op = "CreateRelationship" -> [gsNext EXCEPT !.rel = c.id + 1]
      [] OTHER                       -> gsNext

Record(c) == [shard |-> ShardOfCommand(c), cmd |-> c]

PartitionsOf(cmds) == {PartitionOfShard(cmds[i].shard) : i \in DOMAIN cmds}

\* write_command: one command, appended, committed and applied on its own.
WriteCommand ==
    /\ gsJob = GraphIdle /\ Len(gsWal) < MaxWal
    /\ \E c \in Requests :
          /\ gsNext' = Allocated(c)
          /\ IF ViolatesUnique(c) THEN UNCHANGED <<gsWal, gsJob>>
             ELSE /\ gsWal' = Append(gsWal, Record(c))
                  /\ gsJob' = [stage |-> "apply", path |-> "single", cmds |-> <<Record(c)>>,
                               todo |-> PartitionsOf(<<Record(c)>>)]
    /\ UNCHANGED <<gsConf, gsKv, gsCkpt, gsKills>>

\* prepare_local_write: the writer actor validates and adds one more command
\* to the batch; a refused one leaves the batch as it is.
PrepareLocalWrite ==
    /\ gsJob.stage \in {"idle", "open"}
    /\ Len(gsJob.cmds) < gsConf.batch /\ Len(gsWal) + Len(gsJob.cmds) < MaxWal
    /\ \E c \in Requests :
          /\ gsNext' = Allocated(c)
          /\ gsJob' = IF ViolatesUnique(c) THEN gsJob
                      ELSE [gsJob EXCEPT !.stage = "open", !.path = "batch",
                                         !.cmds = Append(@, Record(c))]
    /\ UNCHANGED <<gsConf, gsKv, gsWal, gsCkpt, gsKills>>

\* flush_group_commit up to commit_entries.
FlushGroupCommit ==
    /\ gsJob.stage = "open"
    /\ gsWal' = gsWal \o gsJob.cmds
    /\ gsJob' = [gsJob EXCEPT !.stage = "apply", !.todo = PartitionsOf(gsJob.cmds)]
    /\ UNCHANGED <<gsConf, gsKv, gsCkpt, gsNext, gsKills>>

\* The partitions are written one after another, each in one write batch.
ApplyToPartition ==
    /\ gsJob.stage = "apply"
    /\ LET p    == Min(gsJob.todo)
           mine == CommandsOf(SelectSeq(gsJob.cmds, LAMBDA w : PartitionOfShard(w.shard) = p))
       IN /\ gsKv' = [gsKv EXCEPT ![p] = IF gsJob.path = "single" THEN ApplyCommand(@, mine[1])
                                         ELSE ApplyBatch(@, mine)]
          /\ gsJob' = [gsJob EXCEPT !.todo = @ \ {p},
                                    !.stage = IF gsJob.todo = {p} THEN "finish" ELSE "apply"]
    /\ UNCHANGED <<gsConf, gsWal, gsCkpt, gsNext, gsKills>>

LastCheckpoint(n) == (n \div CkptInterval) * CkptInterval

\* observe_entry and the checkpoints the batch passes.
FinishWrite ==
    /\ gsJob.stage = "finish"
    /\ gsCkpt' = [s \in GraphShard |-> Max({gsCkpt[s], LastCheckpoint(Len(ShardWal(s)))})]
    /\ gsJob' = GraphIdle
    /\ UNCHANGED <<gsConf, gsKv, gsWal, gsNext, gsKills>>

\* The process is killed; a batch that is not committed is gone.
KillGraph ==
    /\ gsJob.stage \in {"idle", "apply", "finish"} /\ gsKills < gsConf.kills
    /\ gsKills' = gsKills + 1
    /\ gsJob' = GraphDown
    /\ UNCHANGED <<gsConf, gsKv, gsWal, gsCkpt, gsNext>>

\* replay_logs: shard after shard, every record above the checkpoint is
\* applied again, whether or not the store holds it already.
ReplayLogs(kv) ==
    LET suffix(s) == SubSeq(ShardWal(s), gsCkpt[s] + 1, Len(ShardWal(s)))
        all == FoldLeft(LAMBDA ws, s : ws \o suffix(s), <<>>, [i \in 1..GraphShards |-> i - 1])
    IN FoldLeft(LAMBDA k, w : [k EXCEPT ![PartitionOfShard(w.shard)] = ApplyCommand(@, w.cmd)], kv, all)

\* An open that keeps ids from zero, whatever the store holds.
RecoverAllocatorsMutant(kv) == [node |-> 0, rel |-> 0]

\* recover_allocators_from_store: one above the highest id stored; what
\* replay observed counts only if the store is empty.
RecoverAllocators(kv) ==
    LET nodes == {n \in NodeId : \E p \in Partition : kv[p].node[n] # Absent}
        rels  == {r \in RelId : \E p \in Partition : kv[p].rel[r] # Absent}
        made(op) == {w.cmd.id : w \in {v \in Range(gsWal) : v.cmd.op = op}}
        above(stored, op) == IF stored # {} THEN Max(stored) + 1
                             ELSE Max({-1} \cup made(op)) + 1
    IN [node |-> above(nodes, "CreateNode"), rel |-> above(rels, "CreateRelationship")]

\* open: replay, with its checkpoints, then the allocators.
OpenGraph ==
    /\ gsJob = GraphDown
    /\ gsKv' = ReplayLogs(gsKv)
    /\ gsNext' = RecoverAllocators(ReplayLogs(gsKv))
    /\ gsCkpt' = [s \in GraphShard |-> Max({gsCkpt[s], LastCheckpoint(Len(ShardWal(s)))})]
    /\ gsJob' = GraphIdle
    /\ UNCHANGED <<gsConf, gsWal, gsKills>>

GraphInit ==
    /\ gsConf \in GraphConf
    /\ gsKv = [p \in Partition |-> EmptyKv]
    /\ gsWal = <<>>
    /\ gsCkpt = [s \in GraphShard |-> 0]
    /\ gsNext = [node |-> 0, rel |-> 0]
    /\ gsJob = GraphIdle
    /\ gsKills = 0

GraphNext ==
    \/ WriteCommand
    \/ PrepareLocalWrite
    \/ FlushGroupCommit
    \/ ApplyToPartition
    \/ FinishWrite
    \/ KillGraph
    \/ OpenGraph

GraphSpec == GraphInit /\ [][GraphNext]_graphVars

-----------------------------------------------------------------------------
\* verify_invariants stays clean: in every partition the label, property and
\* adjacency keys are exactly those of its records, through every order of
\* updates, group commits, partial applications and replays.
IndexesMatch == \A p \in Partition : gsKv[p].idx = ExpectedKeys(gsKv[p])

\* Writes that are committed one by one never give two nodes of a label with
\* a unique constraint the same value.
UniqueValues ==
    gsConf.batch = 1 =>
        \A l \in UniqueLabel, v \in PropValue : Cardinality(IdsByLabelProperty(l, v)) <= 1

\* The indexes serve what they are for: every record is found under its keys
\* and no other, and what they are asked before a write keeps the constraint.
IndexesHold == IndexesMatch /\ UniqueValues

\* The graph the committed commands describe, taken one at a time.
SequentialGraph ==
    FoldLeft(LAMBDA k, w : [k EXCEPT ![PartitionOfShard(w.shard)] = ApplyCommand(@, w.cmd)],
             [p \in Partition |-> EmptyKv], gsWal)

\* apply_batch with its staged state, the partition-wise application and the
\* replay over a store that holds part of the log all end in the graph that
\* applying every committed command once, in order, gives.
StoreIsSequential == gsJob.stage = "idle" => gsKv = SequentialGraph

\* No id is given to two nodes or two relationships, across restarts: the
\* allocators never fall back behind an id that is in the log.
IdsNotReused ==
    \A i, j \in DOMAIN gsWal :
        /\ i < j
        /\ gsWal[i].cmd.op \in {"CreateNode", "CreateRelationship"}
        => <<gsWal[i].cmd.op, gsWal[i].cmd.id>> # <<gsWal[j].cmd.op, gsWal[j].cmd.id>>
=============================================================================
