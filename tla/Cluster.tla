------------------------------ MODULE Cluster ------------------------------
(***************************************************************************)
(* Cluster membership, the routing table and the rebalance state machine   *)
(* of the metadata authority (crates/neo4r-db/src/database/db_cluster.rs,  *)
(* db_cluster/metadata.rs, db_cluster/rebalance.rs).                       *)
(*                                                                         *)
(* Every call runs under the database mutex, so a call is one action; its  *)
(* file saves are separate, so a kill may leave any prefix of them on disk *)
(* (Run below).  The authority is server Self.  What a server really holds *)
(* of a shard is clCopy; the authority only knows what it was told.        *)
(***************************************************************************)
EXTENDS Integers, Sequences, FiniteSets, SequencesExt

CONSTANTS
    ClServer,    \* server ids, naturals; the authority is the smallest
    ClShard,     \* shard ids
    ClConf,      \* the scenarios: see ConfOK
    MaxCommit,   \* bound: log entries per shard
    MaxAdmin     \* bound: operator calls that change membership

\* A scenario: the first placements (first server the primary), the replication
\* factor of the policy (2 unless SET_REBALANCE_POLICY changed it), the operator
\* calls used, the servers it decommissions, whether a joining node may be
\* decommissioned or a removed one come back with an empty disk, and how many
\* kills happen.
ConfOK(c) ==
    /\ c.placed \in [ClShard -> Seq(ClServer)]
    /\ c.ops \subseteq {"join", "register", "reject", "drain", "promote", "prepare",
                        "cancel", "policy", "authority", "write", "seed"}
    /\ c.rf \in Nat \ {0} /\ c.drains \subseteq ClServer
    /\ c.abort \in BOOLEAN /\ c.wipe \in BOOLEAN /\ c.kills \in Nat
ASSUME ClConfAssumption == \A c \in ClConf : ConfOK(c)

VARIABLES
    clConf,   \* the scenario
    clMem,    \* the authority's memory: membership, routing table, metadata, execution
    clDisk,   \* the same state as its files hold it
    clMatch,  \* match_indexes: what publishing writes has learnt, lost on restart
    clCopy,   \* clCopy[sh][s]: the last entry of sh that s really holds
    clUsed,   \* operator calls and kills so far
    clSeed    \* the bootstrap manifest file, and whether it has been used as a seed

clVars == <<clConf, clMem, clDisk, clMatch, clCopy, clUsed, clSeed>>

Self == CHOOSE s \in ClServer : \A t \in ClServer : s <= t
Ids == SetToSortSeq(ClServer, <)         \* nodes and shards are kept sorted by id
ShardIds == SetToSortSeq(ClShard, <)

Replica(s) == [server |-> s, role |-> "replica"]
PrimaryReplica(s) == [server |-> s, role |-> "primary"]
NoAssignment == [state |-> "none", match |-> 0]
NoSeed == [mode |-> "none"]
NoExecution == [state |-> "none", steps |-> <<>>]

----------------------------------------------------------------------------
(* Reading the state *)

HasServer(pl, s) == \E i \in DOMAIN pl : pl[i].server = s
PrimaryServerId(pl) == pl[CHOOSE i \in DOMAIN pl : pl[i].role = "primary"].server
Serves(m, s) == \E sh \in ClShard : HasServer(m.routing[sh], s)

\* committed_index: the authority's own commit index of the shard.
CommittedIndex(sh) == clCopy[sh][Self]

\* What publishing has learnt, else what the assignment records.
ObservedMatchIndex(m, sh, s) ==
    IF s \in DOMAIN clMatch[sh] THEN clMatch[sh][s] ELSE m.assigns[sh][s].match

EnsureMetadataAuthority == clMem.authority = Self
EnsureWriteEpoch == clMem.epoch = clMem.version
EnsureJoiningOrActiveNode(m, s) == m.nodes[s] \in {"joining", "active"}
EnsureAssignmentMatchIndexMutant(m, sh, s) == TRUE

EnsureAssignmentMatchIndex(m, sh, s) == m.assigns[sh][s].match >= CommittedIndex(sh)
EnsureAssignmentCaughtUp(m, sh, s) ==
    m.assigns[sh][s].state = "caught_up" /\ EnsureAssignmentMatchIndex(m, sh, s)
\* A replica that was never assigned is not checked at all.
EnsurePrimaryTransferTargetReady(m, sh, s) ==
    \/ m.assigns[sh][s] = NoAssignment
    \/ /\ m.assigns[sh][s].state \in {"caught_up", "serving_replica", "serving_primary"}
       /\ EnsureAssignmentMatchIndex(m, sh, s)
HasActiveAssignment(m, sh, s) == m.assigns[sh][s].state \notin {"none", "removed", "removing"}

----------------------------------------------------------------------------
(* A call: the memory it leaves and the saves it makes, in order.  A kill  *)
(* keeps the first saves only and the next open loads what is on disk.     *)

SaveMembership(m) == [nodes |-> m.nodes, assigns |-> m.assigns]
SaveRouting(m) == [routing |-> m.routing, version |-> m.version]
SaveMetadata(m) == [epoch |-> m.epoch, rf |-> m.rf, authority |-> m.authority]
SaveExecution(m) == [exec |-> m.exec]

Written(disk, save) == [f \in DOMAIN disk |-> IF f \in DOMAIN save THEN save[f] ELSE disk[f]]
Saved(saves) == FoldLeft(Written, clDisk, saves)

Killed(saves) ==
    /\ clUsed.kills < clConf.kills
    /\ \E k \in 0 .. Len(saves) - 1 : clDisk' = Saved(SubSeq(saves, 1, k))
    /\ clMem' = clDisk'
    /\ clMatch' = [sh \in ClShard |-> <<>>]
    /\ clUsed' = [clUsed EXCEPT !.kills = @ + 1]

Run(m, saves, cost) ==
    /\ UNCHANGED <<clConf, clCopy, clSeed>>
    /\ \/ /\ clMem' = m
          /\ clDisk' = Saved(saves)
          /\ clUsed' = [clUsed EXCEPT !.admin = @ + cost]
          /\ UNCHANGED clMatch
       \/ Killed(saves)

Admin(op) ==
    /\ op \in clConf.ops
    /\ clUsed.admin < MaxAdmin
    /\ EnsureMetadataAuthority

----------------------------------------------------------------------------
(* Membership *)

SetNode(s, state) ==
    LET m == [clMem EXCEPT !.nodes[s] = state] IN Run(m, <<SaveMembership(m)>>, 1)

RegisterClusterNode(s) ==
    /\ Admin("register")
    /\ SetNode(s, IF clMem.nodes[s] \in {"absent", "removed", "rejected"}
                  THEN "joining" ELSE clMem.nodes[s])

\* A request from an active server turns that server into a rejected one.
RequestClusterJoin(s) ==
    /\ Admin("join")
    /\ clConf.abort \/ clMem.nodes[s] # "active"
    /\ SetNode(s, IF clMem.nodes[s] = "active" THEN "rejected" ELSE "negotiating")

AcceptClusterJoin(s) ==
    /\ Admin("join")
    /\ clMem.nodes[s] = "negotiating"
    /\ SetNode(s, "joining")

RejectClusterJoin(s) ==
    /\ Admin("reject")
    /\ clMem.nodes[s] # "absent"
    /\ SetNode(s, "rejected")

DecommissionClusterNode(s) ==
    /\ Admin("drain")
    /\ s \in clConf.drains
    /\ clMem.nodes[s] # "absent"
    /\ clConf.abort \/ \A sh \in ClShard : HasActiveAssignment(clMem, sh, s)
                                               => HasServer(clMem.routing[sh], s)
    /\ SetNode(s, IF Serves(clMem, s) THEN "draining" ELSE "removed")

SetRebalancePolicy(rf) ==
    /\ Admin("policy")
    /\ rf > 0
    /\ LET m == [clMem EXCEPT !.rf = rf] IN Run(m, <<SaveMetadata(m)>>, 1)

\* The one metadata call that does not ask who the authority is.
SetMetadataAuthority(s) ==
    /\ "authority" \in clConf.ops
    /\ clUsed.admin < MaxAdmin
    /\ LET m == [clMem EXCEPT !.authority = s] IN Run(m, <<SaveMetadata(m)>>, 1)

----------------------------------------------------------------------------
(* Applying one step: a new routing table, installed whole *)

AddReplica(sh, s) == [op |-> "add", shard |-> sh, server |-> s, to |-> s]
TransferPrimary(sh, s, t) == [op |-> "transfer", shard |-> sh, server |-> s, to |-> t]
RemoveReplica(sh, s) == [op |-> "remove", shard |-> sh, server |-> s, to |-> s]

StepAllowed(m, st) ==
    LET pl == m.routing[st.shard] IN
    CASE st.op = "add" -> EnsureAssignmentCaughtUp(m, st.shard, st.server)
      [] st.op = "transfer" -> /\ EnsurePrimaryTransferTargetReady(m, st.shard, st.to)
                               /\ PrimaryServerId(pl) = st.server
                               /\ HasServer(pl, st.to)
      [] st.op = "remove" -> /\ HasServer(pl, st.server)
                             /\ PrimaryServerId(pl) # st.server
                             /\ Len(pl) > 1

NextPlacementMutant(pl, st) ==
    CASE st.op = "add" -> IF HasServer(pl, st.server) THEN pl ELSE Append(pl, Replica(st.server))
      [] st.op = "transfer" -> [i \in DOMAIN pl |-> IF pl[i].server = st.to
                                                    THEN PrimaryReplica(pl[i].server) ELSE pl[i]]
      [] st.op = "remove" -> SelectSeq(pl, LAMBDA r : r.server # st.server)

NextPlacement(pl, st) ==
    CASE st.op = "add" -> IF HasServer(pl, st.server) THEN pl ELSE Append(pl, Replica(st.server))
      [] st.op = "transfer" -> [i \in DOMAIN pl |-> IF pl[i].server = st.to
                                                    THEN PrimaryReplica(pl[i].server)
                                                    ELSE Replica(pl[i].server)]
      [] st.op = "remove" -> SelectSeq(pl, LAMBDA r : r.server # st.server)

\* install_routing_table: routing file first, then the metadata epoch.
InstallRoutingTable(m, sh, pl) ==
    [m EXCEPT !.routing[sh] = pl, !.version = @ + 1, !.epoch = m.version + 1]

\* finish_applied_assignments
FinishAppliedAssignments(m, st) ==
    IF m.assigns[st.shard][st.to] = NoAssignment THEN m
    ELSE [m EXCEPT !.assigns[st.shard][st.to].state =
            CASE st.op = "add" -> "serving_replica"
              [] st.op = "transfer" -> "serving_primary"
              [] st.op = "remove" -> "removed"]

\* finish_drained_nodes
FinishDrainedNodes(m) ==
    [m EXCEPT !.nodes = [s \in ClServer |->
        CASE m.nodes[s] = "joining" /\ Serves(m, s) -> "active"
          [] m.nodes[s] = "draining" /\ ~Serves(m, s) -> "removed"
          [] OTHER -> m.nodes[s]]]

FinishSaves(m) == LET d == FinishDrainedNodes(m)
                  IN IF d = m THEN <<>> ELSE <<SaveMembership(d)>>

\* apply_rebalance_step on memory m: [ok, mem, saves].
ApplyRebalanceStep(m, st) ==
    IF ~StepAllowed(m, st) THEN [ok |-> FALSE, mem |-> m, saves |-> <<>>]
    ELSE LET r == InstallRoutingTable(m, st.shard, NextPlacement(m.routing[st.shard], st))
             a == FinishAppliedAssignments(r, st)
         IN [ok |-> TRUE, mem |-> FinishDrainedNodes(a),
             saves |-> <<SaveRouting(r), SaveMetadata(r), SaveMembership(a)>> \o FinishSaves(a)]

----------------------------------------------------------------------------
(* Planning *)

\* One AddReplica per joining node and shard while the shard has too few replicas.
AddSteps(m) ==
    LET visit(acc, p) ==
            IF /\ acc.count[p[2]] < m.rf
               /\ m.nodes[p[1]] = "joining"
               /\ ~HasServer(m.routing[p[2]], p[1])
               /\ ~HasActiveAssignment(m, p[2], p[1])
            THEN [steps |-> Append(acc.steps, AddReplica(p[2], p[1])),
                  count |-> [acc.count EXCEPT ![p[2]] = @ + 1]]
            ELSE acc
        pairs == FlattenSeq([i \in DOMAIN Ids |-> [j \in DOMAIN ShardIds |-> <<Ids[i], ShardIds[j]>>]])
    IN FoldLeft(visit, [steps |-> <<>>, count |-> [sh \in ClShard |-> Len(m.routing[sh])]],
                pairs).steps

\* A draining primary is moved away, a draining replica removed.
DrainStepMutant(m, s, sh) ==
    LET others == SelectSeq(m.routing[sh], LAMBDA r : r.server # s)
    IN IF PrimaryServerId(m.routing[sh]) = s /\ others # <<>>
       THEN <<TransferPrimary(sh, s, others[1].server)>> ELSE <<>>

DrainStep(m, s, sh) ==
    LET pl == m.routing[sh]
        others == SelectSeq(pl, LAMBDA r : r.server # s)
    IN CASE PrimaryServerId(pl) = s /\ others # <<>> -> <<TransferPrimary(sh, s, others[1].server)>>
         [] PrimaryServerId(pl) # s /\ HasServer(pl, s) -> <<RemoveReplica(sh, s)>>
         [] OTHER -> <<>>

GenerateRebalanceSteps(m) ==
    LET draining == SelectSeq(Ids, LAMBDA s : m.nodes[s] = "draining")
        of(s) == FlattenSeq([j \in DOMAIN ShardIds |-> DrainStep(m, s, ShardIds[j])])
    IN AddSteps(m) \o FlattenSeq([i \in DOMAIN draining |-> of(draining[i])])

\* start_rebalance_plan, once plan_rebalance has planned.
Started(m) ==
    LET steps == GenerateRebalanceSteps(m)
    IN [m EXCEPT !.exec = [state |-> "running",
            steps |-> [i \in DOMAIN steps |-> [step |-> steps[i], state |-> "pending"]]]]

StartRebalancePlan ==
    /\ EnsureMetadataAuthority
    /\ clMem.exec.state # "running"
    /\ LET m == Started(clMem) IN m # clMem /\ Run(m, <<SaveExecution(m)>>, 0)

CancelRebalancePlan ==
    /\ Admin("cancel")
    /\ clMem.exec # NoExecution
    /\ LET cancel(x) == IF x.state = "applied" THEN x ELSE [x EXCEPT !.state = "cancelled"]
           m == [clMem EXCEPT !.exec = [state |-> "cancelled",
                    steps |-> [i \in DOMAIN @.steps |-> cancel(@.steps[i])]]]
       IN Run(m, <<SaveExecution(m)>>, 1)

----------------------------------------------------------------------------
(* Executing *)

\* prepare_rebalance_step for an AddReplica.
PrepareAllowed(m, st) ==
    EnsureJoiningOrActiveNode(m, st.server) /\ ~HasServer(m.routing[st.shard], st.server)
Prepared(m, st) ==
    [m EXCEPT !.assigns[st.shard][st.server] = [state |-> "catching_up", match |-> 0]]

MarkAllowed(m, sh, s) == m.assigns[sh][s].state \in {"planned", "catching_up", "caught_up"}
Marked(m, sh, s, index) == [m EXCEPT !.assigns[sh][s] = [state |-> "caught_up", match |-> index]]

\* advance_rebalance_step: [ok, state, mem, saves], state the step's next state.
AdvanceStep(m, x) ==
    LET st == x.step
        sh == st.shard
        seen == ObservedMatchIndex(m, sh, st.server)
        done(ok, state, mem) == [ok |-> ok, state |-> state, mem |-> mem,
                                 saves |-> IF mem = m THEN <<>> ELSE <<SaveMembership(mem)>>]
        applied == ApplyRebalanceStep(m, st)
    IN CASE st.op = "add" /\ x.state = "pending" ->
              IF PrepareAllowed(m, st) THEN done(TRUE, "catching_up", Prepared(m, st))
              ELSE done(FALSE, "failed", m)
         [] st.op = "add" /\ x.state = "catching_up" ->
              CASE seen < CommittedIndex(sh) -> done(TRUE, "catching_up", m)
                [] seen >= CommittedIndex(sh) /\ MarkAllowed(m, sh, st.server) ->
                     done(TRUE, "ready", Marked(m, sh, st.server, seen))
                [] OTHER -> done(FALSE, "failed", m)
         [] OTHER ->
              [ok |-> applied.ok, state |-> IF applied.ok THEN "applied" ELSE "failed",
               mem |-> applied.mem, saves |-> applied.saves]

\* advance_rebalance on memory m with a running execution.
Advanced(m) ==
    LET open == {i \in DOMAIN m.exec.steps : m.exec.steps[i].state # "applied"}
        i == CHOOSE j \in open : \A k \in open : j <= k
        r == AdvanceStep(m, m.exec.steps[i])
        steps == [m.exec.steps EXCEPT ![i].state = r.state]
        state == CASE ~r.ok -> "failed"
                   [] \A k \in DOMAIN steps : steps[k].state = "applied" -> "completed"
                   [] OTHER -> "running"
        next == IF open = {} THEN [m EXCEPT !.exec.state = "completed"]
                ELSE [r.mem EXCEPT !.exec = [state |-> state, steps |-> steps]]
    IN [mem |-> next,
        saves |-> (IF open = {} THEN <<>> ELSE r.saves) \o <<SaveExecution(next)>>]

\* Without an execution the call starts one first; a finished one is left idle.
AdvanceRebalance ==
    /\ EnsureMetadataAuthority
    /\ clMem.exec.state \in {"none", "running"}
    /\ LET m == IF clMem.exec = NoExecution THEN Started(clMem) ELSE clMem
           first == IF clMem.exec = NoExecution THEN <<SaveExecution(m)>> ELSE <<>>
           a == Advanced(m)
       IN a.mem # clMem /\ Run(a.mem, first \o a.saves, 0)

PrepareRebalanceStep(sh, s) ==
    /\ Admin("prepare")
    /\ PrepareAllowed(clMem, AddReplica(sh, s))
    /\ LET m == Prepared(clMem, AddReplica(sh, s)) IN Run(m, <<SaveMembership(m)>>, 1)

\* The operator reports what the node's catch-up returned.
MarkShardCaughtUp(sh, s) ==
    /\ EnsureMetadataAuthority
    /\ MarkAllowed(clMem, sh, s)
    /\ LET m == Marked(clMem, sh, s, clCopy[sh][s])
       IN m # clMem /\ Run(m, <<SaveMembership(m)>>, 0)

\* plan_node_catch_up: the shards to bring up, and whether all have arrived.
CatchUpEligible(s) == clMem.nodes[s] \notin {"absent", "rejected", "removed", "draining"}
CatchUpSources(s) == {sh \in ClShard : MarkAllowed(clMem, sh, s)}
ReadyToPromote(s) ==
    /\ CatchUpEligible(s) /\ CatchUpSources(s) # {}
    /\ \A sh \in CatchUpSources(s) : clMem.assigns[sh][s].match >= CommittedIndex(sh)

\* execute_node_catch_up_plan on server s, against the primary's log.
ExecuteCatchUp(s) ==
    /\ CatchUpEligible(s)
    /\ clCopy' = [sh \in ClShard |-> IF sh \in CatchUpSources(s)
                    THEN [clCopy[sh] EXCEPT ![s] = CommittedIndex(sh)] ELSE clCopy[sh]]
    /\ clCopy' # clCopy
    /\ UNCHANGED <<clConf, clMem, clDisk, clMatch, clUsed, clSeed>>

\* The execution's AddReplica steps for s, else its caught-up assignments;
\* the first step refused ends the call with the earlier ones applied.
PromoteCaughtUpNode(s) ==
    /\ Admin("promote")
    /\ ReadyToPromote(s)
    /\ LET planned == SelectSeq(clMem.exec.steps, LAMBDA x : x.step.op = "add" /\ x.step.server = s)
           shards == IF planned # <<>> THEN [i \in DOMAIN planned |-> planned[i].step.shard]
                     ELSE SelectSeq(ShardIds, LAMBDA sh : clMem.assigns[sh][s].state = "caught_up")
           visit(acc, sh) == LET r == ApplyRebalanceStep(acc.mem, AddReplica(sh, s)) IN
                             IF acc.ok THEN [r EXCEPT !.saves = acc.saves \o r.saves] ELSE acc
           all == FoldLeft(visit, [ok |-> TRUE, mem |-> clMem, saves |-> <<>>], shards)
       IN all.mem # clMem /\ Run(all.mem, all.saves, 1)

----------------------------------------------------------------------------
(* The data path, as far as the rebalance sees it *)

\* write_command: refused in a stale epoch, committed by a majority with the primary.
Write(sh) ==
    /\ "write" \in clConf.ops
    /\ EnsureWriteEpoch
    /\ LET pl == clMem.routing[sh]
           primary == PrimaryServerId(pl)
           index == clCopy[sh][primary] + 1
       IN /\ index <= MaxCommit
          /\ \E acked \in SUBSET {pl[i].server : i \in DOMAIN pl} :
                /\ primary \in acked
                /\ 2 * Cardinality(acked) > Len(pl)
                /\ clCopy' = [clCopy EXCEPT ![sh] =
                      [s \in ClServer |-> IF s \in acked THEN index ELSE @[s]]]
                /\ clMatch' = IF primary # Self THEN clMatch
                     ELSE [clMatch EXCEPT ![sh] =
                             [s \in DOMAIN @ \cup (acked \ {Self}) |->
                                IF s \in acked THEN index ELSE @[s]]]
    /\ UNCHANGED <<clConf, clMem, clDisk, clUsed, clSeed>>

\* A removed server is reinstalled: external, its disk is empty.
Reinstall(s) ==
    /\ clConf.wipe
    /\ clMem.nodes[s] = "removed"
    /\ clCopy' = [sh \in ClShard |-> [clCopy[sh] EXCEPT ![s] = 0]]
    /\ clCopy' # clCopy
    /\ UNCHANGED <<clConf, clMem, clDisk, clMatch, clUsed, clSeed>>

----------------------------------------------------------------------------
(* The control loop and the bootstrap manifest *)

\* topology_observation
RecommendedAction ==
    LET some(state) == \E sh \in ClShard, s \in ClServer : clMem.assigns[sh][s].state = state IN
    CASE some("catching_up") -> "execute_catch_up"
      [] \/ some("caught_up")
         \/ \E s \in ClServer : clMem.nodes[s] \in {"joining", "draining"} -> "advance_rebalance"
      [] OTHER -> "idle"

\* catch_up_from_primaries: the authority replays what it misses of its shards.
CatchUpFromPrimaries ==
    /\ clCopy' = [sh \in ClShard |-> IF HasServer(clMem.routing[sh], Self)
                    THEN [clCopy[sh] EXCEPT ![Self] = clCopy[sh][PrimaryServerId(clMem.routing[sh])]]
                    ELSE clCopy[sh]]
    /\ clCopy' # clCopy
    /\ UNCHANGED <<clConf, clMem, clDisk, clMatch, clUsed, clSeed>>

TopologyReconcile ==
    \/ RecommendedAction = "execute_catch_up" /\ CatchUpFromPrimaries
    \/ RecommendedAction = "advance_rebalance" /\ AdvanceRebalance

\* build_cluster_bootstrap_manifest: what is compared before the data seeds a cluster.
BootstrapManifest(mode) ==
    [mode |-> mode, version |-> clMem.version, epoch |-> clMem.epoch,
     commits |-> [sh \in ClShard |-> CommittedIndex(sh)],
     members |-> SaveMembership(clMem), seeded |-> FALSE]

WriteBootstrapManifest(mode) ==
    /\ "seed" \in clConf.ops
    /\ clSeed' = BootstrapManifest(mode)
    /\ clSeed' # clSeed
    /\ UNCHANGED <<clConf, clMem, clDisk, clMatch, clCopy, clUsed>>

\* validate_cluster_bootstrap_manifest, under the caller's force flag
\* (bootstrap_safety_decision): membership is not compared.
BootstrapAllowed(force) ==
    /\ clSeed # NoSeed
    /\ clSeed.mode = "recover_from_data" => force
    /\ clSeed.version = clMem.version
    /\ clSeed.epoch = clMem.epoch
    /\ \A sh \in ClShard : clSeed.commits[sh] = CommittedIndex(sh)

SeedNewCluster(force) ==
    /\ BootstrapAllowed(force)
    /\ ~clSeed.seeded
    /\ clSeed' = [clSeed EXCEPT !.seeded = TRUE]
    /\ UNCHANGED <<clConf, clMem, clDisk, clMatch, clCopy, clUsed>>

----------------------------------------------------------------------------
FirstMemory(c) ==
    LET pl(sh) == [i \in DOMAIN c.placed[sh] |-> IF i = 1 THEN PrimaryReplica(c.placed[sh][i])
                                                 ELSE Replica(c.placed[sh][i])]
    IN [nodes |-> [s \in ClServer |-> IF \E sh \in ClShard : HasServer(pl(sh), s)
                                      THEN "active" ELSE "absent"],
        assigns |-> [sh \in ClShard |-> [s \in ClServer |-> NoAssignment]],
        routing |-> [sh \in ClShard |-> pl(sh)], version |-> 1, epoch |-> 1,
        rf |-> c.rf, authority |-> Self, exec |-> NoExecution]

ClusterInit ==
    /\ clConf \in ClConf
    /\ clMem = FirstMemory(clConf)
    /\ clDisk = clMem
    /\ clMatch = [sh \in ClShard |-> <<>>]
    /\ clCopy = [sh \in ClShard |-> [s \in ClServer |-> 0]]
    /\ clUsed = [admin |-> 0, kills |-> 0]
    /\ clSeed = NoSeed

ClusterNext ==
    \/ \E s \in ClServer : \/ RegisterClusterNode(s)
                           \/ RequestClusterJoin(s)
                           \/ AcceptClusterJoin(s)
                           \/ RejectClusterJoin(s)
                           \/ DecommissionClusterNode(s)
                           \/ SetMetadataAuthority(s)
                           \/ ExecuteCatchUp(s)
                           \/ PromoteCaughtUpNode(s)
                           \/ Reinstall(s)
    \/ \E rf \in 1 .. Cardinality(ClServer) : SetRebalancePolicy(rf)
    \/ \E sh \in ClShard, s \in ClServer : PrepareRebalanceStep(sh, s) \/ MarkShardCaughtUp(sh, s)
    \/ \E sh \in ClShard : Write(sh)
    \/ \E mode \in {"join_existing", "recover_from_data"} : WriteBootstrapManifest(mode)
    \/ \E force \in BOOLEAN : SeedNewCluster(force)
    \/ TopologyReconcile
    \/ StartRebalancePlan
    \/ CancelRebalancePlan
    \/ AdvanceRebalance

\* The operator's loop of docs/cluster_bootstrap_protocol.md: run and report
\* catch-ups, keep starting plans and advancing them.  Weak fairness of the last
\* two calls has ENABLED written out as what makes the call do something.
CanStart == EnsureMetadataAuthority /\ clMem.exec.state # "running" /\ Started(clMem) # clMem
CanAdvance ==
    /\ EnsureMetadataAuthority
    /\ \/ clMem.exec.state = "running" /\ Advanced(clMem).mem # clMem
       \/ clMem.exec = NoExecution
ClusterFairness ==
    /\ WF_clVars(\E s \in ClServer : ExecuteCatchUp(s))
    /\ WF_clVars(\E sh \in ClShard, s \in ClServer : MarkShardCaughtUp(sh, s))
    /\ []<>(~CanStart) \/ []<><<StartRebalancePlan>>_clVars
    /\ []<>(~CanAdvance) \/ []<><<AdvanceRebalance>>_clVars

ClusterSpec == ClusterInit /\ [][ClusterNext]_clVars /\ ClusterFairness

----------------------------------------------------------------------------
\* A server enters a placement only when it holds every entry the authority
\* knows to be committed there, whatever was written between the report of
\* its catch-up and the step that adds it (ensure_assignment_caught_up).
AddedReplicasHoldCommit ==
    [][\A sh \in ClShard, s \in ClServer :
          (HasServer(clMem'.routing[sh], s) /\ ~HasServer(clMem.routing[sh], s))
             => clCopy'[sh][s] >= clCopy'[sh][Self]]_clVars

\* Every placement keeps exactly one primary, no server twice, and only
\* servers that membership has not removed (apply_rebalance_step,
\* finish_drained_nodes, decommission_cluster_node).
RoutingIsServable ==
    \A sh \in ClShard :
        LET pl == clMem.routing[sh] IN
        /\ Cardinality({i \in DOMAIN pl : pl[i].role = "primary"}) = 1
        /\ \A i, j \in DOMAIN pl : pl[i].server = pl[j].server => i = j
        /\ \A i \in DOMAIN pl : clMem.nodes[pl[i].server] # "removed"

\* The code's own chaos check for a restart during a join: the metadata
\* epoch is never behind the routing version (chaos_checks_for_join_catch_up).
EpochNotBehindRouting == clMem.epoch >= clMem.version

\* A decommissioned server whose shards all have another replica leaves in
\* the end (generate_rebalance_steps, finish_drained_nodes).
Drainable(s) ==
    /\ clMem.nodes[s] = "draining"
    /\ \A sh \in ClShard : HasServer(clMem.routing[sh], s) => Len(clMem.routing[sh]) > 1
DrainCompletes == \A s \in ClServer : Drainable(s) ~> clMem.nodes[s] # "draining"
=============================================================================
